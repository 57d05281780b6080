----------------------------- MODULE PsocAudio ------------------------------
(***************************************************************************)
(* The audio block (psoc_audio.v): register file, sample FIFO, I2S         *)
(* transmitter and DAC front end, driven over the external bus and its     *)
(* crossbar by the playback firmware (main.c).  One step is one rising     *)
(* edge of the system clock.  In each cycle the processor may start a bus  *)
(* access (stb, one cycle long) or not, and every block reacts to the same *)
(* cycle.                                                                  *)
(***************************************************************************)
EXTENDS Naturals, Sequences

CONSTANTS
  Depth,        \* words in the FIFO, 256 in the code
  SramMacro,    \* TRUE: the ASIC build of the FIFO memory
  FrameBits,    \* sclk periods of an I2S frame, 64 in the code
  SclkDiv,      \* clocks per sclk half period, 16 in the code
  DacDiv,       \* clocks per DAC sample, 2048 in the code
  TimeoutVal,   \* cycles after which the processor gives up on an access
  Samples,      \* bound: how many samples the firmware has to play
  Settings,     \* the accesses of other software
  Pads,         \* the pads of the pin multiplexer
  ResetToStop   \* TRUE: software stops I2S only while it resets the block

ASSUME AudioAssumption ==
  /\ Depth \in Nat \ {0} /\ SramMacro \in BOOLEAN
  /\ FrameBits \in Nat /\ FrameBits >= 4 /\ FrameBits % 2 = 0
  /\ SclkDiv \in Nat /\ SclkDiv >= 2
  /\ DacDiv \in Nat /\ DacDiv >= 3
  /\ TimeoutVal \in Nat /\ Samples \in Nat \ {0}
  /\ ResetToStop \in BOOLEAN

(* A stereo sample is known by its number in the stream, separately for    *)
(* its two halves; 0 is a half that was never written.                     *)
SampleNo == 0 .. Samples
Word == [left : SampleNo, right : SampleNo]
Silence == [left |-> 0, right |-> 0]

(* A word on the bus: the flag bits set in it and its number field. *)
BusWord(bits, number) == [bits |-> bits, number |-> number]
Zero == BusWord({}, 0)
CtrlBits == {"RST", "DAC_MODE", "DAC_EN", "I2S_EN"}

VARIABLES
  \* sfifo.v, i2s_master.v and psoc_dac_fpga.v
  fifo_mem, wr_addr, rd_addr, o_data,
  sclk, sclk_counter, lrclk, buffer, request_fifo, fifo_ready_i2s, fifo_reg,
  dac_c, clk_en_2048, fifo_valid, shifted,
  \* clock_generator.v
  c, clk_en_16,
  \* i2s_wb_regfile.v
  reg_ctrl0, fifo_threshold, audio_data, audio_valid, wb_ack, wb_dat,
  \* io_wb_regfile.v
  gpio_oe, gpio_fn, io_dat, io_ack,
  \* neorv32_xbus.vhd: the access in progress
  pending, req, timecnt, timeout,
  \* main.c: what the firmware does next, and the sample it is at
  pc, sample

clkVars == <<c, clk_en_16>>
regVars == <<reg_ctrl0, fifo_threshold, audio_data, audio_valid, wb_ack, wb_dat>>
busVars == <<pending, req, timecnt, timeout>>
cpuVars == <<pc, sample>>

Fifo == INSTANCE SFifo
I2s == INSTANCE I2sMaster WITH fifo_ready <- fifo_ready_i2s
Dac == INSTANCE PsocDac
Xbar == INSTANCE WbXbar

vars == <<Fifo!fifoVars, I2s!i2sVars, Dac!dacVars, Xbar!ioVars, clkVars, regVars, busVars,
          cpuVars>>

-----------------------------------------------------------------------------
(* The control bits of CTRL0, and the wires of psoc_audio.v. *)
software_rst == "RST" \in reg_ctrl0
dac_mode == "DAC_MODE" \in reg_ctrl0
dac_enable == "DAC_EN" \in reg_ctrl0
i2s_enable == "I2S_EN" \in reg_ctrl0

fifo_read == IF dac_mode THEN Dac!fifo_ready(dac_enable) ELSE fifo_ready_i2s

fifo_low == Fifo!o_fill < fifo_threshold

o_wb_stall == ~Fifo!o_ready(fifo_read)

(* The bit clock strobe, reset by software only. *)
ClockGenerator ==
  IF software_rst THEN clk_en_16' = FALSE /\ c' = 0
  ELSE clk_en_16' = (c = 0) /\ c' = (c + 1) % SclkDiv

-----------------------------------------------------------------------------
(* The register file.  cyc and stb select the access r. *)

Status == {f \in {"FULL", "EMPTY", "LOW"} :
             CASE f = "FULL" -> Fifo!o_full
               [] f = "EMPTY" -> Fifo!o_empty
               [] f = "LOW" -> fifo_low}

Contents(adr) == CASE adr = "CTRL0" -> BusWord(reg_ctrl0, 0)
                   [] adr = "STAT0" -> BusWord(Status, 0)
                   [] adr = "FIFO_LOW" -> BusWord({}, fifo_threshold)
                   [] adr = "FIFO_LEVEL" -> BusWord({}, Fifo!o_fill)
                   [] OTHER -> Zero

(* Mutant: the data stay on the bus after the access. *)
ReadLogicHolds(cyc, r) == wb_dat' = IF cyc /\ ~r.we THEN Contents(r.adr) ELSE wb_dat

ReadLogic(cyc, r) == wb_dat' = IF cyc /\ ~r.we THEN Contents(r.adr) ELSE Zero

(* A write takes place in the cycle of its strobe or not at all. *)
Written(stb, r) == IF stb /\ r.we /\ ~o_wb_stall THEN r.adr ELSE "none"

Carries(adr) == adr \in {"AUDIO_LEFT", "AUDIO_RIGHT"}

(* Mutant: audio_valid stays high until the next write. *)
CommitHolds(adr, data) ==
  audio_valid' = IF Carries(adr) THEN "COMMIT" \in data.bits ELSE audio_valid

(* audio_valid is high for one cycle, after a write with the commit bit. *)
Commit(adr, data) == audio_valid' = (Carries(adr) /\ "COMMIT" \in data.bits)

WriteLogic(stb, r) ==
  LET adr == Written(stb, r)
  IN  /\ reg_ctrl0' = IF adr = "CTRL0" THEN r.data.bits ELSE reg_ctrl0
      /\ fifo_threshold' = IF adr = "FIFO_LOW" THEN r.data.number ELSE fifo_threshold
      /\ audio_data' = CASE adr = "AUDIO_LEFT" -> [audio_data EXCEPT !.left = r.data.number]
                         [] adr = "AUDIO_RIGHT" -> [audio_data EXCEPT !.right = r.data.number]
                         [] OTHER -> audio_data
      /\ Commit(adr, r.data)

Acknowledge(cyc) == wb_ack' = (cyc /\ ~o_wb_stall)

RegFile(stb, cyc, r) ==
  /\ ReadLogic(cyc, r)
  /\ WriteLogic(stb, r)
  /\ Acknowledge(cyc)

-----------------------------------------------------------------------------
(* An access of the processor to a register, and none. *)
Access(we, adr, bits, number) ==
  [we |-> we, adr |-> adr, data |-> BusWord(bits, number)]
NoAccess == Access(FALSE, "none", {}, 0)

(* The processor's bus gateway: the access stays pending until it is       *)
(* acknowledged or times out.  Nobody looks at its address afterwards, so  *)
(* the model forgets it.                                                   *)
Answered == pending /\ (Xbar!wb_ack_o({wb_ack, io_ack}) \/ timeout)

(* The bits the processor reads, ORed from the answers of the slaves. *)
ReadBits == Xbar!wb_dat_bits({wb_dat, io_dat})

BusArbiter(stb, r) ==
  /\ pending' = IF pending THEN ~Answered ELSE stb
  /\ req' = IF stb THEN r ELSE IF Answered THEN NoAccess ELSE req
  /\ timecnt' = IF pending THEN (timecnt + 1) % (2 * (TimeoutVal + 1)) ELSE 0
  /\ timeout' = (timecnt = TimeoutVal)

(* Mutant: the status is read once and not waited for. *)
NextPcWithoutWait == CASE pc = "poll" -> "left"
                       [] pc = "left" -> "right"
                       [] pc = "right" -> "poll"

(* The playback loop: wait until the FIFO is not full, write the left half *)
(* of a sample, write the right half and commit both.  An access that      *)
(* times out raises an exception, after which the program goes on.         *)
NextPc == CASE pc = "poll" -> IF ~timeout /\ "FULL" \in ReadBits THEN "poll" ELSE "left"
            [] pc = "left" -> "right"
            [] pc = "right" -> "poll"

OfPlayback(r) == r.adr \in {"STAT0", "AUDIO_LEFT", "AUDIO_RIGHT"}

Firmware ==
  IF Answered /\ OfPlayback(req) THEN
    /\ pc' = NextPc
    /\ sample' = IF pc = "right" THEN sample + 1 ELSE sample
  ELSE UNCHANGED cpuVars

(* The accesses the processor may start: the next of the playback loop, or *)
(* a setting of the block.  Samples bounds the stream.                     *)
PlaybackAccess ==
  CASE pc = "poll" -> Access(FALSE, "STAT0", {}, 0)
    [] pc = "left" -> Access(TRUE, "AUDIO_LEFT", {}, sample)
    [] pc = "right" -> Access(TRUE, "AUDIO_RIGHT", {"COMMIT"}, sample)

(* Other software leaves STAT0 and the samples to the playback loop and    *)
(* sets bits that the registers have.                                      *)
ASSUME SettingsAssumption ==
  \A r \in Settings :
    /\ r.we \in BOOLEAN
    /\ ~OfPlayback(r)
    /\ r.adr = "CTRL0" => r.data.bits \subseteq CtrlBits
    /\ r.adr \in {"OE", "FN"} => r.data.bits \subseteq Pads

(* The transmitter is stopped only by a write that resets it, or that ends *)
(* a reset, as main.c does.                                                *)
MayControl(r) ==
  ResetToStop /\ r.adr = "CTRL0" /\ i2s_enable /\ "I2S_EN" \notin r.data.bits
    => software_rst \/ "RST" \in r.data.bits

-----------------------------------------------------------------------------
(* One clock edge, with the strobe of access r or with the access of the   *)
(* pending request.                                                        *)
Edge(stb, r) ==
  /\ Fifo!Clock(FALSE, audio_valid, audio_data, fifo_read)
  /\ I2s!Clock(software_rst, i2s_enable, clk_en_16, o_data, ~Fifo!o_empty)
  /\ Dac!Clock(software_rst, dac_enable, o_data, Fifo!o_empty)
  /\ ClockGenerator
  /\ RegFile(stb /\ Xbar!i2s_sel(r), (stb \/ pending) /\ Xbar!i2s_sel(r), r)
  /\ Xbar!IoClock(FALSE, stb, stb \/ pending, r)
  /\ BusArbiter(stb, r)
  /\ Firmware

(* A cycle in which the processor starts no access. *)
Tick == Edge(FALSE, req)

(* The playback loop starts its next access. *)
Playback ==
  /\ ~pending
  /\ sample <= Samples
  /\ Edge(TRUE, PlaybackAccess)

(* Other software writes a setting between two accesses of the loop. *)
Control(r) ==
  /\ ~pending
  /\ MayControl(r)
  /\ Edge(TRUE, r)

(* A reset of the chip in mid-operation, taken as one step.  It does not   *)
(* reach the memory, audio_data and the clock generator; the program       *)
(* starts again, with a sample it has not played before.                    *)
ChipReset ==
  /\ Fifo!Clock(TRUE, audio_valid, audio_data, fifo_read)
  /\ I2s!Clock(TRUE, i2s_enable, clk_en_16, o_data, ~Fifo!o_empty)
  /\ Dac!Clock(TRUE, dac_enable, o_data, Fifo!o_empty)
  /\ ClockGenerator
  /\ reg_ctrl0' = {} /\ fifo_threshold' = 0
  /\ audio_valid' = FALSE /\ wb_ack' = FALSE /\ wb_dat' = Zero
  /\ Xbar!IoClock(TRUE, FALSE, FALSE, req)
  /\ pending' = FALSE /\ req' = NoAccess /\ timecnt' = 0 /\ timeout' = FALSE
  /\ pc' = "poll"
  /\ sample' = IF sample <= Samples THEN sample + 1 ELSE sample
  /\ UNCHANGED audio_data

(* After the reset of the chip. *)
Init ==
  /\ wr_addr = 0 /\ rd_addr = 0
  /\ fifo_mem = [a \in Fifo!Addr |-> Silence] /\ o_data = Silence
  /\ I2s!Init
  /\ Dac!Init
  /\ c = 0 /\ clk_en_16 = FALSE
  /\ reg_ctrl0 = {} /\ fifo_threshold = 0
  /\ audio_valid = FALSE /\ wb_ack = FALSE /\ wb_dat = Zero
  /\ Xbar!IoInit
  /\ pending = FALSE /\ req = NoAccess /\ timecnt = 0 /\ timeout = FALSE
  /\ pc = "poll"
  /\ audio_data = Silence
  /\ sample = 1

Next ==
  \/ Tick
  \/ Playback
  \/ \E r \in Settings : Control(r)
  \/ ChipReset

(* The clock never stops. *)
Spec == Init /\ [][Next]_vars /\ WF_vars(Next)

-----------------------------------------------------------------------------
(* The registers and the place of the program stay in their ranges.        *)
TypeOK ==
  /\ Fifo!TypeOK
  /\ I2s!TypeOK
  /\ Dac!TypeOK
  /\ Xbar!TypeOK
  /\ reg_ctrl0 \subseteq CtrlBits
  /\ audio_data \in Word
  /\ {audio_valid, wb_ack, pending, timeout} \subseteq BOOLEAN
  /\ pc \in {"poll", "left", "right"} /\ sample \in 1 .. Samples + 1

(* The firmware looks at STAT0 once per sample and then writes two         *)
(* registers: the answer is stale by then, and still no commit meets a     *)
(* full FIFO (main.c:60-64, i2s_wb_regfile.v:82-84, sfifo.v:46).           *)
CommitFindsSpace == audio_valid => ~Fifo!o_full

(* The transmitter's read pulse comes a cycle after it saw the FIFO not    *)
(* empty; the word it counts on is still there (i2s_master.v:114-117).     *)
I2sReadsAWord == fifo_ready_i2s /\ ~dac_mode => ~Fifo!o_empty

(* The samples waiting in the FIFO are in the order of the stream, none    *)
(* twice, however many writes were dropped.                                *)
StoredInOrder ==
  LET s == Fifo!Contents
  IN  \A i, j \in 1 .. Len(s) : i < j => s[i].right < s[j].right

(* The transmitter never sends an older sample after a newer one, nor a    *)
(* sample twice: what is on the wire precedes what is next                 *)
(* (i2s_master.v:85-88, 114-117).                                          *)
SentInOrder ==
  buffer.word # Silence /\ fifo_reg # Silence => buffer.word.right < fifo_reg.right

(* The same of the DAC, across underruns: a new sample at its output is    *)
(* newer than the one it replaces (psoc_dac_fpga.v:63-69).                 *)
ConvertedInOrder ==
  [][shifted' \notin {shifted, Silence} => shifted'.right > shifted.right]_vars

(* The channel clock leads the serial data by one bit, as I2S wants it, at *)
(* any point where the block is paused or reset (i2s_master.v:85-99).      *)
ChannelClockLeads ==
  lrclk = ((buffer.shifts + 1) % FrameBits >= FrameBits \div 2)

(* A read delivers the oldest sample, whatever is written in that cycle    *)
(* (sfifo.v:12 "Read has priority").                                       *)
ReadHasPriority ==
  [][fifo_read /\ ~Fifo!o_empty => o_data' = Head(Fifo!Contents)]_vars

(* While an access is in progress only the slave it addresses drives its   *)
(* acknowledge and its data, also right after an access to another slave,  *)
(* whose registered answer lasts a cycle longer than the access (wb_xbar.v *)
(* "assumes ... that all slaves set their outputs to 0 when they're not    *)
(* actively reading").                                                     *)
OnlyAddressedAnswers ==
  pending =>
    /\ wb_ack \/ wb_dat # Zero => Xbar!i2s_sel(req)
    /\ io_ack \/ io_dat # Zero => Xbar!io_sel(req)

(* The bus is stalled for one cycle at most, so an access never runs into  *)
(* the bus timeout (i2s_wb_regfile.v:59-62).                               *)
StallIsShort == [][o_wb_stall => ~o_wb_stall']_vars

(* The bus is never stalled for good (i2s_wb_regfile.v:59: "Stall if we    *)
(* can't write to FIFO this cycle").                                       *)
StallEnds == []<>(~o_wb_stall)

(* An acknowledged write has taken effect                                  *)
(* (i2s_wb_regfile.v:59-62, 109, 158).                                     *)
AckedWriteTookEffect ==
  pending /\ wb_ack /\ req.we =>
    CASE req.adr = "CTRL0" -> reg_ctrl0 = req.data.bits
      [] req.adr = "FIFO_LOW" -> fifo_threshold = req.data.number
      [] req.adr = "AUDIO_LEFT" -> audio_data.left = req.data.number
      [] req.adr = "AUDIO_RIGHT" -> audio_data.right = req.data.number

(* A playing output keeps taking samples while there are any. *)
(* (i2s_master.v:94-99, 114-117, psoc_dac_fpga.v:30-45).                    *)
PlaybackGoesOn ==
  []<>(fifo_read \/ Fifo!o_empty \/ software_rst
       \/ ~(IF dac_mode THEN dac_enable ELSE i2s_enable))
=============================================================================
