--------------------------- MODULE PsocAudioProofs --------------------------
(***************************************************************************)
(* What TLC checks of the audio block on small instances, proved for every *)
(* FIFO depth, frame, divider, stream, set of settings and both memories:  *)
(* its registers stay in range, only the addressed slave answers, the      *)
(* channel clock leads the data, a stall lasts a cycle, a read pulse finds *)
(* a word and a commit finds space.                                        *)
(*                                                                         *)
(* The invariants are built up in parts.  Shapes is the type invariant     *)
(* with the ranges of what TypeOK leaves open.  StrobesAreShort and        *)
(* PulseEnds (together StallInv) bound the read pulses; AnsweredInTime     *)
(* says when an access is answered, so that PollAnswer and RoomKept can    *)
(* follow the answer of a poll through the two writes after it             *)
(* (CommitInv).                                                            *)
(***************************************************************************)
EXTENDS PsocAudio, TLAPS

(* What may be on the bus in a cycle. *)
Accesses == Settings \cup {req, PlaybackAccess}

(* An access starts: of the playback loop, which waits for its turn and    *)
(* for samples to play, or of other software; or none does, and the        *)
(* request that is pending stays on the bus.                               *)
Starts(stb, r) ==
  \/ ~stb /\ r = req
  \/ stb /\ ~pending /\ r = PlaybackAccess /\ sample <= Samples
  \/ stb /\ ~pending /\ r \in Settings /\ MayControl(r)

(* The step of the block is a clock cycle or a reset of the chip. *)
LEMMA StepCases ==
  ASSUME [Next]_vars
  PROVE  \/ UNCHANGED vars
         \/ \E stb \in BOOLEAN, r \in Accesses : Starts(stb, r) /\ Edge(stb, r)
         \/ ChipReset
BY DEF Next, Tick, Playback, Control, Starts, Accesses

(* An access of the playback loop is the one its program counter asks for. *)
Requested == pending /\ OfPlayback(req) => req = PlaybackAccess /\ sample <= Samples

(* The registers of the block in their ranges: TypeOK, and what only the   *)
(* proofs need to know.                                                    *)
Shapes ==
  /\ TypeOK
  /\ buffer \in [word : Word, shifts : 0 .. FrameBits - 1] /\ fifo_reg \in Word /\ shifted \in Word
  /\ c \in 0 .. SclkDiv - 1 /\ clk_en_16 \in BOOLEAN
  /\ timecnt \in Nat
  /\ Requested

(* Samples keep their shape when the register file replaces a half         *)
(* (i2s_wb_regfile.v:125-144).                                             *)
LEMMA WordFacts ==
  /\ Silence \in Word
  /\ \A w \in Word, n \in SampleNo :
       [w EXCEPT !.left = n] \in Word /\ [w EXCEPT !.right = n] \in Word
  /\ \A w \in Word : w.left \in SampleNo /\ w.right \in SampleNo
BY AudioAssumption DEF Silence, Word, SampleNo

(* A pointer of the FIFO that moves by one stays a pointer and its slot a  *)
(* cell of the memory (sfifo.v:56-92).                                     *)
LEMMA FifoRanges ==
  /\ \A p \in Fifo!Pointer : Fifo!Advance(p, 1) \in Fifo!Pointer /\ Fifo!Slot(p) \in Fifo!Addr
  /\ 0 \in Fifo!Pointer
BY AudioAssumption DEF Fifo!Advance, Fifo!Slot, Fifo!Pointer, Fifo!Addr

(* A clock edge keeps the FIFO's registers in range (sfifo.v:50-92). *)
LEMMA FifoType ==
  ASSUME Fifo!TypeOK, NEW rst \in BOOLEAN, NEW wr \in BOOLEAN, NEW data \in Word,
         NEW rd \in BOOLEAN, Fifo!Clock(rst, wr, data, rd)
  PROVE  Fifo!TypeOK'
<1>1. /\ Fifo!Slot(rd_addr) \in Fifo!Addr /\ Fifo!Slot(wr_addr) \in Fifo!Addr
      /\ Fifo!Advance(rd_addr, 1) \in Fifo!Pointer /\ Fifo!Advance(wr_addr, 1) \in Fifo!Pointer
      /\ 0 \in Fifo!Pointer
  BY FifoRanges DEF Fifo!TypeOK
<1>2. fifo_mem' \in [Fifo!Addr -> Word] /\ o_data' \in Word
  BY <1>1 DEF Fifo!Clock, Fifo!Memory, Fifo!TypeOK
<1>3. wr_addr' \in Fifo!Pointer /\ rd_addr' \in Fifo!Pointer
  BY <1>1 DEF Fifo!Clock, Fifo!WritePointer, Fifo!ReadPointer, Fifo!TypeOK
<1> QED BY <1>2, <1>3 DEF Fifo!TypeOK

(* The three counters of the block wrap at their last value; they are the  *)
(* only uses of %.                                                         *)
LEMMA Modulo ==
  /\ \A k \in 0 .. FrameBits - 1 : (k + 1) % FrameBits = IF k = FrameBits - 1 THEN 0 ELSE k + 1
  /\ \A k \in 0 .. SclkDiv - 1 : (k + 1) % SclkDiv = IF k = SclkDiv - 1 THEN 0 ELSE k + 1
  /\ \A k \in 0 .. DacDiv - 1 : (k + 1) % DacDiv = IF k = DacDiv - 1 THEN 0 ELSE k + 1
<1>1. FrameBits \in Nat \ {0} /\ SclkDiv \in Nat \ {0} /\ DacDiv \in Nat \ {0}
  BY AudioAssumption
<1>2. \A n \in Nat \ {0} : \A k \in 0 .. n - 1 : (k + 1) % n = IF k = n - 1 THEN 0 ELSE k + 1
  OBVIOUS
<1> QED BY <1>1, <1>2

(* A clock edge keeps the transmitter's registers in range                 *)
(* (i2s_master.v:58-124).                                                  *)
LEMMA I2sType ==
  ASSUME I2s!TypeOK, buffer \in [word : Word, shifts : 0 .. FrameBits - 1], fifo_reg \in Word,
         NEW rst \in BOOLEAN, NEW clk_en \in BOOLEAN, NEW sclk_en \in BOOLEAN,
         NEW data \in Word, NEW valid \in BOOLEAN, I2s!Clock(rst, clk_en, sclk_en, data, valid)
  PROVE  /\ I2s!TypeOK'
         /\ (buffer \in [word : Word, shifts : 0 .. FrameBits - 1])'
         /\ fifo_reg' \in Word
<1>1. sclk_counter' \in 0 .. FrameBits - 1
  BY Modulo, AudioAssumption DEF I2s!Clock, I2s!SerialClock, I2s!TypeOK, I2s!LastBit
<1>2. {sclk', lrclk', request_fifo', fifo_ready_i2s'} \subseteq BOOLEAN
  <2>1. {sclk, lrclk, request_fifo, fifo_ready_i2s} \subseteq BOOLEAN
    BY DEF I2s!TypeOK
  <2>2. sclk' \in BOOLEAN
    BY <2>1, Zenon DEF I2s!Clock, I2s!SerialClock
  <2>3. lrclk' \in BOOLEAN
    <3>1. (sclk_counter \in I2s!HalfFrame - 1 .. I2s!LastBit - 1) \in BOOLEAN
      OBVIOUS
    <3> QED BY <2>1, <3>1, Zenon DEF I2s!Clock, I2s!ChannelClock
  <2>4. request_fifo' \in BOOLEAN
    BY <2>1, Zenon DEF I2s!Clock, I2s!Request
  <2>5. fifo_ready_i2s' \in BOOLEAN
    BY Zenon DEF I2s!Clock, I2s!ReadPulse
  <2> QED BY <2>2, <2>3, <2>4, <2>5
<1>3. buffer' \in [word : Word, shifts : 0 .. FrameBits - 1]
  <2>1. I2s!Blank \in [word : Word, shifts : 0 .. FrameBits - 1]
    BY AudioAssumption, WordFacts DEF I2s!Blank
  <2>2. [word |-> fifo_reg, shifts |-> 0] \in [word : Word, shifts : 0 .. FrameBits - 1]
    BY AudioAssumption
  <2>3. I2s!ShiftLeft(buffer) \in [word : Word, shifts : 0 .. FrameBits - 1]
    BY AudioAssumption DEF I2s!ShiftLeft, I2s!LastBit
  <2> QED BY <2>1, <2>2, <2>3 DEF I2s!Clock, I2s!Shifter
<1>4. fifo_reg' \in Word
  BY WordFacts DEF I2s!Clock, I2s!FifoRegister
<1> QED BY <1>1, <1>2, <1>3, <1>4 DEF I2s!TypeOK, I2s!LastBit

(* A clock edge keeps the DAC's registers in range                         *)
(* (psoc_dac_fpga.v:28-72).                                                *)
LEMMA DacType ==
  ASSUME Dac!TypeOK, shifted \in Word,
         NEW rst \in BOOLEAN, NEW enable \in BOOLEAN, NEW data \in Word, NEW empty \in BOOLEAN,
         Dac!Clock(rst, enable, data, empty)
  PROVE  Dac!TypeOK' /\ shifted' \in Word
<1>1. dac_c' \in 0 .. DacDiv - 1
  <2>1. dac_c' = 0 \/ dac_c' = (dac_c + 1) % DacDiv
    BY Zenon DEF Dac!Clock, Dac!Divider
  <2> QED BY <2>1, Modulo, AudioAssumption DEF Dac!TypeOK
<1>2. clk_en_2048' \in BOOLEAN
  BY DEF Dac!Clock, Dac!Divider, Dac!TypeOK
<1>3. fifo_valid' \in BOOLEAN /\ shifted' \in Word
  BY WordFacts DEF Dac!Clock, Dac!TakeSample, Dac!TypeOK
<1> QED BY <1>1, <1>2, <1>3 DEF Dac!TypeOK

(* What an access that starts carries: the loop's write carries the sample *)
(* that the loop is at (main.c:63-64), a setting only bits that the        *)
(* register has.                                                           *)
LEMMA AccessFacts ==
  ASSUME Shapes, NEW stb \in BOOLEAN, NEW r, Starts(stb, r), stb
  PROVE  /\ ~pending
         /\ OfPlayback(r) => r = PlaybackAccess /\ sample <= Samples
         /\ r.adr = "CTRL0" => r.data.bits \subseteq CtrlBits
         /\ r.adr \in {"OE", "FN"} => r.data.bits \subseteq Pads
         /\ r.adr \in {"AUDIO_LEFT", "AUDIO_RIGHT"} => r.data.number = sample /\ sample \in SampleNo
<1>1. CASE r = PlaybackAccess /\ ~pending /\ sample <= Samples
  <2>1. pc \in {"poll", "left", "right"} /\ sample \in 1 .. Samples + 1
    BY DEF Shapes, TypeOK
  <2>2. r.adr \in {"STAT0", "AUDIO_LEFT", "AUDIO_RIGHT"}
    BY <1>1, <2>1 DEF PlaybackAccess, Access
  <2>3. r.adr \in {"AUDIO_LEFT", "AUDIO_RIGHT"} => r.data.number = sample
    BY <1>1, <2>1 DEF PlaybackAccess, Access, BusWord
  <2> QED BY <1>1, <2>1, <2>2, <2>3, AudioAssumption DEF SampleNo
<1>2. CASE r \in Settings /\ ~pending
  BY <1>2, SettingsAssumption DEF OfPlayback
<1> QED BY <1>1, <1>2 DEF Starts

(* The wires of psoc_audio.v are high or low. *)
LEMMA Wires ==
  ASSUME Shapes
  PROVE  /\ fifo_read \in BOOLEAN /\ audio_valid \in BOOLEAN /\ Fifo!o_empty \in BOOLEAN
         /\ software_rst \in BOOLEAN /\ i2s_enable \in BOOLEAN /\ dac_enable \in BOOLEAN
<1>1. fifo_ready_i2s \in BOOLEAN /\ clk_en_2048 \in BOOLEAN /\ audio_valid \in BOOLEAN
  BY DEF Shapes, TypeOK, I2s!TypeOK, Dac!TypeOK
<1>2. fifo_read \in BOOLEAN
  BY <1>1, Zenon DEF fifo_read, Dac!fifo_ready
<1>3. Fifo!o_empty \in BOOLEAN
  BY Zenon DEF Fifo!o_empty
<1>4. software_rst \in BOOLEAN
  BY DEF software_rst
<1>5. i2s_enable \in BOOLEAN
  BY DEF i2s_enable
<1>6. dac_enable \in BOOLEAN
  BY DEF dac_enable
<1> QED BY <1>1, <1>2, <1>3, <1>4, <1>5, <1>6

(* A clock edge keeps the bit clock's divider in range                     *)
(* (clock_generator.v).                                                    *)
LEMMA BitClockType ==
  ASSUME Shapes, ClockGenerator
  PROVE  c' \in 0 .. SclkDiv - 1 /\ clk_en_16' \in BOOLEAN
<1>1. clk_en_16' \in BOOLEAN
  BY Zenon DEF ClockGenerator
<1>2. c' = 0 \/ c' = (c + 1) % SclkDiv
  BY Zenon DEF ClockGenerator
<1> QED BY <1>1, <1>2, Modulo, AudioAssumption DEF Shapes

(* A clock cycle, whatever the processor starts in it, keeps all registers *)
(* in range.                                                               *)
LEMMA TypeEdge ==
  ASSUME Shapes, NEW stb \in BOOLEAN, NEW r, Starts(stb, r), Edge(stb, r)
  PROVE  Shapes'
<1> USE DEF Shapes, TypeOK
<1>1. /\ Fifo!TypeOK' /\ I2s!TypeOK' /\ Dac!TypeOK'
      /\ (buffer \in [word : Word, shifts : 0 .. FrameBits - 1])'
      /\ fifo_reg' \in Word /\ shifted' \in Word
  <2>1. /\ fifo_read \in BOOLEAN /\ audio_valid \in BOOLEAN /\ Fifo!o_empty \in BOOLEAN
        /\ software_rst \in BOOLEAN /\ i2s_enable \in BOOLEAN /\ dac_enable \in BOOLEAN
    BY Wires
  <2>2. o_data \in Word
    BY DEF Fifo!TypeOK
  <2>3. Fifo!TypeOK'
    BY <2>1, FifoType DEF Edge
  <2>4. /\ I2s!TypeOK' /\ fifo_reg' \in Word
        /\ (buffer \in [word : Word, shifts : 0 .. FrameBits - 1])'
    BY <2>1, <2>2, I2sType DEF Edge
  <2>5. Dac!TypeOK' /\ shifted' \in Word
    BY <2>1, <2>2, DacType DEF Edge
  <2> QED BY <2>3, <2>4, <2>5
<1>2. c' \in 0 .. SclkDiv - 1 /\ clk_en_16' \in BOOLEAN
  BY BitClockType DEF Edge
<1>3. Xbar!TypeOK'
  <2>1. io_ack' \in BOOLEAN
    BY Zenon DEF Edge, Xbar!IoClock
  <2>2. gpio_oe' \subseteq Pads /\ gpio_fn' \subseteq Pads
    BY AccessFacts DEF Edge, Xbar!IoClock, Xbar!TypeOK
  <2> QED BY <2>1, <2>2 DEF Xbar!TypeOK
<1>4. reg_ctrl0' \subseteq CtrlBits
  BY AccessFacts DEF Edge, RegFile, WriteLogic, Written
<1>5. audio_data' \in Word
  <2>1. Written(stb /\ Xbar!i2s_sel(r), r) \in {"AUDIO_LEFT", "AUDIO_RIGHT"}
          => r.data.number \in SampleNo
    BY AccessFacts DEF Written
  <2> QED BY <2>1, WordFacts DEF Edge, RegFile, WriteLogic
<1>6. audio_valid' \in BOOLEAN /\ wb_ack' \in BOOLEAN /\ timeout' \in BOOLEAN
  BY Zenon DEF Edge, RegFile, WriteLogic, Commit, Acknowledge, BusArbiter
<1>7. pending' \in BOOLEAN
  BY Zenon DEF Edge, BusArbiter
<1>8. timecnt' \in Nat
  BY AudioAssumption DEF Edge, BusArbiter
<1>9. pc' \in {"poll", "left", "right"} /\ sample' \in 1 .. Samples + 1
  <2>1. NextPc \in {"poll", "left", "right"}
    BY DEF NextPc
  <2>2. Answered /\ OfPlayback(req) => sample <= Samples
    BY DEF Answered, Requested
  <2> QED BY <2>1, <2>2, AudioAssumption DEF Edge, Firmware, cpuVars
<1>10. Requested'
  <2> SUFFICES ASSUME pending', OfPlayback(req)'
               PROVE  (req = PlaybackAccess)' /\ sample' <= Samples
    BY DEF Requested
  <2>1. ~Answered /\ UNCHANGED cpuVars
    BY AccessFacts DEF Edge, BusArbiter, Firmware, Answered
  <2>2. PlaybackAccess' = PlaybackAccess
    BY <2>1 DEF PlaybackAccess, cpuVars
  <2>3. CASE stb
    <3>1. req' = r
      BY <2>3 DEF Edge, BusArbiter
    <3>2. OfPlayback(r)
      BY <3>1 DEF OfPlayback
    <3> QED BY <2>1, <2>2, <2>3, <3>1, <3>2, AccessFacts DEF cpuVars
  <2>4. CASE ~stb
    <3>1. req' = req /\ pending
      BY <2>1, <2>4 DEF Edge, BusArbiter
    <3>2. OfPlayback(req)
      BY <3>1 DEF OfPlayback
    <3> QED BY <2>1, <2>2, <3>1, <3>2 DEF Requested, cpuVars
  <2> QED BY <2>3, <2>4
<1> QED BY <1>1, <1>2, <1>3, <1>4, <1>5, <1>6, <1>7, <1>8, <1>9, <1>10

(* So does a reset of the chip. *)
LEMMA TypeReset ==
  ASSUME Shapes, ChipReset
  PROVE  Shapes'
<1> USE DEF Shapes, TypeOK
<1>1. /\ Fifo!TypeOK' /\ I2s!TypeOK' /\ Dac!TypeOK'
      /\ (buffer \in [word : Word, shifts : 0 .. FrameBits - 1])'
      /\ fifo_reg' \in Word /\ shifted' \in Word
  <2>1. /\ fifo_read \in BOOLEAN /\ audio_valid \in BOOLEAN /\ Fifo!o_empty \in BOOLEAN
        /\ software_rst \in BOOLEAN /\ i2s_enable \in BOOLEAN /\ dac_enable \in BOOLEAN
    BY Wires
  <2>2. o_data \in Word
    BY DEF Fifo!TypeOK
  <2>3. Fifo!TypeOK'
    BY <2>1, FifoType DEF ChipReset
  <2>4. /\ I2s!TypeOK' /\ fifo_reg' \in Word
        /\ (buffer \in [word : Word, shifts : 0 .. FrameBits - 1])'
    BY <2>1, <2>2, I2sType DEF ChipReset
  <2>5. Dac!TypeOK' /\ shifted' \in Word
    BY <2>1, <2>2, DacType DEF ChipReset
  <2> QED BY <2>3, <2>4, <2>5
<1>2. c' \in 0 .. SclkDiv - 1 /\ clk_en_16' \in BOOLEAN
  BY BitClockType DEF ChipReset
<1>3. Xbar!TypeOK' /\ reg_ctrl0' \subseteq CtrlBits
  BY DEF ChipReset, Xbar!IoClock, Xbar!TypeOK
<1>4. /\ audio_data' \in Word
      /\ {audio_valid', wb_ack', pending', timeout'} \subseteq BOOLEAN
      /\ timecnt' \in Nat /\ ~pending'
  BY DEF ChipReset
<1>5. pc' \in {"poll", "left", "right"} /\ sample' \in 1 .. Samples + 1
  BY AudioAssumption DEF ChipReset
<1> QED BY <1>1, <1>2, <1>3, <1>4, <1>5 DEF Requested

(* The registers are in range after the reset. *)
LEMMA TypeInit ==
  ASSUME Init
  PROVE  Shapes
<1>1. Fifo!TypeOK
  BY AudioAssumption, WordFacts DEF Init, Fifo!TypeOK, Fifo!Pointer
<1>2. I2s!TypeOK /\ buffer \in [word : Word, shifts : 0 .. FrameBits - 1] /\ fifo_reg \in Word
  <2>1. I2s!Blank \in [word : Word, shifts : 0 .. FrameBits - 1]
    BY AudioAssumption, WordFacts DEF I2s!Blank
  <2>2. I2s!LastBit \in 0 .. I2s!LastBit /\ I2s!LastBit = FrameBits - 1
    BY AudioAssumption DEF I2s!LastBit
  <2> QED BY <2>1, <2>2, WordFacts DEF Init, I2s!Init, I2s!TypeOK
<1>3. Dac!TypeOK /\ shifted \in Word /\ Xbar!TypeOK
  <2>1. 0 \in 0 .. DacDiv - 1
    BY AudioAssumption
  <2> QED BY <2>1, WordFacts DEF Init, Dac!Init, Dac!TypeOK, Xbar!IoInit, Xbar!TypeOK
<1>4. /\ c = 0 /\ clk_en_16 = FALSE /\ reg_ctrl0 = {} /\ audio_valid = FALSE /\ wb_ack = FALSE
      /\ pending = FALSE /\ timecnt = 0 /\ timeout = FALSE
      /\ pc = "poll" /\ audio_data = Silence /\ sample = 1
  BY DEF Init
<1>5. TypeOK
  <2>1. sample \in 1 .. Samples + 1
    BY <1>4, AudioAssumption
  <2> QED BY <1>1, <1>2, <1>3, <1>4, <2>1, WordFacts DEF TypeOK
<1>6. c \in 0 .. SclkDiv - 1
  BY <1>4, AudioAssumption
<1> QED BY <1>2, <1>3, <1>4, <1>5, <1>6 DEF Shapes, Requested

(* Shapes is inductive. *)
LEMMA TypeStep ==
  ASSUME Shapes, [Next]_vars
  PROVE  Shapes'
<1>1. CASE UNCHANGED vars
  BY <1>1 DEF vars, Fifo!fifoVars, I2s!i2sVars, Dac!dacVars, Xbar!ioVars, clkVars, regVars,
    busVars, cpuVars, Shapes, TypeOK, Fifo!TypeOK, I2s!TypeOK, Dac!TypeOK, Xbar!TypeOK, Requested,
    OfPlayback, PlaybackAccess, Fifo!Pointer, Fifo!Addr, I2s!LastBit
<1>2. CASE \E stb \in BOOLEAN, r \in Accesses : Starts(stb, r) /\ Edge(stb, r)
  BY <1>2, TypeEdge
<1>3. CASE ChipReset
  BY <1>3, TypeReset
<1> QED BY <1>1, <1>2, <1>3, StepCases

(* Shapes holds in every run of the block. *)
LEMMA ShapesKept == Spec => []Shapes
BY TypeInit, TypeStep, PTL DEF Spec

(* The registers and the place of the program stay in their ranges: every  *)
(* register of psoc_audio.v, for all constants.                            *)
THEOREM TypeCorrect == Spec => []TypeOK
<1>1. Shapes => TypeOK
  BY DEF Shapes
<1> QED BY <1>1, ShapesKept, PTL

-----------------------------------------------------------------------------
(* What a step that changes nothing leaves alone, register by register. *)
LEMMA Unchanged ==
  UNCHANGED vars =>
    /\ UNCHANGED <<fifo_mem, wr_addr, rd_addr, o_data>>
    /\ UNCHANGED <<sclk, sclk_counter, lrclk, buffer, request_fifo, fifo_ready_i2s, fifo_reg>>
    /\ UNCHANGED <<dac_c, clk_en_2048, fifo_valid, shifted, c, clk_en_16>>
    /\ UNCHANGED <<reg_ctrl0, fifo_threshold, audio_data, audio_valid, wb_ack, wb_dat>>
    /\ UNCHANGED <<gpio_oe, gpio_fn, io_dat, io_ack, pending, req, timecnt, timeout, pc, sample>>
BY DEF vars, Fifo!fifoVars, I2s!i2sVars, Dac!dacVars, Xbar!ioVars, clkVars, regVars, busVars,
  cpuVars

(* An access that is in progress after a cycle is the one on the bus in    *)
(* that cycle: it started, or was pending and unanswered                   *)
(* (neorv32_xbus.vhd). The program stands still meanwhile.                 *)
LEMMA PendingAccess ==
  ASSUME Shapes, NEW stb \in BOOLEAN, NEW r, Starts(stb, r), Edge(stb, r), pending'
  PROVE  /\ req' = r /\ (stb \/ pending) /\ ~(stb /\ pending)
         /\ ~stb => pending /\ ~Answered /\ req = r
         /\ UNCHANGED cpuVars
<1>1. CASE stb
  BY <1>1, AccessFacts DEF Edge, BusArbiter, Firmware, Answered
<1>2. CASE ~stb
  <2>1. pending /\ ~Answered /\ r = req
    BY <1>2 DEF Edge, BusArbiter, Starts
  <2> QED BY <1>2, <2>1 DEF Edge, BusArbiter, Firmware
<1> QED BY <1>1, <1>2

(* The registered answers of this cycle are those of the access on the     *)
(* bus, hence of the one in progress after it.                             *)
LEMMA AddressedStep ==
  ASSUME Shapes, OnlyAddressedAnswers, [Next]_vars
  PROVE  OnlyAddressedAnswers'
<1>1. CASE UNCHANGED vars
  BY <1>1, Unchanged DEF OnlyAddressedAnswers, Xbar!i2s_sel, Xbar!io_sel
<1>2. CASE \E stb \in BOOLEAN, r \in Accesses : Starts(stb, r) /\ Edge(stb, r)
  <2>1. PICK stb \in BOOLEAN, r \in Accesses : Starts(stb, r) /\ Edge(stb, r)
    BY <1>2
  <2> SUFFICES ASSUME pending'
               PROVE  /\ wb_ack' \/ wb_dat' # Zero => Xbar!i2s_sel(req')
                      /\ io_ack' \/ io_dat' # Zero => Xbar!io_sel(req')
    BY DEF OnlyAddressedAnswers, Xbar!i2s_sel, Xbar!io_sel, Zero, BusWord
  <2>2. req' = r
    BY <2>1, PendingAccess
  <2>3. wb_ack' \/ wb_dat' # Zero => Xbar!i2s_sel(r)
    BY <2>1 DEF Edge, RegFile, ReadLogic, Acknowledge
  <2>4. io_ack' \/ io_dat' # Zero => Xbar!io_sel(r)
    BY <2>1 DEF Edge, Xbar!IoClock, Xbar!Zero, Zero, BusWord
  <2> QED BY <2>2, <2>3, <2>4
<1>3. CASE ChipReset
  BY <1>3 DEF ChipReset, OnlyAddressedAnswers
<1> QED BY <1>1, <1>2, <1>3, StepCases

(* The ORed answers of the crossbar (wb_xbar.v) never mix: while an access *)
(* is in progress, only the slave it addresses drives its acknowledge and  *)
(* its data.                                                               *)
THEOREM OnlyTheAddressedSlaveAnswers == Spec => []OnlyAddressedAnswers
<1>1. Init => OnlyAddressedAnswers
  BY DEF Init, OnlyAddressedAnswers
<1> QED BY <1>1, AddressedStep, ShapesKept, PTL DEF Spec

-----------------------------------------------------------------------------
(* The bit of the frame and the shift register move together. *)
FrameInStep ==
  /\ sclk_counter = IF buffer.shifts = FrameBits - 1 THEN 0 ELSE buffer.shifts + 1
  /\ lrclk \in BOOLEAN /\ (lrclk <=> sclk_counter >= FrameBits \div 2)

(* A clock edge of the transmitter keeps the counter, the channel clock    *)
(* and the shift register in step, paused or not (i2s_master.v:72-99).     *)
LEMMA FrameStep ==
  ASSUME Shapes, FrameInStep, NEW rst, NEW clk_en, NEW sclk_en, NEW data, NEW valid,
         I2s!Clock(rst, clk_en, sclk_en, data, valid)
  PROVE  FrameInStep'
<1>1. /\ FrameBits \in Nat /\ FrameBits >= 4 /\ FrameBits \div 2 \in Nat
      /\ FrameBits \div 2 >= 2 /\ FrameBits - 1 >= FrameBits \div 2
      /\ buffer \in [word : Word, shifts : 0 .. FrameBits - 1]
      /\ sclk_counter \in 0 .. FrameBits - 1
  BY AudioAssumption DEF Shapes, TypeOK, I2s!TypeOK, I2s!LastBit
<1>2. CASE rst
  <2>1. sclk_counter' = FrameBits - 1 /\ lrclk' = TRUE /\ buffer'.shifts = FrameBits - 2
    BY <1>2 DEF I2s!Clock, I2s!SerialClock, I2s!ChannelClock, I2s!Shifter, I2s!Blank, I2s!LastBit
  <2> QED BY <1>1, <2>1 DEF FrameInStep
<1>3. CASE ~rst /\ ~I2s!BitDone(clk_en, sclk_en)
  BY <1>3 DEF I2s!Clock, I2s!SerialClock, I2s!ChannelClock, I2s!Shifter, FrameInStep
<1>4. CASE ~rst /\ I2s!BitDone(clk_en, sclk_en)
  <2>1. sclk_counter' = IF sclk_counter = FrameBits - 1 THEN 0 ELSE sclk_counter + 1
    BY <1>1, <1>4, Modulo DEF I2s!Clock, I2s!SerialClock
  <2>2. lrclk' \in BOOLEAN /\ (lrclk' <=> sclk_counter' >= FrameBits \div 2)
    <3>1. lrclk' = (sclk_counter \in FrameBits \div 2 - 1 .. FrameBits - 1 - 1)
      BY <1>4, Zenon DEF I2s!Clock, I2s!ChannelClock, I2s!HalfFrame, I2s!LastBit
    <3>2. sclk_counter \in FrameBits \div 2 - 1 .. FrameBits - 1 - 1
            <=> sclk_counter' >= FrameBits \div 2
      BY <1>1, <2>1
    <3>3. lrclk' \in BOOLEAN
      BY <3>1
    <3> QED BY <3>1, <3>2, <3>3
  <2>3. buffer'.shifts = sclk_counter
    BY <1>1, <1>4 DEF I2s!Clock, I2s!Shifter, I2s!ShiftLeft, I2s!LastBit, FrameInStep
  <2> QED BY <2>1, <2>2, <2>3 DEF FrameInStep
<1> QED BY <1>2, <1>3, <1>4

(* The channel clock changes one bit ahead of the data, wherever the       *)
(* transmitter is paused or reset (i2s_master.v:85-99).                    *)
THEOREM ChannelClockLeadsTheFrame == Spec => []ChannelClockLeads
<1>1. Init => FrameInStep
  <2>1. ASSUME Init
        PROVE  sclk_counter = FrameBits - 1 /\ lrclk = TRUE /\ buffer.shifts = FrameBits - 2
    BY <2>1 DEF Init, I2s!Init, I2s!LastBit, I2s!Blank
  <2>2. FrameBits \in Nat /\ FrameBits >= 4 /\ FrameBits - 1 >= FrameBits \div 2
    BY AudioAssumption
  <2> QED BY <2>1, <2>2 DEF FrameInStep
<1>2. ASSUME Shapes, FrameInStep, [Next]_vars
      PROVE  FrameInStep'
  <2>1. CASE UNCHANGED vars
    BY <1>2, <2>1, Unchanged DEF FrameInStep
  <2>2. CASE \E stb \in BOOLEAN, r \in Accesses : Starts(stb, r) /\ Edge(stb, r)
    BY <1>2, <2>2, FrameStep DEF Edge
  <2>3. CASE ChipReset
    BY <1>2, <2>3, FrameStep DEF ChipReset
  <2> QED BY <1>2, <2>1, <2>2, <2>3, StepCases
<1>3. Shapes /\ FrameInStep => ChannelClockLeads
  BY Modulo, AudioAssumption DEF Shapes, FrameInStep, ChannelClockLeads
<1> QED BY <1>1, <1>2, <1>3, ShapesKept, PTL DEF Spec

-----------------------------------------------------------------------------
(* The strobes of the two dividers last a clock. *)
StrobesAreShort ==
  /\ clk_en_2048 => dac_c = 1
  /\ clk_en_16 => c = 1

(* A read pulse of the transmitter comes between two strobes and while it  *)
(* is enabled or being reset: it ends in its cycle.                        *)
PulseEnds == fifo_ready_i2s => ~clk_en_16 /\ (i2s_enable \/ software_rst)

(* A strobe is set only when its divider is at zero, and the divider then  *)
(* goes on to one (clock_generator.v, psoc_dac_fpga.v:30-45).              *)
LEMMA StrobesStep ==
  ASSUME Shapes, StrobesAreShort, [Next]_vars
  PROVE  StrobesAreShort'
<1>1. ASSUME NEW rst, NEW enable, NEW data, NEW empty, Dac!Clock(rst, enable, data, empty),
             clk_en_2048'
      PROVE  dac_c' = 1
  <2>1. ~rst
    BY <1>1 DEF Dac!Clock, Dac!Divider
  <2>2. dac_c = 0 /\ dac_c' = (dac_c + 1) % DacDiv
    BY <1>1, <2>1 DEF Dac!Clock, Dac!Divider, StrobesAreShort
  <2> QED BY <2>2, Modulo, AudioAssumption
<1>2. ASSUME ClockGenerator, clk_en_16'
      PROVE  c' = 1
  <2>1. c = 0 /\ c' = (c + 1) % SclkDiv
    BY <1>2 DEF ClockGenerator
  <2> QED BY <2>1, Modulo, AudioAssumption
<1>3. CASE UNCHANGED vars
  BY <1>3, Unchanged DEF StrobesAreShort
<1>4. CASE \E stb \in BOOLEAN, r \in Accesses : Starts(stb, r) /\ Edge(stb, r)
  BY <1>1, <1>2, <1>4 DEF Edge, StrobesAreShort
<1>5. CASE ChipReset
  BY <1>1, <1>2, <1>5 DEF ChipReset, StrobesAreShort
<1> QED BY <1>3, <1>4, <1>5, StepCases

(* A read pulse starts at a strobe, from a FIFO that is not empty, and     *)
(* never follows another one.                                              *)
LEMMA PulseStarts ==
  ASSUME Shapes, PulseEnds, NEW stb \in BOOLEAN, NEW r, Starts(stb, r), Edge(stb, r),
         fifo_ready_i2s'
  PROVE  ~software_rst /\ i2s_enable /\ clk_en_16 /\ ~Fifo!o_empty /\ ~fifo_ready_i2s
<1>1. ~software_rst /\ (IF i2s_enable THEN I2s!Wanted(i2s_enable, clk_en_16) /\ ~Fifo!o_empty
                                      ELSE fifo_ready_i2s)
  BY Zenon DEF Edge, I2s!Clock, I2s!ReadPulse
<1>2. i2s_enable
  BY <1>1 DEF PulseEnds
<1>3. clk_en_16 /\ ~Fifo!o_empty
  BY <1>1, <1>2 DEF I2s!Wanted, I2s!BitDone
<1> QED BY <1>1, <1>2, <1>3 DEF PulseEnds

(* A read pulse lies between two strobes, and software that resets to stop *)
(* does not switch the transmitter off under it (main.c:49-50).            *)
LEMMA PulseStep ==
  ASSUME ResetToStop, Shapes, StrobesAreShort, PulseEnds, [Next]_vars
  PROVE  PulseEnds'
<1>1. CASE UNCHANGED vars
  BY <1>1, Unchanged DEF PulseEnds, i2s_enable, software_rst
<1>2. CASE \E stb \in BOOLEAN, r \in Accesses : Starts(stb, r) /\ Edge(stb, r)
  <2>1. PICK stb \in BOOLEAN, r \in Accesses : Starts(stb, r) /\ Edge(stb, r)
    BY <1>2
  <2> SUFFICES ASSUME fifo_ready_i2s'
               PROVE  ~clk_en_16' /\ (i2s_enable' \/ software_rst')
    BY DEF PulseEnds
  <2>2. ~software_rst /\ i2s_enable /\ clk_en_16
    BY <2>1, PulseStarts
  <2>3. ~clk_en_16'
    <3>1. clk_en_16' = (c = 0)
      BY <2>1, <2>2 DEF Edge, ClockGenerator
    <3>2. c # 0
      BY <2>2 DEF StrobesAreShort
    <3> QED BY <3>1, <3>2, Zenon
  <2>4. CASE Written(stb /\ Xbar!i2s_sel(r), r) = "CTRL0"
    <3>1. stb /\ r.adr = "CTRL0" /\ reg_ctrl0' = r.data.bits
      BY <2>1, <2>4 DEF Written, Edge, RegFile, WriteLogic
    <3>2. r \in Settings /\ MayControl(r)
      BY <2>1, <3>1, AccessFacts DEF Starts, PlaybackAccess, Access, Shapes, TypeOK
    <3> QED BY <2>2, <2>3, <3>1, <3>2 DEF MayControl, i2s_enable, software_rst
  <2>5. CASE Written(stb /\ Xbar!i2s_sel(r), r) # "CTRL0"
    <3>1. reg_ctrl0' = reg_ctrl0
      BY <2>1, <2>5 DEF Edge, RegFile, WriteLogic
    <3> QED BY <2>2, <2>3, <3>1 DEF i2s_enable, software_rst
  <2> QED BY <2>4, <2>5
<1>3. CASE ChipReset
  BY <1>3 DEF ChipReset, I2s!Clock, I2s!ReadPulse, PulseEnds
<1> QED BY <1>1, <1>2, <1>3, StepCases

(* A read of the FIFO, which stalls the bus, is over in the next cycle:    *)
(* neither a strobe of the DAC nor a read pulse of the transmitter lasts   *)
(* two, and a stalled cycle takes no write that would switch from one to   *)
(* the other (i2s_wb_regfile.v:109).                                       *)
LEMMA StallStep ==
  ASSUME Shapes, StrobesAreShort, PulseEnds, [Next]_vars, ~UNCHANGED vars, fifo_read
  PROVE  ~fifo_read'
<1>1. CASE \E stb \in BOOLEAN, r \in Accesses : Starts(stb, r) /\ Edge(stb, r)
  <2>1. PICK stb \in BOOLEAN, r \in Accesses : Starts(stb, r) /\ Edge(stb, r)
    BY <1>1
  <2>2. reg_ctrl0' = reg_ctrl0
    BY <2>1 DEF Edge, RegFile, WriteLogic, Written, o_wb_stall, Fifo!o_ready
  <2>3. CASE dac_mode
    <3>1. clk_en_2048 /\ dac_c = 1
      BY <2>3 DEF fifo_read, Dac!fifo_ready, StrobesAreShort
    <3>2. ~clk_en_2048'
      <4>1. Dac!Divider(software_rst)
        BY <2>1 DEF Edge, Dac!Clock
      <4>2. CASE software_rst
        BY <4>1, <4>2 DEF Dac!Divider
      <4>3. CASE ~software_rst
        BY <3>1, <4>1, <4>3 DEF Dac!Divider
      <4> QED BY <4>2, <4>3
    <3> QED BY <2>2, <2>3, <3>2 DEF fifo_read, dac_mode, Dac!fifo_ready
  <2>4. CASE ~dac_mode
    <3>1. fifo_ready_i2s
      BY <2>4 DEF fifo_read
    <3>2. ~fifo_ready_i2s'
      BY <2>1, <3>1, PulseStarts
    <3> QED BY <2>2, <2>4, <3>2 DEF fifo_read, dac_mode
  <2> QED BY <2>3, <2>4
<1>2. CASE ChipReset
  <2>1. reg_ctrl0' = {} /\ ~fifo_ready_i2s'
    BY <1>2 DEF ChipReset, I2s!Clock, I2s!ReadPulse
  <2> QED BY <2>1 DEF fifo_read, dac_mode
<1> QED BY <1>1, <1>2, StepCases

(* What bounds the stalls of the bus. *)
StallInv == Shapes /\ StrobesAreShort /\ PulseEnds

(* It is inductive for software that resets to stop. *)
LEMMA StallInvHolds ==
  ASSUME ResetToStop
  PROVE  Spec => []StallInv
<1>1. Init => StallInv
  BY TypeInit DEF Init, I2s!Init, Dac!Init, StallInv, StrobesAreShort, PulseEnds
<1>2. StallInv /\ [Next]_vars => StallInv'
  BY TypeStep, StrobesStep, PulseStep DEF StallInv
<1> QED BY <1>1, <1>2, PTL DEF Spec

(* The bus is stalled for one cycle at most (i2s_wb_regfile.v:59-62), if   *)
(* software stops the transmitter only with a reset; the run audio_stall   *)
(* shows a stall for good if it does not.                                  *)
THEOREM StallsAreShort ==
  ASSUME ResetToStop
  PROVE  Spec => StallIsShort
<1>1. StallInv /\ [Next]_vars => [o_wb_stall => ~o_wb_stall']_vars
  BY StallStep DEF StallInv, o_wb_stall, Fifo!o_ready
<1> QED BY <1>1, StallInvHolds, PTL DEF Spec, StallIsShort

-----------------------------------------------------------------------------
(* What a clock cycle does to the fill level of the FIFO. *)
LEMMA FillCases ==
  ASSUME Fifo!TypeOK, Fifo!FillBounded, NEW rst \in BOOLEAN, NEW wr \in BOOLEAN, NEW data,
         NEW rd \in BOOLEAN, Fifo!Clock(rst, wr, data, rd)
  PROVE  /\ rst => Fifo!o_fill' = 0
         /\ ~rst /\ rd => Fifo!o_fill' = IF Fifo!o_empty THEN 0 ELSE Fifo!o_fill - 1
         /\ ~rst /\ ~rd => Fifo!o_fill' = IF wr /\ ~Fifo!o_full THEN Fifo!o_fill + 1
                                                                ELSE Fifo!o_fill
<1>1. CASE rst
  BY <1>1 DEF Fifo!Clock, Fifo!WritePointer, Fifo!ReadPointer, Fifo!o_fill
<1>2. CASE ~rst /\ rd /\ ~Fifo!o_empty
  <2>1. wr_addr' = wr_addr /\ rd_addr' = Fifo!Advance(rd_addr, 1)
    BY <1>2 DEF Fifo!Clock, Fifo!WritePointer, Fifo!ReadPointer, Fifo!w_rd
  <2> QED BY <1>2, <2>1, AudioAssumption
    DEF Fifo!TypeOK, Fifo!FillBounded, Fifo!o_empty, Fifo!o_fill, Fifo!Advance, Fifo!Pointer
<1>3. CASE ~rst /\ rd /\ Fifo!o_empty
  BY <1>3 DEF Fifo!Clock, Fifo!WritePointer, Fifo!ReadPointer, Fifo!w_rd, Fifo!o_fill, Fifo!o_empty
<1>4. CASE ~rst /\ ~rd /\ wr /\ ~Fifo!o_full
  <2>1. wr_addr' = Fifo!Advance(wr_addr, 1) /\ rd_addr' = rd_addr
    BY <1>4 DEF Fifo!Clock, Fifo!WritePointer, Fifo!ReadPointer, Fifo!w_rd, Fifo!w_wr
  <2> QED BY <1>4, <2>1, AudioAssumption
    DEF Fifo!TypeOK, Fifo!FillBounded, Fifo!o_full, Fifo!o_fill, Fifo!Advance, Fifo!Pointer
<1>5. CASE ~rst /\ ~rd /\ ~(wr /\ ~Fifo!o_full)
  BY <1>5 DEF Fifo!Clock, Fifo!WritePointer, Fifo!ReadPointer, Fifo!w_rd, Fifo!w_wr, Fifo!o_fill
<1> QED BY <1>1, <1>2, <1>3, <1>4, <1>5

(* The same of a step of the block. *)
LEMMA BlockFill ==
  ASSUME Shapes, Fifo!FillBounded, NEW stb, NEW r, Edge(stb, r)
  PROVE  /\ fifo_read => Fifo!o_fill' = IF Fifo!o_empty THEN 0 ELSE Fifo!o_fill - 1
         /\ ~fifo_read => Fifo!o_fill' = IF audio_valid /\ ~Fifo!o_full THEN Fifo!o_fill + 1
                                                                        ELSE Fifo!o_fill
BY Wires, FillCases DEF Edge, Shapes, TypeOK

(* The FIFO of the block never holds more words than its memory has cells. *)
LEMMA FillStep ==
  ASSUME Shapes, Fifo!FillBounded, [Next]_vars
  PROVE  Fifo!FillBounded'
<1>1. Fifo!o_fill \in 0 .. Depth
  BY DEF Fifo!FillBounded
<1>2. CASE UNCHANGED vars
  BY <1>2, Unchanged DEF Fifo!FillBounded, Fifo!o_fill
<1>3. CASE \E stb \in BOOLEAN, r \in Accesses : Starts(stb, r) /\ Edge(stb, r)
  BY <1>1, <1>3, BlockFill, AudioAssumption DEF Fifo!FillBounded, Fifo!o_empty, Fifo!o_full
<1>4. CASE ChipReset
  <2>1. Fifo!o_fill' = 0
    BY <1>4, Wires, FillCases DEF ChipReset, Shapes, TypeOK
  <2> QED BY <2>1, AudioAssumption DEF Fifo!FillBounded
<1> QED BY <1>2, <1>3, <1>4, StepCases

(* This holds in every run: the bound of the FIFO on its own survives the  *)
(* register file, which does not look at the FIFO's state before it        *)
(* commits.                                                                *)
LEMMA FillKept == Spec => []Fifo!FillBounded
<1>1. Init => Fifo!FillBounded
  BY AudioAssumption DEF Init, Fifo!FillBounded, Fifo!o_fill
<1> QED BY <1>1, FillStep, ShapesKept, PTL DEF Spec

(* The word that the transmitter has seen is still there when its pulse    *)
(* reads it: nothing else reads in between, as the mode bit does not       *)
(* change in a cycle in which the FIFO is read.                            *)
LEMMA ReadPulseStep ==
  ASSUME Shapes, PulseEnds, Fifo!FillBounded, I2sReadsAWord, [Next]_vars
  PROVE  I2sReadsAWord'
<1>1. CASE UNCHANGED vars
  BY <1>1, Unchanged DEF I2sReadsAWord, dac_mode, Fifo!o_empty, Fifo!o_fill
<1>2. CASE \E stb \in BOOLEAN, r \in Accesses : Starts(stb, r) /\ Edge(stb, r)
  <2>1. PICK stb \in BOOLEAN, r \in Accesses : Starts(stb, r) /\ Edge(stb, r)
    BY <1>2
  <2> SUFFICES ASSUME fifo_ready_i2s', ~dac_mode'
               PROVE  ~Fifo!o_empty'
    BY DEF I2sReadsAWord
  <2>2. ~Fifo!o_empty /\ ~fifo_ready_i2s
    BY <2>1, PulseStarts
  <2>3. ~fifo_read
    <3>1. fifo_read => reg_ctrl0' = reg_ctrl0
      BY <2>1 DEF Edge, RegFile, WriteLogic, Written, o_wb_stall, Fifo!o_ready
    <3> QED BY <2>2, <3>1 DEF fifo_read, dac_mode
  <2> QED BY <2>1, <2>2, <2>3, BlockFill, AudioAssumption
    DEF Fifo!o_empty, Fifo!FillBounded
<1>3. CASE ChipReset
  BY <1>3 DEF ChipReset, I2s!Clock, I2s!ReadPulse, I2sReadsAWord
<1> QED BY <1>1, <1>2, <1>3, StepCases

(* The transmitter's read pulse comes a cycle after it saw the FIFO not    *)
(* empty, and finds a word (i2s_master.v:114-117).                         *)
THEOREM I2sReadsWords ==
  ASSUME ResetToStop
  PROVE  Spec => []I2sReadsAWord
<1>1. Init => I2sReadsAWord
  BY DEF Init, I2s!Init, I2sReadsAWord
<1>2. StallInv /\ Fifo!FillBounded /\ I2sReadsAWord /\ [Next]_vars => I2sReadsAWord'
  BY ReadPulseStep DEF StallInv
<1> QED BY <1>1, <1>2, StallInvHolds, FillKept, PTL DEF Spec

-----------------------------------------------------------------------------
(* The register that a committed write filled holds the sample of the      *)
(* loop, and the access of that write is acknowledged in this cycle.       *)
CommitAnswered ==
  audio_valid => /\ pc = "right" /\ pending /\ wb_ack /\ OfPlayback(req)
                 /\ audio_data.right = sample

(* The commit bit comes with the loop's right half (main.c:64), and the    *)
(* write is acknowledged in the cycle after it was taken, in which         *)
(* audio_valid is high (i2s_wb_regfile.v:82-84, 158).                      *)
LEMMA CommitStep ==
  ASSUME Shapes, [Next]_vars, CommitAnswered
  PROVE  CommitAnswered'
<1>1. CASE UNCHANGED vars
  BY <1>1, Unchanged DEF CommitAnswered, OfPlayback
<1>2. CASE \E stb \in BOOLEAN, r \in Accesses : Starts(stb, r) /\ Edge(stb, r)
  <2>1. PICK stb \in BOOLEAN, r \in Accesses : Starts(stb, r) /\ Edge(stb, r)
    BY <1>2
  <2> SUFFICES ASSUME audio_valid'
               PROVE  /\ pc' = "right" /\ pending' /\ wb_ack' /\ OfPlayback(req')
                      /\ audio_data'.right = sample'
    BY DEF CommitAnswered, OfPlayback
  <2>2. /\ stb /\ r.we /\ ~o_wb_stall /\ Xbar!i2s_sel(r)
        /\ r.adr \in {"AUDIO_LEFT", "AUDIO_RIGHT"} /\ "COMMIT" \in r.data.bits
    BY <2>1 DEF Edge, RegFile, WriteLogic, Commit, Written, Carries
  <2>3. r = PlaybackAccess /\ ~pending
    BY <2>1, <2>2, AccessFacts DEF OfPlayback
  <2>4. pc = "right" /\ r.adr = "AUDIO_RIGHT" /\ r.data.number = sample
    BY <2>2, <2>3 DEF PlaybackAccess, Access, BusWord, Shapes, TypeOK
  <2>5. pending' /\ req' = r
    BY <2>1, <2>2, <2>3 DEF Edge, BusArbiter
  <2>6. UNCHANGED cpuVars
    BY <2>1, <2>5, PendingAccess
  <2>7. wb_ack'
    BY <2>1, <2>2 DEF Edge, RegFile, Acknowledge
  <2>8. audio_data'.right = sample
    <3>1. audio_data' = [audio_data EXCEPT !.right = r.data.number]
      BY <2>1, <2>2, <2>4 DEF Edge, RegFile, WriteLogic, Written
    <3> QED BY <2>4, <3>1 DEF Shapes, TypeOK, Word
  <2> QED BY <2>4, <2>5, <2>6, <2>7, <2>8 DEF OfPlayback, cpuVars
<1>3. CASE ChipReset
  BY <1>3 DEF ChipReset, CommitAnswered
<1> QED BY <1>1, <1>2, <1>3, StepCases

(* CommitAnswered holds in every run. *)
LEMMA CommitsAnswered == Spec => []CommitAnswered
<1>1. Init => CommitAnswered
  BY DEF Init, CommitAnswered
<1> QED BY <1>1, CommitStep, ShapesKept, PTL DEF Spec

(* In the cycle of a commit the loop goes on to its next sample. *)
LEMMA CommitAdvances ==
  ASSUME CommitAnswered, audio_valid, NEW stb, NEW r, Edge(stb, r)
  PROVE  pc' = "poll" /\ sample' = sample + 1
<1>1. Answered /\ OfPlayback(req) /\ pc = "right"
  BY DEF CommitAnswered, Answered, Xbar!wb_ack_o
<1> QED BY <1>1 DEF Edge, Firmware, NextPc

(* Every access is answered before its time runs out, if a slave is        *)
(* selected; otherwise it times out.                                       *)
AnsweredInTime ==
  /\ ~pending => timecnt # TimeoutVal
  /\ pending /\ Xbar!i2s_sel(req) =>
       \/ wb_ack /\ timecnt \in {0, 1}
       \/ ~wb_ack /\ timecnt = 0 /\ ~o_wb_stall
  /\ pending /\ Xbar!io_sel(req) => io_ack /\ timecnt = 0
  /\ pending /\ ~Xbar!i2s_sel(req) /\ ~Xbar!io_sel(req) =>
       timecnt \in 0 .. TimeoutVal + 1 /\ (timeout <=> timecnt = TimeoutVal + 1)
  /\ timeout => pending /\ ~Xbar!i2s_sel(req) /\ ~Xbar!io_sel(req)

(* The access timer does not wrap before it reports (neorv32_xbus.vhd). *)
LEMMA CountUp ==
  ASSUME TimeoutVal >= 3, NEW t \in 0 .. TimeoutVal + 1
  PROVE  (t + 1) % (2 * (TimeoutVal + 1)) = t + 1
BY AudioAssumption

(* An access to a slave is acknowledged in its first or second cycle,      *)
(* since a stall lasts one, so it never times out; one to nobody does.     *)
LEMMA TimeStep ==
  ASSUME TimeoutVal >= 3, StallInv, OnlyAddressedAnswers, AnsweredInTime, [Next]_vars
  PROVE  AnsweredInTime'
<1>1. CASE UNCHANGED vars
  BY <1>1, Unchanged
  DEF AnsweredInTime, o_wb_stall, Fifo!o_ready, fifo_read, dac_mode, dac_enable, Dac!fifo_ready,
    Xbar!i2s_sel, Xbar!io_sel
<1>2. CASE \E stb \in BOOLEAN, r \in Accesses : Starts(stb, r) /\ Edge(stb, r)
  <2>1. PICK stb \in BOOLEAN, r \in Accesses : Starts(stb, r) /\ Edge(stb, r)
    BY <1>2
  <2>2. /\ pending' = (IF pending THEN ~Answered ELSE stb)
        /\ timecnt' = (IF pending THEN (timecnt + 1) % (2 * (TimeoutVal + 1)) ELSE 0)
        /\ timeout' = (timecnt = TimeoutVal)
    BY <2>1 DEF Edge, BusArbiter
  <2>3. CASE ~pending /\ ~pending'
    BY <2>2, <2>3, AudioAssumption DEF AnsweredInTime
  <2>4. CASE pending /\ ~pending'
    <3>1. timecnt \in {0, 1} \/ timecnt = TimeoutVal + 1
      BY <2>2, <2>4 DEF Answered, Xbar!wb_ack_o, AnsweredInTime, OnlyAddressedAnswers
    <3>2. timecnt' = timecnt + 1
      BY <2>2, <2>4, <3>1, CountUp, AudioAssumption
    <3> QED BY <2>2, <2>4, <3>1, <3>2, AudioAssumption DEF AnsweredInTime
  <2>5. CASE pending'
    <3>1. /\ req' = r /\ (stb \/ pending) /\ ~(stb /\ pending)
          /\ ~stb => pending /\ ~Answered /\ req = r
      BY <2>1, <2>5, PendingAccess DEF StallInv
    <3>2. /\ wb_ack' <=> Xbar!i2s_sel(r) /\ ~o_wb_stall
          /\ io_ack' <=> Xbar!io_sel(r)
      BY <2>1, <3>1 DEF Edge, RegFile, Acknowledge, Xbar!IoClock
    <3>3. CASE ~pending
      <4>1. timecnt' = 0 /\ ~timeout'
        BY <2>2, <3>3 DEF AnsweredInTime
      <4>2. o_wb_stall => ~o_wb_stall'
        <5>1. ~UNCHANGED vars
          BY <2>5, <3>3, Unchanged
        <5> QED BY <5>1, StallStep DEF StallInv, o_wb_stall, Fifo!o_ready
      <4> QED BY <2>5, <3>1, <3>2, <4>1, <4>2, AudioAssumption
          DEF AnsweredInTime, Xbar!i2s_sel, Xbar!io_sel
    <3>4. CASE pending
      <4>1. req = r /\ ~wb_ack /\ ~io_ack /\ ~timeout
        BY <3>1, <3>4 DEF Answered, Xbar!wb_ack_o
      <4>2. /\ Xbar!i2s_sel(r) => timecnt = 0 /\ ~o_wb_stall
            /\ ~Xbar!io_sel(r)
            /\ ~Xbar!i2s_sel(r) => timecnt \in 0 .. TimeoutVal
        BY <3>4, <4>1, AudioAssumption DEF AnsweredInTime
      <4>3. timecnt' = timecnt + 1
        BY <2>2, <3>4, <4>2, CountUp, AudioAssumption
      <4>4. req' = req /\ (timeout' <=> timecnt = TimeoutVal)
        BY <2>2, <3>1, <4>1
      <4> QED BY <2>5, <3>2, <4>1, <4>2, <4>3, <4>4, AudioAssumption
          DEF AnsweredInTime, Xbar!i2s_sel, Xbar!io_sel
    <3> QED BY <3>3, <3>4
  <2> QED BY <2>3, <2>4, <2>5
<1>3. CASE ChipReset
  BY <1>3, AudioAssumption DEF ChipReset, AnsweredInTime
<1> QED BY <1>1, <1>2, <1>3, StepCases

(* The status that answers a poll still holds: a FIFO with room keeps it   *)
(* until the loop commits the next sample.                                 *)
PollAnswer ==
  pending /\ pc = "poll" /\ OfPlayback(req) /\ wb_ack => "FULL" \in wb_dat.bits \/ ~Fifo!o_full

(* Between a poll that found room and the commit there is room. *)
RoomKept == pc \in {"left", "right"} => ~Fifo!o_full

(* What makes a commit find space. *)
CommitInv ==
  /\ StallInv /\ OnlyAddressedAnswers /\ AnsweredInTime /\ Fifo!FillBounded
  /\ CommitAnswered /\ PollAnswer /\ RoomKept

(* Between commits the FIFO only loses words. *)
LEMMA RoomStep ==
  ASSUME Shapes, Fifo!FillBounded, ~audio_valid, ~Fifo!o_full, NEW stb, NEW r, Edge(stb, r)
  PROVE  ~Fifo!o_full'
<1>1. Fifo!o_fill \in 0 .. Depth - 1
  BY AudioAssumption DEF Fifo!FillBounded, Fifo!o_full
<1> QED BY <1>1, BlockFill, AudioAssumption DEF Fifo!o_full, Fifo!o_empty

(* The status is answered from the register a cycle later; only a commit   *)
(* fills the FIFO, and the loop that polls has none under way.             *)
LEMMA PollStep ==
  ASSUME CommitInv, [Next]_vars
  PROVE  PollAnswer'
<1> USE DEF CommitInv, StallInv
<1>1. CASE UNCHANGED vars
  BY <1>1, Unchanged DEF PollAnswer, OfPlayback, Fifo!o_full, Fifo!o_fill
<1>2. CASE \E stb \in BOOLEAN, r \in Accesses : Starts(stb, r) /\ Edge(stb, r)
  <2>1. PICK stb \in BOOLEAN, r \in Accesses : Starts(stb, r) /\ Edge(stb, r)
    BY <1>2
  <2> SUFFICES ASSUME pending', pc' = "poll", OfPlayback(req'), Fifo!o_full'
               PROVE  "FULL" \in wb_dat'.bits
    BY DEF PollAnswer, OfPlayback
  <2>2. req' = r /\ (stb \/ pending) /\ pc = "poll" /\ (~stb => pending /\ req = r)
    BY <2>1, PendingAccess DEF cpuVars
  <2>3. r = PlaybackAccess
    BY <2>1, <2>2, AccessFacts DEF Shapes, Requested, OfPlayback
  <2>4. r.adr = "STAT0" /\ ~r.we
    BY <2>2, <2>3 DEF PlaybackAccess, Access
  <2>5. wb_dat' = BusWord(Status, 0)
    BY <2>1, <2>2, <2>4 DEF Edge, RegFile, ReadLogic, Contents, Xbar!i2s_sel
  <2>6. Fifo!o_full
    BY <2>1, <2>2, RoomStep DEF CommitAnswered
  <2> QED BY <2>5, <2>6 DEF BusWord, Status
<1>3. CASE ChipReset
  BY <1>3 DEF ChipReset, PollAnswer
<1> QED BY <1>1, <1>2, <1>3, StepCases

(* The loop leaves its poll only with an answer that says not full, which  *)
(* an access that timed out could not give it; until its commit the FIFO   *)
(* only loses words.                                                       *)
LEMMA RoomKeptStep ==
  ASSUME CommitInv, [Next]_vars
  PROVE  RoomKept'
<1> USE DEF CommitInv, StallInv
<1>1. CASE UNCHANGED vars
  BY <1>1, Unchanged DEF RoomKept, Fifo!o_full, Fifo!o_fill
<1>2. CASE \E stb \in BOOLEAN, r \in Accesses : Starts(stb, r) /\ Edge(stb, r)
  <2>1. PICK stb \in BOOLEAN, r \in Accesses : Starts(stb, r) /\ Edge(stb, r)
    BY <1>2
  <2> SUFFICES ASSUME pc' \in {"left", "right"} PROVE ~Fifo!o_full'
    BY DEF RoomKept
  <2>2. ~audio_valid
    BY <2>1, CommitAdvances
  <2>3. ~Fifo!o_full
    <3>1. CASE pc # "poll"
      BY <3>1 DEF RoomKept, Shapes, TypeOK
    <3>2. CASE pc = "poll"
      <4>1. Answered /\ OfPlayback(req) /\ pc' = NextPc
        BY <2>1, <3>2 DEF Edge, Firmware, cpuVars
      <4>2. Xbar!i2s_sel(req) /\ ~Xbar!io_sel(req)
        BY <4>1 DEF OfPlayback, Xbar!i2s_sel, Xbar!io_sel
      <4>3. pending /\ wb_ack /\ ~timeout
        BY <4>1, <4>2 DEF Answered, Xbar!wb_ack_o, AnsweredInTime, OnlyAddressedAnswers
      <4>4. "FULL" \notin ReadBits
        BY <3>2, <4>1, <4>3 DEF NextPc
      <4>5. "FULL" \notin wb_dat.bits
        BY <4>4 DEF ReadBits, Xbar!wb_dat_bits
      <4> QED BY <3>2, <4>1, <4>3, <4>5 DEF PollAnswer
    <3> QED BY <3>1, <3>2
  <2> QED BY <2>1, <2>2, <2>3, RoomStep
<1>3. CASE ChipReset
  BY <1>3 DEF ChipReset, RoomKept
<1> QED BY <1>1, <1>2, <1>3, StepCases

(* No commit meets a full FIFO, although the status that the firmware read *)
(* is stale when it writes (main.c:60-64, i2s_wb_regfile.v:82-84,          *)
(* sfifo.v:46). TimeoutVal is 255 in the code (neorv32_top.vhd:101).       *)
THEOREM CommitsFindSpace ==
  ASSUME ResetToStop, TimeoutVal >= 3
  PROVE  Spec => []CommitFindsSpace
<1>1. Init => AnsweredInTime /\ PollAnswer /\ RoomKept
  BY AudioAssumption DEF Init, AnsweredInTime, PollAnswer, RoomKept
<1>2. StallInv /\ OnlyAddressedAnswers /\ AnsweredInTime /\ [Next]_vars => AnsweredInTime'
  BY TimeStep
<1>3. CommitInv /\ [Next]_vars => PollAnswer' /\ RoomKept'
  BY PollStep, RoomKeptStep
<1>4. CommitInv => CommitFindsSpace
  BY DEF CommitInv, CommitAnswered, RoomKept, CommitFindsSpace
<1>5. CommitInv <=> /\ StallInv /\ OnlyAddressedAnswers /\ AnsweredInTime /\ Fifo!FillBounded
                    /\ CommitAnswered /\ PollAnswer /\ RoomKept
  BY DEF CommitInv
<1> QED BY <1>1, <1>2, <1>3, <1>4, <1>5, StallInvHolds, OnlyTheAddressedSlaveAnswers, FillKept,
    CommitsAnswered, PTL DEF Spec

-----------------------------------------------------------------------------
(***************************************************************************)
(* The order of the samples on their way through the audio block: in the   *)
(* FIFO (both memories), on the I2S wire and at the DAC (the FPGA's        *)
(* memory; the runs on the ASIC's show what is lost there).                *)
(*                                                                         *)
(* Whatever was committed is earlier than the sample the firmware is at    *)
(* (Earlier), and the words in the FIFO are in order (InOrder).  From      *)
(* there the order is carried on: the words that wait are later than the   *)
(* one at the FIFO's port (PortFirst), that one is later than the next of  *)
(* the transmitter (NextIsOlder), and so on to the shift register or the   *)
(* converter.                                                              *)
(***************************************************************************)
-----------------------------------------------------------------------------
(* Where a waiting word lies. *)
LEMMA Places ==
  ASSUME Fifo!TypeOK, Fifo!FillBounded, NEW i \in 1 .. Fifo!o_fill
  PROVE  /\ Fifo!Slot(Fifo!Advance(rd_addr, i - 1)) \in Fifo!Addr
         /\ Fifo!Contents[i] = fifo_mem[Fifo!Slot(Fifo!Advance(rd_addr, i - 1))]
         /\ Fifo!Contents[i] \in Word
         /\ i = 1 => Fifo!Slot(Fifo!Advance(rd_addr, i - 1)) = Fifo!Slot(rd_addr)
         /\ i > 1 => Fifo!Slot(Fifo!Advance(rd_addr, i - 1)) # Fifo!Slot(rd_addr)
         /\ ~Fifo!o_full => Fifo!Slot(Fifo!Advance(rd_addr, i - 1)) # Fifo!Slot(wr_addr)
<1>1. Fifo!o_fill \in 0 .. Depth
  BY DEF Fifo!FillBounded
<1>2. Fifo!Slot(Fifo!Advance(rd_addr, i - 1)) \in Fifo!Addr
  BY <1>1, AudioAssumption DEF Fifo!TypeOK, Fifo!Advance, Fifo!Slot, Fifo!Pointer, Fifo!Addr
<1>3. /\ i = 1 => Fifo!Slot(Fifo!Advance(rd_addr, i - 1)) = Fifo!Slot(rd_addr)
      /\ i > 1 => Fifo!Slot(Fifo!Advance(rd_addr, i - 1)) # Fifo!Slot(rd_addr)
  BY <1>1, AudioAssumption DEF Fifo!TypeOK, Fifo!Advance, Fifo!Slot, Fifo!Pointer
<1>4. ~Fifo!o_full => Fifo!Slot(Fifo!Advance(rd_addr, i - 1)) # Fifo!Slot(wr_addr)
  BY <1>1, AudioAssumption
  DEF Fifo!TypeOK, Fifo!o_full, Fifo!o_fill, Fifo!Advance, Fifo!Slot, Fifo!Pointer
<1>5. Fifo!Contents[i] = fifo_mem[Fifo!Slot(Fifo!Advance(rd_addr, i - 1))]
  BY DEF Fifo!Contents
<1> QED BY <1>2, <1>3, <1>4, <1>5 DEF Fifo!TypeOK

(* A read moves every word a place forward, a write puts one behind them,  *)
(* and what a collision of both overwrites is the word just read.          *)
Moved(wr, data, rd, i) ==
  IF rd THEN \E k \in 1 .. Fifo!o_fill : k = i + 1 /\ Fifo!Contents'[i] = Fifo!Contents[k]
  ELSE \/ i \in 1 .. Fifo!o_fill /\ Fifo!Contents'[i] = Fifo!Contents[i]
       \/ wr /\ i = Fifo!o_fill + 1 /\ Fifo!Contents'[i] = data

(* A clock edge moves the words as Moved says, the ASIC's collision of     *)
(* read and write included (sfifo.v:50-92, sfifo_mem.v).                   *)
LEMMA ContentsCases ==
  ASSUME Fifo!TypeOK, Fifo!FillBounded, NEW rst \in BOOLEAN, NEW wr \in BOOLEAN,
         NEW data \in Word, NEW rd \in BOOLEAN, Fifo!Clock(rst, wr, data, rd),
         NEW i \in 1 .. Fifo!o_fill'
  PROVE  Moved(wr, data, rd, i)
<1>1. Fifo!o_fill \in 0 .. Depth
  BY DEF Fifo!FillBounded
<1>2. ~rst
  BY FillCases
<1>3. ASSUME rd
      PROVE  i + 1 \in 1 .. Fifo!o_fill /\ Fifo!Contents'[i] = Fifo!Contents[i + 1]
  <2>1. ~Fifo!o_empty /\ i + 1 \in 1 .. Fifo!o_fill /\ i + 1 > 1
    <3>1. Fifo!o_fill' = IF Fifo!o_empty THEN 0 ELSE Fifo!o_fill - 1
      BY <1>2, <1>3, FillCases
    <3> QED BY <1>1, <3>1
  <2>2. rd_addr' = Fifo!Advance(rd_addr, 1)
    BY <1>2, <1>3, <2>1 DEF Fifo!Clock, Fifo!ReadPointer, Fifo!w_rd
  <2>3. Fifo!Advance(Fifo!Advance(rd_addr, 1), i - 1) = Fifo!Advance(rd_addr, i + 1 - 1)
    BY <1>1, <2>1, AudioAssumption DEF Fifo!TypeOK, Fifo!Advance, Fifo!Pointer
  <2>4. fifo_mem' = fifo_mem \/ fifo_mem' = [fifo_mem EXCEPT ![Fifo!Slot(rd_addr)] = data]
    BY <1>3 DEF Fifo!Clock, Fifo!Memory
  <2>5. fifo_mem'[Fifo!Slot(Fifo!Advance(rd_addr, i + 1 - 1))]
          = fifo_mem[Fifo!Slot(Fifo!Advance(rd_addr, i + 1 - 1))]
    <3>1. /\ Fifo!Slot(Fifo!Advance(rd_addr, i + 1 - 1)) \in Fifo!Addr
          /\ Fifo!Slot(Fifo!Advance(rd_addr, i + 1 - 1)) # Fifo!Slot(rd_addr)
      BY <2>1, Places
    <3> QED BY <2>4, <3>1 DEF Fifo!TypeOK
  <2>6. Fifo!Contents'[i] = fifo_mem'[Fifo!Slot(Fifo!Advance(rd_addr', i - 1))]
    BY DEF Fifo!Contents, Fifo!Slot, Fifo!Advance
  <2> QED BY <2>1, <2>2, <2>3, <2>5, <2>6, Places
<1>4. ASSUME ~rd
      PROVE  \/ i \in 1 .. Fifo!o_fill /\ Fifo!Contents'[i] = Fifo!Contents[i]
             \/ wr /\ i = Fifo!o_fill + 1 /\ Fifo!Contents'[i] = data
  <2>1. rd_addr' = rd_addr
    BY <1>2, <1>4 DEF Fifo!Clock, Fifo!ReadPointer, Fifo!w_rd
  <2>2. Fifo!Contents'[i] = fifo_mem'[Fifo!Slot(Fifo!Advance(rd_addr, i - 1))]
    BY <2>1 DEF Fifo!Contents, Fifo!Slot, Fifo!Advance
  <2>3. fifo_mem' = IF wr /\ ~Fifo!o_full THEN [fifo_mem EXCEPT ![Fifo!Slot(wr_addr)] = data]
                                          ELSE fifo_mem
    BY <1>4 DEF Fifo!Clock, Fifo!Memory, Fifo!w_wr
  <2>4. CASE i \in 1 .. Fifo!o_fill
    <3>1. Fifo!Slot(Fifo!Advance(rd_addr, i - 1)) \in Fifo!Addr
          /\ (~Fifo!o_full => Fifo!Slot(Fifo!Advance(rd_addr, i - 1)) # Fifo!Slot(wr_addr))
      BY <2>4, Places
    <3> QED BY <2>2, <2>3, <2>4, <3>1, Places DEF Fifo!TypeOK
  <2>5. CASE i \notin 1 .. Fifo!o_fill
    <3>1. wr /\ ~Fifo!o_full /\ i = Fifo!o_fill + 1
      BY <1>1, <1>2, <1>4, <2>5, FillCases
    <3>2. Fifo!Advance(rd_addr, i - 1) = wr_addr /\ Fifo!Slot(wr_addr) \in Fifo!Addr
      BY <1>1, <3>1, AudioAssumption
      DEF Fifo!TypeOK, Fifo!Advance, Fifo!Pointer, Fifo!o_fill, Fifo!Slot, Fifo!Addr
    <3> QED BY <2>2, <2>3, <3>1, <3>2 DEF Fifo!TypeOK
  <2> QED BY <2>4, <2>5
<1> QED BY <1>3, <1>4 DEF Moved

(* The output register of the memory. *)
LEMMA OutputCases ==
  ASSUME NEW rst, NEW wr, NEW data, NEW rd, Fifo!Clock(rst, wr, data, rd)
  PROVE  /\ ~rd => o_data' = o_data
         /\ rd => \/ o_data' = fifo_mem[Fifo!Slot(rd_addr)]
                  \/ SramMacro /\ wr /\ o_data' = data
BY DEF Fifo!Clock, Fifo!Memory, Fifo!w_wr

-----------------------------------------------------------------------------
(* Whatever lies in the memory and at its port was committed earlier. *)
Earlier ==
  /\ \A a \in Fifo!Addr : fifo_mem[a].right < sample
  /\ o_data.right < sample

(* The waiting words are in the order of the stream. *)
InOrder ==
  \A i, j \in 1 .. Fifo!o_fill : i < j => Fifo!Contents[i].right < Fifo!Contents[j].right

(* A word that is written this cycle is the one the loop is at. *)
LEMMA NewWord ==
  ASSUME Shapes, CommitAnswered, [Next]_vars, ~UNCHANGED vars
  PROVE  /\ sample' >= sample
         /\ audio_valid => audio_data.right = sample /\ sample' = sample + 1
<1>1. sample \in Nat
  BY AudioAssumption DEF Shapes, TypeOK
<1>2. CASE \E stb \in BOOLEAN, r \in Accesses : Starts(stb, r) /\ Edge(stb, r)
  <2>1. sample' = sample + 1 \/ sample' = sample
    BY <1>2 DEF Edge, Firmware, cpuVars
  <2> QED BY <1>1, <1>2, <2>1, CommitAdvances DEF CommitAnswered
<1>3. CASE ChipReset
  <2>1. audio_valid => sample <= Samples
    BY DEF CommitAnswered, Shapes, Requested
  <2> QED BY <1>1, <1>3, <2>1 DEF ChipReset, CommitAnswered
<1> QED BY <1>2, <1>3, StepCases

(* What every step, a clock cycle or a reset, does to the FIFO. *)
LEMMA FifoClocked ==
  ASSUME [Next]_vars, ~UNCHANGED vars
  PROVE  \E rst \in BOOLEAN : Fifo!Clock(rst, audio_valid, audio_data, fifo_read)
BY StepCases DEF Edge, ChipReset

(* Only what the register file commits enters the memory or the port, and  *)
(* with a commit the loop goes on to its next sample (main.c:56-65).       *)
LEMMA EarlierStep ==
  ASSUME Shapes, CommitAnswered, Earlier, [Next]_vars
  PROVE  Earlier'
<1>1. CASE UNCHANGED vars
  BY <1>1, Unchanged DEF Earlier, Fifo!Addr
<1>2. CASE ~UNCHANGED vars
  <2>1. PICK rst \in BOOLEAN : Fifo!Clock(rst, audio_valid, audio_data, fifo_read)
    BY <1>2, FifoClocked
  <2>2. /\ sample' \in Nat /\ sample \in Nat /\ sample' >= sample
        /\ audio_valid => audio_data.right < sample'
    <3>1. sample' \in Nat /\ sample \in Nat
      BY TypeStep, AudioAssumption DEF Shapes, TypeOK
    <3> QED BY <1>2, <3>1, NewWord
  <2>3. ASSUME NEW a \in Fifo!Addr PROVE fifo_mem'[a].right < sample'
    <3>1. fifo_mem'[a] = fifo_mem[a] \/ (audio_valid /\ fifo_mem'[a] = audio_data)
      BY <2>1 DEF Fifo!Clock, Fifo!Memory, Fifo!w_wr, Shapes, TypeOK, Fifo!TypeOK
    <3>2. fifo_mem[a].right \in Nat /\ fifo_mem[a].right < sample
      BY WordFacts DEF Earlier, Shapes, TypeOK, Fifo!TypeOK, SampleNo
    <3> QED BY <2>2, <3>1, <3>2
  <2>4. o_data'.right < sample'
    <3>1. Fifo!Slot(rd_addr) \in Fifo!Addr
      BY FifoRanges DEF Shapes, TypeOK, Fifo!TypeOK
    <3>2. \/ o_data' = o_data \/ o_data' = fifo_mem[Fifo!Slot(rd_addr)]
          \/ audio_valid /\ o_data' = audio_data
      BY <2>1, OutputCases
    <3>3. /\ o_data.right \in Nat /\ o_data.right < sample
          /\ fifo_mem[Fifo!Slot(rd_addr)].right \in Nat
          /\ fifo_mem[Fifo!Slot(rd_addr)].right < sample
      BY <3>1, WordFacts DEF Earlier, Shapes, TypeOK, Fifo!TypeOK, SampleNo
    <3> QED BY <2>2, <3>2, <3>3
  <2> QED BY <2>3, <2>4 DEF Earlier, Fifo!Addr
<1> QED BY <1>1, <1>2

(* InOrder of the next state, in the next contents. *)
LEMMA InOrderNext ==
  ASSUME \A i, j \in 1 .. Fifo!o_fill' : i < j => Fifo!Contents'[i].right < Fifo!Contents'[j].right
  PROVE  InOrder'
BY DEF InOrder

(* A clock edge keeps the words in order if the one that is written is     *)
(* later than all that wait.                                               *)
LEMMA OrderClock ==
  ASSUME Fifo!TypeOK, Fifo!FillBounded, NEW rst \in BOOLEAN, NEW wr \in BOOLEAN,
         NEW data \in Word, NEW rd \in BOOLEAN, Fifo!Clock(rst, wr, data, rd), Fifo!o_fill' \in Nat,
         InOrder, wr => \A i \in 1 .. Fifo!o_fill : Fifo!Contents[i].right < data.right
  PROVE  InOrder'
<1>1. ASSUME NEW i \in 1 .. Fifo!o_fill', NEW j \in 1 .. Fifo!o_fill', i < j
      PROVE  Fifo!Contents'[i].right < Fifo!Contents'[j].right
  <2>1. Fifo!o_fill \in Nat /\ i \in Nat /\ j \in Nat
    BY DEF Fifo!FillBounded
  <2>2. Moved(wr, data, rd, i) /\ Moved(wr, data, rd, j)
    BY ContentsCases
  <2>3. CASE rd
    <3>1. PICK k \in 1 .. Fifo!o_fill : k = i + 1 /\ Fifo!Contents'[i] = Fifo!Contents[k]
      BY <2>2, <2>3 DEF Moved
    <3>2. PICK m \in 1 .. Fifo!o_fill : m = j + 1 /\ Fifo!Contents'[j] = Fifo!Contents[m]
      BY <2>2, <2>3 DEF Moved
    <3>3. k < m
      BY <1>1, <2>1, <3>1, <3>2
    <3> QED BY <3>1, <3>2, <3>3 DEF InOrder
  <2>4. CASE ~rd
    <3>1. \/ i \in 1 .. Fifo!o_fill /\ Fifo!Contents'[i] = Fifo!Contents[i]
          \/ wr /\ i = Fifo!o_fill + 1 /\ Fifo!Contents'[i] = data
      BY <2>2, <2>4 DEF Moved
    <3>2. \/ j \in 1 .. Fifo!o_fill /\ Fifo!Contents'[j] = Fifo!Contents[j]
          \/ wr /\ j = Fifo!o_fill + 1 /\ Fifo!Contents'[j] = data
      BY <2>2, <2>4 DEF Moved
    <3>3. CASE j \in 1 .. Fifo!o_fill
      <4>1. Fifo!Contents'[j] = Fifo!Contents[j] /\ i \in 1 .. Fifo!o_fill
            /\ Fifo!Contents'[i] = Fifo!Contents[i]
        BY <1>1, <2>1, <3>1, <3>2, <3>3
      <4> QED BY <1>1, <3>3, <4>1 DEF InOrder
    <3>4. CASE j \notin 1 .. Fifo!o_fill
      <4>1. /\ wr /\ Fifo!Contents'[j] = data
            /\ i \in 1 .. Fifo!o_fill /\ Fifo!Contents'[i] = Fifo!Contents[i]
        BY <1>1, <2>1, <3>1, <3>2, <3>4
      <4> QED BY <4>1
    <3> QED BY <3>3, <3>4
  <2> QED BY <2>3, <2>4
<1>2. \A i, j \in 1 .. Fifo!o_fill' : i < j => Fifo!Contents'[i].right < Fifo!Contents'[j].right
  BY <1>1
<1> QED BY <1>2, InOrderNext

(* It is: all that wait were committed earlier. *)
LEMMA InOrderStep ==
  ASSUME Shapes, Fifo!FillBounded, CommitAnswered, Earlier, InOrder, [Next]_vars
  PROVE  InOrder'
<1>1. CASE UNCHANGED vars
  <2>1. Fifo!Contents' = Fifo!Contents /\ Fifo!o_fill' = Fifo!o_fill
    BY <1>1, Unchanged DEF Fifo!Contents, Fifo!o_fill, Fifo!Slot, Fifo!Advance
  <2> QED BY <2>1 DEF InOrder
<1>2. CASE ~UNCHANGED vars
  <2>1. PICK rst \in BOOLEAN : Fifo!Clock(rst, audio_valid, audio_data, fifo_read)
    BY <1>2, FifoClocked
  <2>2. /\ Fifo!TypeOK /\ fifo_read \in BOOLEAN /\ audio_valid \in BOOLEAN /\ audio_data \in Word
        /\ Fifo!o_fill' \in Nat
    BY Wires, FillStep DEF Shapes, TypeOK, Fifo!FillBounded
  <2>3. ASSUME audio_valid, NEW i \in 1 .. Fifo!o_fill
        PROVE  Fifo!Contents[i].right < audio_data.right
    BY <2>2, <2>3, Places DEF Earlier, CommitAnswered
  <2> QED BY <2>1, <2>2, <2>3, OrderClock
<1> QED BY <1>1, <1>2

(* What keeps the stored samples in order. *)
OrderInv == Shapes /\ Fifo!FillBounded /\ CommitAnswered /\ Earlier /\ InOrder

(* It is inductive, for both memories and whatever software does to CTRL0. *)
LEMMA OrderInvHolds == Spec => []OrderInv
<1>1. Init => Earlier /\ InOrder
  <2> SUFFICES ASSUME Init PROVE Earlier /\ InOrder
    OBVIOUS
  <2>1. Earlier
    BY DEF Init, Earlier, Silence
  <2>2. Fifo!o_fill = 0
    BY DEF Init, Fifo!o_fill
  <2> QED BY <2>1, <2>2 DEF InOrder
<1>2. OrderInv /\ [Next]_vars => Earlier' /\ InOrder'
  BY EarlierStep, InOrderStep DEF OrderInv
<1>3. OrderInv <=> Shapes /\ Fifo!FillBounded /\ CommitAnswered /\ Earlier /\ InOrder
  BY DEF OrderInv
<1> QED BY <1>1, <1>2, <1>3, ShapesKept, FillKept, CommitsAnswered, PTL DEF Spec

(* The samples waiting in the FIFO are in the order of the stream, none    *)
(* twice, however many writes are dropped and also where the ASIC's memory *)
(* loses one (sfifo.v:50-92, main.c:56-65).                                *)
THEOREM SamplesStoredInOrder == Spec => []StoredInOrder
<1>1. ASSUME OrderInv PROVE StoredInOrder
  <2>1. Fifo!o_fill \in Nat
    BY <1>1 DEF OrderInv, Fifo!FillBounded
  <2>2. Len(Fifo!Contents) = Fifo!o_fill
    BY <2>1 DEF Fifo!Contents
  <2> QED BY <1>1, <2>2 DEF StoredInOrder, OrderInv, InOrder
<1> QED BY <1>1, OrderInvHolds, PTL

-----------------------------------------------------------------------------
(* CTRL0 changes only by a write of other software. *)
LEMMA ControlCases ==
  ASSUME Shapes, NEW stb \in BOOLEAN, NEW r, Starts(stb, r), Edge(stb, r)
  PROVE  \/ reg_ctrl0' = reg_ctrl0
         \/ /\ r \in Settings /\ MayControl(r) /\ r.we /\ r.adr = "CTRL0"
            /\ reg_ctrl0' = r.data.bits
<1>1. CASE Written(stb /\ Xbar!i2s_sel(r), r) = "CTRL0"
  <2>1. stb /\ r.we /\ r.adr = "CTRL0" /\ reg_ctrl0' = r.data.bits
    BY <1>1 DEF Written, Edge, RegFile, WriteLogic
  <2>2. r \in Settings /\ MayControl(r)
    BY <2>1 DEF Starts, PlaybackAccess, Access, Shapes, TypeOK
  <2> QED BY <2>1, <2>2
<1>2. CASE Written(stb /\ Xbar!i2s_sel(r), r) # "CTRL0"
  BY <1>2 DEF Edge, RegFile, WriteLogic
<1> QED BY <1>1, <1>2

(* What the software promises: a write that does not reset the block       *)
(* selects one output.                                                     *)
OneOutput ==
  \A r \in Settings :
    r.we /\ r.adr = "CTRL0" /\ {"DAC_MODE", "I2S_EN"} \subseteq r.data.bits
      => "RST" \in r.data.bits

(* What it promises of the DAC: it is enabled only in its mode. *)
DacInItsMode ==
  \A r \in Settings :
    r.we /\ r.adr = "CTRL0" /\ "DAC_EN" \in r.data.bits
      => "DAC_MODE" \in r.data.bits \/ "RST" \in r.data.bits

(* The two outputs do not both run, except in a reset. *)
OneOutputOn == dac_mode /\ i2s_enable => software_rst
(* The DAC runs only in its mode, except in a reset. *)
DacOn == dac_enable => dac_mode \/ software_rst

(* CTRL0 keeps what its writes promise (i2s_wb_regfile.v:109-114). *)
LEMMA OutputsStep ==
  ASSUME Shapes, [Next]_vars
  PROVE  /\ OneOutput /\ OneOutputOn => OneOutputOn'
         /\ DacInItsMode /\ DacOn => DacOn'
<1>1. CASE UNCHANGED vars
  BY <1>1, Unchanged DEF OneOutputOn, DacOn, dac_mode, i2s_enable, dac_enable, software_rst
<1>2. CASE \E stb \in BOOLEAN, r \in Accesses : Starts(stb, r) /\ Edge(stb, r)
  <2>1. PICK stb \in BOOLEAN, r \in Accesses : Starts(stb, r) /\ Edge(stb, r)
    BY <1>2
  <2>2. CASE reg_ctrl0' = reg_ctrl0
    BY <2>2 DEF OneOutputOn, DacOn, dac_mode, i2s_enable, dac_enable, software_rst
  <2>3. CASE r \in Settings /\ r.we /\ r.adr = "CTRL0" /\ reg_ctrl0' = r.data.bits
    BY <2>3 DEF OneOutput, DacInItsMode, OneOutputOn, DacOn, dac_mode, i2s_enable, dac_enable,
      software_rst
  <2> QED BY <2>1, <2>2, <2>3, ControlCases
<1>3. CASE ChipReset
  BY <1>3 DEF ChipReset, OneOutputOn, DacOn, dac_mode, dac_enable
<1> QED BY <1>1, <1>2, <1>3, StepCases

(* An enabled transmitter stays enabled until it is reset. *)
LEMMA EnableKept ==
  ASSUME ResetToStop, Shapes, NEW stb \in BOOLEAN, NEW r, Starts(stb, r), Edge(stb, r),
         i2s_enable, ~software_rst
  PROVE  i2s_enable' \/ software_rst'
<1>1. CASE reg_ctrl0' = reg_ctrl0
  BY <1>1 DEF i2s_enable
<1>2. CASE MayControl(r) /\ r.adr = "CTRL0" /\ reg_ctrl0' = r.data.bits
  BY <1>2 DEF MayControl, i2s_enable, software_rst
<1> QED BY <1>1, <1>2, ControlCases

(* The transmitter holds samples only while it is enabled or being reset. *)
WordsInUse == fifo_reg # Silence \/ buffer.word # Silence => i2s_enable \/ software_rst

(* What a clock edge does to the two words of the transmitter. *)
NextWords(rst, clk_en, sclk_en, data, valid) ==
  /\ rst => buffer'.word = Silence /\ fifo_reg' = Silence
  /\ ~rst /\ ~I2s!BitDone(clk_en, sclk_en) => buffer'.word = buffer.word /\ fifo_reg' = fifo_reg
  /\ ~rst /\ I2s!BitDone(clk_en, sclk_en) =>
       /\ buffer'.word = IF sclk_counter = 0 THEN fifo_reg ELSE buffer.word
       /\ fifo_reg' = IF ~request_fifo THEN fifo_reg ELSE IF valid THEN data ELSE Silence

(* The word on the wire is replaced in bit 0 by the next one, and that one *)
(* when a request meets the falling edge (i2s_master.v:85-88, 110-124).    *)
LEMMA BufferWord ==
  ASSUME Shapes, NEW rst, NEW clk_en, NEW sclk_en, NEW data, NEW valid,
         I2s!Clock(rst, clk_en, sclk_en, data, valid)
  PROVE  NextWords(rst, clk_en, sclk_en, data, valid)
<1>1. buffer'.word = IF rst THEN Silence
                     ELSE IF I2s!BitDone(clk_en, sclk_en) /\ sclk_counter = 0 THEN fifo_reg
                     ELSE buffer.word
  BY DEF Shapes, I2s!Clock, I2s!Shifter, I2s!Blank, I2s!ShiftLeft
<1>2. fifo_reg' = IF rst THEN Silence
                  ELSE IF ~(I2s!BitDone(clk_en, sclk_en) /\ request_fifo) THEN fifo_reg
                  ELSE IF valid THEN data ELSE Silence
  BY Zenon DEF I2s!Clock, I2s!FifoRegister, I2s!Wanted
<1> QED BY <1>1, <1>2 DEF NextWords

(* A transmitter that holds samples is enabled and stays so until its      *)
(* reset clears them.                                                      *)
LEMMA WordsStep ==
  ASSUME ResetToStop, Shapes, WordsInUse, [Next]_vars
  PROVE  WordsInUse'
<1>1. CASE UNCHANGED vars
  BY <1>1, Unchanged DEF WordsInUse, i2s_enable, software_rst
<1>2. CASE \E stb \in BOOLEAN, r \in Accesses : Starts(stb, r) /\ Edge(stb, r)
  <2>1. PICK stb \in BOOLEAN, r \in Accesses : Starts(stb, r) /\ Edge(stb, r)
    BY <1>2
  <2>2. I2s!Clock(software_rst, i2s_enable, clk_en_16, o_data, ~Fifo!o_empty)
    BY <2>1 DEF Edge
  <2>3. CASE software_rst
    BY <2>2, <2>3, BufferWord DEF NextWords, WordsInUse
  <2>4. CASE ~software_rst /\ i2s_enable
    BY <2>1, <2>4, EnableKept DEF WordsInUse
  <2>5. CASE ~software_rst /\ ~i2s_enable
    BY <2>2, <2>5, BufferWord DEF NextWords, WordsInUse, I2s!BitDone
  <2> QED BY <2>3, <2>4, <2>5
<1>3. CASE ChipReset
  BY <1>3, BufferWord DEF NextWords, ChipReset, WordsInUse
<1> QED BY <1>1, <1>2, <1>3, StepCases

-----------------------------------------------------------------------------
(* Every waiting word is later than n. *)
AllAbove(n) == \A i \in 1 .. Fifo!o_fill : n < Fifo!Contents[i].right

(* A bound of all waiting words stays one when a later word is written. *)
LEMMA AboveClock ==
  ASSUME Fifo!TypeOK, Fifo!FillBounded, NEW rst \in BOOLEAN, NEW wr \in BOOLEAN,
         NEW data \in Word, NEW rd \in BOOLEAN, Fifo!Clock(rst, wr, data, rd),
         NEW n, AllAbove(n), wr => n < data.right, NEW i \in 1 .. Fifo!o_fill'
  PROVE  n < Fifo!Contents'[i].right
<1>1. Moved(wr, data, rd, i)
  BY ContentsCases
<1> QED BY <1>1 DEF Moved, AllAbove

(* A read of the FPGA's memory brings the oldest word to the port, and all *)
(* that still wait are later (sfifo_mem.v of the FPGA).                    *)
LEMMA PortClock ==
  ASSUME Fifo!TypeOK, Fifo!FillBounded, NEW rst \in BOOLEAN, NEW wr \in BOOLEAN,
         NEW data \in Word, NEW rd \in BOOLEAN, Fifo!Clock(rst, wr, data, rd),
         ~SramMacro, InOrder, rd
  PROVE  /\ ~Fifo!o_empty => 1 \in 1 .. Fifo!o_fill /\ o_data' = Fifo!Contents[1]
         /\ \A i \in 1 .. Fifo!o_fill' : o_data'.right < Fifo!Contents'[i].right
<1>1. ASSUME ~Fifo!o_empty
      PROVE  1 \in 1 .. Fifo!o_fill /\ o_data' = Fifo!Contents[1]
  <2>1. 1 \in 1 .. Fifo!o_fill
    BY <1>1 DEF Fifo!FillBounded, Fifo!o_empty
  <2>2. Fifo!Contents[1] = fifo_mem[Fifo!Slot(rd_addr)]
    BY <2>1, Places
  <2> QED BY <2>1, <2>2, OutputCases
<1>2. ASSUME NEW i \in 1 .. Fifo!o_fill'
      PROVE  o_data'.right < Fifo!Contents'[i].right
  <2>1. Moved(wr, data, rd, i)
    BY ContentsCases
  <2>2. PICK k \in 1 .. Fifo!o_fill : k = i + 1 /\ Fifo!Contents'[i] = Fifo!Contents[k]
    BY <2>1 DEF Moved
  <2>3. Fifo!o_fill \in Nat /\ ~Fifo!o_empty
    BY <2>2 DEF Fifo!FillBounded, Fifo!o_empty
  <2>4. i \in Nat /\ i >= 1
    <3>1. Fifo!o_fill' \in Nat
      <4>1. \/ Fifo!o_fill' = 0
            \/ Fifo!o_fill' = IF Fifo!o_empty THEN 0 ELSE Fifo!o_fill - 1
        BY FillCases
      <4> QED BY <2>3, <4>1 DEF Fifo!FillBounded, Fifo!o_empty
    <3> QED BY <3>1
  <2> QED BY <1>1, <2>2, <2>3, <2>4 DEF InOrder
<1> QED BY <1>1, <1>2

(* The words that wait are later than the one at the port. *)
PortFirst == AllAbove(o_data.right)
(* They are later than the one being converted, and so is the one the loop *)
(* is at.                                                                  *)
OutputFirst == AllAbove(shifted.right) /\ shifted.right < sample

(* The order up to the port of the FIFO. *)
OrderFacts == OrderInv /\ PortFirst

(* A read brings the first of the waiting words to the port; a write adds  *)
(* one later than all committed before.                                    *)
LEMMA PortStep ==
  ASSUME ~SramMacro, OrderFacts, [Next]_vars
  PROVE  PortFirst'
<1> USE DEF OrderFacts, OrderInv
<1>1. CASE UNCHANGED vars
  <2>1. Fifo!Contents' = Fifo!Contents /\ Fifo!o_fill' = Fifo!o_fill /\ o_data' = o_data
    BY <1>1, Unchanged DEF Fifo!Contents, Fifo!o_fill, Fifo!Slot, Fifo!Advance
  <2> QED BY <2>1 DEF PortFirst, AllAbove
<1>2. CASE ~UNCHANGED vars
  <2>1. PICK rst \in BOOLEAN : Fifo!Clock(rst, audio_valid, audio_data, fifo_read)
    BY <1>2, FifoClocked
  <2>2. Fifo!TypeOK /\ fifo_read \in BOOLEAN /\ audio_valid \in BOOLEAN /\ audio_data \in Word
    BY Wires DEF Shapes, TypeOK
  <2>3. ASSUME NEW i \in 1 .. Fifo!o_fill'
        PROVE  o_data'.right < Fifo!Contents'[i].right
    <3>1. CASE fifo_read
      BY <2>1, <2>2, <3>1, PortClock
    <3>2. CASE ~fifo_read
      <4>1. o_data' = o_data
        BY <2>1, <3>2, OutputCases
      <4>2. audio_valid => o_data.right < audio_data.right
        BY DEF Earlier, CommitAnswered
      <4>3. o_data.right < Fifo!Contents'[i].right
        BY <2>1, <2>2, <4>2, AboveClock DEF PortFirst
      <4> QED BY <4>1, <4>3
    <3> QED BY <3>1, <3>2
  <2> QED BY <2>3 DEF PortFirst, AllAbove
<1> QED BY <1>1, <1>2

(* A read of a word never brings an older one to the port. *)
LEMMA PortGrows ==
  ASSUME ~SramMacro, OrderFacts, NEW stb, NEW r, Edge(stb, r)
  PROVE  /\ ~fifo_read => o_data' = o_data
         /\ fifo_read /\ ~Fifo!o_empty =>
              /\ o_data.right < o_data'.right
              /\ \A n : AllAbove(n) => n < o_data'.right
<1> USE DEF OrderFacts, OrderInv
<1>1. Fifo!TypeOK /\ fifo_read \in BOOLEAN /\ audio_valid \in BOOLEAN /\ audio_data \in Word
  BY Wires DEF Shapes, TypeOK
<1>2. Fifo!Clock(FALSE, audio_valid, audio_data, fifo_read)
  BY DEF Edge
<1>3. ASSUME ~fifo_read PROVE o_data' = o_data
  BY <1>2, <1>3 DEF Fifo!Clock, Fifo!Memory
<1>4. ASSUME fifo_read, ~Fifo!o_empty
      PROVE  1 \in 1 .. Fifo!o_fill /\ o_data' = Fifo!Contents[1]
  BY <1>1, <1>2, <1>4, PortClock
<1> QED BY <1>3, <1>4 DEF PortFirst, AllAbove

(* In bit 0, which loads the next word, the request for the one after it   *)
(* is up.                                                                  *)
RequestInTime == sclk_counter = 0 => request_fifo

(* The next word of the transmitter is older than the one at the port,     *)
(* except in its read pulse, which replaces that one.                      *)
NextIsOlder ==
  fifo_reg # Silence => \/ fifo_reg.right < o_data.right
                        \/ fifo_ready_i2s /\ fifo_reg = o_data

(* The word on the wire is older than the one at the port. *)
SentIsOlder == buffer.word # Silence => buffer.word.right < o_data.right

(* What keeps the sent samples in order. *)
SentInv ==
  /\ StallInv /\ OrderFacts /\ I2sReadsAWord /\ WordsInUse /\ OneOutputOn
  /\ RequestInTime /\ NextIsOlder /\ SentIsOlder /\ SentInOrder

(* One bit of the frame loads, one requests; the read pulse between them   *)
(* moves the port on (i2s_master.v:85-88, 110-124).                        *)
LEMMA SentStep ==
  ASSUME ~SramMacro, SentInv, [Next]_vars
  PROVE  (RequestInTime /\ NextIsOlder /\ SentIsOlder /\ SentInOrder)'
<1> USE DEF SentInv, StallInv
<1>1. CASE UNCHANGED vars
  BY <1>1, Unchanged DEF RequestInTime, NextIsOlder, SentIsOlder, SentInOrder
<1>2. CASE \E stb \in BOOLEAN, r \in Accesses : Starts(stb, r) /\ Edge(stb, r)
  <2>1. PICK stb \in BOOLEAN, r \in Accesses : Starts(stb, r) /\ Edge(stb, r)
    BY <1>2
  <2>2. I2s!Clock(software_rst, i2s_enable, clk_en_16, o_data, ~Fifo!o_empty)
    BY <2>1 DEF Edge
  <2>3. RequestInTime'
    <3>1. sclk_counter \in 0 .. FrameBits - 1 /\ FrameBits \in Nat /\ FrameBits >= 4
      BY AudioAssumption DEF Shapes, TypeOK, I2s!TypeOK, I2s!LastBit
    <3> QED BY <2>2, <3>1, Modulo
        DEF I2s!Clock, I2s!SerialClock, I2s!Request, I2s!LastBit, RequestInTime
  <2>4. CASE software_rst
    BY <2>2, <2>3, <2>4, BufferWord DEF NextWords, NextIsOlder, SentIsOlder, SentInOrder
  <2>5. CASE ~software_rst /\ ~I2s!BitDone(i2s_enable, clk_en_16)
    <3>1. buffer'.word = buffer.word /\ fifo_reg' = fifo_reg
      BY <2>2, <2>5, BufferWord DEF NextWords
    <3>2. CASE fifo_reg = Silence /\ buffer.word = Silence
      BY <2>3, <3>1, <3>2 DEF NextIsOlder, SentIsOlder, SentInOrder
    <3>3. CASE fifo_reg # Silence \/ buffer.word # Silence
      <4>1. ~dac_mode
        BY <2>5, <3>3 DEF WordsInUse, OneOutputOn
      <4>2. /\ fifo_ready_i2s => o_data.right < o_data'.right
            /\ ~fifo_ready_i2s => o_data' = o_data
        BY <2>1, <4>1, PortGrows DEF fifo_read, I2sReadsAWord
      <4>3. /\ o_data.right \in Nat /\ o_data'.right \in Nat
            /\ fifo_reg.right \in Nat /\ buffer.word.right \in Nat
        <5>1. Shapes'
          BY TypeStep
        <5> QED BY <5>1, WordFacts DEF Shapes, TypeOK, Fifo!TypeOK, SampleNo
      <4>4. /\ fifo_reg' # Silence => fifo_reg'.right < o_data'.right
            /\ buffer'.word # Silence => buffer'.word.right < o_data'.right
        BY <3>1, <4>2, <4>3 DEF NextIsOlder, SentIsOlder
      <4> QED BY <2>3, <3>1, <4>4 DEF NextIsOlder, SentIsOlder, SentInOrder
    <3> QED BY <3>2, <3>3
  <2>6. CASE ~software_rst /\ I2s!BitDone(i2s_enable, clk_en_16)
    <3>1. /\ buffer'.word = IF sclk_counter = 0 THEN fifo_reg ELSE buffer.word
          /\ fifo_reg' = IF ~request_fifo THEN fifo_reg
                         ELSE IF ~Fifo!o_empty THEN o_data ELSE Silence
      <4>1. NextWords(software_rst, i2s_enable, clk_en_16, o_data, ~Fifo!o_empty)
        BY <2>2, BufferWord
      <4> QED BY <2>6, <4>1 DEF NextWords
    <3>2. ~fifo_ready_i2s /\ ~fifo_read
      BY <2>6 DEF I2s!BitDone, PulseEnds, OneOutputOn, fifo_read
    <3>3. o_data' = o_data
      BY <2>1, <3>2, PortGrows
    <3>4. fifo_reg # Silence => fifo_reg.right < o_data.right
      BY <3>2 DEF NextIsOlder
    <3>5. NextIsOlder'
      <4>1. request_fifo /\ ~Fifo!o_empty => fifo_ready_i2s'
        BY <2>2, <2>6 DEF I2s!Clock, I2s!ReadPulse, I2s!Wanted, I2s!BitDone
      <4> QED BY <3>1, <3>3, <3>4, <4>1 DEF NextIsOlder
    <3>6. SentIsOlder'
      BY <3>1, <3>3, <3>4 DEF SentIsOlder
    <3>7. SentInOrder'
      BY <3>1, <3>4 DEF SentInOrder, SentIsOlder, RequestInTime
    <3> QED BY <2>3, <3>5, <3>6, <3>7
  <2> QED BY <2>4, <2>5, <2>6
<1>3. CASE ChipReset
  <2>1. buffer'.word = Silence /\ fifo_reg' = Silence
    BY <1>3, BufferWord DEF NextWords, ChipReset
  <2>2. sclk_counter' = FrameBits - 1
    BY <1>3 DEF ChipReset, I2s!Clock, I2s!SerialClock, I2s!LastBit
  <2>3. sclk_counter' # 0
    BY <2>2, AudioAssumption
  <2> QED BY <2>1, <2>3 DEF RequestInTime, NextIsOlder, SentIsOlder, SentInOrder
<1> QED BY <1>1, <1>2, <1>3, StepCases

(* The order up to the port holds in every run on the FPGA's memory. *)
LEMMA PortFirstHolds ==
  ASSUME ~SramMacro
  PROVE  Spec => []OrderFacts
<1>1. ASSUME Init PROVE PortFirst
  <2>1. Fifo!o_fill = 0
    BY <1>1 DEF Init, Fifo!o_fill
  <2> QED BY <2>1 DEF PortFirst, AllAbove
<1>2. OrderInv /\ PortFirst /\ [Next]_vars => PortFirst'
  BY PortStep DEF OrderFacts
<1>3. OrderFacts <=> OrderInv /\ PortFirst
  BY DEF OrderFacts
<1> QED BY <1>1, <1>2, <1>3, OrderInvHolds, PTL DEF Spec

(* The transmitter never sends an older sample after a newer one, nor one  *)
(* twice (i2s_master.v:85-88, 114-117), for software that resets to stop   *)
(* and selects one output, as main.c:49-50 does.                           *)
THEOREM SamplesSentInOrder ==
  ASSUME ResetToStop, ~SramMacro, OneOutput
  PROVE  Spec => []SentInOrder
<1>1. Init => /\ WordsInUse /\ OneOutputOn /\ RequestInTime
              /\ NextIsOlder /\ SentIsOlder /\ SentInOrder
  <2> SUFFICES ASSUME Init
               PROVE  /\ WordsInUse /\ OneOutputOn /\ RequestInTime
                      /\ NextIsOlder /\ SentIsOlder /\ SentInOrder
    OBVIOUS
  <2>1. buffer.word = Silence /\ fifo_reg = Silence /\ request_fifo /\ reg_ctrl0 = {}
    BY DEF Init, I2s!Init, I2s!Blank
  <2> QED BY <2>1
      DEF WordsInUse, OneOutputOn, RequestInTime, NextIsOlder, SentIsOlder, SentInOrder, dac_mode
<1>2. SentInv /\ [Next]_vars => WordsInUse' /\ OneOutputOn'
  BY WordsStep, OutputsStep DEF SentInv, StallInv
<1>3. SentInv /\ [Next]_vars => (RequestInTime /\ NextIsOlder /\ SentIsOlder /\ SentInOrder)'
  BY SentStep
<1>4. SentInv <=> /\ StallInv /\ OrderFacts /\ I2sReadsAWord /\ WordsInUse /\ OneOutputOn
                  /\ RequestInTime /\ NextIsOlder /\ SentIsOlder /\ SentInOrder
  BY DEF SentInv
<1> QED BY <1>1, <1>2, <1>3, <1>4, StallInvHolds, PortFirstHolds, I2sReadsWords, PTL DEF Spec

-----------------------------------------------------------------------------
(* The word a DAC read has found is later than the one being converted. *)
FoundIsLater == fifo_valid => shifted.right < o_data.right

(* What keeps the converted samples in order. *)
ConvertedInv ==
  OrderFacts /\ I2sReadsAWord /\ DacOn /\ OutputFirst /\ FoundIsLater

(* What a clock edge does to the converted word and its validity. *)
TakenFrom(rst, enable, data, empty) ==
  /\ rst => shifted' = Silence /\ ~fifo_valid'
  /\ ~rst /\ Dac!fifo_ready(enable) =>
       /\ fifo_valid' <=> ~empty
       /\ shifted' = IF fifo_valid THEN data ELSE shifted
  /\ ~rst /\ ~Dac!fifo_ready(enable) => shifted' = shifted /\ (fifo_valid' <=> fifo_valid)

(* At a DAC strobe the word that the strobe before has found replaces the  *)
(* one being converted (psoc_dac_fpga.v:57-72).                            *)
LEMMA Taken ==
  ASSUME NEW rst, NEW enable, NEW data, NEW empty, Dac!Clock(rst, enable, data, empty)
  PROVE  TakenFrom(rst, enable, data, empty)
<1>1. Dac!TakeSample(rst, enable, data, empty)
  BY DEF Dac!Clock
<1>2. CASE rst
  BY <1>1, <1>2 DEF Dac!TakeSample, TakenFrom
<1>3. CASE ~rst /\ Dac!fifo_ready(enable)
  BY <1>1, <1>3 DEF Dac!TakeSample, TakenFrom
<1>4. CASE ~rst /\ ~Dac!fifo_ready(enable)
  BY <1>1, <1>4 DEF Dac!TakeSample, TakenFrom
<1> QED BY <1>2, <1>3, <1>4

(* A sample that replaces the one being converted is the one at the port. *)
LEMMA ConvertedCases ==
  ASSUME NEW rst, NEW enable, NEW data, NEW empty, Dac!Clock(rst, enable, data, empty)
  PROVE  shifted' = Silence \/ shifted' = shifted \/ (fifo_valid /\ shifted' = data)
BY Taken, Zenon DEF TakenFrom

(* A new sample at the output is the one found at the port, so it is       *)
(* later.                                                                  *)
LEMMA ConvertStep ==
  ASSUME FoundIsLater, [Next]_vars
  PROVE  [shifted' \notin {shifted, Silence} => shifted'.right > shifted.right]_vars
<1>1. CASE \E stb \in BOOLEAN, r \in Accesses : Starts(stb, r) /\ Edge(stb, r)
  BY <1>1, ConvertedCases DEF Edge, FoundIsLater
<1>2. CASE ChipReset
  BY <1>2, ConvertedCases DEF ChipReset, FoundIsLater
<1> QED BY <1>1, <1>2, StepCases

(* The words that wait stay later than the one converted. *)
LEMMA OutputStep ==
  ASSUME ConvertedInv, [Next]_vars
  PROVE  OutputFirst'
<1> USE DEF ConvertedInv, OrderFacts, OrderInv
<1>1. CASE UNCHANGED vars
  <2>1. Fifo!Contents' = Fifo!Contents /\ Fifo!o_fill' = Fifo!o_fill
        /\ UNCHANGED <<shifted, sample>>
    BY <1>1, Unchanged DEF Fifo!Contents, Fifo!o_fill, Fifo!Slot, Fifo!Advance
  <2> QED BY <2>1 DEF OutputFirst, AllAbove
<1>2. CASE ~UNCHANGED vars
  <2>1. PICK rst \in BOOLEAN : Fifo!Clock(rst, audio_valid, audio_data, fifo_read)
    BY <1>2, FifoClocked
  <2>2. Fifo!TypeOK /\ fifo_read \in BOOLEAN /\ audio_valid \in BOOLEAN /\ audio_data \in Word
    BY Wires DEF Shapes, TypeOK
  <2>3. shifted' = Silence \/ shifted' = shifted \/ (fifo_valid /\ shifted' = o_data)
    <3>1. CASE \E stb \in BOOLEAN, r \in Accesses : Starts(stb, r) /\ Edge(stb, r)
      BY <3>1, ConvertedCases DEF Edge
    <3>2. CASE ChipReset
      BY <3>2, ConvertedCases DEF ChipReset
    <3> QED BY <1>2, <3>1, <3>2, StepCases
  <2>4. /\ sample \in Nat /\ sample >= 1 /\ sample' \in Nat /\ sample' >= sample
        /\ audio_valid => audio_data.right = sample
        /\ o_data.right \in Nat /\ shifted.right \in Nat
    <3>1. sample \in Nat /\ sample >= 1 /\ sample' \in Nat
      BY TypeStep, AudioAssumption DEF Shapes, TypeOK
    <3>2. o_data.right \in Nat /\ shifted.right \in Nat
      BY WordFacts DEF Shapes, TypeOK, Fifo!TypeOK, SampleNo
    <3> QED BY <1>2, <3>1, <3>2, NewWord
  <2>5. Silence.right = 0
    BY DEF Silence
  <2>6. shifted'.right < sample'
    BY <2>3, <2>4, <2>5 DEF OutputFirst, Earlier
  <2>7. AllAbove(0)
    <3>1. ASSUME NEW i \in 1 .. Fifo!o_fill
          PROVE  0 < Fifo!Contents[i].right
      <4>1. Fifo!Contents[i].right \in Nat /\ o_data.right < Fifo!Contents[i].right
        BY <2>2, Places, WordFacts DEF PortFirst, AllAbove, SampleNo
      <4> QED BY <2>4, <4>1
    <3> QED BY <3>1 DEF AllAbove
  <2>8. AllAbove(shifted'.right) /\ (audio_valid => shifted'.right < audio_data.right)
    BY <2>3, <2>4, <2>5, <2>7 DEF OutputFirst, PortFirst, Earlier
  <2>9. ASSUME NEW i \in 1 .. Fifo!o_fill'
        PROVE  shifted'.right < Fifo!Contents'[i].right
    BY <2>1, <2>2, <2>8, AboveClock
  <2> QED BY <2>6, <2>9 DEF OutputFirst, AllAbove
<1> QED BY <1>1, <1>2

(* A strobe that finds a word reads it in that cycle, since the DAC runs   *)
(* in its mode; what it found stays until the next strobe.                 *)
LEMMA FoundStep ==
  ASSUME ~SramMacro, ConvertedInv, [Next]_vars
  PROVE  FoundIsLater'
<1> USE DEF ConvertedInv
<1>1. CASE UNCHANGED vars
  BY <1>1, Unchanged DEF FoundIsLater
<1>2. CASE \E stb \in BOOLEAN, r \in Accesses : Starts(stb, r) /\ Edge(stb, r)
  <2>1. PICK stb \in BOOLEAN, r \in Accesses : Starts(stb, r) /\ Edge(stb, r)
    BY <1>2
  <2> SUFFICES ASSUME fifo_valid'
               PROVE  shifted'.right < o_data'.right
    BY DEF FoundIsLater
  <2>2. TakenFrom(software_rst, dac_enable, o_data, Fifo!o_empty)
    BY <2>1, Taken DEF Edge
  <2>3. ~software_rst
    BY <2>2 DEF TakenFrom
  <2>4. CASE Dac!fifo_ready(dac_enable)
    <3>1. ~Fifo!o_empty /\ shifted' = IF fifo_valid THEN o_data ELSE shifted
      BY <2>2, <2>3, <2>4 DEF TakenFrom
    <3>2. fifo_read
      BY <2>3, <2>4 DEF fifo_read, DacOn, Dac!fifo_ready
    <3>3. o_data.right < o_data'.right /\ shifted.right < o_data'.right
      BY <2>1, <3>1, <3>2, PortGrows DEF OutputFirst
    <3> QED BY <3>1, <3>3
  <2>5. CASE ~Dac!fifo_ready(dac_enable)
    <3>1. shifted' = shifted /\ fifo_valid
      BY <2>2, <2>3, <2>5 DEF TakenFrom
    <3>2. fifo_read => ~Fifo!o_empty
      BY <2>5 DEF fifo_read, I2sReadsAWord
    <3>3. CASE fifo_read
      BY <2>1, <3>1, <3>2, <3>3, PortGrows DEF OutputFirst
    <3>4. CASE ~fifo_read
      BY <2>1, <3>1, <3>4, PortGrows DEF FoundIsLater
    <3> QED BY <3>3, <3>4
  <2> QED BY <2>4, <2>5
<1>3. CASE ChipReset
  BY <1>3, Taken DEF ChipReset, TakenFrom, FoundIsLater
<1> QED BY <1>1, <1>2, <1>3, StepCases

(* A new sample at the DAC's output is newer than the one it replaces,     *)
(* across underruns (psoc_dac_fpga.v:63-69), for software that resets to   *)
(* stop and runs the DAC in its mode, as main.c:49-50 does.                *)
THEOREM SamplesConvertedInOrder ==
  ASSUME ResetToStop, ~SramMacro, DacInItsMode
  PROVE  Spec => ConvertedInOrder
<1>1. Init => DacOn /\ OutputFirst /\ FoundIsLater
  <2> SUFFICES ASSUME Init PROVE DacOn /\ OutputFirst /\ FoundIsLater
    OBVIOUS
  <2>1. reg_ctrl0 = {} /\ shifted = Silence /\ ~fifo_valid /\ sample = 1 /\ Fifo!o_fill = 0
    BY DEF Init, Dac!Init, Fifo!o_fill
  <2> QED BY <2>1 DEF DacOn, dac_enable, OutputFirst, AllAbove, FoundIsLater, Silence
<1>2. ConvertedInv /\ [Next]_vars => DacOn' /\ OutputFirst' /\ FoundIsLater'
  BY OutputsStep, OutputStep, FoundStep DEF ConvertedInv, OrderFacts, OrderInv
<1>3. ConvertedInv <=> OrderFacts /\ I2sReadsAWord /\ DacOn /\ OutputFirst /\ FoundIsLater
  BY DEF ConvertedInv
<1>4. ConvertedInv /\ [Next]_vars
        => [shifted' \notin {shifted, Silence} => shifted'.right > shifted.right]_vars
  BY ConvertStep DEF ConvertedInv
<1> QED BY <1>1, <1>2, <1>3, <1>4, PortFirstHolds, I2sReadsWords, PTL DEF Spec, ConvertedInOrder

(* On the FPGA a read delivers the oldest sample, whatever is written in   *)
(* that cycle (sfifo.v:12); the ASIC's macro breaks this, as the run       *)
(* audio_asic shows.                                                       *)
THEOREM ReadsComeFirstOnFpga ==
  ASSUME ~SramMacro
  PROVE  Spec => ReadHasPriority
<1>1. ASSUME OrderInv, [Next]_vars, ~UNCHANGED vars, fifo_read, ~Fifo!o_empty
      PROVE  o_data' = Head(Fifo!Contents)
  <2>1. PICK rst \in BOOLEAN : Fifo!Clock(rst, audio_valid, audio_data, fifo_read)
    BY <1>1, FifoClocked
  <2>2. Fifo!TypeOK /\ fifo_read \in BOOLEAN /\ audio_valid \in BOOLEAN /\ audio_data \in Word
    BY <1>1, Wires DEF OrderInv, Shapes, TypeOK
  <2>3. 1 \in 1 .. Fifo!o_fill /\ o_data' = Fifo!Contents[1]
    BY <1>1, <2>1, <2>2, PortClock DEF OrderInv
  <2>4. Head(Fifo!Contents) = Fifo!Contents[1]
    BY <2>3 DEF Fifo!Contents
  <2> QED BY <2>3, <2>4
<1>2. OrderInv /\ [Next]_vars => [fifo_read /\ ~Fifo!o_empty => o_data' = Head(Fifo!Contents)]_vars
  BY <1>1
<1> QED BY <1>2, OrderInvHolds, PTL DEF Spec, ReadHasPriority
=============================================================================
