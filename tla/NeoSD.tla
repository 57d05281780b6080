------------------------------- MODULE NeoSD --------------------------------
(***************************************************************************)
(* The SD card controller (neosd_top.sv): card clock, registers, command   *)
(* and data state machines.  One step is one rising edge of clk_i; the two *)
(* state machines move in the cycles in which clkstrb is high.             *)
(*                                                                         *)
(* A shift register is known by the number of the bit at its top (out) and *)
(* the number of the bit that came in last (last); 0 is a bit of neither a *)
(* response nor a block.  Checksums are not computed: whether one fits is  *)
(* an input.  Left out: interrupt masks, the rotation of the four data     *)
(* registers, byte order, and CTRL_D4, which WordBits stands for.          *)
(***************************************************************************)
EXTENDS Naturals

CONSTANTS
  CmdBits,     \* bits of a command, 48 in the code
  RespBits,    \* bits of a response register, 32 in the code
  FirstBits,   \* bits in the first register: 16 of a short, 8 of a long response
  WordBits,    \* clocks per data word: 8 with four data lines, 32 with one
  Words,       \* words per block, 128 in the code
  CrcBits,     \* clocks of a block's checksum, 16 in the code
  TailBits,    \* clocks after the last bit, 8 in the code
  Prescale,    \* system clocks per pulse of the selected prescaler
  ClkDiv       \* CTRL_CLK_DIV

VARIABLES
  \* neosd_clken.v and neosd_clk.sv
  cnt, cdiv_cnt, sd_clk_strb, sd_clk_cont, clkstrb, sd_clk,
  \* neosd_top.sv: the bits set in CTRL, the command register, and the
  \* status lines that were high in the cycle before
  ctrl, command, status_last,
  \* neosd_cmd_fsm.sv, neosd_cmd_reg.sv
  cmd, cmd_reg,
  \* neosd_dat_fsm.sv, neosd_dat_reg.sv
  dat, dat_reg

clkVars == <<cnt, cdiv_cnt, sd_clk_strb, sd_clk_cont, clkstrb, sd_clk>>
sdVars == <<clkVars, ctrl, command, status_last, cmd, cmd_reg, dat, dat_reg>>

(* An access to the registers in this cycle.  Written to CTRL are the bits *)
(* to be set, to CMD a command, to DATA the number of a word's first bit.  *)
Access(adr, we, data) == [adr |-> adr, we |-> we, data |-> data]
NoAccess == Access("none", FALSE, 0)

Command(idx, commit, abrt, dmode, rmode) ==
  [idx |-> idx, commit |-> commit, abrt |-> abrt, dmode |-> dmode, rmode |-> rmode]
NoCommand == Command("none", FALSE, FALSE, "NONE", "NONE")

Reads(acc, adr) == acc.adr = adr /\ ~acc.we
Writes(acc, adr) == acc.adr = adr /\ acc.we

-----------------------------------------------------------------------------
(* The card clock. *)

(* Wanted by a state machine or by software, and stalled by none. *)
sd_clk_en ==
  /\ cmd.clk_req \/ dat.clk_req \/ "IDLE_SDCLK" \in ctrl
  /\ ~cmd.clk_stall /\ ~dat.clk_stall

sd_clk_next == IF sd_clk_strb THEN sd_clk_en /\ ~sd_clk_cont ELSE sd_clk
Rising == ~sd_clk /\ sd_clk_next
Falling == sd_clk /\ ~sd_clk_next

ClockGenerator ==
  /\ cnt' = (cnt + 1) % Prescale
  /\ sd_clk_strb' = (cnt = 0 /\ cdiv_cnt = ClkDiv)
  /\ cdiv_cnt' = IF cnt = 0 THEN (cdiv_cnt + 1) % (ClkDiv + 1) ELSE cdiv_cnt
  /\ sd_clk_cont' = (sd_clk_cont # sd_clk_strb)
  /\ sd_clk' = sd_clk_next
  /\ clkstrb' = (sd_clk_strb /\ sd_clk_cont)

-----------------------------------------------------------------------------
(* The registers of the top level. *)

status_idle_cmd == cmd.state = "IDLE"
status_resp_cmd == cmd.state = "REGOUT"
status_idle_dat == dat.state = "IDLE"
status_data_dat == dat.state \in {"REGOUT", "WRITE_REGIN"}

Status == {s \in {"idle_cmd", "resp_cmd", "idle_dat", "data_dat"} :
             CASE s = "idle_cmd" -> status_idle_cmd
               [] s = "resp_cmd" -> status_resp_cmd
               [] s = "idle_dat" -> status_idle_dat
               [] s = "data_dat" -> status_data_dat}

Rose(s) == s \in Status \ status_last

Settings == {"RST", "IDLE_SDCLK", "CRCERR", "CMD_DONE", "DAT_DONE", "BLK_DONE"}
CtrlBits == Settings \cup {"CMD_RESP", "DAT_DATA"}

(* The bits that the hardware sets in this cycle. *)
Sets(bit) == CASE bit = "CMD_DONE" -> Rose("idle_cmd")
               [] bit = "DAT_DONE" -> Rose("idle_dat")
               [] bit = "CMD_RESP" -> Rose("resp_cmd")
               [] bit = "DAT_DATA" -> Rose("data_dat")
               [] bit = "BLK_DONE" -> clkstrb /\ dat.block_done
               [] bit = "CRCERR" -> clkstrb /\ dat.block_done /\ ~dat.crc_ok
               [] OTHER -> FALSE

(* Mutant: the flags of RESP and DATA are written back like the others. *)
CtrlNextWritesAll(acc) ==
  {bit \in CtrlBits : IF Writes(acc, "CTRL") THEN bit \in acc.data
                      ELSE IF bit = "CMD_RESP" /\ Reads(acc, "RESP") THEN FALSE
                      ELSE IF bit = "DAT_DATA" /\ acc.adr = "DATA" THEN FALSE
                      ELSE bit \in ctrl \/ Sets(bit)}

(* In the same cycle an access by software wins over the hardware. *)
CtrlNext(acc) ==
  {bit \in CtrlBits :
     CASE bit \in Settings /\ Writes(acc, "CTRL") -> bit \in acc.data
       [] bit = "CMD_RESP" /\ Reads(acc, "RESP") -> FALSE
       [] bit = "DAT_DATA" /\ acc.adr = "DATA" -> FALSE
       [] OTHER -> bit \in ctrl \/ Sets(bit)}

(* What a read of CTRL gives. *)
CtrlRead == ctrl \cup {bit \in {"CMD_BUSY", "DAT_BUSY"} :
                         IF bit = "CMD_BUSY" THEN ~status_idle_cmd ELSE ~status_idle_dat}

(* The commit bit lasts until the next strobe, the rest until the next     *)
(* command.                                                                *)
CommandNext(acc) == IF Writes(acc, "CMD") THEN acc.data
                    ELSE IF clkstrb THEN [command EXCEPT !.commit = FALSE]
                    ELSE command

Registers(acc) ==
  /\ ctrl' = CtrlNext(acc)
  /\ command' = CommandNext(acc)
  /\ status_last' = Status

-----------------------------------------------------------------------------
(* The command state machine: the next value of cmd at a strobe. *)

CmdReset == [state |-> "IDLE", bit |-> 0, word |-> 0, clk_req |-> FALSE,
             clk_stall |-> FALSE, oe |-> FALSE, start_dat |-> FALSE]

(* Mutant: off by one. *)
CountedTooFar(f, last, done) == IF ~sd_clk_en THEN f
                                ELSE IF f.bit = last + 1 THEN done
                                ELSE [f EXCEPT !.bit = @ + 1]

(* Counting takes place only while the card clock runs. *)
Counted(f, last, done) == IF ~sd_clk_en THEN f
                          ELSE IF f.bit = last THEN done
                          ELSE [f EXCEPT !.bit = @ + 1]

Registered(rmode) == IF rmode = "LONG" THEN 5 ELSE 2

(* Two bits of the first register come in before the count starts, and one *)
(* more while it starts.                                                   *)
FirstCount(rmode) == RespBits + 3 - FirstBits[rmode]

CmdSent(c) ==
  IF command.rmode = "NONE"
  THEN [c EXCEPT !.bit = 0, !.oe = FALSE, !.start_dat = command.dmode = "R", !.state = "TAIL"]
  ELSE [c EXCEPT !.oe = FALSE, !.start_dat = command.dmode = "R",
                 !.word = Registered(command.rmode),
                 !.bit = FirstCount(command.rmode), !.state = "WAIT_RESP"]

(* The register handed over: more of the response follows, or the tail, in *)
(* parallel with the data phase.                                           *)
CmdAcked(c) ==
  IF c.word # 0 THEN [c EXCEPT !.clk_stall = FALSE, !.state = "READ_RESP"]
  ELSE [c EXCEPT !.clk_stall = FALSE, !.start_dat = command.dmode \in {"W", "BUSY"},
                 !.state = "TAIL"]

CmdRegRead(c) == [c EXCEPT !.bit = 0, !.word = @ - 1, !.clk_stall = TRUE, !.state = "REGOUT"]

(* The response starts with two zeros, its bits 1 and 2. *)
CmdWaits(c) == IF cmd_reg.last = 2 THEN [c EXCEPT !.state = "READ_RESP"] ELSE c

(* Mutant: the register is handed over without waiting for software. *)
CmdHandsOverAtOnce(c) == CmdAcked(c)

(* The card clock stands still until software has read the register. *)
CmdHandsOver(c) == IF "CMD_RESP" \notin ctrl THEN CmdAcked(c) ELSE c

CmdStep(c) ==
  CASE c.state = "IDLE" ->
         IF command.commit
         THEN [c EXCEPT !.state = "WRITE", !.bit = 0, !.oe = TRUE, !.clk_req = TRUE] ELSE c
    [] c.state = "WRITE" -> Counted(c, CmdBits - 1, CmdSent(c))
    [] c.state = "WAIT_RESP" -> CmdWaits(c)
    [] c.state = "READ_RESP" -> Counted(c, RespBits - 1, CmdRegRead(c))
    [] c.state = "REGOUT" -> CmdHandsOver(c)
    [] c.state = "TAIL" ->
         Counted(c, TailBits - 1, [c EXCEPT !.clk_req = FALSE, !.state = "IDLE"])

CmdFsm ==
  cmd' = IF ~clkstrb THEN cmd
         ELSE IF "RST" \in ctrl THEN CmdReset
         ELSE CmdStep([cmd EXCEPT !.start_dat = FALSE])

(* Mutant: it also shifts while only the data lines are clocked. *)
CmdShiftRegisterFree(acc, sd_cmd_i) ==
  cmd_reg' = IF Writes(acc, "CMD") THEN [idx |-> acc.data.idx, out |-> 0, last |-> 0]
             ELSE IF clkstrb /\ sd_clk_en
                  THEN [cmd_reg EXCEPT !.out = IF @ < CmdBits THEN @ + 1 ELSE @,
                                       !.last = sd_cmd_i]
             ELSE cmd_reg

(* The shift register of commands and responses.  Loading wins over        *)
(* shifting.                                                               *)
CmdShiftRegister(acc, sd_cmd_i) ==
  cmd_reg' = IF Writes(acc, "CMD") THEN [idx |-> acc.data.idx, out |-> 0, last |-> 0]
             ELSE IF clkstrb /\ sd_clk_en /\ cmd.clk_req /\ ~Writes(acc, "CMDARG")
                  THEN [cmd_reg EXCEPT !.out = IF @ < CmdBits THEN @ + 1 ELSE @,
                                       !.last = sd_cmd_i]
             ELSE cmd_reg

-----------------------------------------------------------------------------
(* The data state machine: the next value of dat at a strobe. *)

DatReset == [state |-> "IDLE", bit |-> 0, word |-> 0, clk_req |-> FALSE,
             clk_stall |-> FALSE, oe |-> FALSE, shift |-> FALSE, rstn_reg |-> FALSE,
             omux |-> 0, crc_ok |-> FALSE, block_done |-> FALSE, write_start |-> FALSE]

BlockBits == Words * WordBits

(* Mutant: a word is taken for read or written at once. *)
ackedAlways == TRUE

acked == "DAT_DATA" \notin ctrl

DatStart(d) ==
  CASE command.dmode = "R" ->
         [d EXCEPT !.clk_req = TRUE, !.shift = TRUE, !.rstn_reg = TRUE, !.state = "WAIT_BLOCK"]
    [] command.dmode = "BUSY" -> [d EXCEPT !.clk_req = TRUE, !.state = "WAIT_BUSY"]
    [] command.dmode = "W" ->
         [d EXCEPT !.write_start = TRUE, !.clk_req = TRUE, !.clk_stall = TRUE,
                   !.rstn_reg = TRUE, !.state = "WRITE_REGIN"]
    [] OTHER -> d

(* Reading blocks. *)
ReadStep(d, low, fits) ==
  CASE d.state = "WAIT_BLOCK" ->
         IF sd_clk_en /\ low
         THEN [d EXCEPT !.state = "READ_BLOCK", !.bit = 0, !.word = Words] ELSE d
    [] d.state = "READ_BLOCK" ->
         Counted(d, WordBits - 1,
                 [d EXCEPT !.bit = 0, !.word = @ - 1, !.clk_stall = TRUE, !.state = "REGOUT"])
    [] d.state = "REGOUT" ->
         IF acked
         THEN [d EXCEPT !.clk_stall = FALSE, !.bit = 0,
                        !.state = IF d.word = 0 THEN "READ_CRC" ELSE "READ_BLOCK"]
         ELSE d
    [] d.state = "READ_CRC" ->
         Counted(d, CrcBits - 1,
                 [d EXCEPT !.clk_stall = TRUE, !.rstn_reg = FALSE, !.state = "READ_FINISH"])
    [] d.state = "READ_FINISH" ->
         [d EXCEPT !.bit = 0, !.rstn_reg = TRUE, !.clk_stall = FALSE, !.crc_ok = fits,
                   !.block_done = TRUE, !.state = "WAIT_BLOCK"]

(* Mutant: the clock runs on until the next word is there. *)
WordSentUnstalled(d) ==
  IF d.word = 1 THEN [d EXCEPT !.bit = 0, !.word = 0, !.omux = 3, !.state = "WRITE_CRC"]
  ELSE [d EXCEPT !.bit = 0, !.word = @ - 1, !.state = "WRITE_REGIN"]

WordSent(d) ==
  IF d.word = 1 THEN [d EXCEPT !.bit = 0, !.word = 0, !.omux = 3, !.state = "WRITE_CRC"]
  ELSE [d EXCEPT !.bit = 0, !.word = @ - 1, !.clk_stall = TRUE, !.state = "WRITE_REGIN"]

(* The card's answer to a block comes two clocks after the end bit and is  *)
(* five bits long: the last of the seven clocks.                           *)
TokenEndsEarly == 5
TokenEnd == 6

(* Writing blocks. *)
WriteStep(d, low, fits) ==
  CASE d.state = "WRITE_REGIN" ->
         IF ~acked THEN d
         ELSE IF d.write_start
              THEN [d EXCEPT !.clk_stall = FALSE, !.bit = 0, !.omux = 0, !.oe = TRUE,
                             !.state = "WRITE_START"]
              ELSE [d EXCEPT !.clk_stall = FALSE, !.bit = 0, !.state = "WRITE_DATA"]
    [] d.state = "WRITE_START" ->
         IF sd_clk_en
         THEN [d EXCEPT !.write_start = FALSE, !.omux = 2, !.shift = TRUE, !.word = Words,
                        !.state = "WRITE_DATA"]
         ELSE d
    [] d.state = "WRITE_DATA" -> Counted(d, WordBits - 1, WordSent(d))
    [] d.state = "WRITE_CRC" ->
         Counted(d, CrcBits - 1, [d EXCEPT !.bit = 0, !.omux = 1, !.state = "WRITE_STOP"])
    [] d.state = "WRITE_STOP" ->
         IF sd_clk_en THEN [d EXCEPT !.oe = FALSE, !.state = "WRITE_CHECK_CRC"] ELSE d
    [] d.state = "WRITE_CHECK_CRC" ->
         Counted(d, TokenEnd, [d EXCEPT !.bit = 0, !.write_start = TRUE, !.shift = FALSE,
                                 !.rstn_reg = FALSE, !.crc_ok = fits, !.state = "WRITE_BUSY"])
    [] d.state = "WRITE_BUSY" ->
         IF sd_clk_en /\ ~low
         THEN [d EXCEPT !.block_done = TRUE, !.state = "WRITE_TAIL"] ELSE d
    [] d.state = "WRITE_TAIL" ->
         Counted(d, TailBits - 1,
                 [d EXCEPT !.bit = 0, !.clk_stall = TRUE, !.rstn_reg = TRUE,
                           !.state = "WRITE_REGIN"])

DatStep(d, low, fits) ==
  CASE d.state = "IDLE" -> IF cmd.start_dat THEN DatStart(d) ELSE d
    [] d.state = "TAIL" ->
         Counted(d, TailBits - 1, [d EXCEPT !.clk_req = FALSE, !.state = "IDLE"])
    [] d.state = "WAIT_BUSY" ->
         IF sd_clk_en /\ ~low THEN [d EXCEPT !.state = "TAIL", !.bit = 0] ELSE d
    [] d.state \in {"WAIT_BLOCK", "READ_BLOCK", "REGOUT", "READ_CRC", "READ_FINISH"} ->
         ReadStep(d, low, fits)
    [] OTHER -> WriteStep(d, low, fits)

(* While the abort bit is set, every other state gives way to the tail.    *)
(* What the states left in oe, omux, write_start and block_done stays.     *)
Aborted(d) ==
  IF command.abrt /\ dat.state \notin {"IDLE", "TAIL"}
  THEN [d EXCEPT !.rstn_reg = FALSE, !.shift = FALSE, !.clk_stall = FALSE, !.bit = 0,
                 !.state = "TAIL"]
  ELSE d

DatFsm(low, fits) ==
  dat' = IF ~clkstrb THEN dat
         ELSE IF "RST" \in ctrl THEN DatReset
         ELSE Aborted(DatStep([dat EXCEPT !.block_done = FALSE], low, fits))

(* The data register: cleared asynchronously, loaded, or shifted. *)
DatShiftRegister(acc, sd_dat_i) ==
  dat_reg' = IF ~dat.rstn_reg \/ ~dat.rstn_reg' THEN [out |-> 0, last |-> 0]
             ELSE IF Writes(acc, "DATA") THEN [out |-> acc.data, last |-> 0]
             ELSE IF clkstrb /\ sd_clk_en /\ dat.shift
                  THEN [out |-> IF dat_reg.out \in 1 .. BlockBits THEN dat_reg.out + 1 ELSE 0,
                        last |-> sd_dat_i]
             ELSE dat_reg

(* What the controller puts on the data lines. *)
HostDat == IF ~dat.oe THEN "none"
           ELSE CASE dat.omux = 0 -> "start"
                  [] dat.omux = 1 -> "end"
                  [] dat.omux = 2 -> dat_reg.out
                  [] dat.omux = 3 -> "crc"

-----------------------------------------------------------------------------
(* One clock edge.  sd_cmd_i and sd_dat_i are the numbers of the bits on   *)
(* the card's lines, low is the level of the first data line, and fits     *)
(* tells whether a checksum (or the card's answer) is good.                *)
Clock(acc, sd_cmd_i, sd_dat_i, low, fits) ==
  /\ ClockGenerator
  /\ Registers(acc)
  /\ CmdFsm
  /\ CmdShiftRegister(acc, sd_cmd_i)
  /\ DatFsm(low, fits)
  /\ DatShiftRegister(acc, sd_dat_i)

Init ==
  /\ cnt = 0 /\ cdiv_cnt = 0
  /\ sd_clk_strb = FALSE /\ sd_clk_cont = FALSE /\ clkstrb = FALSE /\ sd_clk = FALSE
  /\ ctrl = {}
  /\ command = NoCommand
  /\ status_last = {"idle_cmd", "idle_dat"}
  /\ cmd = CmdReset
  /\ cmd_reg = [out |-> 0, last |-> 0, idx |-> "none"]
  /\ dat = DatReset
  /\ dat_reg = [out |-> 0, last |-> 0]

TypeOK ==
  /\ cnt \in 0 .. Prescale - 1 /\ cdiv_cnt \in 0 .. ClkDiv
  /\ ctrl \subseteq CtrlBits
  /\ cmd.bit \in 0 .. (IF CmdBits > RespBits THEN CmdBits ELSE RespBits) - 1
  /\ cmd.word \in 0 .. 5
  /\ dat.word \in 0 .. Words
  /\ cmd_reg.out \in 0 .. CmdBits
  /\ dat_reg.out \in 0 .. BlockBits + 1
=============================================================================
