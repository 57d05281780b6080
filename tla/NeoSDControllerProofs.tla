------------------------ MODULE NeoSDControllerProofs ------------------------
(***************************************************************************)
(* One clock edge keeps the controller's half of the invariant, when the   *)
(* access of the driver is permitted.                                      *)
(***************************************************************************)
EXTENDS NeoSDInvariant, TLAPS

-----------------------------------------------------------------------------
(* One step of the controller and the card. *)

(* An access that the driver may make in the present state. *)
Permitted(acc) ==
  /\ acc.adr \in {"none", "CTRL", "RESP", "DATA", "CMDARG", "CMD"} /\ acc.we \in BOOLEAN
  /\ acc.adr \in {"CMD", "CMDARG"} => ~Active
  /\ Sd!Writes(acc, "CTRL") =>
       /\ acc.data \cap Sd!Settings \subseteq ctrl \cup {"RST"}
       /\ "RST" \in acc.data => ResetReady
  /\ Sd!Writes(acc, "DATA") => acc.data \in 1 .. Sd!BlockBits
  /\ Sd!Writes(acc, "CMD") =>
       /\ Formed(acc.data)
       /\ acc.data.idx = "none" => acc.data.abrt /\ command.idx \in {"READ", "none"}
       /\ acc.data.idx = "STOP" => acc.data.commit /\ command.idx \in Flow /\ dat.state # "IDLE"
       /\ acc.data.idx \notin {"none", "STOP"} => acc.data.commit /\ Settled /\ Clean

(* The step: an edge of the system clock with access acc, in which the card *)
(* sees an edge of its clock or none.  The card may rest in between.        *)
Edge(acc, fits) ==
  /\ Sd!Clock(acc, Card!cmd_o, Card!dat_o, Card!low, fits)
  /\ \/ Sd!Rising /\ Card!Rise(cmd.oe, cmd_reg.idx, Sd!HostDat)
     \/ Sd!Falling /\ Card!Fall
     \/ /\ ~Sd!Rising /\ ~Sd!Falling /\ UNCHANGED <<rx, answer, multi>>
        /\ \/ UNCHANGED <<task, n>>
           \/ task = "busy" /\ task' = "idle" /\ n' = 0

(* The constants are what their names say. *)
LEMMA Constants ==
  /\ CmdBits \in Nat \ {0} /\ RespBits \in Nat \ {0} /\ WordBits \in Nat \ {0}
  /\ Words \in Nat \ {0} /\ CrcBits \in Nat \ {0} /\ TailBits \in Nat \ {0}
  /\ Prescale \in Nat \ {0} /\ Blocks \in Nat \ {0} /\ ClkDiv \in Nat
  /\ FirstBits["SHORT"] \in 4 .. RespBits /\ FirstBits["LONG"] \in 4 .. RespBits
  /\ TailBits <= CmdBits
  /\ Sd!BlockBits \in Nat \ {0}
  /\ Prescale = 1 => ClkDiv # 0
<1>1. /\ CmdBits \in Nat \ {0} /\ RespBits \in Nat \ {0} /\ WordBits \in Nat \ {0}
      /\ Words \in Nat \ {0} /\ CrcBits \in Nat \ {0} /\ TailBits \in Nat \ {0}
      /\ Prescale \in Nat \ {0} /\ Blocks \in Nat \ {0} /\ ClkDiv \in Nat
      /\ TailBits <= CmdBits
  BY NeoSDAssumption
<1>2. FirstBits["SHORT"] \in 4 .. RespBits /\ FirstBits["LONG"] \in 4 .. RespBits
  BY NeoSDAssumption
<1>3. Sd!BlockBits \in Nat \ {0}
  <2>1. \A a, b \in Nat \ {0} : a * b \in Nat \ {0}
    OBVIOUS
  <2> QED BY <1>1, <2>1 DEF Sd!BlockBits
<1>4. Prescale = 1 => ClkDiv # 0
  BY NeoSDAssumption, <1>1
<1> QED BY <1>1, <1>2, <1>3, <1>4

(* The response has its registers. *)
LEMMA Lengths ==
  /\ RespLen["SHORT"] = FirstBits["SHORT"] + RespBits
  /\ RespLen["LONG"] = FirstBits["LONG"] + 4 * RespBits
BY Constants DEF RespLen, Parts

(* The phases of the card clock. *)
Between == /\ ~clkstrb /\ ~Fallen' /\ (Risen' = Risen)
           /\ rx' = rx /\ answer' = answer
           /\ task' = task \/ (task = "busy" /\ task' = "idle")
RisesNow == /\ ~clkstrb /\ ~Fallen' /\ ~Risen /\ Risen'
            /\ Sd!sd_clk_en /\ Card!Rise(cmd.oe, cmd_reg.idx, Sd!HostDat)
RisesNot == /\ ~clkstrb /\ ~Fallen' /\ ~Risen /\ Risen' /\ ~Sd!sd_clk_en
            /\ rx' = rx /\ answer' = answer
            /\ task' = task \/ (task = "busy" /\ task' = "idle")
FallsNow == /\ ~clkstrb /\ Fallen' /\ Risen /\ Risen' /\ Sd!sd_clk_en /\ Card!Fall
FallsNot == /\ ~clkstrb /\ Fallen' /\ Risen /\ Risen' /\ ~Sd!sd_clk_en
            /\ rx' = rx /\ answer' = answer
            /\ task' = task \/ (task = "busy" /\ task' = "idle")
Strobed == /\ clkstrb /\ ~Fallen' /\ ~Risen'
           /\ rx' = rx /\ answer' = answer
           /\ task' = task \/ (task = "busy" /\ task' = "idle")

(* Every cycle is one of six: the strobes come in a fixed order. *)
LEMMA Phases ==
  ASSUME Types, Strobes, NEW acc, NEW fits, Edge(acc, fits)
  PROVE  Between \/ RisesNow \/ RisesNot \/ FallsNow \/ FallsNot \/ Strobed
<1> USE DEF Edge, Sd!Clock, Sd!ClockGenerator, Sd!Rising, Sd!Falling, Sd!sd_clk_next, Risen, Fallen
<1>0. /\ sd_clk_strb \in BOOLEAN /\ sd_clk_cont \in BOOLEAN /\ clkstrb \in BOOLEAN
           /\ sd_clk \in BOOLEAN
      /\ (clkstrb' <=> sd_clk_strb /\ sd_clk_cont)
      /\ (sd_clk_cont' <=> sd_clk_cont # sd_clk_strb)
  <2>1. clkstrb' = (sd_clk_strb /\ sd_clk_cont) /\ sd_clk_cont' = (sd_clk_cont # sd_clk_strb)
    BY Zenon
  <2>2. sd_clk_strb \in BOOLEAN /\ sd_clk_cont \in BOOLEAN /\ clkstrb \in BOOLEAN
          /\ sd_clk \in BOOLEAN
    BY DEF Types
  <2> QED BY <2>1, <2>2
<1>1. CASE clkstrb
  BY <1>0, <1>1 DEF Strobes, Strobed
<1>2. CASE ~clkstrb /\ ~sd_clk_strb
  BY <1>0, <1>2 DEF Strobes, Between
<1>3. CASE ~clkstrb /\ sd_clk_strb /\ ~sd_clk_cont /\ Sd!sd_clk_en
  BY <1>0, <1>3 DEF Strobes, RisesNow
<1>4. CASE ~clkstrb /\ sd_clk_strb /\ ~sd_clk_cont /\ ~Sd!sd_clk_en
  BY <1>0, <1>4 DEF Strobes, RisesNot
<1>5. CASE ~clkstrb /\ sd_clk_strb /\ sd_clk_cont /\ Sd!sd_clk_en
  BY <1>0, <1>5 DEF Strobes, FallsNow
<1>6. CASE ~clkstrb /\ sd_clk_strb /\ sd_clk_cont /\ ~Sd!sd_clk_en
  BY <1>0, <1>6 DEF Strobes, FallsNot
<1> QED BY <1>0, <1>1, <1>2, <1>3, <1>4, <1>5, <1>6

(* The state machines move at strobes only. *)
LEMMA StillBetween ==
  ASSUME NEW acc, NEW fits, Edge(acc, fits), ~clkstrb
  PROVE  cmd' = cmd /\ dat' = dat
BY DEF Edge, Sd!Clock, Sd!CmdFsm, Sd!DatFsm

(* The registers of the top level. *)
LEMMA Tops ==
  ASSUME NEW acc, NEW fits, Edge(acc, fits)
  PROVE  /\ ctrl' = Sd!CtrlNext(acc) /\ command' = Sd!CommandNext(acc)
         /\ status_last' = Sd!Status
BY DEF Edge, Sd!Clock, Sd!Registers

(* A flag comes up by its event only; the driver's writes raise none but   *)
(* the reset.                                                              *)
LEMMA CtrlMoves ==
  ASSUME Types, NEW acc, NEW fits, Edge(acc, fits), Permitted(acc)
  PROVE  /\ ctrl' \subseteq Bits
         /\ "IDLE_SDCLK" \in ctrl' => "IDLE_SDCLK" \in ctrl
         /\ "RST" \in ctrl' => "RST" \in ctrl \/ ResetReady
         /\ "CMD_DONE" \in ctrl' => "CMD_DONE" \in ctrl \/ Sd!Rose("idle_cmd")
         /\ "DAT_DONE" \in ctrl' => "DAT_DONE" \in ctrl \/ Sd!Rose("idle_dat")
         /\ "CMD_RESP" \in ctrl' => "CMD_RESP" \in ctrl \/ Sd!Rose("resp_cmd")
         /\ "DAT_DATA" \in ctrl' => "DAT_DATA" \in ctrl \/ Sd!Rose("data_dat")
         /\ "BLK_DONE" \in ctrl' => "BLK_DONE" \in ctrl \/ (clkstrb /\ dat.block_done)
<1>1. ctrl' = Sd!CtrlNext(acc)
  BY Tops
<1>2. ctrl' \subseteq Bits
  BY <1>1 DEF Sd!CtrlNext, Bits
<1>3. ASSUME NEW bit \in Sd!Settings, bit \in ctrl', bit # "RST"
      PROVE  bit \in ctrl \/ Sd!Sets(bit)
  BY <1>1, <1>3 DEF Sd!CtrlNext, Permitted, Sd!Settings
<1>4. ASSUME NEW bit \in {"CMD_RESP", "DAT_DATA"}, bit \in ctrl'
      PROVE  bit \in ctrl \/ Sd!Sets(bit)
  BY <1>1, <1>4 DEF Sd!CtrlNext, Sd!Settings
<1>5. "RST" \in ctrl' => "RST" \in ctrl \/ ResetReady
  BY <1>1 DEF Sd!CtrlNext, Permitted, Sd!Settings, Sd!Sets
<1> QED
  BY <1>2, <1>3, <1>4, <1>5 DEF Sd!Settings, Sd!Sets

(* While a command is sent or answered the card clock runs; it stands      *)
(* still while the driver has a register to read.                          *)
LEMMA ClockRuns ==
  ASSUME ControllerInv
  PROVE  /\ cmd.state \in {"WRITE", "WAIT_RESP", "READ_RESP"} => Sd!sd_clk_en
         /\ cmd.state = "REGOUT" => ~Sd!sd_clk_en
BY DEF ControllerInv, CmdShape, DatShape, Shaped, FirstInv, StopInv, Active, First, Sent, Moving,
       Busy, Sd!sd_clk_en

(* Between strobes nothing starts or stalls the card clock. *)
LEMMA EnableKept ==
  ASSUME ControllerInv, NEW acc, NEW fits, Edge(acc, fits), Permitted(acc), ~clkstrb
  PROVE  Sd!sd_clk_en' = Sd!sd_clk_en
<1>1. cmd' = cmd /\ dat' = dat
  BY StillBetween
<1>2. "IDLE_SDCLK" \notin ctrl /\ "IDLE_SDCLK" \notin ctrl'
  BY CtrlMoves DEF ControllerInv, FlagsInv
<1> QED BY <1>1, <1>2 DEF Sd!sd_clk_en

(* No two strobes follow each other at once. *)
LEMMA StrobesStep ==
  ASSUME ControllerInv, NEW acc, NEW fits, Edge(acc, fits), Permitted(acc)
  PROVE  Strobes'
<1> DEFINE en == Sd!sd_clk_en
<1>0. /\ sd_clk_strb \in BOOLEAN /\ sd_clk_cont \in BOOLEAN /\ clkstrb \in BOOLEAN
           /\ sd_clk \in BOOLEAN
      /\ cnt \in 0 .. Prescale - 1 /\ cdiv_cnt \in 0 .. ClkDiv
  BY DEF ControllerInv, Types
<1>1. /\ clkstrb' = (sd_clk_strb /\ sd_clk_cont) /\ sd_clk_cont' = (sd_clk_cont # sd_clk_strb)
      /\ sd_clk_strb' = (cnt = 0 /\ cdiv_cnt = ClkDiv)
      /\ cnt' = (cnt + 1) % Prescale
      /\ cdiv_cnt' = (IF cnt = 0 THEN (cdiv_cnt + 1) % (ClkDiv + 1) ELSE cdiv_cnt)
      /\ sd_clk' = Sd!sd_clk_next
  BY Zenon DEF Edge, Sd!Clock, Sd!ClockGenerator
<1>2. sd_clk_strb' => cnt' # 0 \/ cdiv_cnt' # ClkDiv
  <2>1. \A p \in Nat \ {0}, d \in Nat : (p = 1 => d # 0) => (0 + 1) % p # 0 \/ (d + 1) % (d + 1) # d
    <3>1. \A p \in Nat : p > 1 => 1 % p = 1
      OBVIOUS
    <3>2. \A d \in Nat : (d + 1) % (d + 1) = 0
      OBVIOUS
    <3> QED BY <3>1, <3>2
  <2>2. CASE sd_clk_strb'
    <3>1. cnt = 0 /\ cdiv_cnt = ClkDiv
      BY <1>1, <2>2
    <3>2. cnt' = (0 + 1) % Prescale /\ cdiv_cnt' = (ClkDiv + 1) % (ClkDiv + 1)
      BY <1>1, <3>1
    <3> QED BY <2>1, <3>2, Constants
  <2> QED BY <2>2
<1>3. clkstrb' => ~sd_clk_strb' /\ ~sd_clk_cont'
  BY <1>0, <1>1 DEF ControllerInv, Strobes
<1>4. ~sd_clk_cont' => ~sd_clk'
  BY <1>0, <1>1 DEF ControllerInv, Strobes, Sd!sd_clk_next
<1>5. sd_clk_cont' => sd_clk' = en'
  <2>1. CASE clkstrb
    BY <1>0, <1>1, <2>1 DEF ControllerInv, Strobes
  <2>2. CASE ~clkstrb
    <3>1. en' = en
      BY <2>2, EnableKept
    <3>2. en \in BOOLEAN
      BY DEF Sd!sd_clk_en, ControllerInv, Types
    <3>3. ASSUME sd_clk_cont' PROVE sd_clk' = en
      <4>1. CASE sd_clk_strb
        <5>1. ~sd_clk_cont
          BY <1>0, <1>1, <3>3, <4>1
        <5>2. sd_clk' = (en /\ ~sd_clk_cont)
          BY <1>1, <4>1, Zenon DEF Sd!sd_clk_next
        <5> QED BY <5>1, <5>2, <3>2
      <4>2. CASE ~sd_clk_strb
        <5>1. sd_clk_cont /\ sd_clk' = sd_clk
          BY <1>0, <1>1, <3>3, <4>2 DEF Sd!sd_clk_next
        <5> QED BY <5>1 DEF ControllerInv, Strobes
      <4> QED BY <4>1, <4>2
    <3> QED BY <3>1, <3>3
  <2> QED BY <2>1, <2>2
<1> QED BY <1>2, <1>3, <1>4, <1>5 DEF Strobes

-----------------------------------------------------------------------------
(* What the command state machine does at a strobe. *)

CmdGoes(s, bit, word) == cmd'.state = s /\ cmd'.bit = bit /\ cmd'.word = word
CmdQuiet == ~cmd'.start_dat

CmdResets == "RST" \in ctrl /\ CmdGoes("IDLE", 0, 0) /\ CmdQuiet
CmdStarts == cmd.state = "IDLE" /\ command.commit /\ CmdGoes("WRITE", 0, cmd.word) /\ CmdQuiet
CmdHolds == /\ \/ cmd.state = "IDLE" /\ ~command.commit
               \/ cmd.state = "TAIL" /\ ~Sd!sd_clk_en
               \/ cmd.state = "WAIT_RESP" /\ cmd_reg.last # 2
               \/ cmd.state = "REGOUT" /\ "CMD_RESP" \in ctrl
            /\ CmdGoes(cmd.state, cmd.bit, cmd.word) /\ CmdQuiet
CmdCounts == /\ Sd!sd_clk_en
             /\ \/ cmd.state = "WRITE" /\ cmd.bit + 1 < CmdBits
                \/ cmd.state = "READ_RESP" /\ cmd.bit + 1 < RespBits
                \/ cmd.state = "TAIL" /\ cmd.bit + 1 < TailBits
             /\ CmdGoes(cmd.state, cmd.bit + 1, cmd.word) /\ CmdQuiet
CmdWaits == /\ Sd!sd_clk_en /\ cmd.state = "WRITE" /\ cmd.bit + 1 = CmdBits
            /\ CmdGoes("WAIT_RESP", Sd!FirstCount(command.rmode), Sd!Registered(command.rmode))
            /\ cmd'.start_dat <=> command.dmode = "R"
CmdResponds == cmd.state = "WAIT_RESP" /\ cmd_reg.last = 2
  /\ CmdGoes("READ_RESP", cmd.bit, cmd.word) /\ CmdQuiet
CmdOffers == /\ Sd!sd_clk_en /\ cmd.state = "READ_RESP" /\ cmd.bit + 1 = RespBits
             /\ CmdGoes("REGOUT", 0, cmd.word - 1) /\ CmdQuiet
CmdReadsOn == /\ cmd.state = "REGOUT" /\ "CMD_RESP" \notin ctrl /\ cmd.word # 0
              /\ CmdGoes("READ_RESP", cmd.bit, cmd.word) /\ CmdQuiet
CmdTrails == /\ cmd.state = "REGOUT" /\ "CMD_RESP" \notin ctrl /\ cmd.word = 0
             /\ CmdGoes("TAIL", cmd.bit, 0)
             /\ cmd'.start_dat <=> command.dmode \in {"W", "BUSY"}
CmdEnds == /\ Sd!sd_clk_en /\ cmd.state = "TAIL" /\ cmd.bit + 1 = TailBits
           /\ CmdGoes("IDLE", cmd.bit, cmd.word) /\ CmdQuiet

CmdMove == \/ CmdStarts \/ CmdHolds \/ CmdCounts \/ CmdWaits \/ CmdResponds \/ CmdOffers
           \/ CmdReadsOn \/ CmdTrails \/ CmdEnds

(* The registers that follow the state. *)
CmdOutputs ==
  /\ cmd'.clk_req <=> cmd'.state # "IDLE"
  /\ cmd'.clk_stall <=> cmd'.state = "REGOUT"
  /\ cmd'.oe <=> cmd'.state = "WRITE"

(* At a strobe the command state machine makes one of these moves. *)
LEMMA CmdMoves ==
  ASSUME ControllerInv, NEW acc, NEW fits, Edge(acc, fits), clkstrb
  PROVE  /\ cmd' \in CmdRecord /\ CmdOutputs
         /\ CmdResets \/ ("RST" \notin ctrl /\ CmdMove)
<1> DEFINE c == [cmd EXCEPT !.start_dat = FALSE]
<1> USE Constants
<1>1. /\ cmd \in CmdRecord
      /\ cmd.clk_req = (cmd.state # "IDLE") /\ cmd.clk_stall = (cmd.state = "REGOUT")
      /\ cmd.oe = (cmd.state = "WRITE")
  BY DEF ControllerInv, Types, CmdShape, CmdRecord
<1>2. cmd' = IF "RST" \in ctrl THEN Sd!CmdReset ELSE Sd!CmdStep(c)
  BY DEF Edge, Sd!Clock, Sd!CmdFsm
<1>3. Formed(command)
        /\ (cmd.state \in {"WRITE", "WAIT_RESP", "READ_RESP", "REGOUT"} => command.idx # "none")
  BY DEF ControllerInv, Types, CmdShape, Active
<1>4. CASE "RST" \in ctrl
  <2>1. cmd' = Sd!CmdReset
    BY <1>2, <1>4
  <2> QED BY <2>1, <1>4 DEF Sd!CmdReset, CmdRecord, CmdStates, CmdOutputs, CmdResets, CmdGoes,
                            CmdQuiet
<1>5. CASE "RST" \notin ctrl
  <2>1. cmd' = Sd!CmdStep(c)
    BY <1>2, <1>5
  <2>2. c \in CmdRecord /\ c.state = cmd.state /\ c.bit = cmd.bit /\ c.word = cmd.word
          /\ ~c.start_dat
        /\ c.clk_req = cmd.clk_req /\ c.clk_stall = cmd.clk_stall /\ c.oe = cmd.oe
    BY <1>1 DEF CmdRecord
  <2> HIDE DEF c
  <2> USE DEF Sd!CmdStep, CmdRecord, CmdStates, CmdOutputs, CmdMove, CmdGoes, CmdQuiet
  <2>3. CASE cmd.state = "IDLE"
    BY <1>1, <2>1, <2>2, <1>5, <2>3 DEF CmdStarts, CmdHolds
  <2>4. CASE cmd.state = "WRITE"
    <3>1. Sd!sd_clk_en
      BY <2>4, ClockRuns
    <3>2. command.rmode \in {"SHORT", "LONG"}
      BY <2>4, <1>3 DEF Formed
    <3>3. cmd.bit < CmdBits
      BY <2>4 DEF ControllerInv, CmdShape
    <3>4. CASE cmd.bit + 1 < CmdBits
      <4>1. cmd' = [c EXCEPT !.bit = cmd.bit + 1]
        BY <1>1, <2>1, <2>2, <2>4, <3>1, <3>3, <3>4 DEF Sd!Counted
      <4> QED BY <1>1, <1>5, <2>2, <4>1, <2>4, <3>1, <3>3, <3>4 DEF CmdCounts
    <3>5. CASE cmd.bit + 1 = CmdBits
      <4>1. cmd' = Sd!CmdSent(c)
        BY <1>1, <2>1, <2>2, <2>4, <3>1, <3>3, <3>5 DEF Sd!Counted
      <4>2. FirstBits[command.rmode] \in 4 .. RespBits
        BY <3>2
      <4>3. Sd!FirstCount(command.rmode) \in Nat /\ Sd!Registered(command.rmode) \in 0 .. 5
        BY <3>2, <4>2 DEF Sd!FirstCount, Sd!Registered
      <4> DEFINE count == Sd!FirstCount(command.rmode)
                 regs == Sd!Registered(command.rmode)
                 reading == command.dmode = "R"
      <4> HIDE DEF count, regs, reading
      <4>4. cmd' = [c EXCEPT !.oe = FALSE, !.start_dat = reading, !.word = regs, !.bit = count,
                             !.state = "WAIT_RESP"]
        BY <3>2, <4>1 DEF Sd!CmdSent, count, regs, reading
      <4>5. reading \in BOOLEAN
        BY DEF reading
      <4>6. /\ cmd' \in CmdRecord /\ cmd'.state = "WAIT_RESP" /\ cmd'.bit = count
                 /\ cmd'.word = regs
            /\ cmd'.start_dat = reading /\ ~cmd'.oe
            /\ cmd'.clk_req = cmd.clk_req /\ cmd'.clk_stall = cmd.clk_stall
        <5> count \in Nat /\ regs \in 0 .. 5
          BY <4>3 DEF count, regs
        <5> QED BY <1>1, <2>2, <4>4, <4>5
      <4>7. CmdWaits
        BY <2>4, <3>1, <3>5, <4>6 DEF CmdWaits, count, regs, reading
      <4> QED BY <1>1, <1>5, <2>4, <4>6, <4>7
    <3> QED BY <3>3, <3>4, <3>5, <1>1
  <2>5. CASE cmd.state = "WAIT_RESP"
    BY <1>1, <2>1, <2>2, <1>5, <2>5 DEF Sd!CmdWaits, CmdHolds, CmdResponds
  <2>6. CASE cmd.state = "READ_RESP"
    <3>1. Sd!sd_clk_en
      BY <2>6, ClockRuns
    <3>2. cmd.bit < RespBits /\ cmd.word \in 1 .. 5
      <4>1. cmd.bit < RespBits /\ cmd.word \in 1 .. Sd!Registered(command.rmode)
        BY <2>6 DEF ControllerInv, CmdShape
      <4> QED BY <4>1 DEF Sd!Registered
    <3>3. CASE cmd.bit + 1 < RespBits
      <4>1. cmd' = [c EXCEPT !.bit = cmd.bit + 1]
        BY <1>1, <2>1, <2>2, <2>6, <3>1, <3>2, <3>3 DEF Sd!Counted
      <4> QED BY <1>1, <1>5, <2>2, <4>1, <2>6, <3>1, <3>2, <3>3 DEF CmdCounts
    <3>4. CASE cmd.bit + 1 = RespBits
      <4>1. cmd' = Sd!CmdRegRead(c)
        BY <1>1, <2>1, <2>2, <2>6, <3>1, <3>2, <3>4 DEF Sd!Counted
      <4>2. cmd' = [c EXCEPT !.bit = 0, !.word = cmd.word - 1, !.clk_stall = TRUE,
                             !.state = "REGOUT"]
        BY <1>1, <2>2, <4>1 DEF Sd!CmdRegRead
      <4>3. /\ cmd' \in CmdRecord /\ cmd'.state = "REGOUT" /\ cmd'.bit = 0
            /\ cmd'.word = cmd.word - 1 /\ ~cmd'.start_dat /\ cmd'.clk_stall
            /\ cmd'.clk_req = cmd.clk_req /\ cmd'.oe = cmd.oe
        <5> DEFINE w == cmd.word - 1
        <5>1. w \in 0 .. 5
          BY <3>2
        <5> HIDE DEF w
        <5>2. cmd' = [c EXCEPT !.bit = 0, !.word = w, !.clk_stall = TRUE, !.state = "REGOUT"]
          BY <4>2 DEF w
        <5>3. cmd'.word = w /\ cmd' \in CmdRecord
          BY <1>1, <2>2, <5>1, <5>2
        <5> QED BY <1>1, <2>2, <5>2, <5>3 DEF w
      <4> QED BY <1>1, <1>5, <2>6, <3>1, <3>4, <4>3 DEF CmdOffers
    <3> QED BY <3>2, <3>3, <3>4, <1>1
  <2>7. CASE cmd.state = "REGOUT"
    <3>1. CASE "CMD_RESP" \in ctrl
      BY <1>1, <2>1, <2>2, <1>5, <2>7, <3>1 DEF Sd!CmdHandsOver, CmdHolds
    <3>2. CASE "CMD_RESP" \notin ctrl /\ cmd.word # 0
      BY <1>1, <2>1, <2>2, <1>5, <2>7, <3>2 DEF Sd!CmdHandsOver, Sd!CmdAcked, CmdReadsOn
    <3>3. CASE "CMD_RESP" \notin ctrl /\ cmd.word = 0
      <4> DEFINE starts == command.dmode \in {"W", "BUSY"}
      <4>1. starts \in BOOLEAN
        OBVIOUS
      <4> HIDE DEF starts
      <4>2. cmd' = [c EXCEPT !.clk_stall = FALSE, !.start_dat = starts, !.state = "TAIL"]
        BY <2>1, <2>2, <2>7, <3>3 DEF Sd!CmdHandsOver, Sd!CmdAcked, starts
      <4>3. /\ cmd' \in CmdRecord /\ cmd'.state = "TAIL" /\ cmd'.bit = cmd.bit /\ cmd'.word = 0
            /\ cmd'.start_dat = starts /\ ~cmd'.clk_stall
            /\ cmd'.clk_req = cmd.clk_req /\ cmd'.oe = cmd.oe
        BY <1>1, <2>2, <3>3, <4>1, <4>2
      <4>4. CmdTrails
        BY <2>7, <3>3, <4>3 DEF CmdTrails, starts
      <4> QED BY <1>1, <1>5, <2>7, <4>3, <4>4
    <3> QED BY <3>1, <3>2, <3>3
  <2>8. CASE cmd.state = "TAIL"
    <3>1. cmd.bit < TailBits
      BY <2>8 DEF ControllerInv, CmdShape
    <3>2. CASE ~Sd!sd_clk_en
      <4>1. cmd' = c
        BY <2>1, <2>2, <2>8, <3>2 DEF Sd!Counted
      <4> QED BY <1>1, <1>5, <2>2, <4>1, <2>8, <3>2 DEF CmdHolds
    <3>3. CASE Sd!sd_clk_en /\ cmd.bit + 1 < TailBits
      <4>1. cmd' = [c EXCEPT !.bit = cmd.bit + 1]
        BY <1>1, <2>1, <2>2, <2>8, <3>1, <3>3 DEF Sd!Counted
      <4> QED BY <1>1, <1>5, <2>2, <4>1, <2>8, <3>1, <3>3 DEF CmdCounts
    <3>4. CASE Sd!sd_clk_en /\ cmd.bit + 1 = TailBits
      <4>1. cmd' = [c EXCEPT !.clk_req = FALSE, !.state = "IDLE"]
        BY <1>1, <2>1, <2>2, <2>8, <3>1, <3>4 DEF Sd!Counted
      <4> QED BY <1>1, <1>5, <2>2, <4>1, <2>8, <3>1, <3>4 DEF CmdEnds
    <3> QED BY <3>1, <3>2, <3>3, <3>4, <1>1
  <2> QED BY <1>1, <2>3, <2>4, <2>5, <2>6, <2>7, <2>8
<1> QED BY <1>4, <1>5

-----------------------------------------------------------------------------
(* What the data state machine does at a strobe. *)

DatResets == "RST" \in ctrl /\ dat'.state = "IDLE"
DatWaits == /\ dat.state = "IDLE" /\ (~cmd.start_dat \/ command.dmode = "NONE")
            /\ dat'.state = "IDLE"
DatStarts == /\ dat.state = "IDLE" /\ cmd.start_dat
             /\ \/ command.dmode = "R" /\ dat'.state = "WAIT_BLOCK"
                \/ command.dmode = "BUSY" /\ dat'.state = "WAIT_BUSY"
                \/ command.dmode = "W" /\ dat'.state = "WRITE_REGIN"
DatTails == /\ dat.state = "TAIL"
            /\ \/ ~Sd!sd_clk_en /\ dat'.state = "TAIL" /\ dat'.bit = dat.bit
               \/ Sd!sd_clk_en /\ dat.bit + 1 < TailBits /\ dat'.state = "TAIL"
                    /\ dat'.bit = dat.bit + 1
               \/ Sd!sd_clk_en /\ dat.bit + 1 = TailBits /\ dat'.state = "IDLE"
DatBusy == /\ dat.state = "WAIT_BUSY" /\ ~command.abrt
           /\ \/ dat'.state = "WAIT_BUSY"
              \/ ~Card!low /\ dat'.state = "TAIL" /\ dat'.bit = 0
DatAborts == (Moving \/ dat.state = "WAIT_BUSY") /\ command.abrt /\ dat'.state = "TAIL"
  /\ dat'.bit = 0
DatMoves == Moving /\ ~command.abrt /\ Moving'

(* One step from a state in which blocks are transferred. *)
LEMMA ReadSteps ==
  ASSUME NEW d, Shaped(d), NEW low \in BOOLEAN, NEW fits \in BOOLEAN,
         d.state \in {"WAIT_BLOCK", "READ_BLOCK", "REGOUT", "READ_CRC", "READ_FINISH"}
  PROVE  Shaped(Sd!ReadStep(d, low, fits)) /\ Busy(Sd!ReadStep(d, low, fits))
<1>0. /\ TailBits > 0 /\ Words > 0
      /\ WordBits \in Nat \ {0} /\ CrcBits \in Nat \ {0} /\ TailBits \in Nat \ {0}
      /\ \A w \in WordRange : w \in Nat /\ (w # 0 => w > 0) /\ (w > 0 => w - 1 \in WordRange)
  BY Constants DEF WordRange
<1>9. Words \in WordRange /\ 0 \in WordRange
  BY Constants DEF WordRange
<1> DEFINE e == Sd!ReadStep(d, low, fits)
<1> SUFFICES Shaped(e) /\ Busy(e)
  OBVIOUS
<1> DEFINE shorter == d.word - 1
<1>1. d \in DatRecord
  BY DEF Shaped
<1>2. CASE d.state = "WAIT_BLOCK"
  <2>1. e = IF Sd!sd_clk_en /\ low
            THEN [d EXCEPT !.state = "READ_BLOCK", !.bit = 0, !.word = Words] ELSE d
    BY <1>2 DEF Sd!ReadStep
  <2> HIDE DEF e
  <2>5. CASE e = d
    BY <1>2, <2>5 DEF Shaped, Busy
  <2>6. CASE e = [d EXCEPT !.state = "READ_BLOCK", !.bit = 0, !.word = Words]
    <3>1. e \in DatRecord
      BY <1>1, <1>9, <2>6 DEF DatRecord, DatStates
    <3>2. e.state = "READ_BLOCK" /\ e.word = Words
      BY <1>1, <1>2, <2>6 DEF DatRecord
    <3> QED BY <1>0, <1>9, <1>1, <1>2, <2>6, <3>1, <3>2 DEF Shaped, Busy
  <2> QED BY <2>1, <2>5, <2>6
<1>3. CASE d.state = "READ_BLOCK"
  <2>1. e = Sd!Counted(d, WordBits - 1, [d EXCEPT !.bit = 0, !.word = shorter, !.clk_stall = TRUE,
                                                  !.state = "REGOUT"])
    BY <1>1, <1>3 DEF Sd!ReadStep, DatRecord
  <2>2. shorter \in WordRange
    BY <1>0, <1>1, <1>3 DEF DatRecord, Shaped
  <2> HIDE DEF e, shorter
  <2>3. \/ e = d \/ e = [d EXCEPT !.bit = d.bit + 1]
        \/ e = [d EXCEPT !.bit = 0, !.word = shorter, !.clk_stall = TRUE, !.state = "REGOUT"]
    BY <1>1, <2>1 DEF Sd!Counted, DatRecord
  <2>5. CASE e = d
    BY <1>3, <2>5 DEF Shaped, Busy
  <2>6. CASE e = [d EXCEPT !.bit = d.bit + 1]
    <3>1. e \in DatRecord
      BY <1>1, <1>9, <2>2, <2>6 DEF DatRecord, DatStates
    <3>2. e.state = "READ_BLOCK" /\ e.word = d.word
      BY <1>1, <1>3, <2>6 DEF DatRecord
    <3> QED BY <1>0, <1>9, <1>1, <1>3, <2>2, <2>6, <3>1, <3>2 DEF Shaped, Busy
  <2>7. CASE e = [d EXCEPT !.bit = 0, !.word = shorter, !.clk_stall = TRUE, !.state = "REGOUT"]
    <3>1. e \in DatRecord
      BY <1>1, <1>9, <2>2, <2>7 DEF DatRecord, DatStates
    <3>2. e.state = "REGOUT"
      BY <1>1, <1>3, <2>7 DEF DatRecord
    <3> QED BY <1>0, <1>9, <1>1, <1>3, <2>2, <2>7, <3>1, <3>2 DEF Shaped, Busy
  <2> QED BY <2>3, <2>5, <2>6, <2>7
<1>4. CASE d.state = "REGOUT"
  <2>1. \/ e = d
        \/ d.word = 0 /\ e = [d EXCEPT !.clk_stall = FALSE, !.bit = 0, !.state = "READ_CRC"]
        \/ d.word # 0 /\ e = [d EXCEPT !.clk_stall = FALSE, !.bit = 0, !.state = "READ_BLOCK"]
    BY <1>4 DEF Sd!ReadStep
  <2> HIDE DEF e
  <2>5. CASE e = d
    BY <1>4, <2>5 DEF Shaped, Busy
  <2>6. CASE d.word = 0 /\ e = [d EXCEPT !.clk_stall = FALSE, !.bit = 0, !.state = "READ_CRC"]
    <3>1. e \in DatRecord
      BY <1>1, <1>9, <2>6 DEF DatRecord, DatStates
    <3>2. e.state = "READ_CRC"
      BY <1>1, <1>4, <2>6 DEF DatRecord
    <3> QED BY <1>0, <1>9, <1>1, <1>4, <2>6, <3>1, <3>2 DEF Shaped, Busy
  <2>7. CASE d.word # 0 /\ e = [d EXCEPT !.clk_stall = FALSE, !.bit = 0, !.state = "READ_BLOCK"]
    <3>1. e \in DatRecord
      BY <1>1, <1>9, <2>7 DEF DatRecord, DatStates
    <3>2. e.state = "READ_BLOCK" /\ e.word = d.word
      BY <1>1, <1>4, <2>7 DEF DatRecord
    <3>3. d.word > 0
      BY <1>0, <1>1, <2>7 DEF DatRecord
    <3> QED BY <1>0, <1>1, <3>3, <3>1, <3>2 DEF Shaped, Busy
  <2> QED BY <2>1, <2>5, <2>6, <2>7
<1>5. CASE d.state = "READ_CRC"
  <2>1. e = Sd!Counted(d, CrcBits - 1,
                       [d EXCEPT !.clk_stall = TRUE, !.rstn_reg = FALSE, !.state = "READ_FINISH"])
    BY <1>5 DEF Sd!ReadStep
  <2> HIDE DEF e
  <2>3. \/ e = d \/ e = [d EXCEPT !.bit = d.bit + 1]
        \/ e = [d EXCEPT !.clk_stall = TRUE, !.rstn_reg = FALSE, !.state = "READ_FINISH"]
    BY <1>1, <2>1 DEF Sd!Counted, DatRecord
  <2>5. CASE e = d
    BY <1>5, <2>5 DEF Shaped, Busy
  <2>6. CASE e = [d EXCEPT !.bit = d.bit + 1]
    <3>1. e \in DatRecord
      BY <1>1, <1>9, <2>6 DEF DatRecord, DatStates
    <3>2. e.state = "READ_CRC"
      BY <1>1, <1>5, <2>6 DEF DatRecord
    <3> QED BY <1>0, <1>9, <1>1, <1>5, <2>6, <3>1, <3>2 DEF Shaped, Busy
  <2>7. CASE e = [d EXCEPT !.clk_stall = TRUE, !.rstn_reg = FALSE, !.state = "READ_FINISH"]
    <3>1. e \in DatRecord
      BY <1>1, <1>9, <2>7 DEF DatRecord, DatStates
    <3>2. e.state = "READ_FINISH"
      BY <1>1, <1>5, <2>7 DEF DatRecord
    <3> QED BY <1>0, <1>9, <1>1, <1>5, <2>7, <3>1, <3>2 DEF Shaped, Busy
  <2> QED BY <2>3, <2>5, <2>6, <2>7
<1>6. CASE d.state = "READ_FINISH"
  <2>1. e = [d EXCEPT !.bit = 0, !.rstn_reg = TRUE, !.clk_stall = FALSE, !.crc_ok = fits,
                      !.block_done = TRUE, !.state = "WAIT_BLOCK"]
    BY <1>6 DEF Sd!ReadStep
  <2> HIDE DEF e
  <2>5. CASE e = [d EXCEPT !.bit = 0, !.rstn_reg = TRUE, !.clk_stall = FALSE, !.crc_ok = fits,
        !.block_done = TRUE, !.state = "WAIT_BLOCK"]
    <3>1. e \in DatRecord
      BY <1>1, <1>9, <2>5 DEF DatRecord, DatStates
    <3>2. e.state = "WAIT_BLOCK" /\ ~e.clk_stall
      BY <1>1, <1>6, <2>5 DEF DatRecord
    <3> QED BY <1>0, <1>9, <1>1, <1>6, <2>5, <3>1, <3>2 DEF Shaped, Busy
  <2> QED BY <2>1, <2>5
<1> QED BY <1>2, <1>3, <1>4, <1>5, <1>6

(* A step of the writing states leaves the registers of the data side well *)
(* shaped.                                                                 *)
LEMMA WriteSteps ==
  ASSUME NEW d, Shaped(d), NEW low \in BOOLEAN, NEW fits \in BOOLEAN,
         d.state \in {"WRITE_REGIN", "WRITE_START", "WRITE_DATA", "WRITE_CRC", "WRITE_STOP",
                      "WRITE_CHECK_CRC", "WRITE_BUSY", "WRITE_TAIL"}
  PROVE  Shaped(Sd!WriteStep(d, low, fits)) /\ Busy(Sd!WriteStep(d, low, fits))
<1>0. /\ TailBits > 0 /\ Words > 0
      /\ WordBits \in Nat \ {0} /\ CrcBits \in Nat \ {0} /\ TailBits \in Nat \ {0}
      /\ \A w \in WordRange : w \in Nat /\ (w # 0 => w > 0) /\ (w > 0 => w - 1 \in WordRange)
  BY Constants DEF WordRange
<1>9. Words \in WordRange /\ 0 \in WordRange
  BY Constants DEF WordRange
<1> DEFINE e == Sd!WriteStep(d, low, fits)
<1> SUFFICES Shaped(e) /\ Busy(e)
  OBVIOUS
<1> DEFINE shorter == d.word - 1
<1>1. d \in DatRecord
  BY DEF Shaped
<1>2. CASE d.state = "WRITE_REGIN"
  <2>1. \/ e = d
        \/ d.write_start /\ e = [d EXCEPT !.clk_stall = FALSE, !.bit = 0, !.omux = 0, !.oe = TRUE,
                                          !.state = "WRITE_START"]
        \/ ~d.write_start /\ e = [d EXCEPT !.clk_stall = FALSE, !.bit = 0, !.state = "WRITE_DATA"]
    BY <1>2 DEF Sd!WriteStep
  <2> HIDE DEF e
  <2>5. CASE e = d
    BY <1>2, <2>5 DEF Shaped, Busy
  <2>6. CASE d.write_start
          /\ e = [d EXCEPT !.clk_stall = FALSE, !.bit = 0, !.omux = 0, !.oe = TRUE,
             !.state = "WRITE_START"]
    <3>1. e \in DatRecord
      BY <1>1, <1>9, <2>6 DEF DatRecord, DatStates
    <3>2. e.state = "WRITE_START"
      BY <1>1, <1>2, <2>6 DEF DatRecord
    <3> QED BY <1>0, <1>9, <1>1, <1>2, <2>6, <3>1, <3>2 DEF Shaped, Busy
  <2>7. CASE ~d.write_start /\ e = [d EXCEPT !.clk_stall = FALSE, !.bit = 0, !.state = "WRITE_DATA"]
    <3>1. e \in DatRecord
      BY <1>1, <1>9, <2>7 DEF DatRecord, DatStates
    <3>2. e.state = "WRITE_DATA" /\ e.word = d.word
      BY <1>1, <1>2, <2>7 DEF DatRecord
    <3> QED BY <1>0, <1>9, <1>1, <1>2, <2>7, <3>1, <3>2 DEF Shaped, Busy
  <2> QED BY <2>1, <2>5, <2>6, <2>7
<1>3. CASE d.state = "WRITE_START"
  <2>1. \/ e = d
        \/ e = [d EXCEPT !.write_start = FALSE, !.omux = 2, !.shift = TRUE, !.word = Words,
                         !.state = "WRITE_DATA"]
    BY <1>3 DEF Sd!WriteStep
  <2> HIDE DEF e
  <2>5. CASE e = d
    BY <1>3, <2>5 DEF Shaped, Busy
  <2>6. CASE e = [d EXCEPT !.write_start = FALSE, !.omux = 2, !.shift = TRUE, !.word = Words,
        !.state = "WRITE_DATA"]
    <3>1. e \in DatRecord
      BY <1>1, <1>9, <2>6 DEF DatRecord, DatStates
    <3>2. e.state = "WRITE_DATA" /\ e.word = Words
      BY <1>1, <1>3, <2>6 DEF DatRecord
    <3> QED BY <1>0, <1>9, <1>1, <1>3, <2>6, <3>1, <3>2 DEF Shaped, Busy
  <2> QED BY <2>1, <2>5, <2>6
<1>4. CASE d.state = "WRITE_DATA"
  <2>1. e = Sd!Counted(d, WordBits - 1, Sd!WordSent(d))
    BY <1>4 DEF Sd!WriteStep
  <2>2. shorter \in WordRange /\ (d.word # 1 => shorter > 0)
    BY <1>0, <1>1, <1>4 DEF DatRecord, Shaped
  <2>3. Sd!WordSent(d) = IF d.word = 1
           THEN [d EXCEPT !.bit = 0, !.word = 0, !.omux = 3, !.state = "WRITE_CRC"]
           ELSE [d EXCEPT !.bit = 0, !.word = shorter, !.clk_stall = TRUE, !.state = "WRITE_REGIN"]
    BY <1>1 DEF Sd!WordSent, DatRecord
  <2> HIDE DEF e, shorter
  <2>4. \/ e = d \/ e = [d EXCEPT !.bit = d.bit + 1]
        \/ e = [d EXCEPT !.bit = 0, !.word = 0, !.omux = 3, !.state = "WRITE_CRC"]
        \/ /\ d.word # 1
           /\ e = [d EXCEPT !.bit = 0, !.word = shorter, !.clk_stall = TRUE,
              !.state = "WRITE_REGIN"]
    BY <1>1, <2>1, <2>3 DEF Sd!Counted, DatRecord
  <2>5. CASE e = d
    BY <1>4, <2>5 DEF Shaped, Busy
  <2>6. CASE e = [d EXCEPT !.bit = d.bit + 1]
    <3>1. e \in DatRecord
      BY <1>1, <1>9, <2>2, <2>6 DEF DatRecord, DatStates
    <3>2. e.state = "WRITE_DATA" /\ e.word = d.word
      BY <1>1, <1>4, <2>6 DEF DatRecord
    <3> QED BY <1>0, <1>9, <1>1, <1>4, <2>2, <2>6, <3>1, <3>2 DEF Shaped, Busy
  <2>7. CASE e = [d EXCEPT !.bit = 0, !.word = 0, !.omux = 3, !.state = "WRITE_CRC"]
    <3>1. e \in DatRecord
      BY <1>1, <1>9, <2>2, <2>7 DEF DatRecord, DatStates
    <3>2. e.state = "WRITE_CRC"
      BY <1>1, <1>4, <2>7 DEF DatRecord
    <3> QED BY <1>0, <1>9, <1>1, <1>4, <2>2, <2>7, <3>1, <3>2 DEF Shaped, Busy
  <2>8. CASE d.word # 1
          /\ e = [d EXCEPT !.bit = 0, !.word = shorter, !.clk_stall = TRUE, !.state = "WRITE_REGIN"]
    <3>1. e \in DatRecord
      BY <1>1, <1>9, <2>2, <2>8 DEF DatRecord, DatStates
    <3>2. e.state = "WRITE_REGIN" /\ e.word = shorter
      BY <1>1, <1>4, <2>8 DEF DatRecord
    <3> QED BY <1>0, <1>9, <1>1, <1>4, <2>2, <2>8, <3>1, <3>2 DEF Shaped, Busy
  <2> QED BY <2>4, <2>5, <2>6, <2>7, <2>8
<1>5. CASE d.state = "WRITE_CRC"
  <2>1. e = Sd!Counted(d, CrcBits - 1, [d EXCEPT !.bit = 0, !.omux = 1, !.state = "WRITE_STOP"])
    BY <1>5 DEF Sd!WriteStep
  <2> HIDE DEF e
  <2>3. \/ e = d \/ e = [d EXCEPT !.bit = d.bit + 1]
        \/ e = [d EXCEPT !.bit = 0, !.omux = 1, !.state = "WRITE_STOP"]
    BY <1>1, <2>1 DEF Sd!Counted, DatRecord
  <2>5. CASE e = d
    BY <1>5, <2>5 DEF Shaped, Busy
  <2>6. CASE e = [d EXCEPT !.bit = d.bit + 1]
    <3>1. e \in DatRecord
      BY <1>1, <1>9, <2>6 DEF DatRecord, DatStates
    <3>2. e.state = "WRITE_CRC"
      BY <1>1, <1>5, <2>6 DEF DatRecord
    <3> QED BY <1>0, <1>9, <1>1, <1>5, <2>6, <3>1, <3>2 DEF Shaped, Busy
  <2>7. CASE e = [d EXCEPT !.bit = 0, !.omux = 1, !.state = "WRITE_STOP"]
    <3>1. e \in DatRecord
      BY <1>1, <1>9, <2>7 DEF DatRecord, DatStates
    <3>2. e.state = "WRITE_STOP"
      BY <1>1, <1>5, <2>7 DEF DatRecord
    <3> QED BY <1>0, <1>9, <1>1, <1>5, <2>7, <3>1, <3>2 DEF Shaped, Busy
  <2> QED BY <2>3, <2>5, <2>6, <2>7
<1>6. CASE d.state = "WRITE_STOP"
  <2>1. e = d \/ e = [d EXCEPT !.oe = FALSE, !.state = "WRITE_CHECK_CRC"]
    BY <1>6 DEF Sd!WriteStep
  <2> HIDE DEF e
  <2>5. CASE e = d
    BY <1>6, <2>5 DEF Shaped, Busy
  <2>6. CASE e = [d EXCEPT !.oe = FALSE, !.state = "WRITE_CHECK_CRC"]
    <3>1. e \in DatRecord
      BY <1>1, <1>9, <2>6 DEF DatRecord, DatStates
    <3>2. e.state = "WRITE_CHECK_CRC"
      BY <1>1, <1>6, <2>6 DEF DatRecord
    <3> QED BY <1>0, <1>9, <1>1, <1>6, <2>6, <3>1, <3>2 DEF Shaped, Busy
  <2> QED BY <2>1, <2>5, <2>6
<1>7. CASE d.state = "WRITE_CHECK_CRC"
  <2>1. e = Sd!Counted(d, Sd!TokenEnd,
              [d EXCEPT !.bit = 0, !.write_start = TRUE, !.shift = FALSE, !.rstn_reg = FALSE,
                        !.crc_ok = fits, !.state = "WRITE_BUSY"])
    BY <1>7 DEF Sd!WriteStep
  <2> HIDE DEF e
  <2>3. \/ e = d \/ e = [d EXCEPT !.bit = d.bit + 1]
        \/ e = [d EXCEPT !.bit = 0, !.write_start = TRUE, !.shift = FALSE, !.rstn_reg = FALSE,
                         !.crc_ok = fits, !.state = "WRITE_BUSY"]
    BY <1>1, <2>1 DEF Sd!Counted, DatRecord
  <2>5. CASE e = d
    BY <1>7, <2>5 DEF Shaped, Busy
  <2>6. CASE e = [d EXCEPT !.bit = d.bit + 1]
    <3>1. e \in DatRecord
      BY <1>1, <1>9, <2>6 DEF DatRecord, DatStates
    <3>2. e.state = "WRITE_CHECK_CRC"
      BY <1>1, <1>7, <2>6 DEF DatRecord
    <3> QED BY <1>0, <1>9, <1>1, <1>7, <2>6, <3>1, <3>2 DEF Shaped, Busy
  <2>7. CASE e = [d EXCEPT !.bit = 0, !.write_start = TRUE, !.shift = FALSE, !.rstn_reg = FALSE,
        !.crc_ok = fits, !.state = "WRITE_BUSY"]
    <3>1. e \in DatRecord
      BY <1>1, <1>9, <2>7 DEF DatRecord, DatStates
    <3>2. e.state = "WRITE_BUSY" /\ e.write_start
      BY <1>1, <1>7, <2>7 DEF DatRecord
    <3> QED BY <1>0, <1>9, <1>1, <1>7, <2>7, <3>1, <3>2 DEF Shaped, Busy
  <2> QED BY <2>3, <2>5, <2>6, <2>7
<1>8. CASE d.state = "WRITE_BUSY"
  <2>1. e = d \/ e = [d EXCEPT !.block_done = TRUE, !.state = "WRITE_TAIL"]
    BY <1>8 DEF Sd!WriteStep
  <2> HIDE DEF e
  <2>5. CASE e = d
    BY <1>8, <2>5 DEF Shaped, Busy
  <2>6. CASE e = [d EXCEPT !.block_done = TRUE, !.state = "WRITE_TAIL"]
    <3>1. e \in DatRecord
      BY <1>1, <1>9, <2>6 DEF DatRecord, DatStates
    <3>2. e.state = "WRITE_TAIL" /\ e.write_start
      BY <1>1, <1>8, <2>6 DEF DatRecord, Shaped
    <3> QED BY <1>0, <1>9, <1>1, <1>8, <2>6, <3>1, <3>2 DEF Shaped, Busy
  <2> QED BY <2>1, <2>5, <2>6
<1>10. CASE d.state = "WRITE_TAIL"
  <2>1. e = Sd!Counted(d, TailBits - 1,
              [d EXCEPT !.bit = 0, !.clk_stall = TRUE, !.rstn_reg = TRUE, !.state = "WRITE_REGIN"])
    BY <1>10 DEF Sd!WriteStep
  <2> HIDE DEF e
  <2>3. \/ e = d \/ e = [d EXCEPT !.bit = d.bit + 1]
        \/ e = [d EXCEPT !.bit = 0, !.clk_stall = TRUE, !.rstn_reg = TRUE, !.state = "WRITE_REGIN"]
    BY <1>1, <2>1 DEF Sd!Counted, DatRecord
  <2>5. CASE e = d
    BY <1>10, <2>5 DEF Shaped, Busy
  <2>6. CASE e = [d EXCEPT !.bit = d.bit + 1]
    <3>1. e \in DatRecord
      BY <1>1, <1>9, <2>6 DEF DatRecord, DatStates
    <3>2. e.state = "WRITE_TAIL" /\ e.write_start
      BY <1>1, <1>10, <2>6 DEF DatRecord, Shaped
    <3> QED BY <1>0, <1>9, <1>1, <1>10, <2>6, <3>1, <3>2 DEF Shaped, Busy
  <2>7. CASE e = [d EXCEPT !.bit = 0, !.clk_stall = TRUE, !.rstn_reg = TRUE,
        !.state = "WRITE_REGIN"]
    <3>1. e \in DatRecord
      BY <1>1, <1>9, <2>7 DEF DatRecord, DatStates
    <3>2. e.state = "WRITE_REGIN" /\ e.write_start = d.write_start
      BY <1>1, <1>10, <2>7 DEF DatRecord, Shaped
    <3> QED BY <1>0, <1>9, <1>1, <1>10, <2>7, <3>1, <3>2 DEF Shaped, Busy
  <2> QED BY <2>3, <2>5, <2>6, <2>7
<1> QED BY <1>2, <1>3, <1>4, <1>5, <1>6, <1>7, <1>8, <1>10

(* One strobe of the data state machine. *)
DatMove == DatWaits \/ DatStarts \/ DatTails \/ DatBusy \/ DatAborts \/ DatMoves

(* At a strobe the data state machine makes one of these moves. *)
LEMMA DatSteps ==
  ASSUME ControllerInv, NEW acc, NEW fits \in BOOLEAN, Edge(acc, fits), clkstrb
  PROVE  /\ DatShape'
         /\ dat'.block_done => Moving /\ "RST" \notin ctrl
         /\ DatResets \/ ("RST" \notin ctrl /\ DatMove)
<1> DEFINE d == [dat EXCEPT !.block_done = FALSE]
           low == Card!low
           e == Sd!DatStep(d, low, fits)
<1>0. TailBits \in Nat \ {0} /\ TailBits > 0 /\ Words \in WordRange /\ 0 \in WordRange
  BY Constants DEF WordRange
<1>1. /\ Shaped(dat) /\ dat \in DatRecord /\ command.dmode \in DataModes /\ low \in BOOLEAN
      /\ command.abrt \in BOOLEAN
  BY DEF ControllerInv, Types, Formed, CommandSet, DatShape, Shaped, Card!low
<1>2. /\ d \in DatRecord /\ ~d.block_done
      /\ d.state = dat.state /\ d.bit = dat.bit /\ d.word = dat.word
      /\ d.clk_stall = dat.clk_stall /\ d.write_start = dat.write_start
  BY <1>1 DEF DatRecord
<1>3. Shaped(d)
  BY <1>1, <1>2 DEF Shaped
<1>4. dat' = IF "RST" \in ctrl THEN Sd!DatReset ELSE Sd!Aborted(e)
  BY DEF Edge, Sd!Clock, Sd!DatFsm
<1>5. /\ Shaped(e)
      /\ e.block_done => Moving
      /\ dat.state = "IDLE" => e.state = "IDLE" \/ cmd.start_dat
      /\ dat.state = "IDLE" /\ (~cmd.start_dat \/ command.dmode = "NONE") => e.state = "IDLE"
      /\ dat.state = "IDLE" /\ cmd.start_dat =>
           \/ command.dmode = "NONE"
           \/ command.dmode = "R" /\ e.state = "WAIT_BLOCK"
           \/ command.dmode = "BUSY" /\ e.state = "WAIT_BUSY"
           \/ command.dmode = "W" /\ e.state = "WRITE_REGIN"
      /\ dat.state = "TAIL" =>
           \/ ~Sd!sd_clk_en /\ e.state = "TAIL" /\ e.bit = dat.bit
           \/ Sd!sd_clk_en /\ dat.bit + 1 < TailBits /\ e.state = "TAIL" /\ e.bit = dat.bit + 1
           \/ Sd!sd_clk_en /\ dat.bit + 1 = TailBits /\ e.state = "IDLE"
      /\ dat.state = "WAIT_BUSY" => \/ e.state = "WAIT_BUSY"
                                    \/ ~low /\ e.state = "TAIL" /\ e.bit = 0
      /\ Moving => Busy(e)
  <2> HIDE DEF d, low
  <2>1. CASE dat.state = "IDLE" /\ (~cmd.start_dat \/ command.dmode = "NONE")
    <3>1. e = d
      BY <1>2, <2>1 DEF Sd!DatStep, Sd!DatStart
    <3> QED BY <1>2, <1>3, <2>1, <3>1 DEF Moving, Busy
  <2>2. CASE dat.state = "IDLE" /\ cmd.start_dat /\ command.dmode = "R"
    <3>1. e = [d EXCEPT !.clk_req = TRUE, !.shift = TRUE, !.rstn_reg = TRUE,
                        !.state = "WAIT_BLOCK"]
      BY <1>2, <2>2 DEF Sd!DatStep, Sd!DatStart
    <3> HIDE DEF e
    <3>2. e \in DatRecord
      BY <1>2, <3>1 DEF DatRecord, DatStates
    <3>3. e.state = "WAIT_BLOCK" /\ ~e.block_done /\ e.clk_stall = dat.clk_stall
      BY <1>2, <3>1 DEF DatRecord
    <3> QED BY <1>1, <2>2, <3>2, <3>3 DEF Shaped, Moving, Busy
  <2>3. CASE dat.state = "IDLE" /\ cmd.start_dat /\ command.dmode = "BUSY"
    <3>1. e = [d EXCEPT !.clk_req = TRUE, !.state = "WAIT_BUSY"]
      BY <1>2, <2>3 DEF Sd!DatStep, Sd!DatStart
    <3> HIDE DEF e
    <3>2. e \in DatRecord
      BY <1>2, <3>1 DEF DatRecord, DatStates
    <3>3. e.state = "WAIT_BUSY" /\ ~e.block_done /\ e.clk_stall = dat.clk_stall
      BY <1>2, <3>1 DEF DatRecord
    <3> QED BY <1>1, <2>3, <3>2, <3>3 DEF Shaped, Moving, Busy
  <2>4. CASE dat.state = "IDLE" /\ cmd.start_dat /\ command.dmode = "W"
    <3>1. e = [d EXCEPT !.write_start = TRUE, !.clk_req = TRUE, !.clk_stall = TRUE,
                        !.rstn_reg = TRUE, !.state = "WRITE_REGIN"]
      BY <1>2, <2>4 DEF Sd!DatStep, Sd!DatStart
    <3> HIDE DEF e
    <3>2. e \in DatRecord
      BY <1>2, <3>1 DEF DatRecord, DatStates
    <3>3. e.state = "WRITE_REGIN" /\ ~e.block_done /\ e.write_start
      BY <1>2, <3>1 DEF DatRecord
    <3> QED BY <1>1, <2>4, <3>2, <3>3 DEF Shaped, Moving, Busy
  <2>5. CASE dat.state = "TAIL"
    <3>1. e = Sd!Counted(d, TailBits - 1, [d EXCEPT !.clk_req = FALSE, !.state = "IDLE"])
      BY <1>2, <2>5 DEF Sd!DatStep
    <3> HIDE DEF e
    <3>2. dat.bit \in Nat /\ dat.bit < TailBits
      BY <1>1, <2>5 DEF Shaped, DatRecord
    <3>3. CASE ~Sd!sd_clk_en
      <4>1. e = d
        BY <3>1, <3>3 DEF Sd!Counted
      <4> QED BY <1>2, <1>3, <2>5, <3>3, <4>1 DEF Moving, Busy
    <3>4. CASE Sd!sd_clk_en /\ dat.bit + 1 < TailBits
      <4>1. e = [d EXCEPT !.bit = d.bit + 1]
        BY <1>0, <1>2, <3>1, <3>2, <3>4 DEF Sd!Counted
      <4>2. e \in DatRecord
        BY <1>2, <3>2, <4>1 DEF DatRecord
      <4>3. e.state = "TAIL" /\ e.bit = dat.bit + 1 /\ ~e.block_done /\ e.clk_stall = dat.clk_stall
        BY <1>2, <2>5, <4>1 DEF DatRecord
      <4> QED BY <1>1, <2>5, <3>4, <4>2, <4>3 DEF Shaped, Moving, Busy
    <3>5. CASE Sd!sd_clk_en /\ dat.bit + 1 = TailBits
      <4>1. e = [d EXCEPT !.clk_req = FALSE, !.state = "IDLE"]
        BY <1>0, <1>2, <3>1, <3>2, <3>5 DEF Sd!Counted
      <4>2. e \in DatRecord
        BY <1>2, <4>1 DEF DatRecord, DatStates
      <4>3. e.state = "IDLE" /\ ~e.block_done /\ e.clk_stall = dat.clk_stall
        BY <1>2, <4>1 DEF DatRecord
      <4> QED BY <1>1, <2>5, <3>5, <4>2, <4>3 DEF Shaped, Moving, Busy
    <3> QED BY <1>0, <3>2, <3>3, <3>4, <3>5
  <2>6. CASE dat.state = "WAIT_BUSY"
    <3>1. e = IF Sd!sd_clk_en /\ ~low THEN [d EXCEPT !.state = "TAIL", !.bit = 0] ELSE d
      BY <1>2, <2>6 DEF Sd!DatStep
    <3> HIDE DEF e
    <3>2. CASE e = d
      BY <1>2, <1>3, <2>6, <3>2 DEF Moving, Busy
    <3>3. CASE ~low /\ e = [d EXCEPT !.state = "TAIL", !.bit = 0]
      <4>2. e \in DatRecord
        BY <1>2, <3>3 DEF DatRecord, DatStates
      <4>3. e.state = "TAIL" /\ e.bit = 0 /\ ~e.block_done /\ e.clk_stall = dat.clk_stall
        BY <1>2, <3>3 DEF DatRecord
      <4> QED BY <1>0, <1>1, <2>6, <3>3, <4>2, <4>3 DEF Shaped, Moving, Busy
    <3> QED BY <3>1, <3>2, <3>3
  <2>7. CASE dat.state \in {"WAIT_BLOCK", "READ_BLOCK", "REGOUT", "READ_CRC", "READ_FINISH"}
    <3>1. e = Sd!ReadStep(d, low, fits)
      BY <1>2, <2>7 DEF Sd!DatStep
    <3>2. Shaped(e) /\ Busy(e)
      BY <1>1, <1>2, <1>3, <2>7, <3>1, ReadSteps
    <3> QED BY <2>7, <3>2 DEF Moving, Busy
  <2>8. CASE dat.state \in {"WRITE_REGIN", "WRITE_START", "WRITE_DATA", "WRITE_CRC", "WRITE_STOP",
                            "WRITE_CHECK_CRC", "WRITE_BUSY", "WRITE_TAIL"}
    <3>1. e = Sd!WriteStep(d, low, fits)
      BY <1>2, <2>8 DEF Sd!DatStep
    <3>2. Shaped(e) /\ Busy(e)
      BY <1>1, <1>2, <1>3, <2>8, <3>1, WriteSteps
    <3> QED BY <2>8, <3>2 DEF Moving, Busy
  <2>9. dat.state \in DatStates
    BY <1>1 DEF DatRecord
  <2> QED BY <1>1, <2>1, <2>2, <2>3, <2>4, <2>5, <2>6, <2>7, <2>8, <2>9 DEF DatStates, DataModes
<1> HIDE DEF d, low, e
<1>6. CASE "RST" \in ctrl
  <2>1. dat' = Sd!DatReset
    BY <1>4, <1>6
  <2>2. dat' \in DatRecord /\ dat'.state = "IDLE" /\ ~dat'.block_done /\ ~dat'.clk_stall
    BY <1>0, <2>1 DEF Sd!DatReset, DatRecord, DatStates
  <2> QED BY <1>6, <2>2 DEF DatShape, Shaped, DatResets
<1>7. CASE "RST" \notin ctrl /\ command.abrt /\ dat.state \notin {"IDLE", "TAIL"}
  <2>1. dat' = [e EXCEPT !.rstn_reg = FALSE, !.shift = FALSE, !.clk_stall = FALSE, !.bit = 0,
                         !.state = "TAIL"]
    BY <1>4, <1>7 DEF Sd!Aborted
  <2>2. dat' \in DatRecord
    BY <1>5, <2>1 DEF DatRecord, DatStates, Shaped
  <2>3. /\ dat'.state = "TAIL" /\ dat'.bit = 0 /\ ~dat'.clk_stall
        /\ dat'.block_done = e.block_done
    BY <1>5, <2>1 DEF DatRecord, Shaped
  <2> QED BY <1>0, <1>5, <1>7, <2>2, <2>3 DEF DatShape, Shaped, DatMove, DatAborts, Moving, Busy
<1>8. CASE "RST" \notin ctrl /\ ~(command.abrt /\ dat.state \notin {"IDLE", "TAIL"})
  <2>1. dat' = e
    BY <1>4, <1>8 DEF Sd!Aborted
  <2>2. DatMove
    <3>1. CASE dat.state = "IDLE"
      BY <1>5, <2>1, <3>1 DEF DatMove, DatWaits, DatStarts
    <3>2. CASE dat.state = "TAIL"
      BY <1>5, <2>1, <3>2 DEF DatMove, DatTails
    <3>3. CASE dat.state = "WAIT_BUSY"
      BY <1>5, <1>8, <2>1, <3>3 DEF DatMove, DatBusy, low
    <3>4. CASE Moving
      BY <1>5, <1>8, <2>1, <3>4 DEF DatMove, DatMoves, Moving, Busy
    <3> QED BY <3>1, <3>2, <3>3, <3>4 DEF Moving, Busy
  <2> QED BY <1>5, <1>8, <2>1, <2>2 DEF DatShape
<1> QED BY <1>6, <1>7, <1>8

-----------------------------------------------------------------------------
(* The types. *)

(* The command register changes when the driver writes it; a strobe takes  *)
(* its commit bit.                                                         *)
LEMMA CommandMoves ==
  ASSUME Types, NEW acc, NEW fits, Edge(acc, fits), Permitted(acc)
  PROVE  /\ Formed(command')
         /\ Sd!Writes(acc, "CMD") => ~Active /\ command' = acc.data
         /\ ~Sd!Writes(acc, "CMD") =>
              /\ command'.idx = command.idx /\ command'.dmode = command.dmode
              /\ command'.rmode = command.rmode /\ command'.abrt = command.abrt
              /\ command'.commit <=> command.commit /\ ~clkstrb
         /\ "idle_cmd" \in status_last' <=> cmd.state = "IDLE"
         /\ "resp_cmd" \in status_last' <=> cmd.state = "REGOUT"
         /\ "idle_dat" \in status_last' <=> dat.state = "IDLE"
         /\ status_last' \subseteq {"idle_cmd", "resp_cmd", "idle_dat", "data_dat"}
<1>1. command' = Sd!CommandNext(acc) /\ status_last' = Sd!Status
  BY Tops
<1>2. /\ "idle_cmd" \in status_last' <=> cmd.state = "IDLE"
      /\ "resp_cmd" \in status_last' <=> cmd.state = "REGOUT"
      /\ "idle_dat" \in status_last' <=> dat.state = "IDLE"
      /\ status_last' \subseteq {"idle_cmd", "resp_cmd", "idle_dat", "data_dat"}
  BY <1>1 DEF Sd!Status, Sd!status_idle_cmd, Sd!status_resp_cmd, Sd!status_idle_dat
<1>3. command \in CommandSet /\ Formed(command)
  BY DEF Types, Formed
<1>4. CASE Sd!Writes(acc, "CMD")
  BY <1>1, <1>2, <1>4 DEF Sd!CommandNext, Permitted, Sd!Writes
<1>5. CASE ~Sd!Writes(acc, "CMD") /\ ~clkstrb
  BY <1>1, <1>2, <1>3, <1>5 DEF Sd!CommandNext
<1>6. CASE ~Sd!Writes(acc, "CMD") /\ clkstrb
  <2>1. command' = [command EXCEPT !.commit = FALSE]
    BY <1>1, <1>6 DEF Sd!CommandNext
  <2>2. /\ command' \in CommandSet /\ ~command'.commit
        /\ command'.idx = command.idx /\ command'.dmode = command.dmode
        /\ command'.rmode = command.rmode /\ command'.abrt = command.abrt
    BY <1>3, <2>1 DEF CommandSet
  <2>3. Formed(command')
    BY <1>3, <2>2 DEF Formed
  <2> QED BY <1>2, <1>6, <2>2, <2>3
<1> QED BY <1>4, <1>5, <1>6

(* The shift register of commands and responses. *)
RegShifts == /\ cmd_reg'.idx = cmd_reg.idx /\ cmd_reg'.last = answer.bit
             /\ cmd_reg'.out = IF cmd_reg.out < CmdBits THEN cmd_reg.out + 1 ELSE cmd_reg.out

(* What a cycle does to the shift register of commands and responses. *)
LEMMA RegisterMoves ==
  ASSUME Types, NEW acc, NEW fits, Edge(acc, fits), Permitted(acc)
  PROVE  /\ cmd_reg' \in [idx : Indices, out : 0 .. CmdBits, last : Nat]
         /\ Sd!Writes(acc, "CMD") =>
              cmd_reg'.idx = command'.idx /\ cmd_reg'.out = 0 /\ cmd_reg'.last = 0
         /\ Active /\ clkstrb /\ Sd!sd_clk_en /\ cmd.clk_req => RegShifts
         /\ ~Sd!Writes(acc, "CMD") /\ ~(clkstrb /\ Sd!sd_clk_en /\ cmd.clk_req)
              => cmd_reg' = cmd_reg
         /\ ~Sd!Writes(acc, "CMD") => cmd_reg'.idx = cmd_reg.idx
<1>1. Sd!CmdShiftRegister(acc, answer.bit)
  BY DEF Edge, Sd!Clock, Card!cmd_o
<1>2. cmd_reg \in [idx : Indices, out : 0 .. CmdBits, last : Nat] /\ answer.bit \in Nat
  BY DEF Types
<1>3. CmdBits \in Nat
  BY Constants
<1>4. CASE Sd!Writes(acc, "CMD")
  <2>1. acc.data.idx \in Indices /\ command' = acc.data /\ ~Active
    BY <1>4, CommandMoves DEF Formed, CommandSet
  <2>2. cmd_reg' = [idx |-> acc.data.idx, out |-> 0, last |-> 0]
    BY <1>1, <1>4 DEF Sd!CmdShiftRegister
  <2> QED BY <1>3, <1>4, <2>1, <2>2
<1>5. CASE /\ ~Sd!Writes(acc, "CMD") /\ clkstrb /\ Sd!sd_clk_en /\ cmd.clk_req
           /\ ~Sd!Writes(acc, "CMDARG")
  <2> DEFINE next == IF cmd_reg.out < CmdBits THEN cmd_reg.out + 1 ELSE cmd_reg.out
  <2>1. next \in 0 .. CmdBits
    BY <1>2, <1>3
  <2>2. cmd_reg' = [cmd_reg EXCEPT !.out = next, !.last = answer.bit]
    BY <1>1, <1>2, <1>5 DEF Sd!CmdShiftRegister
  <2>3. cmd_reg' \in [idx : Indices, out : 0 .. CmdBits, last : Nat] /\ RegShifts
    <3>1. cmd_reg'.out = next
      <4> HIDE DEF next
      <4> QED BY <1>2, <2>2
    <3>2. cmd_reg'.idx = cmd_reg.idx /\ cmd_reg'.last = answer.bit
      <4> HIDE DEF next
      <4> QED BY <1>2, <2>2
    <3>3. cmd_reg' \in [idx : Indices, out : 0 .. CmdBits, last : Nat]
      <4> HIDE DEF next
      <4> QED BY <1>2, <2>1, <2>2
    <3> QED BY <3>1, <3>2, <3>3 DEF RegShifts
  <2> QED BY <1>5, <2>3 DEF RegShifts
<1>6. CASE /\ ~Sd!Writes(acc, "CMD")
           /\ ~(clkstrb /\ Sd!sd_clk_en /\ cmd.clk_req /\ ~Sd!Writes(acc, "CMDARG"))
  <2>1. cmd_reg' = cmd_reg
    BY <1>1, <1>6 DEF Sd!CmdShiftRegister
  <2>2. Active => ~Sd!Writes(acc, "CMDARG")
    BY DEF Permitted, Sd!Writes
  <2> QED BY <1>2, <1>6, <2>1, <2>2
<1> QED BY <1>4, <1>5, <1>6

(* The card. *)
CardTypes ==
  /\ rx \in 0 .. CmdBits - 1
  /\ answer \in [wait : Nat, bit : Nat, len : Nat]
  /\ task \in Tasks /\ n \in Nat /\ multi \in BOOLEAN

(* A rising edge keeps the variables of the card in their ranges. *)
LEMMA RiseTypes ==
  ASSUME CardTypes, NEW oe, NEW idx, NEW host, Card!Rise(oe, idx, host)
  PROVE  CardTypes'
<1> USE DEF CardTypes, Tasks
<1>1. CmdBits \in Nat \ {0} /\ DataDelays \subseteq Nat /\ RespDelays \subseteq Nat
  BY Constants, NeoSDAssumption
<1>2. CASE oe
  <2>1. Card!TakeCommandBit(idx)
    BY <1>2 DEF Card!Rise
  <2>2. CASE rx + 1 < CmdBits
    BY <1>1, <2>1, <2>2 DEF Card!TakeCommandBit
  <2>3. CASE ~(rx + 1 < CmdBits)
    <3>1. Card!Takes(idx) => task' \in Tasks /\ n' \in Nat /\ multi' \in BOOLEAN
      BY <1>1 DEF Card!Takes
    <3>2. Card!ResponseTo(idx) \in Nat
      BY Lengths, Constants DEF Card!ResponseTo
    <3>3. \A d \in RespDelays : [wait |-> d + 1, bit |-> 0, len |-> Card!ResponseTo(idx)]
                                   \in [wait : Nat, bit : Nat, len : Nat]
      BY <1>1, <3>2
    <3>4. Card!Silent \in [wait : Nat, bit : Nat, len : Nat]
      BY DEF Card!Silent
    <3>5. /\ rx' = 0
          /\ answer' = Card!Silent
               \/ answer' \in {[wait |-> d + 1, bit |-> 0,
                  len |-> Card!ResponseTo(idx)] : d \in RespDelays}
          /\ Card!Takes(idx) \/ UNCHANGED <<task, n, multi>>
      BY <2>1, <2>3 DEF Card!TakeCommandBit
    <3>6. answer' \in [wait : Nat, bit : Nat, len : Nat]
      BY <3>3, <3>4, <3>5
    <3> QED BY <1>1, <3>1, <3>5, <3>6
  <2> QED BY <2>2, <2>3
<1>3. CASE ~oe
  <2>1. Card!TakeDataBit(host)
    BY <1>3 DEF Card!Rise
  <2> QED BY <1>1, <2>1 DEF Card!TakeDataBit
<1> QED BY <1>2, <1>3

(* So does a falling edge. *)
LEMMA FallTypes ==
  ASSUME CardTypes, Card!Fall
  PROVE  CardTypes'
<1> USE DEF CardTypes
<1>1. DataDelays \subseteq Nat
  BY NeoSDAssumption
<1>2. answer' \in [wait : Nat, bit : Nat, len : Nat]
  <2>1. answer.wait > 0 => answer.wait - 1 \in Nat
    OBVIOUS
  <2>2. Card!Silent \in [wait : Nat, bit : Nat, len : Nat]
    BY DEF Card!Silent
  <2> DEFINE w == answer.wait - 1
             b == IF answer.wait = 1 THEN 1 ELSE 0
  <2>3. \/ answer.wait > 0 /\ answer' = [answer EXCEPT !.wait = w, !.bit = b]
        \/ answer' = [answer EXCEPT !.bit = answer.bit + 1]
        \/ answer' = Card!Silent
    BY DEF Card!Fall, Card!Respond
  <2>4. answer.wait > 0 => w \in Nat /\ b \in Nat
    BY <2>1
  <2> HIDE DEF w, b
  <2>5. CASE answer.wait > 0 /\ answer' = [answer EXCEPT !.wait = w, !.bit = b]
    BY <2>4, <2>5
  <2>6. CASE answer' = [answer EXCEPT !.bit = answer.bit + 1]
    BY <2>6
  <2> QED BY <2>2, <2>3, <2>5, <2>6
<1>3. task' \in Tasks /\ n' \in Nat
  <2>1. Card!Move
    BY DEF Card!Fall
  <2>2. DOMAIN Card!AfterWait = {"delay", "turn", "programs", "busy"}
        /\ \A t \in DOMAIN Card!AfterWait : Card!AfterWait[t] \in Tasks
    BY DEF Card!AfterWait, Tasks
  <2>3. n > 0 => n - 1 \in Nat
    OBVIOUS
  <2> QED BY <1>1, <2>1, <2>2, <2>3 DEF Card!Move, Tasks
<1> QED BY <1>2, <1>3 DEF Card!Fall

(* One cycle keeps all variables of the controller and the card in their   *)
(* ranges.                                                                 *)
LEMMA TypesStep ==
  ASSUME ControllerInv, NEW acc, NEW fits \in BOOLEAN, Edge(acc, fits), Permitted(acc)
  PROVE  Types'
<1>0. Types /\ Strobes
  BY DEF ControllerInv
<1>1. cnt' \in 0 .. Prescale - 1 /\ cdiv_cnt' \in 0 .. ClkDiv
  <2>1. /\ \A p \in Nat \ {0}, x \in Nat : x % p \in 0 .. p - 1
        /\ \A x, d \in Nat : (x + 1) % (d + 1) \in 0 .. d
    OBVIOUS
  <2>2. /\ cnt' = (cnt + 1) % Prescale
        /\ cdiv_cnt' = IF cnt = 0 THEN (cdiv_cnt + 1) % (ClkDiv + 1) ELSE cdiv_cnt
    BY DEF Edge, Sd!Clock, Sd!ClockGenerator
  <2>3. cnt + 1 \in Nat /\ cdiv_cnt + 1 \in Nat /\ cdiv_cnt \in 0 .. ClkDiv
        /\ Prescale \in Nat \ {0} /\ ClkDiv + 1 \in Nat \ {0} /\ ClkDiv + 1 - 1 = ClkDiv
    BY <1>0, Constants DEF Types
  <2>4. (cnt + 1) % Prescale \in 0 .. Prescale - 1
    BY <2>1, <2>3
  <2>5. (cdiv_cnt + 1) % (ClkDiv + 1) \in 0 .. ClkDiv
    <3>1. cdiv_cnt \in Nat /\ ClkDiv \in Nat
      BY Constants, <1>0 DEF Types
    <3> QED BY <2>1, <3>1, Zenon
  <2> QED BY <2>2, <2>3, <2>4, <2>5, Zenon
<1>2. {sd_clk_strb, sd_clk_cont, clkstrb, sd_clk}' \subseteq BOOLEAN
  <2>1. /\ sd_clk_strb' = (cnt = 0 /\ cdiv_cnt = ClkDiv)
        /\ sd_clk_cont' = (sd_clk_cont # sd_clk_strb)
        /\ sd_clk' = Sd!sd_clk_next
        /\ clkstrb' = (sd_clk_strb /\ sd_clk_cont)
    BY Zenon DEF Edge, Sd!Clock, Sd!ClockGenerator
  <2>2. Sd!sd_clk_next \in BOOLEAN
    BY <1>0 DEF Types, Sd!sd_clk_next
  <2> QED BY <2>1, <2>2
<1>3. ctrl' \subseteq Bits
  BY <1>0, CtrlMoves
<1>4. Formed(command') /\ status_last' \subseteq {"idle_cmd", "resp_cmd", "idle_dat", "data_dat"}
  BY <1>0, CommandMoves
<1>5. cmd' \in CmdRecord
  <2>1. CASE clkstrb
    BY <2>1, CmdMoves
  <2>2. CASE ~clkstrb
    BY <2>2, <1>0, StillBetween DEF Types
  <2> QED BY <2>1, <2>2
<1>6. cmd_reg' \in [idx : Indices, out : 0 .. CmdBits, last : Nat]
  BY <1>0, RegisterMoves
<1>7. dat_reg' \in [out : 0 .. Sd!BlockBits + 1, last : Nat]
  <2>1. Sd!DatShiftRegister(acc, Card!dat_o)
    BY DEF Edge, Sd!Clock
  <2>2. dat_reg \in [out : 0 .. Sd!BlockBits + 1, last : Nat] /\ Sd!BlockBits \in Nat
    BY <1>0, Constants DEF Types
  <2>3. Card!dat_o \in Nat
    BY <1>0 DEF Types, Card!dat_o
  <2>4. Sd!Writes(acc, "DATA") => acc.data \in 1 .. Sd!BlockBits
    BY DEF Permitted
  <2> QED BY <2>1, <2>2, <2>3, <2>4 DEF Sd!DatShiftRegister
<1>8. CardTypes'
  <2>1. CardTypes
    BY <1>0 DEF Types, CardTypes
  <2>2. CASE Card!Rise(cmd.oe, cmd_reg.idx, Sd!HostDat)
    BY <2>1, <2>2, RiseTypes
  <2>3. CASE Card!Fall
    BY <2>1, <2>3, FallTypes
  <2>4. CASE UNCHANGED <<rx, answer, multi>>
          /\ (UNCHANGED <<task, n>> \/ (task' = "idle" /\ n' = 0))
    BY <2>1, <2>4 DEF CardTypes, Tasks
  <2> QED BY <2>2, <2>3, <2>4 DEF Edge
<1> QED BY <1>1, <1>2, <1>3, <1>4, <1>5, <1>6, <1>7, <1>8 DEF Types, CardTypes

-----------------------------------------------------------------------------
(* The command state machine and the command register. *)

(* While a command is under way its register keeps its value but for the   *)
(* commit bit; a data phase that is about to start keeps it too.           *)
LEMMA ActiveKept ==
  ASSUME ControllerInv, NEW acc, NEW fits, Edge(acc, fits), Permitted(acc), Active \/ cmd.start_dat
  PROVE  /\ ~Sd!Writes(acc, "CMD")
         /\ command'.idx = command.idx /\ command'.dmode = command.dmode
         /\ command'.rmode = command.rmode /\ command'.abrt = command.abrt
         /\ command'.commit <=> command.commit /\ ~clkstrb
         /\ cmd_reg'.idx = cmd_reg.idx
<1>0. Types /\ Formed(command) /\ command.idx \in Indices
  BY DEF ControllerInv, Types, Formed, CommandSet
<1>1. CASE Active
  BY <1>0, <1>1, CommandMoves, RegisterMoves
<1>2. CASE ~Active /\ cmd.start_dat
  <2>1. cmd.state = "TAIL" /\ command.dmode \in {"W", "BUSY"}
    BY <1>2 DEF ControllerInv, CmdShape, Active
  <2>2. command.idx \notin {"READ", "none"}
    BY <1>0, <2>1 DEF Formed, PhasesOf
  <2>3. command.idx \in Flow => dat.state = "IDLE"
    BY <1>2 DEF ControllerInv, FlowInv
  <2>4. ~Sd!Writes(acc, "CMD")
    <3> SUFFICES ASSUME Sd!Writes(acc, "CMD") PROVE FALSE
      OBVIOUS
    <3>1. Formed(acc.data) /\ acc.data.idx \in Indices
      BY DEF Permitted, Formed, CommandSet
    <3>2. acc.data.idx # "none"
      BY <2>2 DEF Permitted
    <3>3. acc.data.idx # "STOP"
      BY <2>3 DEF Permitted
    <3>4. cmd.state = "IDLE"
      BY <3>1, <3>2, <3>3 DEF Permitted, Settled, Rests
    <3> QED BY <2>1, <3>4
  <2> QED BY <1>0, <2>4, CommandMoves, RegisterMoves
<1> QED BY <1>1, <1>2

(* A command starts by a write to its register. *)
LEMMA CommandStarts ==
  ASSUME ControllerInv, NEW acc, NEW fits, Edge(acc, fits), Permitted(acc), ~Active, Active'
  PROVE  /\ Sd!Writes(acc, "CMD") /\ command' = acc.data /\ command'.commit
         /\ cmd'.state = "IDLE" /\ ~cmd'.start_dat
         /\ command'.idx # "none"
<1>0. Types /\ cmd.state \in CmdStates
  BY DEF ControllerInv, Types, CmdRecord
<1>1. cmd.state \in {"IDLE", "TAIL"} /\ (cmd.state = "IDLE" => ~command.commit)
  BY <1>0 DEF Active, CmdStates
<1>2. /\ cmd'.state \in {"IDLE", "TAIL"}
      /\ cmd'.state = "IDLE" => cmd' = cmd \/ ~cmd'.start_dat
  <2>1. CASE clkstrb
    BY <1>1, <2>1, CmdMoves DEF CmdResets, CmdMove, CmdStarts, CmdHolds, CmdCounts, CmdWaits,
                                CmdResponds, CmdOffers,
              CmdReadsOn, CmdTrails, CmdEnds, CmdGoes, CmdQuiet
  <2>2. CASE ~clkstrb
    BY <1>1, <2>2, StillBetween
  <2> QED BY <2>1, <2>2
<1>3. cmd'.state = "IDLE" /\ command'.commit
  BY <1>2 DEF Active
<1>4. Sd!Writes(acc, "CMD")
  <2> SUFFICES ASSUME ~Sd!Writes(acc, "CMD") PROVE FALSE
    OBVIOUS
  <2>1. command.commit /\ ~clkstrb
    BY <1>0, <1>3, CommandMoves
  <2> QED BY <1>1, <1>3, <2>1, StillBetween
<1>5. command' = acc.data /\ Formed(command')
  BY <1>0, <1>4, CommandMoves
<1>6. cmd' = cmd => ~cmd'.start_dat
  BY <1>1, <1>3 DEF ControllerInv, CmdShape
<1> QED BY <1>2, <1>3, <1>4, <1>5, <1>6 DEF Formed

(* One cycle keeps the shape of the command registers. *)
LEMMA CmdShapeStep ==
  ASSUME ControllerInv, NEW acc, NEW fits, Edge(acc, fits), Permitted(acc)
  PROVE  CmdShape'
<1>0. Types /\ CmdShape /\ cmd.state \in CmdStates
  BY DEF ControllerInv, Types, CmdRecord
<1>1. /\ Active' => command'.idx # "none"
      /\ Active' /\ cmd'.state # "IDLE" => ~command'.commit
  <2>1. CASE Active /\ Active'
    <3>1. command'.idx = command.idx /\ (command'.commit <=> command.commit /\ ~clkstrb)
      BY <2>1, ActiveKept
    <3>2. cmd.state = "IDLE" /\ ~clkstrb => cmd'.state = "IDLE"
      BY StillBetween
    <3> QED BY <1>0, <2>1, <3>1, <3>2 DEF CmdShape
  <2>2. CASE ~Active /\ Active'
    BY <2>2, CommandStarts
  <2> QED BY <2>1, <2>2
<1>2. CASE ~clkstrb
  <2>1. cmd' = cmd
    BY <1>2, StillBetween
  <2>2. Active \/ cmd.start_dat =>
           command'.dmode = command.dmode /\ command'.rmode = command.rmode
    BY ActiveKept
  <2> QED BY <1>0, <1>1, <2>1, <2>2 DEF CmdShape, Active, Sd!FirstCount, Sd!Registered
<1>3. CASE clkstrb
  <2>1. CmdOutputs /\ cmd' \in CmdRecord
    BY <1>3, CmdMoves
  <2>2. /\ cmd'.clk_req = (cmd'.state # "IDLE")
        /\ cmd'.clk_stall = (cmd'.state = "REGOUT")
        /\ cmd'.oe = (cmd'.state = "WRITE")
    BY <2>1 DEF CmdOutputs, CmdRecord
  <2>3. Active => /\ command'.dmode = command.dmode /\ command'.rmode = command.rmode
                  /\ command'.idx = command.idx
    BY ActiveKept
  <2>4. /\ cmd'.start_dat => \/ cmd'.state = "WAIT_RESP" /\ command'.dmode = "R"
                             \/ cmd'.state = "TAIL" /\ cmd'.bit = 0
                                  /\ command'.dmode \in {"W", "BUSY"}
        /\ cmd'.state = "WRITE" => cmd'.bit < CmdBits
        /\ cmd'.state = "WAIT_RESP" => /\ cmd'.bit = Sd!FirstCount(command'.rmode)
                                       /\ cmd'.word = Sd!Registered(command'.rmode)
        /\ cmd'.state = "READ_RESP" =>
             cmd'.bit < RespBits /\ cmd'.word \in 1 .. Sd!Registered(command'.rmode)
        /\ cmd'.state = "REGOUT" => cmd'.bit = 0 /\ cmd'.word < Sd!Registered(command'.rmode)
        /\ cmd'.state \in {"IDLE", "TAIL"} => cmd'.bit < TailBits
    <3>1. /\ cmd.word \in 0 .. 5 /\ cmd.bit \in Nat
          /\ \A kind \in {"SHORT", "LONG"} :
               Sd!FirstCount(kind) \in Nat /\ Sd!FirstCount(kind) < RespBits
          /\ CmdBits > 0 /\ TailBits > 0 /\ RespBits > 0
      BY <1>0, Constants DEF Types, CmdRecord, Sd!FirstCount
    <3>2. Active => command.rmode \in {"SHORT", "LONG"} /\ Sd!Registered(command.rmode) \in 1 .. 5
      BY <1>0 DEF Types, Formed, CmdShape, Sd!Registered
    <3> USE DEF CmdGoes, CmdQuiet
    <3>3. CASE CmdResets
      BY <3>1, <3>3 DEF CmdResets
    <3>4. CASE CmdStarts
      BY <3>1, <3>4 DEF CmdStarts
    <3>5. CASE CmdHolds
      BY <1>0, <2>3, <3>5 DEF CmdHolds, CmdShape, Active, Sd!FirstCount, Sd!Registered
    <3>6. CASE CmdCounts
      BY <1>0, <2>3, <3>6 DEF CmdCounts, CmdShape, Active, Sd!Registered
    <3>7. CASE CmdWaits
      BY <2>3, <3>7 DEF CmdWaits, Active
    <3>8. CASE CmdResponds
      BY <1>0, <2>3, <3>1, <3>2, <3>8 DEF CmdResponds, CmdShape, Active
    <3>9. CASE CmdOffers
      BY <1>0, <2>3, <3>1, <3>2, <3>9 DEF CmdOffers, CmdShape, Active
    <3>10. CASE CmdReadsOn
      BY <1>0, <2>3, <3>1, <3>2, <3>10 DEF CmdReadsOn, CmdShape, Active
    <3>11. CASE CmdTrails
      BY <1>0, <2>3, <3>1, <3>11 DEF CmdTrails, CmdShape, Active
    <3>12. CASE CmdEnds
      BY <1>0, <3>1, <3>12 DEF CmdEnds, CmdShape
    <3> QED BY <1>3, CmdMoves, <3>3, <3>4, <3>5, <3>6, <3>7, <3>8, <3>9, <3>10, <3>11, <3>12
         DEF CmdMove
  <2> QED BY <1>1, <2>2, <2>4 DEF CmdShape
<1> QED BY <1>2, <1>3

-----------------------------------------------------------------------------
(* The command and its response, bit by bit. *)

(* The card moves its response. *)
LEMMA Responds ==
  ASSUME Types, Card!Fall
  PROVE  /\ answer = Card!Silent => answer' = Card!Silent
         /\ answer.wait > 0 /\ answer.bit = 0 =>
              /\ answer'.wait = answer.wait - 1 /\ answer'.len = answer.len
              /\ answer'.bit = IF answer.wait = 1 THEN 1 ELSE 0
         /\ answer.wait = 0 /\ answer.bit \in 1 .. answer.len - 1 =>
              answer'.wait = 0 /\ answer'.len = answer.len /\ answer'.bit = answer.bit + 1
         /\ answer.wait = 0 /\ answer.bit = answer.len => answer' = Card!Silent
         /\ task = "answer" /\ answer.bit # answer.len => task' = "answer"
         /\ rx' = rx
<1>1. answer \in [wait : Nat, bit : Nat, len : Nat]
  BY DEF Types
<1>2. /\ answer' = CASE answer.wait > 0 -> [answer EXCEPT !.wait = @ - 1,
                                                   !.bit = IF answer.wait = 1 THEN 1 ELSE 0]
                    [] answer.bit \in 1 .. answer.len - 1 -> [answer EXCEPT !.bit = @ + 1]
                    [] OTHER -> Card!Silent
      /\ Card!Move /\ rx' = rx
  BY DEF Card!Fall, Card!Respond
<1>3. answer = Card!Silent => answer' = Card!Silent
  BY <1>2 DEF Card!Silent
<1>4. CASE answer.wait > 0 /\ answer.bit = 0
  <2>1. answer' = [answer EXCEPT !.wait = answer.wait - 1,
                                 !.bit = IF answer.wait = 1 THEN 1 ELSE 0]
    BY <1>1, <1>2, <1>4
  <2>2. /\ answer'.wait = answer.wait - 1 /\ answer'.len = answer.len
        /\ answer'.bit = IF answer.wait = 1 THEN 1 ELSE 0
    BY <1>1, <2>1
  <2>3. task = "answer" /\ answer.bit # answer.len => task' = "answer"
    BY <1>2 DEF Card!Move, Card!AfterWait
  <2> QED BY <1>2, <1>3, <1>4, <2>2, <2>3
<1>5. CASE answer.wait = 0
  <2>1. answer.bit \in 1 .. answer.len - 1 => answer' = [answer EXCEPT !.bit = @ + 1]
    BY <1>1, <1>2, <1>5
  <2>2. answer.bit = answer.len => answer' = Card!Silent
    BY <1>1, <1>2, <1>5
  <2>3. task = "answer" /\ answer.bit # answer.len => task' = "answer"
    BY <1>2 DEF Card!Move, Card!AfterWait
  <2> QED BY <1>1, <1>2, <1>3, <1>5, <2>1, <2>2, <2>3
<1>6. CASE answer.wait > 0 /\ answer.bit # 0
  <2>3. task = "answer" /\ answer.bit # answer.len => task' = "answer"
    BY <1>2 DEF Card!Move, Card!AfterWait
  <2>4. answer # Card!Silent /\ answer.wait # 0
    BY <1>1, <1>6 DEF Card!Silent
  <2> QED BY <1>2, <1>6, <2>3, <2>4
<1> QED BY <1>1, <1>4, <1>5, <1>6

(* What a rising edge does to the command side of the card. *)
LEMMA Samples ==
  ASSUME ControllerInv, ~EarlyData, RisesNow
  PROVE  /\ cmd.state # "WRITE" => /\ rx' = rx /\ answer' = answer
                                   /\ task = "answer" => task' = "answer"
         /\ cmd.state = "WRITE" /\ rx + 1 < CmdBits => rx' = rx + 1 /\ answer' = answer
         /\ cmd.state = "WRITE" /\ rx + 1 = CmdBits =>
              /\ rx' = 0 /\ answer'.bit = 0
              /\ \/ command.idx \in {"SELECT", "ALL_SEND_CID"} /\ answer' = Card!Silent
                 \/ answer'.len = RespLen[command.rmode] /\ answer'.wait > 2 /\ answer'.bit = 0
              /\ command.dmode = "R" => task' = "answer"
<1>0. /\ Types /\ Formed(command) /\ cmd.oe = (cmd.state = "WRITE") /\ rx \in 0 .. CmdBits - 1
      /\ cmd.state = "WRITE" => cmd_reg.idx = command.idx /\ command.idx # "none"
      /\ CmdBits \in Nat /\ RespDelays \subseteq Nat \ {0, 1}
  BY Constants, NeoSDAssumption DEF ControllerInv, Types, CmdShape, Commanded, Active
<1>1. CASE cmd.state # "WRITE"
  <2>1. Card!TakeDataBit(Sd!HostDat)
    BY <1>0, <1>1 DEF RisesNow, Card!Rise
  <2> QED BY <1>1, <2>1 DEF Card!TakeDataBit
<1>2. CASE cmd.state = "WRITE"
  <2>1. Card!TakeCommandBit(command.idx)
    BY <1>0, <1>2 DEF RisesNow, Card!Rise
  <2>2. CASE rx + 1 < CmdBits
    BY <1>0, <1>2, <2>1, <2>2 DEF Card!TakeCommandBit
  <2>3. CASE rx + 1 = CmdBits
    <3>1. /\ rx' = 0
          /\ \/ /\ answer' \in {[wait |-> d + 1, bit |-> 0, len |-> Card!ResponseTo(command.idx)] :
                                  d \in RespDelays}
                /\ Card!Takes(command.idx)
             \/ command.idx \in {"SELECT", "ALL_SEND_CID"} /\ answer' = Card!Silent
      BY <2>1, <2>3, <1>0 DEF Card!TakeCommandBit
    <3>2. Card!ResponseTo(command.idx) = RespLen[command.rmode]
      BY <1>0, <1>2 DEF Card!ResponseTo, Formed
    <3>3. command.dmode = "R" => command.idx \in {"READ", "READ_MULTI"}
      BY <1>0 DEF Formed, PhasesOf
    <3>4. command.idx \in {"READ", "READ_MULTI"} /\ Card!Takes(command.idx) => task' = "answer"
      BY DEF Card!Takes
    <3>5. CASE command.idx \in {"SELECT", "ALL_SEND_CID"} /\ answer' = Card!Silent
      BY <1>2, <2>3, <3>1, <3>3, <3>5, <1>0 DEF Card!Silent
    <3>6. CASE /\ answer' \in {[wait |-> d + 1, bit |-> 0, len |-> Card!ResponseTo(command.idx)] :
                                 d \in RespDelays}
               /\ Card!Takes(command.idx)
      <4>1. PICK d \in RespDelays : answer' = [wait |-> d + 1, bit |-> 0,
            len |-> RespLen[command.rmode]]
        BY <3>2, <3>6
      <4>2. d + 1 > 2
        BY <1>0
      <4> QED BY <1>2, <2>3, <3>1, <3>3, <3>4, <3>6, <4>1, <4>2, <1>0
    <3> QED BY <3>1, <3>5, <3>6
  <2> QED BY <1>0, <2>2, <2>3
<1> QED BY <1>1, <1>2

(* One cycle keeps the register and the card at the same bit of the        *)
(* command.                                                                *)
LEMMA CommandedStep ==
  ASSUME ControllerInv, NEW acc, NEW fits \in BOOLEAN, Edge(acc, fits), Permitted(acc), ~EarlyData
  PROVE  Commanded'
<1>0. /\ Types /\ Strobes /\ Commanded /\ CmdShape /\ cmd.state \in CmdStates
      /\ cmd.state = "WRITE" => Active
      /\ cmd.bit \in Nat /\ rx \in Nat /\ CmdBits \in Nat \ {0}
      /\ answer \in [wait : Nat, bit : Nat, len : Nat]
  BY Constants DEF ControllerInv, Types, CmdRecord, Active
<1>1. Active' => cmd_reg'.idx = command'.idx
  <2>1. CASE Active
    BY <2>1, <1>0, ActiveKept DEF Commanded
  <2>2. CASE ~Active /\ Active'
    BY <2>2, <1>0, CommandStarts, RegisterMoves
  <2> QED BY <2>1, <2>2
<1>2. cmd'.state = "IDLE" /\ command'.commit => cmd_reg'.out = 0
  <2>1. CASE Sd!Writes(acc, "CMD")
    BY <1>0, <2>1, RegisterMoves
  <2>2. CASE ~Sd!Writes(acc, "CMD") /\ command'.commit
    <3>1. ~clkstrb /\ command.commit
      BY <1>0, <2>2, CommandMoves
    <3>2. cmd' = cmd /\ cmd_reg' = cmd_reg
      BY <1>0, <2>2, <3>1, StillBetween, RegisterMoves
    <3> QED BY <1>0, <3>1, <3>2 DEF Commanded
  <2> QED BY <2>1, <2>2
<1>3. CASE ~clkstrb
  <2>1. /\ cmd' = cmd /\ ~Fallen /\ (cmd.state = "WRITE" => Sd!sd_clk_en)
        /\ cmd.state = "WRITE" => /\ cmd_reg' = cmd_reg /\ command'.dmode = command.dmode
                                  /\ command'.idx = command.idx /\ command'.rmode = command.rmode
    BY <1>0, <1>3, StillBetween, ClockRuns, RegisterMoves, ActiveKept DEF Fallen
  <2>2. \A kind \in {"SHORT", "LONG"} : RespLen[kind] > 0
    BY Lengths, Constants
  <2>3. command.idx # "none" => command.rmode \in {"SHORT", "LONG"}
    BY <1>0 DEF Types, Formed
  <2> USE DEF Commanded, Answers
  <2>4. CASE Between
    BY <1>0, <1>1, <1>2, <2>1, <2>4 DEF Between
  <2>5. CASE RisesNot \/ FallsNot
    BY <1>0, <1>1, <1>2, <2>1, <2>5 DEF RisesNot, FallsNot
  <2>6. CASE RisesNow
    <3>1. CASE cmd.state = "WRITE" /\ cmd.bit + 1 < CmdBits
      <4>1. rx = cmd.bit /\ answer = Card!Silent /\ cmd_reg.out = cmd.bit
        BY <1>0, <2>6, <3>1 DEF RisesNow
      <4>2. rx' = rx + 1 /\ answer' = answer
        BY <2>6, <3>1, <4>1, Samples
      <4> QED BY <1>0, <1>1, <1>2, <2>1, <2>6, <3>1, <4>1, <4>2 DEF RisesNow
    <3>2. CASE cmd.state = "WRITE" /\ cmd.bit + 1 = CmdBits
      <4>1. rx = cmd.bit /\ cmd_reg.out = cmd.bit
        BY <1>0, <2>6, <3>2 DEF RisesNow
      <4>2. /\ rx' = 0 /\ answer'.bit = 0
            /\ \/ command.idx \in {"SELECT", "ALL_SEND_CID"} /\ answer' = Card!Silent
               \/ answer'.len = RespLen[command.rmode] /\ answer'.wait > 2 /\ answer'.bit = 0
            /\ command.dmode = "R" => task' = "answer"
        BY <2>6, <3>2, <4>1, Samples
      <4>3. Answers' /\ (answer'.wait > 0 => answer'.wait > 2)
        BY <2>1, <3>2, <4>2 DEF Card!Silent
      <4> QED BY <1>0, <1>1, <1>2, <2>1, <2>6, <3>2, <4>1, <4>2, <4>3 DEF RisesNow
    <3>3. CASE cmd.state # "WRITE"
      BY <1>0, <1>1, <1>2, <2>1, <2>6, <3>3, Samples DEF RisesNow
    <3>4. cmd.state = "WRITE" => cmd.bit + 1 < CmdBits \/ cmd.bit + 1 = CmdBits
      BY <1>0 DEF CmdShape
    <3> QED BY <3>1, <3>2, <3>3, <3>4
  <2>7. CASE FallsNow
    <3>1. Card!Fall /\ rx' = rx /\ Fallen' /\ Risen /\ Risen'
      BY <1>0, <2>7, Responds DEF FallsNow
    <3>2. CASE answer = Card!Silent
      <4>1. answer' = Card!Silent
        BY <1>0, <3>1, <3>2, Responds
      <4>2. cmd.state = "WRITE" /\ command.dmode = "R" => cmd.bit + 1 < CmdBits
        <5>1. command.dmode = "R" => command.idx \notin {"SELECT", "ALL_SEND_CID"}
          BY <1>0 DEF Types, Formed, PhasesOf
        <5>2. cmd.state = "WRITE" /\ ~(cmd.bit + 1 < CmdBits) => Answers
          BY <1>0, <3>1
        <5>3. cmd.state = "WRITE" => command.rmode \in {"SHORT", "LONG"}
          BY <1>0, <2>3 DEF CmdShape
        <5> QED BY <2>2, <3>2, <5>1, <5>2, <5>3 DEF Card!Silent
      <4> QED BY <1>0, <1>1, <1>2, <2>1, <3>1, <3>2, <4>1, <4>2 DEF Card!Silent
    <3>3. CASE answer # Card!Silent /\ cmd.state = "WRITE"
      <4>1. /\ ~(cmd.bit + 1 < CmdBits) /\ rx = 0 /\ Answers /\ answer.bit = 0
            /\ answer.wait > 0 => answer.wait > 2
            /\ command.dmode = "R" => task = "answer"
        BY <1>0, <2>1, <3>1, <3>3
      <4>2. answer.wait > 0 /\ answer.len = RespLen[command.rmode]
        BY <1>0, <3>3, <4>1
      <4>3. /\ answer'.wait = answer.wait - 1 /\ answer'.len = answer.len /\ answer'.bit = 0
        BY <1>0, <3>1, <4>1, <4>2, Responds
      <4>4. command.dmode = "R" => task' = "answer"
        BY <1>0, <2>2, <2>3, <3>1, <3>3, <4>1, <4>2, Responds DEF CmdShape
      <4>5. Answers' /\ answer'.wait > 1
        <5>1. answer'.wait > 1
          BY <1>0, <4>1, <4>2, <4>3
        <5>2. answer'.len = RespLen[command'.rmode]
          BY <2>1, <3>3, <4>2, <4>3
        <5> QED BY <5>1, <5>2, <4>3
      <4> QED BY <1>0, <1>1, <1>2, <2>1, <3>1, <3>3, <4>1, <4>3, <4>4, <4>5
    <3>4. CASE answer # Card!Silent /\ cmd.state # "WRITE"
      BY <1>0, <1>1, <1>2, <2>1, <3>1, <3>4
    <3> QED BY <3>2, <3>3, <3>4
  <2> QED BY <1>0, <1>3, <2>4, <2>5, <2>6, <2>7, Phases DEF Strobed
<1>4. CASE clkstrb
  <2>1. Strobed /\ Risen /\ Fallen
    BY <1>0, <1>4, Phases DEF Between, RisesNow, RisesNot, FallsNow, FallsNot, Risen, Fallen
  <2>2. cmd.state = "WRITE" => /\ Sd!sd_clk_en /\ cmd.clk_req /\ command'.idx = command.idx
    BY <1>0, ClockRuns, ActiveKept DEF CmdShape
  <2>3. cmd'.state # "WRITE" => rx' = 0
    BY <1>0, <1>4, <2>1, CmdMoves DEF CmdResets, CmdMove, CmdStarts, CmdHolds, CmdCounts, CmdWaits,
       CmdResponds, CmdOffers, CmdReadsOn, CmdTrails, CmdEnds, CmdGoes, Strobed, Commanded,
       ControllerInv, FlagsInv, ResetReady
  <2>4. cmd'.state = "IDLE" => answer' = Card!Silent
    <3>1. answer' = answer
      BY <2>1 DEF Strobed
    <3>2. CASE CmdResets
      BY <3>1, <3>2 DEF CmdResets, ControllerInv, FlagsInv, ResetReady
    <3>3. CASE CmdEnds
      BY <2>1, <3>1, <3>3 DEF CmdEnds, ControllerInv, Answered
    <3>4. CASE cmd.state = "IDLE"
      BY <1>0, <3>1, <3>4 DEF Commanded
    <3> QED BY <1>4, <3>2, <3>3, <3>4, CmdMoves
            DEF CmdMove, CmdStarts, CmdHolds, CmdCounts, CmdWaits,
       CmdResponds, CmdOffers, CmdReadsOn, CmdTrails, CmdGoes
  <2>5. cmd'.state = "WRITE" => rx' = cmd'.bit /\ answer' = Card!Silent /\ cmd_reg'.out = cmd'.bit
    <3>1. CASE CmdStarts
      <4>1. Active /\ ~cmd.clk_req
        BY <1>0, <3>1 DEF CmdStarts, Active, CmdShape
      <4>2. cmd_reg' = cmd_reg
        BY <1>0, <4>1, RegisterMoves, ActiveKept
      <4> QED BY <1>0, <2>1, <3>1, <4>2 DEF CmdStarts, CmdGoes, Commanded, Strobed
    <3>2. CASE CmdCounts /\ cmd.state = "WRITE"
      <4>1. RegShifts
        BY <1>0, <1>4, <2>2, <3>2, RegisterMoves
      <4> QED BY <1>0, <2>1, <3>2, <4>1 DEF CmdCounts, CmdGoes, Commanded, Strobed, RegShifts
    <3> QED BY <1>4, <3>1, <3>2, CmdMoves
            DEF CmdResets, CmdMove, CmdStarts, CmdHolds, CmdCounts, CmdWaits,
       CmdResponds, CmdOffers, CmdReadsOn, CmdTrails, CmdEnds, CmdGoes
  <2>6. ~Risen'
    BY <2>1 DEF Strobed
  <2> QED BY <1>1, <1>2, <2>3, <2>4, <2>5, <2>6 DEF Commanded
<1> QED BY <1>3, <1>4

(* Where the registers of a response end. *)
LEMMA Cuts ==
  ASSUME NEW kind \in {"SHORT", "LONG"}
  PROVE  /\ \A k \in Int : /\ LastBit(kind, k) \in Int
                           /\ LastBit(kind, k + 1) = LastBit(kind, k) + RespBits
         /\ LastBit(kind, 0) + Sd!FirstCount(kind) = 3
         /\ LastBit(kind, Sd!Registered(kind)) = RespLen[kind]
         /\ \A k \in 0 .. Sd!Registered(kind) - 1 : LastBit(kind, k) + RespBits <= RespLen[kind]
         /\ RespLen[kind] \in Nat /\ RespLen[kind] > 3
<1>1. /\ RespBits \in Nat \ {0} /\ FirstBits[kind] \in 4 .. RespBits
  BY Constants
<1>2. /\ kind = "SHORT" => RespLen[kind] = FirstBits[kind] + RespBits
      /\ kind = "LONG" => RespLen[kind] = FirstBits[kind] + 4 * RespBits
  BY Lengths
<1>3. \A k \in Int : /\ LastBit(kind, k) \in Int
                     /\ LastBit(kind, k + 1) = LastBit(kind, k) + RespBits
  <2>1. \A k, b, f \in Int : /\ f + (k - 1) * b \in Int
                             /\ f + (k + 1 - 1) * b = f + (k - 1) * b + b
    OBVIOUS
  <2> QED BY <1>1, <2>1 DEF LastBit
<1>4. LastBit(kind, 0) + Sd!FirstCount(kind) = 3
  BY <1>1 DEF LastBit, Sd!FirstCount
<1>5. LastBit(kind, Sd!Registered(kind)) = RespLen[kind]
  BY <1>1, <1>2 DEF LastBit, Sd!Registered
<1>6. \A k \in 0 .. Sd!Registered(kind) - 1 : LastBit(kind, k) + RespBits <= RespLen[kind]
  <2>1. SUFFICES ASSUME NEW k \in 0 .. Sd!Registered(kind) - 1
                 PROVE  LastBit(kind, k) + RespBits <= RespLen[kind]
    OBVIOUS
  <2>2. k \in 0 .. (IF kind = "LONG" THEN 4 ELSE 1)
    BY DEF Sd!Registered
  <2>3. CASE k = 0
    BY <1>1, <1>2, <2>2, <2>3 DEF LastBit
  <2>4. CASE k = 1
    BY <1>1, <1>2, <2>2, <2>4 DEF LastBit
  <2>5. CASE k = 2
    BY <1>1, <1>2, <2>2, <2>5 DEF LastBit
  <2>6. CASE k = 3
    BY <1>1, <1>2, <2>2, <2>6 DEF LastBit
  <2>7. CASE k = 4
    BY <1>1, <1>2, <2>2, <2>7 DEF LastBit
  <2> QED BY <2>2, <2>3, <2>4, <2>5, <2>6, <2>7
<1>7. RespLen[kind] \in Nat /\ RespLen[kind] > 3
  BY <1>1, <1>2
<1> QED BY <1>3, <1>4, <1>5, <1>6, <1>7

(* Between two strobes the card sends the next bit, and the register holds *)
(* the one before.                                                         *)
LEMMA AnsweredBetween ==
  ASSUME ControllerInv, NEW acc, NEW fits \in BOOLEAN, Edge(acc, fits), Permitted(acc), ~EarlyData,
         ~clkstrb
  PROVE  Answered'
<1>0. /\ Types /\ Strobes /\ Commanded /\ CmdShape /\ Answered
      /\ answer \in [wait : Nat, bit : Nat, len : Nat] /\ cmd.word \in 0 .. 5 /\ cmd.bit \in Nat
  BY DEF ControllerInv, Types, CmdRecord
<1>1. /\ cmd' = cmd /\ ~Fallen /\ Sd!sd_clk_en' = Sd!sd_clk_en
      /\ cmd.state \in {"WRITE", "WAIT_RESP", "READ_RESP"} => Sd!sd_clk_en
      /\ cmd.state = "REGOUT" => ~Sd!sd_clk_en
  BY StillBetween, ClockRuns, EnableKept DEF Fallen
<1>2. Sent => /\ command'.dmode = command.dmode /\ command'.idx = command.idx
              /\ command'.rmode = command.rmode /\ cmd_reg' = cmd_reg
              /\ command.rmode \in {"SHORT", "LONG"}
              /\ command.dmode = "R" => command.idx \notin {"SELECT", "ALL_SEND_CID"}
  <2>1. Sent => Active /\ command.idx # "none"
    BY <1>0 DEF Sent, Active, CmdShape
  <2> QED BY <1>0, <2>1, ActiveKept, RegisterMoves DEF Types, Formed, PhasesOf
<1>3. CASE answer' = answer /\ (task = "answer" => task' = "answer") /\ ~Fallen'
  BY <1>0, <1>1, <1>2, <1>3 DEF Answered, Answers, Sent, Taken
<1>4. CASE Between \/ RisesNot
  BY <1>3, <1>4 DEF Between, RisesNot
<1>5. CASE RisesNow /\ cmd.state # "WRITE"
  <2>1. answer' = answer /\ (task = "answer" => task' = "answer") /\ ~Fallen'
    BY <1>5, Samples DEF RisesNow
  <2> QED BY <1>3, <2>1
<1>6. CASE RisesNow /\ cmd.state = "WRITE"
  BY <1>1, <1>6 DEF Answered, Sent
<1>7. CASE FallsNot
  <2>1. /\ answer' = answer /\ (task = "answer" => task' = "answer") /\ ~Sd!sd_clk_en
    BY <1>7 DEF FallsNot
  <2> QED BY <1>0, <1>1, <1>2, <2>1 DEF Answered, Sent, Taken
<1>8. CASE FallsNow
  <2>0. Card!Fall /\ Fallen' /\ Sd!sd_clk_en
    BY <1>8 DEF FallsNow
  <2>1. CASE cmd.state = "WAIT_RESP"
    <3>1. /\ Answers /\ cmd_reg.last <= 2 /\ answer.bit = cmd_reg.last
          /\ command.dmode = "R" => task = "answer"
          /\ cmd_reg.last \in Nat
      BY <1>0, <1>1, <2>1 DEF Answered, Sent, Types
    <3>2. RespLen[command.rmode] \in Nat /\ RespLen[command.rmode] > 3
      BY <1>2, <2>1, Cuts DEF Sent
    <3>3. CASE answer = Card!Silent
      <4>1. answer' = Card!Silent
        BY <1>0, <2>0, <3>3, Responds
      <4>2. command.idx \in {"SELECT", "ALL_SEND_CID"}
        BY <3>1, <3>2, <3>3 DEF Answers, Card!Silent
      <4>3. cmd_reg.last = 0 /\ command.dmode # "R"
        BY <1>2, <2>1, <3>1, <3>3, <4>2 DEF Sent, Card!Silent
      <4> QED BY <1>1, <1>2, <2>1, <4>1, <4>2, <4>3 DEF Answered, Answers, Sent, Card!Silent
    <3>4. CASE answer # Card!Silent
      <4>1. answer.len = RespLen[command.rmode] /\ (answer.wait = 0 <=> answer.bit > 0)
        BY <3>1, <3>4 DEF Answers
      <4>2. CASE answer.wait > 0
        <5>1. answer.bit = 0
          BY <1>0, <4>1, <4>2
        <5>2. /\ answer'.wait = answer.wait - 1 /\ answer'.len = answer.len
              /\ answer'.bit = IF answer.wait = 1 THEN 1 ELSE 0
              /\ task = "answer" /\ answer.bit # answer.len => task' = "answer"
          BY <1>0, <2>0, <4>2, <5>1, Responds
        <5>3. Answers'
          <6>1. answer'.wait = 0 <=> answer'.bit > 0
            BY <1>0, <4>2, <5>2
          <6> QED BY <1>2, <2>1, <4>1, <5>2, <6>1 DEF Answers, Sent
        <5>4. command.dmode = "R" => task' = "answer"
          BY <3>1, <3>2, <4>1, <5>1, <5>2
        <5>5. cmd_reg.last = 0 /\ answer'.bit = IF answer'.bit = 0 THEN 0 ELSE cmd_reg.last + 1
          BY <3>1, <5>1, <5>2
        <5> QED BY <1>1, <1>2, <2>0, <2>1, <5>3, <5>4, <5>5 DEF Answered, Sent
      <4>3. CASE answer.wait = 0
        <5>1. answer.bit > 0 /\ answer.bit <= 2 /\ answer.len > 3
          BY <3>1, <3>2, <4>1, <4>3
        <5>2. /\ answer'.wait = 0 /\ answer'.len = answer.len /\ answer'.bit = answer.bit + 1
              /\ task = "answer" => task' = "answer"
          <6>1. answer.bit \in 1 .. answer.len - 1 /\ answer.bit # answer.len
            BY <1>0, <5>1
          <6> QED BY <1>0, <2>0, <4>3, <6>1, Responds
        <5>3. Answers'
          BY <1>0, <1>2, <2>1, <4>1, <5>1, <5>2 DEF Answers, Sent
        <5> QED BY <1>1, <1>2, <2>0, <2>1, <3>1, <5>1, <5>2, <5>3 DEF Answered, Sent
      <4> QED BY <1>0, <4>2, <4>3
    <3> QED BY <3>3, <3>4
  <2>2. CASE cmd.state = "READ_RESP"
    <3> DEFINE k == Taken
               len == RespLen[command.rmode]
    <3>1. /\ answer.wait = 0 /\ answer.bit > 0 /\ answer.len = len
          /\ cmd_reg.last = LastBit(command.rmode, k) + cmd.bit
          /\ answer.bit = cmd_reg.last
          /\ command.dmode = "R" => task = "answer"
      BY <1>0, <1>1, <2>2 DEF Answered, Sent
    <3>2. cmd.bit < RespBits /\ cmd.word \in 1 .. Sd!Registered(command.rmode)
      BY <1>0, <2>2 DEF CmdShape
    <3>3. k \in 0 .. Sd!Registered(command.rmode) - 1
      <4>1. Sd!Registered(command.rmode) \in Nat
        BY DEF Sd!Registered
      <4> QED BY <3>2, <4>1 DEF Taken
    <3>4. LastBit(command.rmode, k) + RespBits <= len /\ LastBit(command.rmode, k) \in Int
          /\ len \in Nat
      <4>1. k \in Int
        BY <3>3
      <4> QED BY <1>2, <2>2, <3>3, <4>1, Cuts DEF Sent
    <3>5. answer.bit \in 1 .. answer.len - 1 /\ answer.bit # answer.len
      <4> HIDE DEF k, len
      <4> QED BY <1>0, <3>1, <3>2, <3>4, Constants
    <3>6. /\ answer'.wait = 0 /\ answer'.len = answer.len /\ answer'.bit = answer.bit + 1
          /\ task = "answer" => task' = "answer"
      BY <1>0, <2>0, <3>1, <3>5, Responds
    <3>7. answer'.bit > 0 /\ answer'.bit = cmd_reg.last + 1
      BY <1>0, <3>1, <3>6
    <3> QED BY <1>1, <1>2, <2>0, <2>2, <3>1, <3>6, <3>7 DEF Answered, Sent, Taken
  <2>3. CASE cmd.state = "TAIL"
    <3>1. \/ answer = Card!Silent
          \/ answer.wait = 0 /\ answer.bit = answer.len
      BY <1>0, <2>3 DEF Answered
    <3>2. answer' = Card!Silent
      BY <1>0, <2>0, <3>1, Responds
    <3> QED BY <1>1, <2>3, <3>2 DEF Answered, Sent
  <2>4. CASE cmd.state \in {"IDLE", "WRITE"}
    BY <1>1, <2>4 DEF Answered, Sent
  <2> QED BY <1>0, <1>1, <2>0, <2>1, <2>2, <2>3, <2>4 DEF Types, CmdRecord, CmdStates
<1> QED BY <1>0, <1>1, <1>4, <1>5, <1>6, <1>7, <1>8, Phases DEF Strobed

(* At a strobe the register takes the bit that the card has sent. *)
LEMMA AnsweredAtStrobe ==
  ASSUME ControllerInv, NEW acc, NEW fits \in BOOLEAN, Edge(acc, fits), Permitted(acc), clkstrb
  PROVE  Answered'
<1> DEFINE kind == command.rmode
<1>0. /\ Types /\ Strobes /\ Commanded /\ CmdShape /\ Answered
      /\ answer \in [wait : Nat, bit : Nat, len : Nat] /\ cmd.word \in 0 .. 5 /\ cmd.bit \in Nat
      /\ cmd_reg.last \in Nat
  BY DEF ControllerInv, Types, CmdRecord
<1>1. /\ Fallen /\ Risen /\ ~Fallen' /\ answer' = answer
      /\ task = "answer" => task' = "answer"
      /\ cmd.state \in {"WRITE", "WAIT_RESP", "READ_RESP"} => Sd!sd_clk_en /\ cmd.clk_req
      /\ cmd.state = "REGOUT" => ~Sd!sd_clk_en
  <2>1. Strobed /\ Risen /\ Fallen
    BY <1>0, Phases DEF Between, RisesNow, RisesNot, FallsNow, FallsNot, Risen, Fallen
  <2> QED BY <1>0, <2>1, ClockRuns DEF Strobed, CmdShape
<1>2. cmd.state = "WRITE" \/ Sent =>
        /\ command'.dmode = command.dmode /\ command'.idx = command.idx /\ command'.rmode = kind
        /\ ~Sd!Writes(acc, "CMD")
        /\ kind \in {"SHORT", "LONG"}
        /\ Sd!sd_clk_en => cmd_reg'.last = answer.bit
        /\ ~Sd!sd_clk_en => cmd_reg' = cmd_reg
  <2>1. cmd.state = "WRITE" \/ Sent => Active /\ command.idx # "none" /\ cmd.clk_req
    BY <1>0 DEF Sent, Active, CmdShape
  <2> QED BY <1>0, <2>1, ActiveKept, RegisterMoves DEF Types, Formed, RegShifts
<1> USE DEF CmdGoes
<1>3. CASE CmdResets \/ CmdStarts \/ CmdEnds
  BY <1>3 DEF Answered, Sent, CmdResets, CmdStarts, CmdEnds
<1>4. CASE CmdHolds
  <2>1. CASE cmd.state = "IDLE"
    BY <1>4, <2>1 DEF Answered, Sent, CmdHolds
  <2>2. CASE cmd.state = "TAIL"
    BY <1>0, <1>1, <1>4, <2>2 DEF Answered, Sent, CmdHolds
  <2>3. CASE cmd.state = "WAIT_RESP"
    <3>1. /\ Answers /\ cmd_reg.last <= 2 /\ cmd_reg.last # 2
          /\ answer.bit = IF cmd_reg.last = 0 /\ answer.bit = 0 THEN 0 ELSE cmd_reg.last + 1
          /\ command.dmode = "R" => task = "answer"
      BY <1>0, <1>1, <1>4, <2>3 DEF Answered, Sent, CmdHolds
    <3>2. answer.bit <= 2
      BY <1>0, <3>1
    <3>3. cmd_reg'.last = answer.bit /\ cmd'.state = "WAIT_RESP" /\ Answers'
      BY <1>1, <1>2, <1>4, <2>3, <3>1 DEF CmdHolds, Answers, Sent
    <3> QED BY <1>1, <1>2, <2>3, <3>1, <3>2, <3>3 DEF Answered, Sent
  <2>4. CASE cmd.state = "REGOUT"
    <3>1. cmd_reg' = cmd_reg
      BY <1>1, <1>2, <2>4 DEF Sent
    <3> QED BY <1>0, <1>1, <1>2, <1>4, <2>4, <3>1 DEF Answered, Sent, CmdHolds, Taken
  <2> QED BY <1>4, <2>1, <2>2, <2>3, <2>4 DEF CmdHolds
<1>5. CASE CmdCounts
  <2>1. CASE cmd.state = "WRITE"
    BY <1>5, <2>1 DEF Answered, Sent, CmdCounts
  <2>2. CASE cmd.state = "TAIL"
    <3>1. answer = Card!Silent
      BY <1>0, <1>1, <1>5, <2>2 DEF Answered, CmdCounts
    <3> QED BY <1>1, <1>5, <2>2, <3>1 DEF Answered, Sent, CmdCounts
  <2>3. CASE cmd.state = "READ_RESP"
    <3>1. /\ answer.wait = 0 /\ answer.bit > 0 /\ answer.len = RespLen[kind]
          /\ cmd_reg.last = LastBit(kind, Taken) + cmd.bit /\ answer.bit = cmd_reg.last + 1
          /\ command.dmode = "R" => task = "answer"
      BY <1>0, <1>1, <2>3 DEF Answered, Sent
    <3>2. cmd'.state = "READ_RESP" /\ cmd'.bit = cmd.bit + 1 /\ cmd'.word = cmd.word
      BY <1>5, <2>3 DEF CmdCounts
    <3>3. Taken' = Taken /\ cmd_reg'.last = answer.bit
      BY <1>1, <1>2, <2>3, <3>2 DEF Taken, Sent
    <3>4. LastBit(kind, Taken) \in Int
      <4>1. Taken \in Int
        BY <1>0 DEF Taken, Sd!Registered
      <4> QED BY <1>2, <2>3, <4>1, Cuts DEF Sent
    <3>5. cmd_reg'.last = LastBit(kind, Taken) + cmd'.bit
      BY <1>0, <3>1, <3>2, <3>3, <3>4
    <3> QED BY <1>1, <1>2, <2>3, <3>1, <3>2, <3>3, <3>5 DEF Answered, Sent
  <2> QED BY <1>5, <2>1, <2>2, <2>3 DEF CmdCounts
<1>6. CASE CmdWaits
  <2>1. cmd.state = "WRITE" /\ ~(cmd.bit + 1 < CmdBits)
    BY <1>0, <1>6, Constants DEF CmdWaits
  <2>2. Answers /\ answer.bit = 0
    BY <1>0, <1>1, <2>1 DEF Commanded
  <2>3. cmd_reg'.last = 0 /\ Answers' /\ cmd'.state = "WAIT_RESP"
    BY <1>1, <1>2, <1>6, <2>1, <2>2 DEF Answers, CmdWaits
  <2>4. command'.dmode = "R" => task' = "answer"
    <3>1. command.dmode = "R" => task = "answer"
      BY <1>0, <1>1, <2>1 DEF Commanded
    <3> QED BY <1>1, <1>2, <2>1, <3>1
  <2> QED BY <1>1, <2>2, <2>3, <2>4 DEF Answered, Sent
<1>7. CASE CmdResponds
  <2>1. /\ cmd.state = "WAIT_RESP" /\ cmd_reg.last = 2 /\ cmd'.state = "READ_RESP"
        /\ cmd'.bit = cmd.bit /\ cmd'.word = cmd.word
    BY <1>7 DEF CmdResponds
  <2>2. /\ Answers /\ answer.bit = 3 /\ (command.dmode = "R" => task = "answer")
    BY <1>0, <1>1, <2>1 DEF Answered, Sent
  <2>3. answer.wait = 0 /\ answer.len = RespLen[kind]
    BY <1>0, <2>2 DEF Answers, Card!Silent
  <2>4. cmd_reg'.last = 3
    BY <1>1, <1>2, <2>1, <2>2 DEF Sent
  <2>5. Taken' = 0 /\ cmd'.bit = Sd!FirstCount(kind)
    <3>1. cmd.bit = Sd!FirstCount(kind) /\ cmd.word = Sd!Registered(kind)
      BY <1>0, <2>1 DEF CmdShape
    <3> QED BY <1>2, <2>1, <3>1 DEF Taken, Sent, Sd!Registered
  <2>6. cmd_reg'.last = LastBit(command'.rmode, Taken') + cmd'.bit
    BY <1>2, <2>1, <2>4, <2>5, Cuts DEF Sent
  <2> QED BY <1>1, <1>2, <2>1, <2>2, <2>3, <2>4, <2>6 DEF Answered, Sent
<1>8. CASE CmdOffers
  <2>1. /\ cmd.state = "READ_RESP" /\ cmd.bit + 1 = RespBits /\ Sd!sd_clk_en
        /\ cmd'.state = "REGOUT" /\ cmd'.word = cmd.word - 1
    BY <1>8 DEF CmdOffers
  <2>2. /\ answer.wait = 0 /\ answer.bit > 0 /\ answer.len = RespLen[kind]
        /\ cmd_reg.last = LastBit(kind, Taken) + cmd.bit /\ answer.bit = cmd_reg.last + 1
        /\ command.dmode = "R" => task = "answer"
    BY <1>0, <1>1, <2>1 DEF Answered, Sent
  <2>3. Taken' = Taken + 1 /\ Taken \in Int
    <3>1. Sd!Registered(kind) \in Nat
      BY DEF Sd!Registered
    <3> QED BY <1>0, <1>2, <2>1, <3>1 DEF Taken, Sent
  <2>4. LastBit(kind, Taken + 1) = LastBit(kind, Taken) + RespBits /\ LastBit(kind, Taken) \in Int
    BY <1>2, <2>1, <2>3, Cuts DEF Sent
  <2>5. cmd_reg'.last = LastBit(kind, Taken + 1) /\ cmd_reg'.last = answer.bit
    <3>1. cmd_reg'.last = answer.bit
      BY <1>2, <2>1 DEF Sent
    <3> QED BY <1>0, <2>1, <2>2, <2>4, <3>1, Constants
  <2> QED BY <1>1, <1>2, <2>1, <2>2, <2>3, <2>5 DEF Answered, Sent
<1>9. CASE CmdReadsOn \/ CmdTrails
  <2>1. /\ cmd.state = "REGOUT" /\ cmd'.bit = cmd.bit /\ cmd'.word = cmd.word /\ cmd.bit = 0
        /\ cmd_reg' = cmd_reg
        /\ answer.wait = 0 /\ answer.bit > 0 /\ answer.len = RespLen[kind]
        /\ cmd_reg.last = LastBit(kind, Taken) /\ answer.bit = cmd_reg.last
        /\ command.dmode = "R" => task = "answer"
    BY <1>0, <1>1, <1>2, <1>9 DEF CmdReadsOn, CmdTrails, CmdShape, Answered, Sent
  <2>2. CASE CmdReadsOn
    <3>1. cmd'.state = "READ_RESP" /\ Taken' = Taken
      BY <1>2, <2>1, <2>2 DEF CmdReadsOn, Taken, Sent
    <3>2. cmd_reg.last = LastBit(kind, Taken) + cmd'.bit
      BY <1>0, <2>1
    <3> QED BY <1>1, <1>2, <2>1, <3>1, <3>2 DEF Answered, Sent
  <2>3. CASE CmdTrails
    <3>1. cmd'.state = "TAIL" /\ Taken = Sd!Registered(kind)
      BY <2>3 DEF CmdTrails, Taken, Sd!Registered
    <3>2. answer.bit = answer.len
      BY <1>2, <2>1, <3>1, Cuts DEF Sent
    <3> QED BY <1>1, <2>1, <3>1, <3>2 DEF Answered, Sent
  <2> QED BY <1>9, <2>2, <2>3
<1> QED BY <1>3, <1>4, <1>5, <1>6, <1>7, <1>8, <1>9, CmdMoves DEF CmdMove

-----------------------------------------------------------------------------
(* The flags, and the data side during each command. *)

(* The data side at rest stays so while no data phase starts. *)
LEMMA DatRests ==
  ASSUME ControllerInv, NEW acc, NEW fits \in BOOLEAN, Edge(acc, fits), Permitted(acc),
         dat.state = "IDLE"
  PROVE  /\ ~clkstrb \/ ~cmd.start_dat \/ command.dmode = "NONE" => dat'.state = "IDLE"
         /\ "idle_dat" \in status_last' /\ ~dat'.block_done
         /\ "idle_dat" \in status_last /\ "DAT_DONE" \notin ctrl => "DAT_DONE" \notin ctrl'
         /\ "BLK_DONE" \notin ctrl => "BLK_DONE" \notin ctrl'
         /\ "DAT_DATA" \notin ctrl => "DAT_DATA" \notin ctrl'
<1>0. Types /\ ~dat.block_done
  BY DEF ControllerInv, DatShape, Shaped
<1>1. dat'.state = "IDLE" \/ (clkstrb /\ cmd.start_dat /\ command.dmode # "NONE")
  BY StillBetween, DatSteps
     DEF DatResets, DatMove, DatWaits, DatStarts, DatTails, DatBusy, DatAborts, DatMoves, Moving,
         Busy
<1>2. "idle_dat" \in status_last'
  BY <1>0, CommandMoves
<1>3. ~dat'.block_done
  BY <1>0, StillBetween, DatSteps DEF Moving, Busy
<1>4. ~Sd!Rose("data_dat") /\ ("idle_dat" \in status_last => ~Sd!Rose("idle_dat"))
  BY DEF Sd!Rose, Sd!Status, Sd!status_data_dat
<1> QED BY <1>0, <1>1, <1>2, <1>3, <1>4, CtrlMoves

(* A command state machine at rest stays so without a command. *)
LEMMA CmdRests ==
  ASSUME ControllerInv, NEW acc, NEW fits \in BOOLEAN, Edge(acc, fits), Permitted(acc),
         cmd.state \in {"IDLE", "TAIL"}, cmd.state = "IDLE" => ~command.commit
  PROVE  /\ cmd'.state \in {"IDLE", "TAIL"}
         /\ cmd.state = "IDLE" => cmd'.state = "IDLE"
         /\ clkstrb => ~cmd'.start_dat
         /\ ~clkstrb => cmd' = cmd
         /\ clkstrb /\ cmd.state = "TAIL" =>
              \/ ~Sd!sd_clk_en /\ cmd'.state = "TAIL" /\ cmd'.bit = cmd.bit
              \/ Sd!sd_clk_en /\ cmd.bit + 1 < TailBits /\ cmd'.state = "TAIL"
                   /\ cmd'.bit = cmd.bit + 1
              \/ Sd!sd_clk_en /\ cmd.bit + 1 = TailBits /\ cmd'.state = "IDLE"
              \/ "RST" \in ctrl
<1>1. CASE ~clkstrb
  BY <1>1, StillBetween
<1>2. CASE clkstrb
  BY <1>2, CmdMoves DEF CmdResets, CmdMove, CmdStarts, CmdHolds, CmdCounts, CmdWaits,
     CmdResponds, CmdOffers, CmdReadsOn, CmdTrails, CmdEnds, CmdGoes, CmdQuiet
<1> QED BY <1>1, <1>2

(* Once the reset bit can be set, it can stay until the reset. *)
LEMMA ResetStays ==
  ASSUME ControllerInv, NEW acc, NEW fits \in BOOLEAN, Edge(acc, fits), Permitted(acc), ~EarlyData,
         ResetReady, ~Sd!Writes(acc, "CMD")
  PROVE  ResetReady'
<1>0. /\ Types /\ CmdShape /\ Answered /\ cmd_reg.last \in Nat
      /\ cmd.state \in {"WAIT_RESP", "IDLE"} /\ ~command.commit
      /\ answer = Card!Silent /\ dat.state = "IDLE" /\ ~cmd.start_dat
      /\ command.idx \in {"SELECT", "ALL_SEND_CID"}
  BY DEF ControllerInv, Types, ResetReady
<1>1. command'.idx = command.idx /\ ~command'.commit
  BY <1>0, CommandMoves
<1>2. dat'.state = "IDLE"
  BY <1>0, DatRests
<1>3. answer' = Card!Silent
  BY <1>0, Phases, Samples, Responds DEF ControllerInv, Between, RisesNow, RisesNot, FallsNow,
                                         FallsNot, Strobed
<1>4. cmd'.state \in {"WAIT_RESP", "IDLE"} /\ ~cmd'.start_dat
  <2>1. CASE ~clkstrb
    BY <1>0, <2>1, StillBetween
  <2>2. CASE clkstrb /\ cmd.state = "IDLE"
    BY <1>0, <2>2, CmdRests
  <2>3. CASE clkstrb /\ cmd.state = "WAIT_RESP"
    <3>1. cmd_reg.last = 0
      <4>1. answer.bit = 0
        BY <1>0 DEF Card!Silent
      <4> QED BY <1>0, <2>3, <4>1 DEF Answered
    <3> QED BY <1>0, <2>3, <3>1, CmdMoves DEF CmdResets, CmdMove, CmdStarts, CmdHolds, CmdCounts,
                                              CmdWaits,
     CmdResponds, CmdOffers, CmdReadsOn, CmdTrails, CmdEnds, CmdGoes, CmdQuiet
  <2> QED BY <1>0, <2>1, <2>2, <2>3
<1> QED BY <1>0, <1>1, <1>2, <1>3, <1>4 DEF ResetReady

(* One cycle keeps the flags in step with the states. *)
LEMMA FlagsStep ==
  ASSUME ControllerInv, NEW acc, NEW fits \in BOOLEAN, Edge(acc, fits), Permitted(acc), ~EarlyData
  PROVE  FlagsInv'
<1>0. Types /\ Strobes /\ CmdShape /\ FlagsInv /\ FirstInv /\ cmd.state \in CmdStates
  BY DEF ControllerInv, Types, CmdRecord
<1>1. "IDLE_SDCLK" \notin ctrl'
  BY <1>0, CtrlMoves DEF FlagsInv
<1>2. "CMD_RESP" \in ctrl' => cmd'.state = "REGOUT"
  <2>1. CASE Sd!Rose("resp_cmd")
    <3>1. cmd.state = "REGOUT" /\ ~clkstrb
      BY <1>0, <2>1 DEF FlagsInv, Sd!Rose, Sd!Status, Sd!status_resp_cmd
    <3> QED BY <3>1, StillBetween
  <2>2. CASE "CMD_RESP" \in ctrl
    <3>1. cmd.state = "REGOUT" /\ "RST" \notin ctrl
      BY <1>0, <2>2 DEF FlagsInv, ResetReady
    <3>2. CASE clkstrb
      BY <2>2, <3>1, <3>2, CmdMoves DEF CmdResets, CmdMove, CmdStarts, CmdHolds, CmdCounts,
                                        CmdWaits,
     CmdResponds, CmdOffers, CmdReadsOn, CmdTrails, CmdEnds, CmdGoes
    <3> QED BY <3>1, <3>2, StillBetween
  <2> QED BY <1>0, <2>1, <2>2, CtrlMoves
<1>3. Sd!Rose("resp_cmd")' => ~clkstrb'
  <2>1. Sd!Rose("resp_cmd")' => cmd'.state = "REGOUT" /\ "resp_cmd" \notin status_last'
    BY DEF Sd!Rose, Sd!Status, Sd!status_resp_cmd
  <2>2. CASE clkstrb
    BY <1>0, <2>2, Phases DEF Between, RisesNow, RisesNot, FallsNow, FallsNot, Strobed, Fallen
  <2>3. CASE ~clkstrb
    BY <1>0, <2>1, <2>3, StillBetween, CommandMoves
  <2> QED BY <2>2, <2>3
<1>4. First' /\ "CMD_DONE" \in ctrl' => Rests' /\ "idle_cmd" \in status_last'
  <2>1. Sd!Rose("idle_cmd") => cmd.state = "IDLE" /\ "idle_cmd" \notin status_last
    BY DEF Sd!Rose, Sd!Status, Sd!status_idle_cmd
  <2>2. "CMD_DONE" \in ctrl' => "CMD_DONE" \in ctrl \/ Sd!Rose("idle_cmd")
    BY <1>0, CtrlMoves
  <2>3. CASE ~Sd!Writes(acc, "CMD")
    <3>1. First' => First
      BY <1>0, <2>3, CommandMoves DEF First
    <3>2. First' /\ "CMD_DONE" \in ctrl' => Rests
      BY <1>0, <2>1, <2>2, <3>1 DEF FlagsInv, FirstInv, Active, Rests
    <3>3. Rests => Rests' /\ "idle_cmd" \in status_last'
      BY <1>0, <2>3, CommandMoves, CmdRests DEF Rests
    <3> QED BY <3>2, <3>3
  <2>4. CASE Sd!Writes(acc, "CMD") /\ acc.data.idx = "none"
    <3>1. command.idx \in {"READ", "none"} /\ ~Active
      BY <2>4, <1>0, CommandMoves DEF Permitted
    <3>2. "CMD_DONE" \in ctrl' => Rests
      <4>1. First
        BY <3>1 DEF First
      <4> QED BY <1>0, <2>1, <2>2, <3>1, <4>1 DEF FlagsInv, Active, Rests
    <3>3. ~command'.commit
      BY <1>0, <2>4, CommandMoves DEF Formed
    <3>4. Rests => Rests' /\ "idle_cmd" \in status_last'
      BY <1>0, <3>3, CommandMoves, CmdRests DEF Rests
    <3> QED BY <3>2, <3>4
  <2>5. CASE Sd!Writes(acc, "CMD") /\ acc.data.idx = "STOP"
    BY <1>0, <2>5, CommandMoves DEF First
  <2>6. CASE Sd!Writes(acc, "CMD") /\ acc.data.idx \notin {"none", "STOP"}
    BY <2>1, <2>2, <2>6 DEF Permitted, Settled, Clean
  <2> QED BY <2>3, <2>4, <2>5, <2>6
<1>5. "RST" \in ctrl' => ResetReady'
  <2>1. "RST" \in ctrl' => ResetReady
    BY <1>0, CtrlMoves DEF FlagsInv
  <2>2. Sd!Writes(acc, "CMD") => ~Sd!Writes(acc, "CTRL")
    BY DEF Sd!Writes
  <2>3. Sd!Writes(acc, "CMD") /\ ResetReady => "RST" \notin ctrl
    <3>1. Sd!Writes(acc, "CMD") /\ ResetReady => Clean
      BY DEF Permitted, ResetReady, Flow
    <3> QED BY <3>1 DEF Clean
  <2>4. Sd!Writes(acc, "CMD") /\ "RST" \notin ctrl => "RST" \notin ctrl'
    BY <2>2, Tops DEF Sd!CtrlNext, Sd!Sets
  <2> QED BY <2>1, <2>3, <2>4, ResetStays
<1>6. /\ ~({"idle_cmd", "resp_cmd"} \subseteq status_last')
      /\ ~({"idle_dat", "data_dat"} \subseteq status_last')
  <2>1. /\ "idle_cmd" \in Sd!Status <=> cmd.state = "IDLE"
        /\ "resp_cmd" \in Sd!Status <=> cmd.state = "REGOUT"
        /\ "idle_dat" \in Sd!Status <=> dat.state = "IDLE"
        /\ "data_dat" \in Sd!Status <=> dat.state \in {"REGOUT", "WRITE_REGIN"}
    BY DEF Sd!Status, Sd!status_idle_cmd, Sd!status_resp_cmd, Sd!status_idle_dat,
           Sd!status_data_dat
  <2>2. status_last' = Sd!Status
    BY Tops
  <2> QED BY <2>1, <2>2
<1> QED BY <1>1, <1>2, <1>3, <1>4, <1>5, <1>6 DEF FlagsInv

(* A controller that waits for a block waits while the card has nothing to *)
(* send.                                                                   *)
LEMMA BlockAwaited ==
  ASSUME ControllerInv, NEW acc, NEW fits \in BOOLEAN, Edge(acc, fits), Permitted(acc),
         dat.state = "WAIT_BLOCK", ~Card!low, ~command.abrt, "RST" \notin ctrl, ~dat.block_done
  PROVE  dat'.state = "WAIT_BLOCK" /\ ~dat'.block_done
<1>1. dat \in DatRecord
  BY DEF ControllerInv, DatShape, Shaped
<1>2. CASE ~clkstrb
  BY <1>2, StillBetween
<1>3. CASE clkstrb
  <2> DEFINE d == [dat EXCEPT !.block_done = FALSE]
  <2>1. d.state = "WAIT_BLOCK" /\ ~d.block_done
    BY <1>1 DEF DatRecord
  <2>2. dat' = Sd!Aborted(Sd!DatStep(d, Card!low, fits))
    BY <1>3 DEF Edge, Sd!Clock, Sd!DatFsm
  <2> HIDE DEF d
  <2>3. Sd!DatStep(d, Card!low, fits) = d
    BY <2>1 DEF Sd!DatStep, Sd!ReadStep
  <2> QED BY <2>1, <2>2, <2>3 DEF Sd!Aborted
<1> QED BY <1>2, <1>3

(* The data side while a command is sent and answered. *)
LEMMA FirstStep ==
  ASSUME ControllerInv, NEW acc, NEW fits \in BOOLEAN, Edge(acc, fits), Permitted(acc), ~EarlyData
  PROVE  FirstInv'
<1>0. /\ Types /\ CmdShape /\ FlagsInv /\ FirstInv /\ Answered /\ cmd.state \in CmdStates
      /\ Formed(command)
  BY DEF ControllerInv, Types, CmdRecord
<1> SUFFICES ASSUME Active', First'
             PROVE  /\ \/ dat'.state = "IDLE" /\ "idle_dat" \in status_last'
                       \/ dat'.state = "WAIT_BLOCK" /\ Sent' /\ command'.dmode = "R"
                    /\ ~dat'.block_done /\ ctrl' \cap DataFlags = {}
                    /\ cmd'.state = "IDLE" => "idle_cmd" \in status_last'
                    /\ Sent' /\ command'.dmode = "R" => cmd'.start_dat \/ dat'.state # "IDLE"
  BY DEF FirstInv
<1> USE DEF DataFlags
<1>1. CASE ~Active
  <2>1. Sd!Writes(acc, "CMD") /\ command' = acc.data /\ cmd'.state = "IDLE" /\ command'.idx # "none"
    BY <1>1, CommandStarts
  <2>2. Settled /\ Clean
    BY <2>1 DEF First, Permitted
  <2>3. ~cmd.start_dat /\ cmd.state = "IDLE" /\ dat.state = "IDLE" /\ "idle_dat" \in status_last
    BY <1>0, <2>2 DEF Settled, Rests, CmdShape
  <2> QED BY <1>0, <2>1, <2>2, <2>3, DatRests, CommandMoves DEF Clean, Sent
<1>2. CASE Active
  <2>1. /\ command'.idx = command.idx /\ command'.dmode = command.dmode
        /\ command'.rmode = command.rmode /\ command'.abrt = command.abrt
        /\ command'.commit <=> command.commit /\ ~clkstrb
    BY <1>2, ActiveKept
  <2>2. First /\ command.idx # "none" /\ ~command.abrt
    BY <1>0, <1>2, <2>1 DEF First, CmdShape, Formed
  <2>3. /\ \/ dat.state = "IDLE" /\ "idle_dat" \in status_last
           \/ dat.state = "WAIT_BLOCK" /\ Sent /\ command.dmode = "R"
        /\ ~dat.block_done /\ ctrl \cap DataFlags = {}
        /\ cmd.state = "IDLE" => "idle_cmd" \in status_last
        /\ Sent /\ command.dmode = "R" => cmd.start_dat \/ dat.state # "IDLE"
    BY <1>0, <1>2, <2>2 DEF FirstInv
  <2>4. ~(clkstrb /\ CmdResets)
    BY <1>2, <2>1 DEF CmdResets, CmdGoes, Active
  <2>5. cmd'.state = "IDLE" => cmd.state = "IDLE"
    <3>1. cmd'.state = "IDLE" => ~clkstrb
      BY <2>1 DEF Active
    <3> QED BY <3>1, StillBetween
  <2>6. Sent => Sent'
    <3>1. CASE ~clkstrb
      BY <3>1, StillBetween DEF Sent
    <3>2. CASE clkstrb
      BY <2>4, <3>2, CmdMoves
         DEF Sent, Active, CmdMove, CmdStarts, CmdHolds, CmdCounts, CmdWaits,
             CmdResponds, CmdOffers, CmdReadsOn, CmdTrails, CmdEnds, CmdGoes, CmdQuiet
    <3> QED BY <3>1, <3>2
  <2>7. Sent' => Sent \/ (clkstrb /\ CmdWaits)
    <3>1. CASE ~clkstrb
      BY <3>1, StillBetween DEF Sent
    <3>2. CASE clkstrb
      BY <2>4, <3>2, CmdMoves
         DEF Sent, Active, CmdMove, CmdStarts, CmdHolds, CmdCounts, CmdWaits,
             CmdResponds, CmdOffers, CmdReadsOn, CmdTrails, CmdEnds, CmdGoes, CmdQuiet
    <3> QED BY <3>1, <3>2
  <2>8. cmd.start_dat => Sent /\ command.dmode = "R"
    BY <1>0, <1>2 DEF CmdShape, Sent, Active
  <2>9. cmd'.state = "IDLE" => "idle_cmd" \in status_last'
    BY <1>0, <2>5, CommandMoves
  <2>10. CASE dat.state = "IDLE"
    <3>1. /\ ~clkstrb \/ ~cmd.start_dat => dat'.state = "IDLE"
          /\ "idle_dat" \in status_last' /\ ~dat'.block_done
          /\ ctrl' \cap DataFlags = {}
      BY <2>3, <2>10, DatRests
    <3>2. CASE clkstrb /\ cmd.start_dat
      <4>1. dat'.state = "WAIT_BLOCK" \/ DatResets
        BY <2>8, <2>10, <3>2, DatSteps
           DEF DatMove, DatWaits, DatStarts, DatTails, DatBusy, DatAborts, DatMoves, Moving, Busy
      <4>2. "RST" \notin ctrl
        BY <1>0, <3>2 DEF FlagsInv, ResetReady
      <4> QED BY <2>1, <2>6, <2>8, <2>9, <3>1, <4>1, <4>2 DEF DatResets
    <3>3. CASE ~clkstrb \/ ~cmd.start_dat
      <4>1. dat'.state = "IDLE" /\ "idle_dat" \in status_last'
        BY <3>1, <3>3
      <4>2. Sent' /\ command'.dmode = "R" => cmd'.start_dat
        <5>1. CASE Sent
          <6>1. command.dmode = "R" => cmd.start_dat
            BY <2>3, <2>10, <5>1
          <6> QED BY <2>1, <3>3, <6>1, StillBetween
        <5>2. CASE ~Sent
          BY <2>1, <2>7, <5>2 DEF CmdWaits
        <5> QED BY <5>1, <5>2
      <4> QED BY <2>9, <3>1, <4>1, <4>2
    <3> QED BY <3>2, <3>3
  <2>11. CASE dat.state = "WAIT_BLOCK"
    <3>1. Sent /\ command.dmode = "R"
      BY <2>3, <2>11
    <3>2. ~Card!low
      BY <1>0, <3>1 DEF Answered, Card!low
    <3>3. "RST" \notin ctrl
      BY <1>0, <2>11 DEF FlagsInv, ResetReady
    <3>4. dat'.state = "WAIT_BLOCK" /\ ~dat'.block_done
      BY <2>2, <2>3, <2>11, <3>2, <3>3, BlockAwaited
    <3>5. ctrl' \cap DataFlags = {}
      <4>1. ~Sd!Rose("idle_dat") /\ ~Sd!Rose("data_dat")
        BY <2>11 DEF Sd!Rose, Sd!Status, Sd!status_data_dat, Sd!status_idle_dat
      <4> QED BY <1>0, <2>3, <4>1, CtrlMoves
    <3> QED BY <2>1, <2>6, <2>9, <3>1, <3>4, <3>5
  <2> QED BY <2>3, <2>10, <2>11
<1> QED BY <1>1, <1>2

(* A data phase is under way from the end of its command to the end that   *)
(* the driver gives it.                                                    *)
LEMMA FlowStep ==
  ASSUME ControllerInv, NEW acc, NEW fits \in BOOLEAN, Edge(acc, fits), Permitted(acc), ~EarlyData
  PROVE  FlowInv'
<1>0. /\ Types /\ CmdShape /\ FlagsInv /\ FirstInv /\ FlowInv /\ Answered /\ cmd.state \in CmdStates
      /\ Formed(command) /\ FirstInv'
  BY FirstStep DEF ControllerInv, Types, CmdRecord
<1> SUFFICES ASSUME command'.idx \in Flow, ~Active'
             PROVE  /\ ~command'.commit
                    /\ Moving' \/ (cmd'.start_dat /\ dat'.state = "IDLE"
                         /\ "idle_dat" \in status_last')
                    /\ "DAT_DONE" \notin ctrl'
                    /\ dat'.state = "IDLE" => "BLK_DONE" \notin ctrl'
                    /\ cmd'.start_dat => dat'.state = "IDLE"
  BY DEF FlowInv
<1>1. ~Sd!Writes(acc, "CMD")
  <2> SUFFICES ASSUME Sd!Writes(acc, "CMD") PROVE FALSE
    OBVIOUS
  <2>1. command' = acc.data
    BY <1>0, CommandMoves
  <2>2. acc.data.commit /\ Settled
    BY <2>1 DEF Permitted, Flow
  <2>3. cmd'.state = "IDLE"
    BY <1>0, <2>2, CmdRests DEF Settled, Rests
  <2> QED BY <2>1, <2>2, <2>3 DEF Active
<1>2. /\ command.idx \in Flow /\ command'.dmode = command.dmode /\ ~command.abrt
      /\ command'.commit <=> command.commit /\ ~clkstrb
  BY <1>0, <1>1, CommandMoves DEF Formed, Flow
<1>3. command.dmode = IF command.idx = "WRITE_MULTI" THEN "W" ELSE "R"
  BY <1>0, <1>2 DEF Flow, Formed, PhasesOf
<1>4. "RST" \notin ctrl
  BY <1>0, <1>2 DEF FlagsInv, ResetReady, Flow
<1>5. CASE Active
  <2>1. clkstrb /\ cmd.state # "IDLE"
    <3>1. clkstrb
      BY <1>2, <1>5, StillBetween DEF Active
    <3>2. cmd.state = "IDLE" => cmd'.state = "WRITE"
      BY <1>4, <1>5, <3>1, CmdMoves
         DEF Active, CmdResets, CmdMove, CmdStarts, CmdHolds, CmdCounts, CmdWaits,
             CmdResponds, CmdOffers, CmdReadsOn, CmdTrails, CmdEnds, CmdGoes
    <3> QED BY <3>1, <3>2 DEF Active
  <2>2. CmdTrails
    BY <1>4, <1>5, <2>1, CmdMoves
       DEF Active, CmdResets, CmdMove, CmdStarts, CmdHolds, CmdCounts, CmdWaits,
           CmdResponds, CmdOffers, CmdReadsOn, CmdEnds, CmdGoes
  <2>3. cmd.state = "REGOUT" /\ ~cmd.start_dat /\ ~command'.commit
        /\ (cmd'.start_dat <=> command.dmode \in {"W", "BUSY"})
    BY <1>0, <1>2, <2>1, <2>2 DEF CmdTrails, CmdShape
  <2>4. /\ First /\ Sent
        /\ \/ dat.state = "IDLE" /\ "idle_dat" \in status_last
           \/ dat.state = "WAIT_BLOCK" /\ command.dmode = "R"
        /\ ~dat.block_done /\ ctrl \cap DataFlags = {}
        /\ command.dmode = "R" => dat.state # "IDLE"
    BY <1>0, <1>2, <1>5, <2>3 DEF FirstInv, First, Sent, Flow
  <2>5. CASE command.dmode = "R"
    <3>1. dat.state = "WAIT_BLOCK" /\ ~cmd'.start_dat
      BY <2>3, <2>4, <2>5
    <3>2. ~Card!low
      BY <1>0, <2>4, <2>5 DEF Answered, Card!low
    <3>3. dat'.state = "WAIT_BLOCK"
      BY <1>2, <1>4, <2>4, <3>1, <3>2, BlockAwaited
    <3>4. "DAT_DONE" \notin ctrl'
      <4>1. ~Sd!Rose("idle_dat")
        BY <3>1 DEF Sd!Rose, Sd!Status, Sd!status_idle_dat
      <4> QED BY <1>0, <2>4, <4>1, CtrlMoves DEF DataFlags
    <3> QED BY <2>3, <3>1, <3>3, <3>4 DEF Moving, Busy
  <2>6. CASE command.dmode = "W"
    <3>1. dat.state = "IDLE" /\ "idle_dat" \in status_last /\ cmd'.start_dat
      BY <2>3, <2>4, <2>6
    <3> QED BY <2>3, <2>4, <3>1, DatRests DEF DataFlags
  <2> QED BY <1>3, <2>5, <2>6
<1>6. CASE ~Active
  <2>1. /\ ~command.commit
        /\ Moving \/ (cmd.start_dat /\ dat.state = "IDLE" /\ "idle_dat" \in status_last)
        /\ "DAT_DONE" \notin ctrl
        /\ dat.state = "IDLE" => "BLK_DONE" \notin ctrl
        /\ cmd.start_dat => dat.state = "IDLE"
    BY <1>0, <1>2, <1>6 DEF FlowInv
  <2>2. cmd.state \in {"IDLE", "TAIL"}
    BY <1>0, <1>6 DEF Active, CmdStates
  <2>3. /\ clkstrb => ~cmd'.start_dat
        /\ ~clkstrb => cmd' = cmd /\ dat' = dat
    BY <2>1, <2>2, CmdRests, StillBetween
  <2>4. CASE Moving
    <3>1. Moving'
      <4>1. CASE clkstrb
        BY <1>2, <1>4, <2>4, <4>1, DatSteps
           DEF DatResets, DatMove, DatWaits, DatStarts, DatTails, DatBusy, DatAborts, DatMoves,
               Moving, Busy
      <4> QED BY <2>3, <2>4, <4>1 DEF Moving
    <3>2. "DAT_DONE" \notin ctrl'
      <4>1. ~Sd!Rose("idle_dat")
        BY <2>4 DEF Moving, Busy, Sd!Rose, Sd!Status, Sd!status_idle_dat
      <4> QED BY <1>0, <2>1, <4>1, CtrlMoves
    <3>3. ~cmd.start_dat
      BY <2>1, <2>4 DEF Moving, Busy
    <3> QED BY <1>2, <2>1, <2>3, <3>1, <3>2, <3>3 DEF Moving, Busy
  <2>5. CASE cmd.start_dat /\ dat.state = "IDLE" /\ "idle_dat" \in status_last
    <3>1. /\ "DAT_DONE" \notin ctrl' /\ "BLK_DONE" \notin ctrl' /\ "idle_dat" \in status_last'
      BY <2>1, <2>5, DatRests
    <3>2. CASE ~clkstrb
      BY <1>2, <2>1, <2>3, <2>5, <3>1, <3>2
    <3>3. CASE clkstrb
      <4>1. Moving'
        BY <1>3, <1>4, <2>5, <3>3, DatSteps
           DEF DatResets, DatMove, DatWaits, DatStarts, DatTails, DatBusy, DatAborts, DatMoves,
               Moving, Busy
      <4> QED BY <1>2, <2>3, <3>1, <3>3, <4>1
    <3> QED BY <3>2, <3>3
  <2> QED BY <2>1, <2>4, <2>5
<1> QED BY <1>5, <1>6

(* The command side and the data side of an aborted transfer end together. *)
TailsMeet == dat.state = "TAIL" /\ cmd.state = "TAIL" => cmd.bit >= dat.bit

(* What two tails do at an edge. *)
LEMMA Tails ==
  ASSUME ControllerInv, NEW acc, NEW fits \in BOOLEAN, Edge(acc, fits), Permitted(acc),
         dat.state = "TAIL", cmd.state \in {"IDLE", "TAIL"}, cmd.state = "IDLE" => ~command.commit,
         TailsMeet,
         "RST" \notin ctrl
  PROVE  /\ TailsMeet' /\ dat'.state \in {"IDLE", "TAIL"}
         /\ dat'.state = "IDLE" => cmd'.state = "IDLE" /\ clkstrb
<1>0. /\ Types /\ cmd.bit \in Nat /\ dat.bit \in Nat /\ dat.bit < TailBits /\ TailBits \in Nat
      /\ cmd.state = "TAIL" => cmd.bit < TailBits
  BY Constants DEF ControllerInv, Types, CmdRecord, DatRecord, DatShape, Shaped, CmdShape
<1>1. CASE ~clkstrb
  BY <1>1, StillBetween DEF TailsMeet
<1>2. CASE clkstrb
  <2>1. \/ ~Sd!sd_clk_en /\ dat'.state = "TAIL" /\ dat'.bit = dat.bit
        \/ Sd!sd_clk_en /\ dat.bit + 1 < TailBits /\ dat'.state = "TAIL" /\ dat'.bit = dat.bit + 1
        \/ Sd!sd_clk_en /\ dat.bit + 1 = TailBits /\ dat'.state = "IDLE"
    BY <1>2, DatSteps
       DEF DatResets, DatMove, DatWaits, DatStarts, DatTails, DatBusy, DatAborts, DatMoves,
           Moving, Busy
  <2>2. CASE cmd.state = "IDLE"
    BY <1>2, <2>1, <2>2, CmdRests DEF TailsMeet
  <2>3. CASE cmd.state = "TAIL"
    <3>1. \/ ~Sd!sd_clk_en /\ cmd'.state = "TAIL" /\ cmd'.bit = cmd.bit
          \/ Sd!sd_clk_en /\ cmd.bit + 1 < TailBits /\ cmd'.state = "TAIL" /\ cmd'.bit = cmd.bit + 1
          \/ Sd!sd_clk_en /\ cmd.bit + 1 = TailBits /\ cmd'.state = "IDLE"
      BY <1>2, <2>3, CmdRests
    <3>2. cmd.bit >= dat.bit
      BY <2>3 DEF TailsMeet
    <3>3. CASE ~Sd!sd_clk_en
      BY <2>1, <3>1, <3>2, <3>3 DEF TailsMeet
    <3>4. CASE Sd!sd_clk_en /\ dat.bit + 1 = TailBits
      <4>1. cmd.bit + 1 = TailBits
        BY <1>0, <2>3, <3>2, <3>4
      <4> QED BY <1>0, <1>2, <2>1, <3>1, <3>4, <4>1 DEF TailsMeet
    <3>5. CASE Sd!sd_clk_en /\ dat.bit + 1 < TailBits
      <4>1. dat'.state = "TAIL" /\ dat'.bit = dat.bit + 1
        BY <1>0, <2>1, <3>5
      <4>2. cmd'.state = "TAIL" => cmd'.bit = cmd.bit + 1
        BY <1>0, <3>1, <3>5
      <4> QED BY <1>0, <1>2, <3>2, <4>1, <4>2 DEF TailsMeet
    <3> QED BY <1>0, <2>1, <3>3, <3>4, <3>5
  <2> QED BY <2>2, <2>3
<1> QED BY <1>1, <1>2

(* Both sides are at rest, and the flags have noticed. *)
LEMMA SettledStays ==
  ASSUME ControllerInv, NEW acc, NEW fits \in BOOLEAN, Edge(acc, fits), Permitted(acc),
         cmd.state = "IDLE", ~command.commit, ~command'.commit, dat.state = "IDLE"
  PROVE  /\ Settled'
         /\ Settled /\ Clean /\ command.idx \notin {"SELECT", "ALL_SEND_CID"} => Clean'
<1>0. Types /\ ~cmd.start_dat
  BY DEF ControllerInv, CmdShape
<1>1. cmd'.state = "IDLE" /\ dat'.state = "IDLE"
  BY CmdRests, DatRests DEF ControllerInv, CmdShape
<1>2. status_last' = {"idle_cmd", "idle_dat"}
  BY Tops DEF Sd!Status, Sd!status_idle_cmd, Sd!status_idle_dat, Sd!status_resp_cmd,
              Sd!status_data_dat
<1>3. ASSUME Settled, Clean, command.idx \notin {"SELECT", "ALL_SEND_CID"} PROVE Clean'
  <2>1. ~Sd!Rose("idle_cmd") /\ ~Sd!Rose("idle_dat") /\ ~Sd!Rose("resp_cmd") /\ ~Sd!Rose("data_dat")
    BY <1>3 DEF Settled, Sd!Rose, Sd!Status, Sd!status_resp_cmd, Sd!status_data_dat
  <2>2. ~dat.block_done
    BY DEF ControllerInv, DatShape, Shaped
  <2> QED BY <1>0, <1>3, <2>1, <2>2, CtrlMoves
          DEF Clean, ResetReady, Bits, Sd!CtrlBits, Sd!Settings
<1> QED BY <1>1, <1>2, <1>3 DEF Settled, Rests

(* After an abort. *)
LEMMA AbortStep ==
  ASSUME ControllerInv, NEW acc, NEW fits \in BOOLEAN, Edge(acc, fits), Permitted(acc), ~EarlyData
  PROVE  AbortInv'
<1>0. /\ Types /\ CmdShape /\ DatShape /\ FlagsInv /\ FlowInv /\ AbortInv /\ Formed(command)
      /\ cmd.state \in CmdStates /\ dat.state \in DatStates /\ cmd'.bit \in Nat
      /\ cmd.bit \in Nat /\ dat.bit \in Nat
  BY TypesStep DEF ControllerInv, Types, CmdRecord, DatShape, Shaped, DatRecord
<1>1. SUFFICES ASSUME command'.idx = "none"
               PROVE  /\ ~command'.abrt => Settled' /\ Clean'
                      /\ cmd'.state \in {"IDLE", "TAIL"} /\ dat'.state # "WAIT_BUSY"
                      /\ dat'.state = "IDLE" => cmd'.state = "IDLE"
                      /\ TailsMeet'
                      /\ "DAT_DONE" \in ctrl' => Settled'
  BY DEF AbortInv, TailsMeet
<1>2. /\ command.idx \in {"READ", "none"} /\ ~Active /\ ~command'.commit
      /\ command.idx = "READ" => command'.abrt
      /\ command.idx = "none" /\ ~command.abrt => command'.abrt \/ ~Sd!Writes(acc, "CMD")
      /\ command.abrt => command'.abrt
  <2>1. Formed(command')
    BY <1>0, CommandMoves
  <2>2. CASE Sd!Writes(acc, "CMD")
    BY <1>0, <1>1, <2>1, <2>2, CommandMoves DEF Permitted, Formed
  <2>3. CASE ~Sd!Writes(acc, "CMD")
    <3>1. command.idx = "none" /\ ~command.commit /\ command'.abrt = command.abrt
      BY <1>0, <1>1, <2>3, CommandMoves DEF Formed
    <3>2. ~Active
      BY <1>0, <3>1 DEF CmdShape
    <3> QED BY <1>0, <1>1, <2>1, <2>3, <3>1, <3>2 DEF Formed
  <2> QED BY <2>2, <2>3
<1>3. cmd.state \in {"IDLE", "TAIL"} /\ (cmd.state = "IDLE" => ~command.commit)
      /\ (command.idx \in {"READ", "none"} => ~command.commit)
  <2>1. command.idx = "READ" => ~command.commit
    BY <1>0, <1>2 DEF FlowInv, Flow
  <2> QED BY <1>0, <1>2, <2>1 DEF Active, CmdStates, Formed
<1>4. "RST" \notin ctrl
  BY <1>0, <1>2 DEF FlagsInv, ResetReady
<1>5. cmd'.state \in {"IDLE", "TAIL"} /\ (cmd.state = "IDLE" => cmd'.state = "IDLE")
  BY <1>2, <1>3, CmdRests
<1>6. command.dmode \in {"R", "NONE"} /\ ~cmd.start_dat
  <2>1. command.dmode \in {"R", "NONE"}
    BY <1>0, <1>2 DEF Formed, PhasesOf
  <2> QED BY <1>0, <1>3, <2>1 DEF CmdShape
<1>7. CASE Moving
  <2>1. "DAT_DONE" \notin ctrl'
    <3>1. "DAT_DONE" \notin ctrl
      BY <1>0, <1>2, <1>7 DEF FlowInv, AbortInv, Flow, Moving, Busy, Settled
    <3>2. ~Sd!Rose("idle_dat")
      BY <1>7 DEF Moving, Busy, Sd!Rose, Sd!Status, Sd!status_idle_dat
    <3> QED BY <1>0, <3>1, <3>2, CtrlMoves
  <2>2. Moving' \/ (dat'.state = "TAIL" /\ dat'.bit = 0)
    <3>1. CASE clkstrb
      BY <1>4, <1>7, <3>1, DatSteps
         DEF DatResets, DatMove, DatWaits, DatStarts, DatTails, DatBusy, DatAborts, DatMoves,
             Moving, Busy
    <3> QED BY <1>7, <3>1, StillBetween DEF Moving
  <2>3. command'.abrt
    BY <1>0, <1>2, <1>7 DEF AbortInv, Settled, Moving, Busy
  <2> QED BY <1>0, <1>5, <2>1, <2>2, <2>3 DEF TailsMeet, Moving, Busy
<1>8. CASE dat.state = "IDLE"
  <2>1. command.idx = "none" /\ cmd.state = "IDLE"
    BY <1>0, <1>2, <1>6, <1>8 DEF FlowInv, AbortInv, Flow, Moving, Busy
  <2>2. Settled' /\ (Settled /\ Clean => Clean')
    BY <1>2, <1>3, <1>8, <2>1, SettledStays
  <2>3. ~command'.abrt => Clean'
    BY <1>0, <1>2, <2>1, <2>2 DEF AbortInv
  <2> QED BY <2>2, <2>3 DEF Settled, Rests, TailsMeet
<1>9. CASE dat.state = "TAIL"
  <2>1. command.idx = "none" /\ TailsMeet /\ command.abrt /\ "DAT_DONE" \notin ctrl
    <3>1. command.idx = "none"
      BY <1>0, <1>2, <1>6, <1>9 DEF FlowInv, Flow, Moving, Busy
    <3> QED BY <1>0, <1>9, <3>1 DEF AbortInv, Settled, TailsMeet
  <2>2. TailsMeet' /\ dat'.state \in {"IDLE", "TAIL"}
          /\ (dat'.state = "IDLE" => cmd'.state = "IDLE")
    BY <1>2, <1>3, <1>4, <1>9, <2>1, Tails
  <2>3. "DAT_DONE" \notin ctrl'
    <3>1. ~Sd!Rose("idle_dat")
      BY <1>9 DEF Sd!Rose, Sd!Status, Sd!status_idle_dat
    <3> QED BY <1>0, <2>1, <3>1, CtrlMoves
  <2> QED BY <1>2, <1>5, <2>1, <2>2, <2>3
<1>10. dat.state # "WAIT_BUSY"
  BY <1>0, <1>2, <1>6 DEF FlowInv, AbortInv, Flow, Moving, Busy
<1> QED BY <1>7, <1>8, <1>9, <1>10 DEF Moving, Busy

(* A command without a data phase. *)
LEMMA SelectStep ==
  ASSUME ControllerInv, NEW acc, NEW fits \in BOOLEAN, Edge(acc, fits), Permitted(acc)
  PROVE  SelectInv' /\ CidInv'
<1>0. /\ Types /\ CmdShape /\ DatShape /\ SelectInv /\ CidInv /\ Formed(command)
      /\ dat.state \in DatStates
  BY DEF ControllerInv, Types, DatShape, Shaped, DatRecord
<1>1. CASE Sd!Writes(acc, "CMD") /\ command'.idx \in {"SELECT", "ALL_SEND_CID"}
  <2>1. Settled /\ Clean
    BY <1>0, <1>1, CommandMoves DEF Permitted
  <2>2. ~cmd.start_dat /\ dat.state = "IDLE" /\ "idle_dat" \in status_last
    BY <1>0, <2>1 DEF Settled, Rests, CmdShape
  <2> QED BY <1>0, <2>1, <2>2, DatRests DEF SelectInv, CidInv, Clean, DataFlags, Moving, Busy
<1>2. CASE ~Sd!Writes(acc, "CMD") /\ command.idx = "SELECT"
  <2>1. command'.idx = "SELECT"
    BY <1>0, <1>2, CommandMoves
  <2>2. /\ ~Moving /\ ~dat.block_done /\ "BLK_DONE" \notin ctrl /\ "DAT_DATA" \notin ctrl
        /\ dat.state \in {"IDLE", "TAIL", "WAIT_BUSY"} /\ command.dmode = "BUSY"
    BY <1>0, <1>2 DEF SelectInv, Moving, Busy, Formed, PhasesOf
  <2>3. ~Moving' /\ ~dat'.block_done
    <3>1. CASE clkstrb
      BY <2>2, <3>1, DatSteps
         DEF DatResets, DatMove, DatWaits, DatStarts, DatTails, DatBusy, DatAborts, DatMoves,
             Moving, Busy
    <3> QED BY <2>2, <3>1, StillBetween DEF Moving
  <2>4. ~Sd!Rose("data_dat")
    BY <2>2 DEF Sd!Rose, Sd!Status, Sd!status_data_dat
  <2>5. "BLK_DONE" \notin ctrl' /\ "DAT_DATA" \notin ctrl'
    BY <1>0, <2>2, <2>4, CtrlMoves
  <2> QED BY <2>1, <2>3, <2>5 DEF SelectInv, CidInv
<1>3. CASE ~Sd!Writes(acc, "CMD") /\ command.idx = "ALL_SEND_CID"
  <2>1. command'.idx = "ALL_SEND_CID"
    BY <1>0, <1>3, CommandMoves
  <2>2. /\ dat.state = "IDLE" /\ "idle_dat" \in status_last /\ ctrl \cap DataFlags = {}
        /\ command.dmode = "NONE"
    BY <1>0, <1>3 DEF CidInv, Formed, PhasesOf
  <2> QED BY <2>1, <2>2, DatRests DEF SelectInv, CidInv, DataFlags
<1>4. CASE command'.idx \notin {"SELECT", "ALL_SEND_CID"}
  BY <1>4 DEF SelectInv, CidInv
<1>5. ~Sd!Writes(acc, "CMD") => command'.idx = command.idx
  BY <1>0, CommandMoves
<1> QED BY <1>1, <1>2, <1>3, <1>4, <1>5

(* The stop command ends the transfer while it is sent. *)
LEMMA StopStep ==
  ASSUME ControllerInv, NEW acc, NEW fits \in BOOLEAN, Edge(acc, fits), Permitted(acc)
  PROVE  StopInv'
<1>0. /\ Types /\ CmdShape /\ DatShape /\ FlagsInv /\ FlowInv /\ StopInv /\ Formed(command)
      /\ cmd.state \in CmdStates /\ dat.state \in DatStates /\ cmd'.bit \in Nat
      /\ cmd.bit \in Nat /\ dat.bit \in Nat /\ TailBits <= CmdBits
      /\ TailBits \in Nat \ {0} /\ CmdBits \in Nat \ {0}
  BY TypesStep, Constants DEF ControllerInv, Types, CmdRecord, DatShape, Shaped, DatRecord
<1>1. "DAT_DONE" \in ctrl' => "DAT_DONE" \in ctrl
        \/ (dat.state = "IDLE" /\ "idle_dat" \notin status_last)
  BY <1>0, CtrlMoves DEF Sd!Rose, Sd!Status, Sd!status_idle_dat
<1>2. Sd!Rose("idle_dat")' => dat'.state = "IDLE" /\ dat.state # "IDLE"
  <2>1. Sd!Rose("idle_dat")' => dat'.state = "IDLE" /\ "idle_dat" \notin status_last'
    BY DEF Sd!Rose, Sd!Status, Sd!status_idle_dat
  <2> QED BY <1>0, <2>1, CommandMoves
<1>3. CASE Sd!Writes(acc, "CMD") /\ command'.idx = "STOP"
  <2>1. command.idx \in Flow /\ ~Active /\ dat.state # "IDLE" /\ command'.abrt
    BY <1>0, <1>3, CommandMoves DEF Permitted, Formed
  <2>2. ~command.commit /\ Moving /\ "DAT_DONE" \notin ctrl /\ ~command.abrt
    BY <1>0, <2>1 DEF FlowInv, Formed, Flow
  <2>3. cmd.state \in {"IDLE", "TAIL"} /\ "RST" \notin ctrl
    BY <1>0, <2>1 DEF Active, CmdStates, FlagsInv, ResetReady
  <2>4. cmd'.state \in {"IDLE", "TAIL"}
    BY <2>2, <2>3, CmdRests
  <2>5. Moving'
    <3>1. CASE clkstrb
      BY <2>2, <2>3, <3>1, DatSteps
         DEF DatResets, DatMove, DatWaits, DatStarts, DatTails, DatBusy, DatAborts, DatMoves,
             Moving, Busy
    <3> QED BY <2>2, <3>1, StillBetween DEF Moving
  <2>6. "DAT_DONE" \notin ctrl' /\ ~Sd!Rose("idle_dat")'
    BY <1>1, <1>2, <2>1, <2>2, <2>5 DEF Moving, Busy
  <2> QED BY <2>4, <2>5, <2>6 DEF StopInv, Moving, Busy, Sent
<1>4. CASE ~Sd!Writes(acc, "CMD") /\ command.idx = "STOP"
  <2>1. /\ command'.idx = "STOP" /\ command'.dmode = command.dmode /\ command.abrt
        /\ command'.commit <=> command.commit /\ ~clkstrb
        /\ command.dmode \in {"NONE", "BUSY"} /\ "RST" \notin ctrl
    BY <1>0, <1>4, CommandMoves DEF Formed, PhasesOf, FlagsInv, ResetReady
  <2>2. /\ Moving => cmd.state \in {"IDLE", "TAIL"} /\ "DAT_DONE" \notin ctrl
        /\ cmd.state = "IDLE" /\ command.commit => Moving
        /\ cmd.state = "WRITE" => \/ dat.state = "IDLE"
                                  \/ dat.state = "TAIL" /\ dat.bit = cmd.bit
                                       /\ "DAT_DONE" \notin ctrl
        /\ Sent => dat.state = "IDLE"
        /\ TailsMeet
        /\ dat.state = "WAIT_BUSY" => command.dmode = "BUSY"
        /\ dat.state = "TAIL" /\ command.dmode = "NONE" => "DAT_DONE" \notin ctrl
    BY <1>0, <1>4 DEF StopInv, TailsMeet
  <2>0. dat'.block_done => "DAT_DONE" \notin ctrl'
    <3>1. dat'.block_done => Moving \/ (dat.block_done /\ dat'.state = dat.state)
      BY StillBetween, DatSteps
    <3>2. dat.block_done => "DAT_DONE" \notin ctrl /\ dat.state # "IDLE"
      BY <1>0, <1>4 DEF StopInv, DatShape, Shaped
    <3> QED BY <1>1, <2>2, <3>1, <3>2 DEF Moving, Busy
  <2> SUFFICES
        /\ Moving' => cmd'.state \in {"IDLE", "TAIL"} /\ "DAT_DONE" \notin ctrl'
        /\ cmd'.state = "IDLE" /\ command'.commit => Moving'
        /\ cmd'.state = "WRITE" => \/ dat'.state = "IDLE"
                                   \/ dat'.state = "TAIL" /\ dat'.bit = cmd'.bit
                                        /\ "DAT_DONE" \notin ctrl'
        /\ Sent' => dat'.state = "IDLE"
        /\ TailsMeet'
        /\ dat'.state = "WAIT_BUSY" => command'.dmode = "BUSY"
        /\ dat'.state = "TAIL" /\ command'.dmode = "NONE" => "DAT_DONE" \notin ctrl'
        /\ "DAT_DONE" \in ctrl' /\ command'.dmode = "NONE" => "idle_dat" \in status_last'
        /\ Sd!Rose("idle_dat")' => \/ Rests'
                                   \/ cmd'.state \in {"WRITE", "WAIT_RESP"}
                                        /\ "DAT_DONE" \notin ctrl'
    BY <2>0, <2>1 DEF StopInv, TailsMeet
  <2>3. CASE Moving
    <3>2. "DAT_DONE" \notin ctrl'
      BY <1>1, <2>2, <2>3 DEF Moving, Busy
    <3>3. CASE ~clkstrb
      <4>1. cmd' = cmd /\ dat' = dat
        BY <3>3, StillBetween
      <4> QED BY <1>2, <2>1, <2>2, <2>3, <3>2, <4>1 DEF Moving, Busy, Sent, TailsMeet
    <3>4. CASE clkstrb
      <4>1. dat'.state = "TAIL" /\ dat'.bit = 0
        BY <2>1, <2>3, <3>4, DatSteps
           DEF DatResets, DatMove, DatWaits, DatStarts, DatTails, DatBusy, DatAborts, DatMoves,
               Moving, Busy
      <4>2. \/ cmd'.state \in {"IDLE", "TAIL"}
            \/ cmd'.state = "WRITE" /\ cmd'.bit = 0
        BY <2>1, <2>2, <2>3, <3>4, CmdMoves
           DEF CmdResets, CmdMove, CmdStarts, CmdHolds, CmdCounts, CmdWaits,
               CmdResponds, CmdOffers, CmdReadsOn, CmdTrails, CmdEnds, CmdGoes
      <4> QED BY <1>0, <1>2, <2>1, <3>2, <3>4, <4>1, <4>2 DEF Moving, Busy, Sent, TailsMeet
    <3> QED BY <3>3, <3>4
  <2>4. CASE dat.state = "TAIL" /\ cmd.state \in {"IDLE", "TAIL"}
    <3>1. cmd.state = "IDLE" => ~command.commit
      BY <2>2, <2>4 DEF Moving, Busy
    <3>2. /\ TailsMeet' /\ dat'.state \in {"IDLE", "TAIL"} /\ cmd'.state \in {"IDLE", "TAIL"}
          /\ dat'.state = "IDLE" => cmd'.state = "IDLE" /\ clkstrb
          /\ cmd'.state = "IDLE" => ~command'.commit
      <4>1. /\ TailsMeet' /\ dat'.state \in {"IDLE", "TAIL"} /\ cmd'.state \in {"IDLE", "TAIL"}
            /\ dat'.state = "IDLE" => cmd'.state = "IDLE" /\ clkstrb
        BY <2>1, <2>2, <2>4, <3>1, Tails, CmdRests
      <4> QED BY <2>1, <3>1, <4>1, StillBetween
    <3>3. command.dmode = "NONE" => "DAT_DONE" \notin ctrl'
      BY <1>1, <2>2, <2>4
    <3> QED BY <1>2, <2>1, <3>2, <3>3 DEF Moving, Busy, Sent, Rests
  <2>5. CASE dat.state = "TAIL" /\ cmd.state = "WRITE"
    <3>1. dat.bit = cmd.bit /\ "DAT_DONE" \notin ctrl' /\ cmd.bit < CmdBits /\ dat.bit < TailBits
      BY <1>0, <1>1, <2>2, <2>5 DEF CmdShape, DatShape, Shaped
    <3>2. CASE ~clkstrb
      BY <1>2, <2>1, <2>5, <3>1, <3>2, StillBetween DEF Moving, Busy, Sent, TailsMeet
    <3>3. CASE clkstrb
      <4>1. \/ dat.bit + 1 < TailBits /\ dat'.state = "TAIL" /\ dat'.bit = dat.bit + 1
            \/ dat.bit + 1 = TailBits /\ dat'.state = "IDLE"
        BY <2>1, <2>5, <3>3, DatSteps, ClockRuns
           DEF DatResets, DatMove, DatWaits, DatStarts, DatTails, DatBusy, DatAborts, DatMoves,
               Moving, Busy
      <4>2. \/ cmd.bit + 1 < CmdBits /\ cmd'.state = "WRITE" /\ cmd'.bit = cmd.bit + 1
            \/ cmd.bit + 1 = CmdBits /\ cmd'.state = "WAIT_RESP"
        BY <2>1, <2>5, <3>3, CmdMoves
           DEF CmdResets, CmdMove, CmdStarts, CmdHolds, CmdCounts, CmdWaits,
               CmdResponds, CmdOffers, CmdReadsOn, CmdTrails, CmdEnds, CmdGoes
      <4>3. cmd.bit + 1 = CmdBits => dat'.state = "IDLE"
        BY <1>0, <3>1, <4>1
      <4>4. cmd.bit + 1 < CmdBits => cmd'.state = "WRITE" /\ cmd'.bit = cmd.bit + 1
        BY <1>0, <4>2
      <4> QED BY <1>0, <2>1, <3>1, <4>1, <4>2, <4>3, <4>4 DEF Moving, Busy, Sent, TailsMeet
    <3> QED BY <3>2, <3>3
  <2>6. CASE dat.state = "IDLE"
    <3>1. cmd.state = "IDLE" => ~command.commit
      BY <2>2, <2>6 DEF Moving, Busy
    <3>2. cmd'.state = "IDLE" => ~command'.commit
      <4>1. ~clkstrb => cmd' = cmd
        BY StillBetween
      <4> QED BY <2>1, <3>1, <4>1
    <3>3. "idle_dat" \in status_last'
      BY <2>6, DatRests
    <3>4. dat'.state = "IDLE"
            \/ (dat'.state = "WAIT_BUSY" /\ command.dmode = "BUSY" /\ cmd.state = "TAIL" /\ clkstrb)
      <4>1. cmd.start_dat => cmd.state = "TAIL" \/ command.dmode = "R"
        BY <1>0 DEF CmdShape
      <4>2. CASE clkstrb /\ cmd.start_dat
        BY <2>1, <2>6, <4>1, <4>2, DatSteps
           DEF DatResets, DatMove, DatWaits, DatStarts, DatTails, DatBusy, DatAborts, DatMoves,
               Moving, Busy
      <4> QED BY <2>6, <4>2, DatRests
    <3>5. cmd.state = "TAIL" => cmd'.state \in {"IDLE", "TAIL"}
      BY CmdRests
    <3> QED BY <1>2, <2>1, <2>6, <3>2, <3>3, <3>4, <3>5 DEF Moving, Busy, Sent, TailsMeet
  <2>7. CASE dat.state = "WAIT_BUSY"
    <3>1. cmd.state \in {"IDLE", "TAIL"} /\ (cmd.state = "IDLE" => ~command.commit)
          /\ command.dmode = "BUSY"
      BY <1>0, <2>2, <2>7 DEF Moving, Busy, Sent, CmdStates
    <3>2. cmd'.state \in {"IDLE", "TAIL"} /\ (cmd'.state = "IDLE" => ~command'.commit)
      <4>1. cmd'.state \in {"IDLE", "TAIL"} /\ (~clkstrb => cmd' = cmd)
        BY <3>1, CmdRests
      <4> QED BY <2>1, <3>1, <4>1
    <3>3. dat'.state = "WAIT_BUSY" \/ (dat'.state = "TAIL" /\ dat'.bit = 0)
      <4>1. CASE clkstrb
        BY <2>1, <2>7, <4>1, DatSteps
           DEF DatResets, DatMove, DatWaits, DatStarts, DatTails, DatBusy, DatAborts, DatMoves,
               Moving, Busy
      <4> QED BY <2>7, <4>1, StillBetween
    <3> QED BY <1>0, <1>2, <2>1, <3>1, <3>2, <3>3 DEF Moving, Busy, Sent, TailsMeet
  <2>8. dat.state = "TAIL" => cmd.state \in {"IDLE", "TAIL", "WRITE"}
    BY <1>0, <2>2 DEF Sent, CmdStates
  <2> QED BY <2>3, <2>4, <2>5, <2>6, <2>7, <2>8 DEF Moving, Busy
<1>5. CASE command'.idx # "STOP"
  BY <1>5 DEF StopInv
<1>6. ~Sd!Writes(acc, "CMD") => command'.idx = command.idx
  BY <1>0, CommandMoves
<1> QED BY <1>3, <1>4, <1>5, <1>6

(* The controller and the card keep their invariant as long as the driver  *)
(* makes only accesses that are permitted.                                 *)
LEMMA ControllerStep ==
  ASSUME ControllerInv, NEW acc, NEW fits \in BOOLEAN, Edge(acc, fits), Permitted(acc), ~EarlyData
  PROVE  ControllerInv'
<1>1. Types' /\ Strobes' /\ CmdShape'
  BY TypesStep, StrobesStep, CmdShapeStep
<1>2. DatShape'
  <2>1. CASE clkstrb
    BY <2>1, DatSteps
  <2>2. CASE ~clkstrb
    BY <2>2, StillBetween DEF ControllerInv, DatShape
  <2> QED BY <2>1, <2>2
<1>3. Commanded' /\ Answered'
  BY CommandedStep, AnsweredBetween, AnsweredAtStrobe
<1>4. FlagsInv' /\ FirstInv' /\ FlowInv'
  BY FlagsStep, FirstStep, FlowStep
<1>5. AbortInv' /\ StopInv' /\ SelectInv' /\ CidInv'
  BY AbortStep, StopStep, SelectStep
<1> QED BY <1>1, <1>2, <1>3, <1>4, <1>5 DEF ControllerInv
=============================================================================
