--------------------------- MODULE NeoSDInvariant ----------------------------
(***************************************************************************)
(* The inductive invariant of the driver, the controller and the card.     *)
(* IInv covers the command side, the flags and the end of a data phase and *)
(* has two halves: what is true of the controller and the card whatever    *)
(* the driver does that keeps its rules, and what is true of the driver in *)
(* the middle of a function.  DataInv adds the data lines: where the       *)
(* controller and the card are in a block, and how many words the driver   *)
(* has taken or given.                                                     *)
(***************************************************************************)
EXTENDS NeoSDDriver

-----------------------------------------------------------------------------
(* Words for the invariant. *)

Bits == Sd!CtrlBits

CmdStates == {"IDLE", "WRITE", "WAIT_RESP", "READ_RESP", "REGOUT", "TAIL"}
DatStates == {"IDLE", "TAIL", "WAIT_BUSY",
              "WAIT_BLOCK", "READ_BLOCK", "REGOUT", "READ_CRC", "READ_FINISH",
              "WRITE_REGIN", "WRITE_START", "WRITE_DATA", "WRITE_CRC", "WRITE_STOP",
              "WRITE_CHECK_CRC", "WRITE_BUSY", "WRITE_TAIL"}
Tasks == {"idle", "answer", "delay", "send", "ready", "receive", "turn", "token",
          "programs", "busy"}
Indices == {"none", "READ", "READ_MULTI", "WRITE_MULTI", "ALL_SEND_CID", "SELECT", "STOP"}
DataModes == {"NONE", "BUSY", "R", "W"}
RespModes == {"NONE", "SHORT", "LONG"}
CommandSet == [idx : Indices, commit : BOOLEAN, abrt : BOOLEAN, dmode : DataModes,
               rmode : RespModes]

(* The registers of the two state machines. *)
CmdRecord == [state : CmdStates, bit : Nat, word : 0 .. 5, clk_req : BOOLEAN,
              clk_stall : BOOLEAN, oe : BOOLEAN, start_dat : BOOLEAN]

WordRange == 0 .. Words
DatRecord == [state : DatStates, bit : Nat, word : WordRange, clk_req : BOOLEAN,
              clk_stall : BOOLEAN, oe : BOOLEAN, shift : BOOLEAN, rstn_reg : BOOLEAN,
              omux : Nat, crc_ok : BOOLEAN, block_done : BOOLEAN, write_start : BOOLEAN]

(* The data phases that a command may ask for. *)
PhasesOf(idx) == CASE idx \in {"READ", "READ_MULTI"} -> {"R"}
                   [] idx = "WRITE_MULTI" -> {"W"}
                   [] idx = "SELECT" -> {"BUSY"}
                   [] idx = "STOP" -> {"NONE", "BUSY"}
                   [] OTHER -> {"NONE"}

(* A value of the command register as the driver writes it. *)
Formed(k) ==
  /\ k \in CommandSet
  /\ k.dmode \in PhasesOf(k.idx)
  /\ k.idx = "none" => ~k.commit
  /\ k.idx # "none" => /\ k.abrt = (k.idx = "STOP")
                       /\ k.rmode = IF k.idx = "ALL_SEND_CID" THEN "LONG" ELSE "SHORT"

Flow == {"READ", "READ_MULTI", "WRITE_MULTI"}

Busy(d) == d.state \notin {"IDLE", "TAIL", "WAIT_BUSY"}

(* A command is waiting for the command state machine or is in it. *)
Active == \/ cmd.state \in {"WRITE", "WAIT_RESP", "READ_RESP", "REGOUT"}
          \/ cmd.state = "IDLE" /\ command.commit
Sent == cmd.state \in {"WAIT_RESP", "READ_RESP", "REGOUT"}
Rests == cmd.state = "IDLE" /\ ~command.commit
First == command.idx # "STOP"
Moving == Busy(dat)

(* Both state machines are at rest, and the flags have noticed. *)
Settled == Rests /\ dat.state = "IDLE" /\ status_last = {"idle_cmd", "idle_dat"}
Clean == ctrl \subseteq {"CRCERR"}

DataFlags == {"BLK_DONE", "DAT_DONE", "DAT_DATA"}

(* Where the card clock is: the rising edge of the period has been, and    *)
(* the falling one.                                                        *)
Risen == sd_clk_cont \/ clkstrb
Fallen == clkstrb

-----------------------------------------------------------------------------
(* The controller and the card. *)

Types ==
  /\ cnt \in 0 .. Prescale - 1 /\ cdiv_cnt \in 0 .. ClkDiv
  /\ {sd_clk_strb, sd_clk_cont, clkstrb, sd_clk} \subseteq BOOLEAN
  /\ ctrl \subseteq Bits
  /\ Formed(command)
  /\ status_last \subseteq {"idle_cmd", "resp_cmd", "idle_dat", "data_dat"}
  /\ cmd \in CmdRecord
  /\ cmd_reg \in [idx : Indices, out : 0 .. CmdBits, last : Nat]
  /\ dat_reg \in [out : 0 .. Sd!BlockBits + 1, last : Nat]
  /\ rx \in 0 .. CmdBits - 1
  /\ answer \in [wait : Nat, bit : Nat, len : Nat]
  /\ task \in Tasks /\ n \in Nat /\ multi \in BOOLEAN

(* The strobes come one at a time, and the card clock keeps the level that *)
(* its rising strobe gave it.                                              *)
Strobes ==
  /\ clkstrb => ~sd_clk_strb /\ ~sd_clk_cont
  /\ ~sd_clk_cont => ~sd_clk
  /\ sd_clk_cont => sd_clk = Sd!sd_clk_en
  /\ sd_clk_strb => cnt # 0 \/ cdiv_cnt # ClkDiv

(* What the registers of the command state machine hold in its states. *)
CmdShape ==
  /\ cmd.clk_req = (cmd.state # "IDLE")
  /\ cmd.clk_stall = (cmd.state = "REGOUT")
  /\ cmd.oe = (cmd.state = "WRITE")
  /\ cmd.start_dat => \/ cmd.state = "WAIT_RESP" /\ command.dmode = "R"
                      \/ cmd.state = "TAIL" /\ cmd.bit = 0 /\ command.dmode \in {"W", "BUSY"}
  /\ cmd.state = "WRITE" => cmd.bit < CmdBits
  /\ cmd.state = "WAIT_RESP" => /\ cmd.bit = Sd!FirstCount(command.rmode)
                                /\ cmd.word = Sd!Registered(command.rmode)
  /\ cmd.state = "READ_RESP" => cmd.bit < RespBits /\ cmd.word \in 1 .. Sd!Registered(command.rmode)
  /\ cmd.state = "REGOUT" => cmd.bit = 0 /\ cmd.word < Sd!Registered(command.rmode)
  /\ cmd.state \in {"IDLE", "TAIL"} => cmd.bit < TailBits
  /\ Active => command.idx # "none"
  /\ Active /\ cmd.state # "IDLE" => ~command.commit

(* The same of the data state machine, as far as the command side and the  *)
(* driver depend on it.                                                    *)
Shaped(d) ==
  /\ d \in DatRecord
  /\ d.state \in {"IDLE", "TAIL", "WAIT_BUSY", "WAIT_BLOCK"} => ~d.clk_stall
  /\ d.state \in {"IDLE", "WAIT_BUSY"} => ~d.block_done
  /\ d.state = "TAIL" => d.bit < TailBits
  /\ d.state \in {"READ_BLOCK", "WRITE_DATA"} => d.word > 0
  /\ d.state \in {"WRITE_BUSY", "WRITE_TAIL"} => d.write_start
  /\ d.state = "WRITE_REGIN" /\ ~d.write_start => d.word > 0

DatShape == Shaped(dat)

(* The number of registers of the response that are complete, and the last *)
(* bit of the k-th.                                                        *)
Taken == Sd!Registered(command.rmode) - cmd.word
LastBit(kind, k) == FirstBits[kind] + (k - 1) * RespBits

(* The card answers the command that is in the register. *)
Answers == \/ command.idx \in {"SELECT", "ALL_SEND_CID"} /\ answer = Card!Silent
           \/ answer.len = RespLen[command.rmode] /\ (answer.wait = 0 <=> answer.bit > 0)

(* The register of the controller and the card are at the same bit of the  *)
(* command, and later of the response.                                     *)
Commanded ==
  /\ cmd.state # "WRITE" => rx = 0
  /\ cmd.state = "IDLE" => answer = Card!Silent
  /\ cmd.state = "IDLE" /\ command.commit => cmd_reg.out = 0
  /\ Active => cmd_reg.idx = command.idx
  /\ cmd.state = "WRITE" =>
       /\ cmd_reg.out = cmd.bit
       /\ IF ~Risen THEN rx = cmd.bit /\ answer = Card!Silent
          ELSE IF cmd.bit + 1 < CmdBits THEN rx = cmd.bit + 1 /\ answer = Card!Silent
          ELSE /\ rx = 0 /\ Answers /\ answer.bit = 0
               /\ answer.wait > 0 => answer.wait > IF Fallen THEN 1 ELSE 2
               /\ command.dmode = "R" => task = "answer"

Answered ==
  /\ Sent /\ command.dmode = "R" => task = "answer"
  /\ cmd.state = "WAIT_RESP" =>
       /\ Answers
       /\ cmd_reg.last <= 2
       /\ answer.bit = IF ~Fallen THEN cmd_reg.last
                       ELSE IF cmd_reg.last = 0 /\ answer.bit = 0 THEN 0 ELSE cmd_reg.last + 1
  /\ cmd.state \in {"READ_RESP", "REGOUT"} =>
       answer.wait = 0 /\ answer.bit > 0 /\ answer.len = RespLen[command.rmode]
  /\ cmd.state = "READ_RESP" =>
       /\ cmd_reg.last = LastBit(command.rmode, Taken) + cmd.bit
       /\ answer.bit = IF Fallen THEN cmd_reg.last + 1 ELSE cmd_reg.last
  /\ cmd.state = "REGOUT" => cmd_reg.last = LastBit(command.rmode, Taken)
       /\ answer.bit = cmd_reg.last
  /\ cmd.state = "TAIL" =>
       \/ answer = Card!Silent
       \/ /\ answer.wait = 0 /\ answer.bit = answer.len /\ cmd.bit = 0
          /\ ~(Fallen /\ Sd!sd_clk_en)

(* A reset meets a command that is not answered, and no transfer. *)
ResetReady ==
  /\ command.idx \in {"SELECT", "ALL_SEND_CID"}
  /\ cmd.state \in {"WAIT_RESP", "IDLE"} /\ ~command.commit
  /\ answer = Card!Silent /\ dat.state = "IDLE" /\ ~cmd.start_dat

(* The flags of CTRL follow the states. *)
FlagsInv ==
  /\ "IDLE_SDCLK" \notin ctrl
  /\ ~({"idle_cmd", "resp_cmd"} \subseteq status_last)
  /\ ~({"idle_dat", "data_dat"} \subseteq status_last)
  /\ "CMD_RESP" \in ctrl => cmd.state = "REGOUT"
  /\ Sd!Rose("resp_cmd") => ~clkstrb
  /\ First /\ "CMD_DONE" \in ctrl => Rests /\ "idle_cmd" \in status_last
  /\ "RST" \in ctrl => ResetReady

(* The data state machine during and after each command. *)
FirstInv == Active /\ First =>
  /\ \/ dat.state = "IDLE" /\ "idle_dat" \in status_last
     \/ dat.state = "WAIT_BLOCK" /\ Sent /\ command.dmode = "R"
  /\ ~dat.block_done /\ ctrl \cap DataFlags = {}
  /\ cmd.state = "IDLE" => "idle_cmd" \in status_last
  /\ Sent /\ command.dmode = "R" => cmd.start_dat \/ dat.state # "IDLE"

FlowInv == command.idx \in Flow /\ ~Active =>
  /\ ~command.commit
  /\ Moving \/ (cmd.start_dat /\ dat.state = "IDLE" /\ "idle_dat" \in status_last)
  /\ "DAT_DONE" \notin ctrl
  /\ dat.state = "IDLE" => "BLK_DONE" \notin ctrl
  /\ cmd.start_dat => dat.state = "IDLE"

AbortInv == command.idx = "none" =>
  /\ ~command.abrt => Settled /\ Clean
  /\ cmd.state \in {"IDLE", "TAIL"} /\ dat.state # "WAIT_BUSY"
  /\ dat.state = "IDLE" => cmd.state = "IDLE"
  /\ dat.state = "TAIL" /\ cmd.state = "TAIL" => cmd.bit >= dat.bit
  /\ "DAT_DONE" \in ctrl => Settled

StopInv == command.idx = "STOP" =>
  /\ Moving => cmd.state \in {"IDLE", "TAIL"} /\ "DAT_DONE" \notin ctrl
  /\ dat.block_done => "DAT_DONE" \notin ctrl
  /\ cmd.state = "IDLE" /\ command.commit => Moving
  /\ cmd.state = "WRITE" => \/ dat.state = "IDLE"
                            \/ dat.state = "TAIL" /\ dat.bit = cmd.bit /\ "DAT_DONE" \notin ctrl
  /\ Sent => dat.state = "IDLE"
  /\ dat.state = "TAIL" /\ cmd.state = "TAIL" => cmd.bit >= dat.bit
  /\ dat.state = "WAIT_BUSY" => command.dmode = "BUSY"
  /\ dat.state = "TAIL" /\ command.dmode = "NONE" => "DAT_DONE" \notin ctrl
  /\ "DAT_DONE" \in ctrl /\ command.dmode = "NONE" => "idle_dat" \in status_last
  /\ Sd!Rose("idle_dat") => Rests
       \/ (cmd.state \in {"WRITE", "WAIT_RESP"} /\ "DAT_DONE" \notin ctrl)

SelectInv == command.idx = "SELECT" =>
  ~Moving /\ ~dat.block_done /\ ctrl \cap {"BLK_DONE", "DAT_DATA"} = {}

CidInv == command.idx = "ALL_SEND_CID" =>
  dat.state = "IDLE" /\ "idle_dat" \in status_last /\ ctrl \cap DataFlags = {}

ControllerInv ==
  /\ Types /\ Strobes /\ CmdShape /\ DatShape /\ Commanded /\ Answered /\ FlagsInv
  /\ FirstInv /\ FlowInv /\ AbortInv /\ StopInv /\ SelectInv /\ CidInv


-----------------------------------------------------------------------------
(* The driver. *)

Ops(s) == {s[i] : i \in 1 .. Len(s)}

Clears == {{"CMD_DONE"}, {"DAT_DONE"}, {"BLK_DONE"}, {"BLK_DONE", "CRCERR"},
           {"CMD_DONE", "DAT_DONE", "BLK_DONE", "CRCERR"}, {"RST"}}
Operations ==
  {Poll, Read("CTRL"), Read("RESP"), Read("DATA"), Set({"RST"}),
   Write("DATA", Sd!NoCommand), Write("CMDARG", Sd!NoCommand)}
  \cup {Clear(b) : b \in Clears}
  \cup {Write("CMD", k) : k \in {c \in CommandSet : Formed(c)}}

Commands(o) == o.adr \in {"CMD", "CMDARG"}

(* Nothing but the reads of CTRL comes twice, and the argument before its  *)
(* command.                                                                *)
Ordered(s) == \A i, j \in 1 .. Len(s) : i < j =>
  /\ (s[i] = s[j] => s[i] = Read("CTRL"))
  /\ (s[i].adr = "CMD" => ~Commands(s[j]))

Plan(s) == s \in Seq(Operations) /\ Ordered(s)

(* The flags that an operation acknowledges. *)
Acks(o) == CASE o.op = "clear" -> o.bits
             [] o = Read("DATA") -> {"DAT_DATA"}
             [] o = Read("RESP") -> {"CMD_RESP"}
             [] OTHER -> {}
Acked(s) == UNION {Acks(o) : o \in Ops(s)}

(* What a loop that ends leaves behind, when it has done s: both state     *)
(* machines at rest, and no flag but those that s acknowledges.            *)
Quits(s) ==
  /\ Rests /\ dat.state = "IDLE"
  /\ ctrl \ {"CRCERR"} \subseteq Acked(s)
  /\ Sd!Rose("idle_cmd") => "CMD_DONE" \in Acked(s)
  /\ Sd!Rose("idle_dat") => "DAT_DONE" \in Acked(s)

BusyFlags == {"CMD_BUSY", "DAT_BUSY"}

CommandsOf(c) == CASE c = "read_block" -> {"READ", "none"}
                   [] c = "read_blocks_stop" -> {"READ_MULTI", "STOP"}
                   [] c = "write_blocks_stop" -> {"WRITE_MULTI", "STOP"}
                   [] c = "select" -> {"SELECT"}
                   [] c = "all_send_cid" -> {"ALL_SEND_CID"}
                   [] c = "reset" -> {"SELECT", "ALL_SEND_CID"}

(* The accesses with which a function ends the data phase. *)
StopOf(c) == CASE c = "read_block" -> Abort
               [] c = "read_blocks_stop" -> Commit("STOP", "SHORT", "NONE", TRUE)
               [] c = "write_blocks_stop" -> Commit("STOP", "SHORT", "BUSY", TRUE)
               [] OTHER -> <<>>

KindOf(c) == IF c = "all_send_cid" THEN "LONG" ELSE "SHORT"

(* The registers of the responses that have been read. *)
ReadSoFar ==
  (IF First THEN 0 ELSE 2)
  + (CASE cmd.state = "READ_RESP" -> Taken
       [] cmd.state = "REGOUT" ->
            IF Sd!Rose("resp_cmd") \/ "CMD_RESP" \in ctrl THEN Taken - 1 ELSE Taken
       [] OTHER -> 0)

(* The state while function c, in its loop l, has the accesses s to make   *)
(* because of the flags f, and has seen the end of b blocks.               *)

(* The command in the register is one of the function. *)
Which(c, b) ==
  /\ command.idx \in CommandsOf(c)
  /\ c = "read_block" /\ command.idx = "none" => command.abrt
  /\ c = "read_blocks_stop" /\ ~First => command.dmode = "NONE" /\ b >= Blocks
  /\ c = "write_blocks_stop" /\ ~First => command.dmode = "BUSY" /\ b >= Blocks
  /\ c # "reset" => "RST" \notin ctrl

(* The accesses are right for the state of the controller. *)
Legal(c, s, b) ==
  /\ c # "reset" /\ Read("RESP") \in Ops(s) => "CMD_RESP" \in ctrl
  /\ Write("DATA", Sd!NoCommand) \in Ops(s) => sent < Words * Blocks
  /\ (\E o \in Ops(s) : Commands(o)) =>
       /\ ~Active /\ c \in {"read_block", "read_blocks_stop", "write_blocks_stop"}
       /\ c # "read_block" => command.idx \in Flow /\ b >= Blocks /\ dat.state # "IDLE"
       /\ \A o \in Ops(s) : o.adr = "CMD" => o \in Ops(StopOf(c))
  /\ Set({"RST"}) \in Ops(s) => c = "reset" /\ Poll \in Ops(s)

(* What the flags that a loop has seen tell. *)
ReadBlockInv(c, s, f) == c = "read_block" /\ "DAT_DONE" \in f => Quits(s)

StopDone(c, l, s, f) == c \in {"read_blocks_stop", "write_blocks_stop"} =>
  /\ "DAT_DONE" \in f \/ l = 2 => ~First /\ ~Moving
  /\ ~First /\ "CMD_DONE" \in ctrl => \/ Rests /\ "idle_cmd" \in status_last
                                      \/ l = 1 /\ ("DAT_DONE" \in f => "CMD_DONE" \in Acked(s))

ReadBlocksInv(c, l, s, f) == c = "read_blocks_stop" =>
  /\ "DAT_DONE" \in f \/ l = 2 => dat.state = "IDLE" /\ "idle_dat" \in status_last
  /\ l = 1 /\ "DAT_DONE" \in f => ctrl \cap DataFlags \subseteq Acked(s)
  /\ l = 2 => ctrl \cap DataFlags = {}
  /\ l = 2 /\ "CMD_DONE" \in f => Quits(s)

WriteBlocksInv(c, l, s, f) == c = "write_blocks_stop" /\ ("DAT_DONE" \in f \/ l = 2) =>
  /\ ~dat.block_done
  /\ dat.state # "IDLE" => ~Active
  /\ Sd!Rose("idle_dat") => Rests
  /\ "BLK_DONE" \in ctrl => l = 1 /\ "BLK_DONE" \in Acked(s)
  /\ "DAT_DONE" \in ctrl => Settled \/ (l = 1 /\ "DAT_DONE" \in Acked(s))
  /\ l = 2 /\ "DAT_DONE" \in f => Quits(s)

SelectLoops(c, l, s, f) == c = "select" =>
  /\ "CMD_DONE" \in f \/ l = 2 => Rests /\ "idle_cmd" \in status_last
  /\ l = 1 /\ "CMD_DONE" \in f /\ "CMD_DONE" \in ctrl => "CMD_DONE" \in Acked(s)
  /\ l = 2 => "CMD_DONE" \notin ctrl
  /\ l = 2 /\ Poll \notin Ops(s) /\ f \cap BusyFlags = {} => Quits(s)

(* A card that is busy after SELECT is waited for. *)
BusyAwaited(c) == c = "select" =>
  /\ task = "busy" => Active \/ cmd.start_dat \/ dat.state = "WAIT_BUSY"
  /\ cmd.start_dat => dat.state = "IDLE"

CidLoop(c, s, f) == c = "all_send_cid" /\ "CMD_DONE" \in f => Quits(s)

ResetInv(c, s, f) == c = "reset" =>
  /\ ResetReady /\ "idle_dat" \in status_last
  /\ ctrl \subseteq {"CRCERR", "RST", "CMD_DONE"}
  /\ Poll \notin Ops(s) /\ f \cap BusyFlags = {} => Quits(s)
  /\ resp = <<>>

RespInv(c) ==
  /\ \A i \in 1 .. Len(resp) : resp[i] = Cut(KindOf(c), i)
  /\ Active => Len(resp) = ReadSoFar
  /\ ~Active /\ command.idx \in Flow => Len(resp) = 2

During(c, l, s, f, b) ==
  /\ Which(c, b) /\ Legal(c, s, b)
  /\ ReadBlockInv(c, s, f) /\ StopDone(c, l, s, f)
  /\ ReadBlocksInv(c, l, s, f) /\ WriteBlocksInv(c, l, s, f)
  /\ SelectLoops(c, l, s, f) /\ BusyAwaited(c) /\ CidLoop(c, s, f)
  /\ ResetInv(c, s, f) /\ RespInv(c)

Starting == call \in Calls /\ todo \in {Begin(call) \o <<Poll>>, Tail(Begin(call)) \o <<Poll>>}
Resetting == call = "reset" /\ todo \in {TurnOn({"RST"}) \o <<Poll>>, <<Set({"RST"}), Poll>>}
Handling == todo # <<>> /\ Poll \notin Ops(todo)

DriverTypes ==
  /\ call \in Calls \cup {"none", "reset"} /\ loop \in 1 .. 2
  /\ loop = 2 => call \in {"read_blocks_stop", "write_blocks_stop", "select"}
  /\ Plan(todo)
  /\ irq \subseteq Bits \cup BusyFlags
  /\ resp \in Seq(Nat) /\ buf \in Seq(Nat)
  /\ sent \in 0 .. Words * Blocks /\ blocks \in Nat

DriverInv ==
  /\ DriverTypes
  /\ call = "none" => todo = <<>> /\ loop = 1 /\ Settled /\ Clean
  /\ call # "none" => Starting \/ Resetting \/ todo = <<Poll>> \/ Handling
  /\ ~Handling => irq = {}
  /\ Starting => Settled /\ Clean /\ loop = 1 /\ blocks = 0 /\ resp = <<>>
  /\ call # "none" /\ ~Starting => During(call, loop, todo, irq, blocks)
  /\ old \cap Sd!Settings \subseteq ctrl

IInv == ControllerInv /\ DriverInv
-----------------------------------------------------------------------------
(* The data lines. *)

ReadStates == {"WAIT_BLOCK", "READ_BLOCK", "REGOUT", "READ_CRC", "READ_FINISH"}
WriteStates == {"WRITE_REGIN", "WRITE_START", "WRITE_DATA", "WRITE_CRC", "WRITE_STOP",
                "WRITE_CHECK_CRC", "WRITE_BUSY", "WRITE_TAIL"}

(* In the middle of a block that is written. *)
InBlock(d) == \/ d.state \in {"WRITE_DATA", "WRITE_CRC", "WRITE_STOP"}
              \/ d.state = "WRITE_REGIN" /\ ~d.write_start

(* What the registers of the data state machine hold in its states, as far *)
(* as the data lines depend on it.                                         *)
Lined(d) ==
  /\ d.clk_req <=> d.state # "IDLE"
  /\ d.clk_stall <=> d.state \in {"REGOUT", "READ_FINISH", "WRITE_REGIN"}
  /\ d.oe <=> d.state = "WRITE_START" \/ InBlock(d)
  /\ d.shift <=> d.state \in ReadStates \cup {"WRITE_CHECK_CRC"} \/ InBlock(d)
  /\ d.state = "WRITE_CHECK_CRC" \/ InBlock(d) => ~d.write_start
  /\ d.state = "WRITE_START" => d.write_start /\ d.omux = 0 /\ d.bit = 0
  /\ d.state \in ReadStates \ {"READ_FINISH"} => d.rstn_reg
  /\ d.state \in WriteStates \ {"WRITE_BUSY", "WRITE_TAIL"} => d.rstn_reg
  /\ d.state = "WRITE_DATA" \/ (d.state = "WRITE_REGIN" /\ ~d.write_start) => d.omux = 2
  /\ d.state = "WRITE_CRC" => d.omux = 3
  /\ d.state = "WRITE_STOP" => d.omux = 1 /\ d.bit = 0
  /\ d.state \in {"READ_BLOCK", "WRITE_DATA"} => d.bit < WordBits
  /\ d.state \in {"READ_CRC", "WRITE_CRC"} => d.bit < CrcBits /\ d.word = 0
  /\ d.state \in {"WRITE_STOP", "WRITE_CHECK_CRC", "WRITE_BUSY"} => d.word = 0
  /\ d.state = "WRITE_BUSY" => d.bit = 0
  /\ d.state = "REGOUT" => d.word < Words
  /\ d.state = "WRITE_REGIN" /\ ~d.write_start => d.word < Words
  /\ d.state = "WRITE_CHECK_CRC" => d.bit <= Sd!TokenEnd
  /\ d.state = "WRITE_TAIL" => d.bit < TailBits

(* The bits of a block before its last w words, and of this one. *)
Passed(w) == (Words - w) * WordBits
Through == Passed(dat.word)

(* The bit of the period, once the card has moved its lines, or has looked *)
(* at them.                                                                *)
Moved(k) == IF Fallen THEN k + 1 ELSE k
Seen(k) == IF Risen THEN k + 1 ELSE k

(* Reading, the register holds the bit that the card showed last.  A block *)
(* is waited for until its start bit, or from its last bit on.             *)
ReadLine ==
  /\ dat.state = "WAIT_BLOCK" /\ task = "send" =>
       \/ n = 0 /\ Fallen
       \/ n = Sd!BlockBits + CrcBits /\ ~Fallen
       \/ n = Sd!BlockBits + CrcBits + 1
  /\ dat.state = "WAIT_BLOCK" => task \in {"answer", "delay", "send", "idle"}
  /\ dat.state \in ReadStates \ {"WAIT_BLOCK"} => task = "send"
  /\ dat.state = "READ_BLOCK" => dat_reg.last = Through + dat.bit /\ n = Moved(dat_reg.last)
  /\ dat.state = "REGOUT" => dat_reg.last = Through /\ n = dat_reg.last
  /\ dat.state = "READ_CRC" => n = Moved(Sd!BlockBits + dat.bit)
  /\ dat.state = "READ_FINISH" => n = Sd!BlockBits + CrcBits

(* The driver has still to take, or to give, the word. *)
Asked == "DAT_DATA" \in ctrl \/ Sd!Rose("data_dat")

(* Writing, the register shows the bit that the card takes next. *)
WriteLine ==
  /\ dat.state = "WRITE_REGIN" /\ ~Asked =>
       dat_reg.out = IF dat.write_start THEN 1 ELSE Through + 1
  /\ dat.state = "WRITE_START" => dat_reg.out = 1
  /\ dat.state = "WRITE_DATA" => dat_reg.out = Through + dat.bit + 1
  /\ dat.state = "WRITE_CHECK_CRC" /\ dat.bit >= 2 => dat_reg.last = dat.bit - 1

(* The answer to a block, k clocks after its end bit. *)
TokenAt(k) ==
  CASE k < 2 -> task = "turn" /\ n = 1 - k
    [] k \in 2 .. Sd!TokenEnd -> task = "token" /\ n = k - 2
    [] OTHER -> task = "programs"

WriteTask ==
  /\ dat.state = "WRITE_REGIN" =>
       IF dat.write_start THEN task = "ready" ELSE task = "receive" /\ n = Through
  /\ dat.state = "WRITE_START" =>
       IF Risen THEN task = "receive" /\ n = 0 ELSE task = "ready"
  /\ dat.state = "WRITE_DATA" => task = "receive" /\ n = Seen(Through + dat.bit)
  /\ dat.state = "WRITE_CRC" => task = "receive" /\ n = Seen(Sd!BlockBits + dat.bit)
  /\ dat.state = "WRITE_STOP" =>
       IF Risen THEN task = "turn" /\ n = (IF Fallen THEN 1 ELSE 2)
       ELSE task = "receive" /\ n = Sd!BlockBits + CrcBits
  /\ dat.state = "WRITE_CHECK_CRC" => TokenAt(Moved(dat.bit))
  /\ dat.state = "WRITE_BUSY" => task \in {"programs", "ready"}
  /\ dat.state = "WRITE_TAIL" => task = "ready"
  /\ dat.state \notin WriteStates => task \notin {"receive", "turn", "token", "programs"}

(* The card has taken the command, and is ready for a block when the data  *)
(* phase of a write begins.                                                *)
Received == \/ cmd.state \notin {"IDLE", "WRITE"}
            \/ cmd.state = "WRITE" /\ Risen /\ cmd.bit + 1 = CmdBits
Prepared ==
  /\ command.idx = "WRITE_MULTI" /\ dat.state = "IDLE" /\ Received => task = "ready"
  /\ command.idx = "READ" /\ Received => ~multi

(* The flag of the data register is up, or rises, only while the           *)
(* controller waits for the driver.                                        *)
AskedWell ==
  /\ Sd!Rose("data_dat") => ~clkstrb /\ "DAT_DATA" \notin ctrl
  /\ Moving /\ "DAT_DATA" \in ctrl => Sd!status_data_dat
  /\ command.idx \in Flow /\ dat.state = "IDLE" => "DAT_DATA" \notin ctrl

(* The words of the block that the driver has taken, or given. *)
Due == CASE dat.state = "REGOUT" -> IF Asked THEN Words - dat.word - 1 ELSE Words - dat.word
         [] dat.state = "READ_BLOCK" -> Words - dat.word
         [] dat.state \in {"READ_CRC", "READ_FINISH"} -> Words
         [] OTHER -> 0

Given == CASE dat.state = "WRITE_REGIN" ->
                (IF dat.write_start THEN 0 ELSE Words - dat.word) + (IF Asked THEN 0 ELSE 1)
           [] dat.state = "WRITE_START" -> 1
           [] dat.state = "WRITE_DATA" -> Words - dat.word + 1
           [] dat.state = "WRITE_TAIL" -> 0
           [] OTHER -> Words

(* Blocks that are done and that the driver has not counted. *)
Uncounted == (IF dat.block_done THEN 1 ELSE 0)
             + (IF "BLK_DONE" \in ctrl /\ "BLK_DONE" \notin Acked(todo) THEN 1 ELSE 0)

(* Words are taken and given one block after the other, and no block is    *)
(* counted twice.                                                          *)
Exchanged(total, part) ==
  \E q \in 0 .. total : total = Words * q + part /\ blocks + Uncounted <= q

DataFlow ==
  /\ dat.state \in ReadStates =>
       call \in Reading /\ (Len(buf) < MaxBuf => Exchanged(Len(buf), Due))
  /\ dat.state \in WriteStates => call = "write_blocks_stop" /\ Exchanged(sent, Given)

(* No word is exchanged before the data phase. *)
Fresh ==
  Starting \/ (command.idx \in Flow /\ dat.state = "IDLE") =>
    buf = <<>> /\ sent = 0 /\ blocks = 0

(* When it is over, all of them are. *)
Over ==
  command.idx = "STOP" /\ call # "none" /\ ~Starting =>
    /\ call = "read_blocks_stop" => Len(buf) >= Words * Blocks
    /\ call = "write_blocks_stop" => sent = Words * Blocks

(* The one block of a single read. *)
BlockOver == task = "idle" \/ (task = "send" /\ n >= Sd!BlockBits + CrcBits)
Single == call = "read_block" /\ ~Starting =>
  /\ dat.state \in ReadStates => ~multi
  /\ dat.state = "WAIT_BLOCK" => Len(buf) = (IF BlockOver THEN Words ELSE 0)
  /\ dat.state \in ReadStates \ {"WAIT_BLOCK"} => Len(buf) = Due
  /\ command.idx = "none" => /\ Len(buf) = Words /\ Len(resp) = 2
                             /\ dat.state \in {"WAIT_BLOCK", "TAIL", "IDLE"}
                             /\ dat.state = "WAIT_BLOCK" => BlockOver
                             /\ "DAT_DATA" \notin ctrl /\ ~Sd!Rose("data_dat")

(* The accesses of the data register, and the abort of a single read. *)
DataOps ==
  /\ Read("DATA") \in Ops(todo) /\ call # "reset" =>
       "DAT_DATA" \in ctrl /\ (call = "write_blocks_stop" => loop = 2)
  /\ Write("DATA", Sd!NoCommand) \in Ops(todo) =>
       "DAT_DATA" \in ctrl /\ call = "write_blocks_stop" /\ loop = 1
  /\ call = "read_block" /\ ~Starting /\ (\E o \in Ops(todo) : o.adr = "CMD") => blocks > 0

(* Each word read is the word of its place, up to the last one wanted. *)
WordsRead ==
  \A i \in 1 .. Len(buf) :
    i <= Words * Blocks => buf[i] = (((i - 1) % Words) + 1) * WordBits

DataInv ==
  /\ Lined(dat) /\ ReadLine /\ WriteLine /\ WriteTask /\ Prepared /\ AskedWell
  /\ DataFlow /\ Fresh /\ Over /\ Single /\ DataOps /\ WordsRead

(* The bits of a block that have come. *)
Come == CASE dat.state = "READ_BLOCK" -> Through + dat.bit
          [] dat.state = "REGOUT" -> Through
          [] dat.state = "READ_CRC" -> Sd!BlockBits + dat.bit
          [] dat.state = "READ_FINISH" -> Sd!BlockBits + CrcBits
          [] OTHER -> 0

(* The clocks after the response of a multiple read are over before its    *)
(* first block is.                                                         *)
BlocksLater ==
  command.idx = "READ_MULTI" /\ (Active \/ cmd.state = "TAIL") =>
    /\ blocks = 0 /\ Uncounted = 0
    /\ dat.state \in ReadStates => Come <= IF cmd.state = "TAIL" THEN cmd.bit ELSE 0

(* So no stop command is lost, and its response is read. *)
StopAnswered ==
  call = "read_blocks_stop" /\ ~Starting /\ command.idx = "STOP" /\ ~Active => Len(resp) = 4
=============================================================================
