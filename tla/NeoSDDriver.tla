---------------------------- MODULE NeoSDDriver -----------------------------
(***************************************************************************)
(* The driver of the SD card controller, the controller and a card.        *)
(*                                                                         *)
(* One step is one system clock.  In any cycle the processor may make the  *)
(* next access of the driver or not, so that every timing of the program   *)
(* against the controller occurs.  A loop of the driver reads CTRL and     *)
(* then makes the accesses that the flags it saw call for: todo holds what *)
(* is left of them.                                                        *)
(***************************************************************************)
EXTENDS Integers, Sequences

CONSTANTS
  CmdBits, RespBits, FirstBits, WordBits, Words, CrcBits, TailBits,
  Prescale, ClkDiv,
  RespDelays, DataDelays, EarlyData,
  Blocks,   \* blocks of a multiple transfer
  Calls     \* the driver functions that are called, in any order

ASSUME NeoSDAssumption ==
  /\ {CmdBits, RespBits, WordBits, Words, CrcBits, TailBits, Prescale, Blocks} \subseteq Nat \ {0}
  /\ ClkDiv \in Nat
  \* A first register has its last bits after the count has started.
  /\ FirstBits \in [{"SHORT", "LONG"} -> 4 .. RespBits]
  \* What follows a transfer is over when the next command is.
  /\ TailBits <= CmdBits
  /\ RespDelays \subseteq Nat \ {0, 1} /\ DataDelays \subseteq Nat
  /\ EarlyData \in BOOLEAN
  /\ Calls \subseteq {"read_block", "read_blocks_stop", "write_blocks_stop", "all_send_cid",
                      "select"}
  \* The card clock changes at most every second system clock (see README).
  /\ Prescale * (ClkDiv + 1) >= 2

VARIABLES
  cnt, cdiv_cnt, sd_clk_strb, sd_clk_cont, clkstrb, sd_clk,
  ctrl, command, status_last, cmd, cmd_reg, dat, dat_reg,
  rx, answer, task, n, multi,
  call,     \* the driver function that runs, or "none"
  loop,     \* which of its loops
  todo,     \* its next accesses
  irq,      \* the value of CTRL that the loop has read
  old,      \* the value of CTRL that is about to be written back
  resp,     \* what was read from RESP
  buf,      \* what was read from DATA
  sent,     \* the words written to DATA
  blocks    \* the blocks that were seen done

driverVars == <<call, loop, todo, irq, old, resp, buf, sent, blocks>>

(* The registers of a response, and its bits. *)
Parts == [SHORT |-> 2, LONG |-> 5]
RespLen == [kind \in DOMAIN Parts |-> FirstBits[kind] + (Parts[kind] - 1) * RespBits]

Sd == INSTANCE NeoSD
Card == INSTANCE SdCard WITH BlockBits <- Words * WordBits

cardVars == <<rx, answer, task, n, multi>>
vars == <<Sd!sdVars, cardVars, driverVars>>

-----------------------------------------------------------------------------
(* The accesses of the driver. *)

Read(adr) == [op |-> "read", adr |-> adr, bits |-> {}, cmd |-> Sd!NoCommand]
Poll == Read("IRQ")
Set(bits) == [op |-> "set", adr |-> "CTRL", bits |-> bits, cmd |-> Sd!NoCommand]
Clear(bits) == [op |-> "clear", adr |-> "CTRL", bits |-> bits, cmd |-> Sd!NoCommand]
Write(adr, c) == [op |-> "write", adr |-> adr, bits |-> {}, cmd |-> c]

(* CTRL is changed by a read and a write. *)
TurnOn(bits) == <<Read("CTRL"), Set(bits)>>
TurnOff(bits) == <<Read("CTRL"), Clear(bits)>>

Commit(idx, rmode, dmode, stop) ==
  <<Write("CMDARG", Sd!NoCommand),
    Write("CMD", Sd!Command(idx, TRUE, stop, dmode, rmode))>>

Abort == <<Write("CMD", Sd!Command("none", FALSE, TRUE, "NONE", "NONE"))>>

(* What each function does before its first loop. *)
Begin(c) ==
  CASE c = "read_block" -> Commit("READ", "SHORT", "R", FALSE)
    [] c = "read_blocks_stop" -> Commit("READ_MULTI", "SHORT", "R", FALSE)
    [] c = "write_blocks_stop" -> Commit("WRITE_MULTI", "SHORT", "W", FALSE)
    [] c = "all_send_cid" -> Commit("ALL_SEND_CID", "LONG", "NONE", FALSE)
    [] c = "select" -> Commit("SELECT", "SHORT", "BUSY", FALSE)

(* The functions that wait with neosd_cmd_wait_res, which has a time limit. *)
Limited == {"select", "all_send_cid"}

(* The value of CTRL that the loop has seen, and the accesses s if it has  *)
(* seen the flag.                                                          *)
Flags == IF Head(todo) = Poll THEN Sd!CtrlRead ELSE irq
When(flag, s) == IF flag \in Flags THEN s ELSE <<>>

(* Mutant: neosd_wait_idle looks at the command side only. *)
IdleCommand == "CMD_BUSY" \notin Flags

Idle == Flags \cap {"CMD_BUSY", "DAT_BUSY"} = {}

GetResponse == When("CMD_RESP", <<Read("RESP")>>) \o When("CMD_DONE", TurnOff({"CMD_DONE"}))
GetData == When("DAT_DATA", <<Read("DATA")>>)
PutData == IF sent < Words * Blocks THEN When("DAT_DATA", <<Write("DATA", Sd!NoCommand)>>) ELSE <<>>
EndData == When("DAT_DONE", TurnOff({"DAT_DONE"}))

(* The end of a block: the last one is followed by the accesses s. *)
EndBlock(bits, s) ==
  When("BLK_DONE", TurnOff(bits) \o IF blocks + 1 = Blocks THEN s ELSE <<>>)

ReadBlockLoop == GetResponse \o GetData \o When("BLK_DONE", TurnOff({"BLK_DONE"}) \o Abort) \o EndData

(* Mutant: the stop command does not abort the data phase. *)
ReadBlocksLoopUnaborted ==
  GetResponse \o GetData
  \o EndBlock({"BLK_DONE", "CRCERR"}, Commit("STOP", "SHORT", "NONE", FALSE))
  \o EndData

ReadBlocksLoop ==
  GetResponse \o GetData
  \o EndBlock({"BLK_DONE", "CRCERR"}, Commit("STOP", "SHORT", "NONE", TRUE))
  \o EndData

WriteBlocksLoop ==
  GetResponse \o PutData
  \o EndBlock({"BLK_DONE", "CRCERR"}, Commit("STOP", "SHORT", "BUSY", TRUE))
  \o EndData

(* The second loop of both, which waits for the end of the stop command. *)
StopLoop(bits) == GetResponse \o GetData \o When("BLK_DONE", TurnOff(bits)) \o EndData

(* Mutant: neosd_reset forgets the flags that the reset itself raises. *)
ResetEndWithFlags == <<Read("RESP"), Read("DATA")>> \o TurnOff({"RST"})

(* neosd_reset, when both state machines are idle. *)
ResetEnd == <<Read("RESP"), Read("DATA")>>
            \o TurnOff({"CMD_DONE", "DAT_DONE", "BLK_DONE", "CRCERR"}) \o TurnOff({"RST"})

(* The accesses that the flags call for. *)
Handle ==
  CASE call = "read_block" -> ReadBlockLoop
    [] call = "read_blocks_stop" /\ loop = 1 -> ReadBlocksLoop
    [] call = "read_blocks_stop" /\ loop = 2 ->
         IF "CMD_DONE" \in Flags THEN GetResponse ELSE StopLoop({"BLK_DONE", "CRCERR"})
    [] call = "write_blocks_stop" /\ loop = 1 -> WriteBlocksLoop
    [] call = "write_blocks_stop" /\ loop = 2 -> StopLoop({"BLK_DONE"})
    [] call \in Limited /\ loop = 1 -> GetResponse
    [] call = "select" /\ loop = 2 -> IF Idle THEN TurnOff({"DAT_DONE"}) ELSE <<>>
    [] call = "reset" -> IF Idle THEN ResetEnd ELSE <<>>

LoopEnds ==
  CASE call \in {"read_block", "write_blocks_stop"} -> "DAT_DONE" \in Flags
    [] call = "read_blocks_stop" -> (IF loop = 1 THEN "DAT_DONE" ELSE "CMD_DONE") \in Flags
    [] call \in Limited -> IF loop = 1 THEN "CMD_DONE" \in Flags ELSE Idle
    [] call = "reset" -> Idle

Loops == IF call \in {"read_block", "all_send_cid", "reset"} THEN 1 ELSE 2

-----------------------------------------------------------------------------
(* One clock edge of the controller, with access acc, and of the card. *)
Cycle(acc) ==
  /\ \E fits \in BOOLEAN :
       Sd!Clock(acc, Card!cmd_o, Card!dat_o, Card!low, fits)
  /\ CASE Sd!Rising -> Card!Rise(cmd.oe, cmd_reg.idx, Sd!HostDat)
       [] Sd!Falling -> Card!Fall
       [] OTHER -> UNCHANGED cardVars

(* The access that operation o of the driver makes. *)
BusAccess(o) ==
  CASE o = Poll -> Sd!Access("CTRL", FALSE, 0)
    [] o.op = "read" /\ o # Poll -> Sd!Access(o.adr, FALSE, 0)
    [] o.op = "set" -> Sd!Access("CTRL", TRUE, old \cup o.bits)
    [] o.op = "clear" -> Sd!Access("CTRL", TRUE, old \ o.bits)
    [] o.op = "write" /\ o.adr = "DATA" ->
         Sd!Access("DATA", TRUE, (sent % Words) * WordBits + 1)
    [] OTHER -> Sd!Access(o.adr, TRUE, o.cmd)

(* Where the program is after operation o: further accesses for the same   *)
(* flags, the next round or the next loop, or the end of the call.         *)
Proceed(o) ==
  LET rest == IF o = Poll THEN Handle ELSE Tail(todo)
  IN  IF rest # <<>> THEN todo' = rest /\ irq' = Flags /\ UNCHANGED <<call, loop>>
      ELSE /\ irq' = {}
           /\ IF ~LoopEnds THEN todo' = <<Poll>> /\ UNCHANGED <<call, loop>>
              ELSE IF loop < Loops THEN todo' = <<Poll>> /\ loop' = loop + 1 /\ UNCHANGED call
              ELSE todo' = <<>> /\ loop' = 1 /\ call' = "none"

Reading == {"read_block", "read_blocks_stop"}

(* Bound of buf: one word more than was asked for. *)
MaxBuf == Words * Blocks + 1

Records(o) ==
  /\ old' = IF o = Read("CTRL") THEN Sd!CtrlRead ELSE {}
  /\ resp' = IF o = Read("RESP") /\ call # "reset" THEN Append(resp, cmd_reg.last) ELSE resp
  /\ buf' = IF o = Read("DATA") /\ call \in Reading /\ Len(buf) < MaxBuf THEN Append(buf, dat_reg.last) ELSE buf
  /\ sent' = IF o.op = "write" /\ o.adr = "DATA" THEN sent + 1 ELSE sent
  /\ blocks' = IF o = Poll /\ "BLK_DONE" \in Flags THEN blocks + 1 ELSE blocks

-----------------------------------------------------------------------------
(* A cycle without an access. *)
Tick ==
  /\ Cycle(Sd!NoAccess)
  /\ UNCHANGED driverVars

(* The driver makes its next access. *)
Program ==
  /\ todo # <<>>
  /\ Cycle(BusAccess(Head(todo)))
  /\ Proceed(Head(todo))
  /\ Records(Head(todo))

(* No response within the time limit of neosd_cmd_wait_res: the driver     *)
(* resets the controller and gives up.  The limit is far longer than a     *)
(* card takes to answer.                                                   *)
TimeOut ==
  /\ call \in Limited /\ loop = 1 /\ todo = <<Poll>>
  /\ cmd.state = "WAIT_RESP" /\ answer = Card!Silent
  /\ Cycle(Sd!NoAccess)
  /\ call' = "reset" /\ todo' = TurnOn({"RST"}) \o <<Poll>>
  /\ UNCHANGED <<loop, irq, old, resp, buf, sent, blocks>>

(* The next call, once the card has had the time to finish the last one.   *)
Call(c) ==
  /\ call = "none" /\ task # "busy"
  /\ Cycle(Sd!NoAccess)
  /\ call' = c /\ loop' = 1 /\ todo' = Begin(c) \o <<Poll>>
  /\ irq' = {} /\ old' = {}
  /\ resp' = <<>> /\ buf' = <<>> /\ sent' = 0 /\ blocks' = 0

(* Between two calls the card finishes what keeps it busy. *)
CardRests ==
  /\ call = "none" /\ task = "busy" /\ ~Sd!Rising /\ ~Sd!Falling
  /\ Sd!Clock(Sd!NoAccess, Card!cmd_o, Card!dat_o, Card!low, FALSE)
  /\ task' = "idle" /\ n' = 0
  /\ UNCHANGED <<rx, answer, multi, driverVars>>

Init ==
  /\ Sd!Init
  /\ Card!Init
  /\ call = "none" /\ loop = 1 /\ todo = <<>>
  /\ irq = {} /\ old = {}
  /\ resp = <<>> /\ buf = <<>> /\ sent = 0 /\ blocks = 0

Next ==
  \/ Tick
  \/ Program
  \/ TimeOut
  \/ \E c \in Calls : Call(c)
  \/ CardRests

(* The clock never stops, and the driver is never held up for good; a      *)
(* time limit runs out.                                                    *)
Spec == Init /\ [][Next]_vars /\ WF_vars(Next) /\ WF_vars(Program) /\ SF_vars(TimeOut)

-----------------------------------------------------------------------------
(* The registers of the controller, the place of the card in a command and *)
(* the variables of the driver stay in their ranges.                       *)
TypeOK ==
  /\ Sd!TypeOK
  /\ rx \in 0 .. CmdBits - 1
  /\ irq \subseteq Sd!CtrlBits \cup {"CMD_BUSY", "DAT_BUSY"}
  /\ sent \in 0 .. Words * Blocks

(* The last bit of the i-th register that is read. *)
Cut(kind, i) == FirstBits[kind] + ((i - 1) % Parts[kind]) * RespBits

(* What the driver reads from RESP is a whole response, cut where it       *)
(* expects the cut: no bit is missed or read twice, however late the       *)
(* program reads and whatever the data lines do meanwhile                  *)
(* (neosd_cmd_fsm.sv:126-160; line 147: "Goes via the shift register, so   *)
(* only clocks when not stalled").                                         *)
ResponseAligned ==
  \A i \in DOMAIN resp :
    /\ call = "all_send_cid" => resp[i] = Cut("LONG", i)
    /\ call \notin {"all_send_cid", "none"} => resp[i] = Cut("SHORT", i)

(* The words read are the words of the blocks, each one once and in order, *)
(* although the program may be late for every one of them                  *)
(* (neosd_dat_fsm.sv:184-206).                                             *)
WordsInOrder ==
  \A i \in DOMAIN buf \cap 1 .. Words * Blocks : buf[i] = (((i - 1) % Words) + 1) * WordBits

(* At every edge at which the card samples a command, the controller's     *)
(* register shows the bit that is due (neosd_cmd_fsm.sv:81, 111-113).      *)
CommandAligned == Sd!Rising /\ cmd.oe => cmd_reg.out = rx

(* At every edge at which the card samples a block, the controller shows   *)
(* the data bit, the checksum or the end bit that is due, although the     *)
(* words come from the program one at a time (neosd_dat_fsm.sv:252-317).   *)
BlockAligned ==
  Sd!Rising /\ task = "receive" =>
    Sd!HostDat = IF n < Words * WordBits THEN n + 1
                 ELSE IF n < Words * WordBits + CrcBits THEN "crc" ELSE "end"

(* The controller judges a block it has written when all five bits of the  *)
(* card's answer, and none after them, are in its register                 *)
(* (neosd_dat_fsm.sv:319-333).                                             *)
TokenAligned ==
  [][dat.state = "WRITE_CHECK_CRC" /\ dat'.state = "WRITE_BUSY" =>
       dat_reg.last = 5]_vars

(* A read that returns has the whole response and all the words            *)
(* (neosd_app.cpp:246-273, main.cpp:214-287).                              *)
ReadsComplete ==
  [][/\ call = "read_block" /\ call' = "none" => Len(resp') = 2 /\ Len(buf') = Words
     /\ call = "read_blocks_stop" /\ call' = "none" =>
          Len(resp') = 4 /\ Len(buf') >= Words * Blocks]_vars

(* SELECT returns after the card has finished what it was busy with        *)
(* (main.cpp:650).                                                         *)
BusyRespected == [][call = "select" /\ call' = "none" => task # "busy"]_vars

(* A call finds no flag of an earlier one: whatever was aborted or reset   *)
(* has been acknowledged, and no flag comes up after the last loop has     *)
(* ended (neosd_block.cpp:29-39). CRCERR is sticky and left to the reader  *)
(* of the next block.                                                      *)
CallStartsClean == call = "none" => ctrl \subseteq {"CRCERR"}

(* Every call returns, whatever the program's timing: no wait of the       *)
(* hardware for the program (neosd_clk.sv:45-47) and none of the program   *)
(* for a flag lasts for good. (write_blocks_stop: see WriteEnds.)          *)
CallsEnd ==
  call \in {"read_block", "read_blocks_stop", "all_send_cid", "select", "reset"} ~> call = "none"

(* A multiple write returns when the card has finished programming         *)
(* (main.cpp:527 asks for NEOSD_DMODE_BUSY with the stop command).         *)
WriteRespectsBusy == [][call = "write_blocks_stop" /\ call' = "none" => task # "busy"]_vars

(* A multiple write returns (main.cpp:540-570).                            *)
WriteEnds == call = "write_blocks_stop" ~> call = "none"
=============================================================================
