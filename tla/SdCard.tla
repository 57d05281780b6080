------------------------------- MODULE SdCard -------------------------------
(***************************************************************************)
(* An SD card as far as the controller and its driver use one: it takes    *)
(* commands, answers after a while, sends or takes blocks and is busy now  *)
(* and then.  It samples its lines at rising edges of the card clock and   *)
(* moves its own at falling edges, as test.py does.                        *)
(*                                                                         *)
(* cmd_o and dat_o are the numbers of the bits on its lines: 0 is an idle  *)
(* line, 1 the first bit of a response, of a block or of the five-bit      *)
(* answer to a block.                                                      *)
(***************************************************************************)
EXTENDS Naturals

CONSTANTS
  CmdBits,     \* bits of a command
  RespLen,     \* bits of a response, by kind: SHORT or LONG
  BlockBits,   \* data bits of a block, on one line
  CrcBits,     \* bits of its checksum
  RespDelays,  \* clocks between a command and its response, 2 to 64
  DataDelays,  \* clocks until a block starts, or for which the card is busy
  EarlyData    \* TRUE: that long after the command, not after the response

VARIABLES
  rx,       \* bits of the command taken
  answer,   \* [wait, bit, len]: the response, wait clocks away or at bit
  task,     \* what the card does with its data lines
  n,        \* the clocks or bits of that
  multi     \* it sends blocks until it is stopped

cmd_o == answer.bit

(* Bit 0 of a block is its start bit.  Reading, the data bits count from 1. *)
dat_o == CASE task = "send" -> n
          [] task = "token" -> n + 1
          [] OTHER -> 0

(* The level of the first data line.  Data bits may have either; low is    *)
(* what a controller that waits for a start bit must not meet.             *)
low == task \in {"programs", "busy"} \/ (task = "send" /\ n <= BlockBits + CrcBits)

Silent == [wait |-> 0, bit |-> 0, len |-> 0]
ResponseTo(idx) == RespLen[IF idx = "ALL_SEND_CID" THEN "LONG" ELSE "SHORT"]

-----------------------------------------------------------------------------
(* A rising edge: the card samples the command and the data lines. *)

(* What a command does to the data lines. *)
Takes(idx) ==
  /\ multi' = (idx = "READ_MULTI")
  /\ CASE idx \in {"READ", "READ_MULTI"} ->
            task' = (IF EarlyData THEN "delay" ELSE "answer") /\ n' \in DataDelays
       [] idx = "WRITE_MULTI" -> task' = "ready" /\ n' = 0
       [] idx = "ALL_SEND_CID" -> UNCHANGED <<task, n>>
       [] idx = "STOP" /\ task \in {"delay", "send"} -> task' = "idle" /\ n' = 0
       [] OTHER -> task' = "busy" /\ n' \in DataDelays

(* The card knows a command once it has all of its bits.  It may not       *)
(* answer a command whose driver function has a time limit.                *)
TakeCommandBit(idx) ==
  IF rx + 1 < CmdBits THEN rx' = rx + 1 /\ UNCHANGED <<answer, task, n, multi>>
  ELSE /\ rx' = 0
       /\ \/ /\ answer' \in {[wait |-> d + 1, bit |-> 0, len |-> ResponseTo(idx)] : d \in RespDelays}
             /\ Takes(idx)
          \/ idx \in {"SELECT", "ALL_SEND_CID"} /\ answer' = Silent /\ UNCHANGED <<task, n, multi>>

TakeDataBit(host_dat) ==
  /\ CASE task = "ready" /\ host_dat = "start" -> task' = "receive" /\ n' = 0
       [] task = "receive" /\ n < BlockBits + CrcBits -> n' = n + 1 /\ UNCHANGED task
       [] task = "receive" /\ n = BlockBits + CrcBits -> task' = "turn" /\ n' = 2
       [] OTHER -> UNCHANGED <<task, n>>
  /\ UNCHANGED <<rx, answer, multi>>

Rise(cmd_oe, idx, host_dat) ==
  IF cmd_oe THEN TakeCommandBit(idx) ELSE TakeDataBit(host_dat)

-----------------------------------------------------------------------------
(* A falling edge: the card moves its lines. *)

Respond ==
  answer' = CASE answer.wait > 0 -> [answer EXCEPT !.wait = @ - 1,
                                                   !.bit = IF answer.wait = 1 THEN 1 ELSE 0]
              [] answer.bit \in 1 .. answer.len - 1 -> [answer EXCEPT !.bit = @ + 1]
              [] OTHER -> Silent

(* What follows when the card has waited, or been busy, for n clocks. *)
AfterWait == [delay |-> "send", turn |-> "token", programs |-> "ready", busy |-> "idle"]

(* Blocks of a multiple read follow each other until the host stops the    *)
(* card; after each block it has taken the card is busy.                   *)
Move ==
  CASE task = "answer" /\ answer.bit = answer.len -> task' = "delay" /\ UNCHANGED n
    [] task \in DOMAIN AfterWait ->
         IF n > 0 THEN n' = n - 1 /\ UNCHANGED task ELSE task' = AfterWait[task] /\ n' = 0
    [] task = "send" ->
         IF n <= BlockBits + CrcBits THEN n' = n + 1 /\ UNCHANGED task
         ELSE IF multi THEN task' = "delay" /\ n' \in DataDelays
         ELSE task' = "idle" /\ n' = 0
    [] task = "token" -> IF n < 4 THEN n' = n + 1 /\ UNCHANGED task
                         ELSE task' = "programs" /\ n' \in DataDelays
    [] OTHER -> UNCHANGED <<task, n>>

Fall ==
  /\ Respond
  /\ Move
  /\ UNCHANGED <<rx, multi>>

Init ==
  /\ rx = 0
  /\ answer = Silent
  /\ task = "idle"
  /\ n = 0
  /\ multi = FALSE
=============================================================================
