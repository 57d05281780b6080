---------------------------- MODULE BoundedQueue ----------------------------
(***************************************************************************)
(* What the audio sample FIFO promises to the blocks around it: a bounded  *)
(* first-in first-out queue with a registered output port.  A word that is *)
(* read leaves the head of the queue and stays on the output port until    *)
(* the next read.  Reading an empty queue takes nothing out, and nothing   *)
(* is promised about the word such a read leaves on the port.              *)
(***************************************************************************)
EXTENDS Naturals, Sequences

CONSTANTS
  Word,   \* the samples that are stored
  Depth   \* how many of them the queue holds

VARIABLES
  queue,  \* the words stored, oldest first
  out     \* the output port

vars == <<queue, out>>

Init ==
  /\ queue = <<>>
  /\ out \in Word

(* A write takes effect unless the queue is full. *)
Put(w) ==
  /\ Len(queue) < Depth
  /\ queue' = Append(queue, w)
  /\ UNCHANGED out

(* A read moves the oldest word to the output port. *)
Get ==
  /\ queue # <<>>
  /\ out' = Head(queue)
  /\ queue' = Tail(queue)

(* A read of the empty queue: the port may show any word. *)
Underrun ==
  /\ queue = <<>>
  /\ out' \in Word
  /\ UNCHANGED queue

(* Reset empties the queue; a read in the same cycle may move the port. *)
Clear ==
  /\ queue' = <<>>
  /\ out' \in Word

Next ==
  \/ \E w \in Word : Put(w)
  \/ Get
  \/ Underrun
  \/ Clear

Spec == Init /\ [][Next]_vars
=============================================================================
