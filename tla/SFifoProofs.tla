---------------------------- MODULE SFifoProofs -----------------------------
(***************************************************************************)
(* What TLC checks of the FIFO for one Depth and a few words, proved for   *)
(* every Depth, every set of words and both memories: the pointers stay    *)
(* in range and never lap each other, and the FIFO implements the bounded  *)
(* queue.                                                                  *)
(***************************************************************************)
EXTENDS SFifo, SequenceTheorems, TLAPS

(* Advance keeps a pointer in range. *)
LEMMA AdvanceInRange ==
  ASSUME NEW p \in Pointer, NEW k \in 0 .. 2 * Depth
  PROVE  Advance(p, k) \in Pointer
BY SFifoAssumption DEF Advance, Pointer

(* The address bits of a pointer address a cell of the memory. *)
LEMMA SlotInRange ==
  ASSUME NEW p \in Pointer
  PROVE  Slot(p) \in Addr
BY SFifoAssumption DEF Slot, Pointer, Addr

(* Every register keeps its type in every clock cycle. *)
LEMMA TypeStep ==
  ASSUME TypeOK, [Next]_fifoVars
  PROVE  TypeOK'
<1>1. CASE UNCHANGED fifoVars
  BY <1>1 DEF TypeOK, fifoVars
<1>2. CASE Next
  <2>1. PICK i_rst \in BOOLEAN, i_wr \in BOOLEAN, i_rd \in BOOLEAN, i_data \in Word :
          Clock(i_rst, i_wr, i_data, i_rd)
    BY <1>2 DEF Next
  <2>2. Slot(rd_addr) \in Addr /\ Slot(wr_addr) \in Addr
    BY SlotInRange DEF TypeOK
  <2>3. fifo_mem' \in [Addr -> Word] /\ o_data' \in Word
    BY <2>1, <2>2 DEF Clock, Memory, TypeOK
  <2>4. wr_addr' \in Pointer /\ rd_addr' \in Pointer
    <3>1. 0 \in Pointer /\ 1 \in 0 .. 2 * Depth
      BY SFifoAssumption DEF Pointer
    <3>2. Advance(wr_addr, 1) \in Pointer /\ Advance(rd_addr, 1) \in Pointer
      BY <3>1, AdvanceInRange DEF TypeOK
    <3> QED
      BY <2>1, <3>1, <3>2 DEF Clock, WritePointer, ReadPointer, TypeOK
  <2> QED BY <2>3, <2>4 DEF TypeOK
<1> QED BY <1>1, <1>2

(* Type correctness of the FIFO (sfifo.v:42-44). *)
THEOREM TypeCorrect == Spec => []TypeOK
<1>1. Init => TypeOK
  BY SFifoAssumption DEF Init, TypeOK, Pointer
<1> QED BY <1>1, TypeStep, PTL DEF Spec

-----------------------------------------------------------------------------
(* What a cycle without reset does to the fill level. *)
LEMMA FillAfterWrite ==
  ASSUME TypeOK, FillBounded, ~o_full,
         wr_addr' = Advance(wr_addr, 1), rd_addr' = rd_addr
  PROVE  o_fill' = o_fill + 1
BY SFifoAssumption DEF TypeOK, FillBounded, o_full, o_fill, Advance, Pointer

(* A read takes one word off the level.                                    *)
LEMMA FillAfterRead ==
  ASSUME TypeOK, FillBounded, ~o_empty,
         rd_addr' = Advance(rd_addr, 1), wr_addr' = wr_addr
  PROVE  o_fill' = o_fill - 1
BY SFifoAssumption DEF TypeOK, FillBounded, o_empty, o_fill, Advance, Pointer

(* Pointers that stay leave it alone.                                      *)
LEMMA FillUnmoved ==
  ASSUME wr_addr' = wr_addr, rd_addr' = rd_addr
  PROVE  o_fill' = o_fill
BY DEF o_fill

(* A reset empties the FIFO.                                               *)
LEMMA FillCleared ==
  ASSUME wr_addr' = 0, rd_addr' = 0
  PROVE  o_fill' = 0
BY DEF o_fill

(***************************************************************************)
(* The five things a clock cycle can do.                                   *)
(***************************************************************************)
Puts(w) ==
  /\ ~o_full
  /\ fifo_mem' = [fifo_mem EXCEPT ![Slot(wr_addr)] = w]
  /\ wr_addr' = Advance(wr_addr, 1)
  /\ UNCHANGED <<rd_addr, o_data>>

Gets ==
  /\ ~o_empty
  /\ o_data' = fifo_mem[Slot(rd_addr)]
  /\ rd_addr' = Advance(rd_addr, 1)
  /\ UNCHANGED <<fifo_mem, wr_addr>>

Underruns ==
  /\ o_empty
  /\ UNCHANGED <<fifo_mem, wr_addr, rd_addr>>

Clears == wr_addr' = 0 /\ rd_addr' = 0

(* A cycle writes, reads, reads the empty FIFO, resets or does nothing: a  *)
(* write and a read never both take effect in one cycle.                   *)
LEMMA StepKinds ==
  ASSUME TypeOK, [Next]_fifoVars
  PROVE  \/ \E w \in Word : Puts(w)
         \/ Gets
         \/ Underruns
         \/ Clears
         \/ UNCHANGED fifoVars
<1>1. CASE UNCHANGED fifoVars
  BY <1>1
<1>2. CASE Next
  <2>1. PICK i_rst \in BOOLEAN, i_wr \in BOOLEAN, i_rd \in BOOLEAN, i_data \in Word :
          Accepts(i_wr, i_rd) /\ Clock(i_rst, i_wr, i_data, i_rd)
    BY <1>2 DEF Next
  <2>2. CASE i_rst
    BY <2>1, <2>2 DEF Clock, WritePointer, ReadPointer, Clears
  <2>3. CASE ~i_rst /\ i_rd
    <3>1. UNCHANGED <<fifo_mem, wr_addr>> /\ o_data' = fifo_mem[Slot(rd_addr)]
      BY <2>1, <2>3, SFifoAssumption
      DEF Clock, WritePointer, Memory, Accepts, o_ready, w_wr
    <3>2. rd_addr' = IF o_empty THEN rd_addr ELSE Advance(rd_addr, 1)
      BY <2>1, <2>3 DEF Clock, ReadPointer, w_rd
    <3> QED BY <3>1, <3>2 DEF Gets, Underruns
  <2>4. CASE ~i_rst /\ ~i_rd /\ w_wr(i_wr)
    BY <2>1, <2>4 DEF Clock, WritePointer, ReadPointer, Memory, w_rd, w_wr, Puts
  <2>5. CASE ~i_rst /\ ~i_rd /\ ~w_wr(i_wr)
    BY <2>1, <2>5 DEF Clock, WritePointer, ReadPointer, Memory, w_rd, fifoVars
  <2> QED BY <2>2, <2>3, <2>4, <2>5
<1> QED BY <1>1, <1>2

(* The fill level stays within the memory in every cycle. *)
LEMMA FillStep ==
  ASSUME TypeOK, FillBounded, [Next]_fifoVars
  PROVE  FillBounded'
<1>1. o_fill \in 0 .. Depth
  BY DEF FillBounded
<1>2. CASE \E w \in Word : Puts(w)
  <2>1. o_fill' = o_fill + 1 /\ o_fill # Depth
    BY <1>2, FillAfterWrite DEF Puts, o_full
  <2> QED BY <1>1, <2>1, SFifoAssumption DEF FillBounded
<1>3. CASE Gets
  <2>1. o_fill' = o_fill - 1 /\ o_fill # 0
    BY <1>3, FillAfterRead DEF Gets, o_empty
  <2> QED BY <1>1, <2>1, SFifoAssumption DEF FillBounded
<1>4. CASE Underruns \/ UNCHANGED fifoVars
  BY <1>4, <1>1, FillUnmoved DEF Underruns, fifoVars, FillBounded
<1>5. CASE Clears
  BY <1>5, FillCleared, SFifoAssumption DEF Clears, FillBounded
<1> QED BY <1>2, <1>3, <1>4, <1>5, StepKinds

(* The FIFO never holds more words than the memory has cells, for every    *)
(* Depth and under any producer and consumer (sfifo.v:46-47, 87-92).       *)
THEOREM FillIsBounded == Spec => []FillBounded
<1>1. Init => FillBounded
  BY SFifoAssumption DEF Init, FillBounded, o_fill
<1>2. TypeOK /\ FillBounded /\ [Next]_fifoVars => FillBounded'
  BY FillStep
<1> QED BY <1>1, <1>2, TypeCorrect, PTL DEF Spec

-----------------------------------------------------------------------------
(* The i-th stored word lies i - 1 cells behind the read pointer, and no   *)
(* stored word lies in the cell the next write goes to.                    *)
LEMMA StoredCells ==
  ASSUME TypeOK, FillBounded, NEW i \in 1 .. o_fill
  PROVE  /\ Advance(rd_addr, i - 1) \in Pointer
         /\ Slot(Advance(rd_addr, i - 1)) \in Addr
         /\ ~o_full => Slot(Advance(rd_addr, i - 1)) # Slot(wr_addr)
<1>1. o_fill \in 0 .. Depth /\ i - 1 \in 0 .. 2 * Depth
  BY SFifoAssumption DEF FillBounded
<1>2. Advance(rd_addr, i - 1) \in Pointer
  BY <1>1, AdvanceInRange DEF TypeOK
<1>3. ~o_full => Slot(Advance(rd_addr, i - 1)) # Slot(wr_addr)
  BY <1>1, SFifoAssumption
  DEF TypeOK, o_full, o_fill, Advance, Slot, Pointer
<1> QED BY <1>2, <1>3, SlotInRange

(* The contents are a sequence of words, as long as the fill level.        *)
LEMMA ContentsType ==
  ASSUME TypeOK, FillBounded
  PROVE  /\ Contents \in Seq(Word)
         /\ Len(Contents) = o_fill
         /\ o_fill \in Nat
<1>1. o_fill \in Nat
  BY DEF FillBounded
<1>2. \A i \in 1 .. o_fill : fifo_mem[Slot(Advance(rd_addr, i - 1))] \in Word
  BY StoredCells DEF TypeOK
<1> QED BY <1>1, <1>2, IsASeq DEF Contents

(* The same of the next state. *)
LEMMA ContentsTypeNext ==
  (TypeOK /\ FillBounded)' => (Contents \in Seq(Word) /\ Len(Contents) = o_fill)'
<1>1. TypeOK /\ FillBounded => Contents \in Seq(Word) /\ Len(Contents) = o_fill
  BY ContentsType
<1> QED BY <1>1, PTL

(* The read pointer shows the oldest word. *)
LEMMA HeadOfContents ==
  ASSUME TypeOK, FillBounded, ~o_empty
  PROVE  /\ Contents # <<>>
         /\ Head(Contents) = fifo_mem[Slot(rd_addr)]
<1>1. o_fill \in Nat /\ o_fill # 0 /\ 1 \in 1 .. o_fill
  BY ContentsType DEF o_empty
<1>2. Contents[1] = fifo_mem[Slot(Advance(rd_addr, 0))]
  BY <1>1 DEF Contents
<1>3. Advance(rd_addr, 0) = rd_addr
  BY SFifoAssumption DEF TypeOK, Pointer, Advance
<1> QED BY <1>1, <1>2, <1>3, ContentsType

(* A write appends the word to the contents. *)
LEMMA WriteAppends ==
  ASSUME TypeOK, FillBounded, NEW w \in Word, Puts(w), TypeOK', FillBounded'
  PROVE  Contents' = Append(Contents, w)
<1>1. ~o_full /\ rd_addr' = rd_addr
  BY DEF Puts
<1>2. o_fill' = o_fill + 1 /\ o_fill \in Nat
  BY FillAfterWrite, ContentsType DEF Puts
<1>3. Advance(rd_addr, o_fill) = wr_addr
  BY SFifoAssumption DEF TypeOK, Advance, Pointer, o_fill
<1>4. \A i \in 1 .. o_fill :
        fifo_mem'[Slot(Advance(rd_addr, i - 1))]
          = fifo_mem[Slot(Advance(rd_addr, i - 1))]
  BY <1>1, StoredCells DEF Puts, TypeOK
<1>5. fifo_mem'[Slot(wr_addr)] = w
  BY SlotInRange DEF Puts, TypeOK
<1>6. /\ Contents \in Seq(Word) /\ Len(Contents) = o_fill
      /\ Contents' \in Seq(Word) /\ Len(Contents') = o_fill + 1
  <2>1. Contents' \in Seq(Word) /\ Len(Contents') = o_fill'
    BY ContentsTypeNext
  <2> QED BY <2>1, <1>2, ContentsType
<1>7. /\ Append(Contents, w) \in Seq(Word)
      /\ Len(Append(Contents, w)) = o_fill + 1
      /\ \A i \in 1 .. o_fill : Append(Contents, w)[i] = Contents[i]
      /\ Append(Contents, w)[o_fill + 1] = w
  BY <1>6, AppendProperties
<1>8. ASSUME NEW i \in 1 .. o_fill + 1
      PROVE  Contents'[i] = Append(Contents, w)[i]
  <2>1. Contents'[i] = fifo_mem'[Slot(Advance(rd_addr, i - 1))]
    BY <1>1, <1>2 DEF Contents, Slot, Advance
  <2>2. CASE i = o_fill + 1
    BY <2>1, <2>2, <1>2, <1>3, <1>5, <1>7
  <2>3. CASE i # o_fill + 1
    <3>1. i \in 1 .. o_fill
      BY <2>3, <1>2
    <3> QED BY <2>1, <3>1, <1>4, <1>7 DEF Contents
  <2> QED BY <2>2, <2>3
<1> QED BY <1>6, <1>7, <1>8, SeqEqual

(* A read removes the oldest word from the contents. *)
LEMMA ReadDropsHead ==
  ASSUME TypeOK, FillBounded, Gets, TypeOK', FillBounded'
  PROVE  Contents' = Tail(Contents)
<1>1. o_fill' = o_fill - 1 /\ o_fill \in Nat /\ o_fill # 0
  BY FillAfterRead, ContentsType DEF Gets, o_empty
<1>2. fifo_mem' = fifo_mem /\ rd_addr' = Advance(rd_addr, 1)
  BY DEF Gets
<1>3. /\ Contents \in Seq(Word) /\ Len(Contents) = o_fill
      /\ Contents' \in Seq(Word) /\ Len(Contents') = o_fill - 1
  <2>1. Contents' \in Seq(Word) /\ Len(Contents') = o_fill'
    BY ContentsTypeNext
  <2> QED BY <2>1, <1>1, ContentsType
<1>4. /\ Tail(Contents) \in Seq(Word)
      /\ Len(Tail(Contents)) = o_fill - 1
      /\ \A i \in 1 .. o_fill - 1 : Tail(Contents)[i] = Contents[i + 1]
  <2>1. Contents # <<>>
    BY <1>1, <1>3
  <2> QED BY <2>1, <1>3, HeadTailProperties
<1>5. ASSUME NEW i \in 1 .. o_fill - 1
      PROVE  Contents'[i] = Contents[i + 1]
  <2>1. Contents'[i] = fifo_mem[Slot(Advance(Advance(rd_addr, 1), i - 1))]
    BY <1>1, <1>2 DEF Contents, Slot, Advance
  <2>2. Advance(Advance(rd_addr, 1), i - 1) = Advance(rd_addr, i)
    BY <1>1, SFifoAssumption DEF TypeOK, FillBounded, Advance, Pointer
  <2>3. Contents[i + 1] = fifo_mem[Slot(Advance(rd_addr, i))]
    BY <1>1 DEF Contents
  <2> QED BY <2>1, <2>2, <2>3
<1> QED BY <1>3, <1>4, <1>5, SeqEqual

(* A step of the FIFO is a step of the queue, or leaves it unchanged. *)
LEMMA QueueStep ==
  ASSUME TypeOK, FillBounded, [Next]_fifoVars
  PROVE  [Queue!Next]_(Queue!vars)
<1>1. TypeOK' /\ FillBounded'
  BY TypeStep, FillStep
<1>2. CASE \E w \in Word : Puts(w)
  <2>1. PICK w \in Word : Puts(w)
    BY <1>2
  <2>2. Len(Contents) < Depth
    BY <2>1, ContentsType, SFifoAssumption DEF Puts, o_full, FillBounded
  <2>3. Queue!Put(w)
    BY <2>1, <2>2, <1>1, WriteAppends DEF Queue!Put, Puts
  <2> QED BY <2>3 DEF Queue!Next
<1>3. CASE Gets
  <2>1. Queue!Get
    BY <1>3, <1>1, HeadOfContents, ReadDropsHead DEF Queue!Get, Gets
  <2> QED BY <2>1 DEF Queue!Next
<1>4. CASE Underruns
  <2>1. Contents' = Contents
    BY <1>4 DEF Underruns, Contents, o_fill, Slot, Advance
  <2>2. Contents = <<>>
    BY <1>4, ContentsType DEF Underruns, o_empty
  <2>3. Queue!Underrun
    BY <2>1, <2>2, <1>1 DEF Queue!Underrun, TypeOK
  <2> QED BY <2>3 DEF Queue!Next
<1>5. CASE Clears
  <2>1. o_fill' = 0
    BY <1>5, FillCleared DEF Clears
  <2>2. Contents' = <<>>
    BY <2>1 DEF Contents
  <2>3. Queue!Clear
    BY <2>2, <1>1 DEF Queue!Clear, TypeOK
  <2> QED BY <2>3 DEF Queue!Next
<1>6. CASE UNCHANGED fifoVars
  BY <1>6 DEF fifoVars, Queue!vars, Contents, o_fill, Slot, Advance
<1> QED BY <1>2, <1>3, <1>4, <1>5, <1>6, StepKinds

(* The FIFO over the single-ported memory implements the bounded queue for *)
(* every Depth and every set of words: over the FPGA's memory whatever its *)
(* neighbours do, over the ASIC's macro as long as no write comes in a     *)
(* read cycle (sfifo.v:49-80, sg13g2/sfifo_mem.v:36-44).                   *)
THEOREM FifoImplementsQueue == Spec => ImplementsQueue
<1>1. Init => Queue!Init
  <2>1. ASSUME Init PROVE Contents = <<>>
    BY <2>1, SFifoAssumption DEF Init, Contents, o_fill
  <2> QED BY <2>1 DEF Queue!Init, Init
<1>2. TypeOK /\ FillBounded /\ [Next]_fifoVars => [Queue!Next]_(Queue!vars)
  BY QueueStep
<1> QED BY <1>1, <1>2, TypeCorrect, FillIsBounded, PTL
    DEF Spec, ImplementsQueue, Queue!Spec
=============================================================================
