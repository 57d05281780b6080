------------------------------- MODULE SFifo --------------------------------
(***************************************************************************)
(* The synchronous sample FIFO (sfifo.v) over a single-ported memory       *)
(* (sfifo_mem.v).  One step is one rising edge of i_clk: every always      *)
(* block is an operator that assigns the registers it drives, and Clock    *)
(* is their conjunction.  Wires are operators over the current state.      *)
(*                                                                         *)
(* The pointers have one bit more than an address needs, so they count     *)
(* modulo 2 * Depth; that wrap is written out as a comparison.             *)
(***************************************************************************)
EXTENDS Naturals, Sequences

CONSTANTS
  Word,       \* the values a memory cell holds (BW bits in the code)
  Depth,      \* 2^LGFLEN
  SramMacro   \* TRUE: the ASIC's SRAM macro; FALSE: the FPGA's inferred memory

ASSUME SFifoAssumption ==
  /\ Depth \in Nat \ {0}
  /\ Word # {}
  /\ SramMacro \in BOOLEAN

VARIABLES
  fifo_mem,   \* the memory
  wr_addr,    \* write pointer, LGFLEN + 1 bits
  rd_addr,    \* read pointer, LGFLEN + 1 bits
  o_data      \* output register of the memory

fifoVars == <<fifo_mem, wr_addr, rd_addr, o_data>>

Addr == 0 .. Depth - 1
Pointer == 0 .. 2 * Depth - 1

(* Mutant: the pointer is one bit too wide and never wraps. *)
AdvanceWithoutWrap(p, k) == p + k

(* A pointer advanced by k <= 2 * Depth, modulo 2 * Depth. *)
Advance(p, k) == IF p + k < 2 * Depth THEN p + k ELSE p + k - 2 * Depth

(* The address bits of a pointer: its top bit dropped. *)
Slot(p) == IF p < Depth THEN p ELSE p - Depth

(* wr_addr - rd_addr on LGFLEN + 1 bits. *)
o_fill == IF wr_addr >= rd_addr THEN wr_addr - rd_addr
                                ELSE wr_addr + 2 * Depth - rd_addr
o_full == o_fill = Depth
o_empty == o_fill = 0

(* The producer may write in a cycle that does not read. *)
o_ready(i_rd) == ~i_rd

(* Mutant: a write is not held back when the FIFO is full. *)
WriteWhenFull(i_wr) == i_wr

w_wr(i_wr) == i_wr /\ ~o_full
w_rd(i_rd) == i_rd /\ ~o_empty

(* The memory is read, or else written.  The FPGA memory ignores a write   *)
(* in a read cycle.  The macro has one address port, which a read drives,  *)
(* and obeys both enables: the word in that cell is replaced and the new   *)
(* word also reaches the output register.                                  *)
Memory(i_wr, i_data, i_rd) ==
  LET collide == SramMacro /\ i_rd /\ w_wr(i_wr)
      write == w_wr(i_wr) /\ (~i_rd \/ SramMacro)
      addr == IF i_rd THEN Slot(rd_addr) ELSE Slot(wr_addr)
  IN  /\ fifo_mem' = IF write THEN [fifo_mem EXCEPT ![addr] = i_data]
                              ELSE fifo_mem
      /\ o_data' = IF collide THEN i_data
                   ELSE IF i_rd THEN fifo_mem[addr] ELSE o_data

(* Mutant: the dual-ported original, which also advances in a read cycle. *)
WritePointerInReadCycle(i_rst, i_wr, i_rd) ==
  wr_addr' = IF i_rst THEN 0
             ELSE IF w_wr(i_wr) THEN Advance(wr_addr, 1)
             ELSE wr_addr

WritePointer(i_rst, i_wr, i_rd) ==
  wr_addr' = IF i_rst THEN 0
             ELSE IF ~i_rd /\ w_wr(i_wr) THEN Advance(wr_addr, 1)
             ELSE wr_addr

ReadPointer(i_rst, i_rd) ==
  rd_addr' = IF i_rst THEN 0
             ELSE IF w_rd(i_rd) THEN Advance(rd_addr, 1)
             ELSE rd_addr

(* i_rst is asynchronous: it stands for a reset that is active at the edge *)
(* or becomes active with it, since both leave the pointers at zero.       *)
Clock(i_rst, i_wr, i_data, i_rd) ==
  /\ Memory(i_wr, i_data, i_rd)
  /\ WritePointer(i_rst, i_wr, i_rd)
  /\ ReadPointer(i_rst, i_rd)

(* After a reset.  Neither the memory nor its output register is reset.   *)
Init ==
  /\ fifo_mem \in [Addr -> Word]
  /\ wr_addr = 0
  /\ rd_addr = 0
  /\ o_data \in Word

(***************************************************************************)
(* The FIFO on its own.  The surrounding blocks drive the inputs at will,  *)
(* except that the producer of the ASIC's FIFO respects o_ready.  The FPGA *)
(* memory needs no such promise.                                           *)
(***************************************************************************)
Accepts(i_wr, i_rd) == SramMacro /\ i_wr => o_ready(i_rd)

Next ==
  \E i_rst, i_wr, i_rd \in BOOLEAN, i_data \in Word :
    /\ Accepts(i_wr, i_rd)
    /\ Clock(i_rst, i_wr, i_data, i_rd)

Spec == Init /\ [][Next]_fifoVars

-----------------------------------------------------------------------------
TypeOK ==
  /\ fifo_mem \in [Addr -> Word]
  /\ wr_addr \in Pointer
  /\ rd_addr \in Pointer
  /\ o_data \in Word

(* The write pointer never laps the read pointer: the FIFO never reports   *)
(* more words than the memory has cells, whatever the producer does while  *)
(* it is full and the consumer while it is empty (sfifo.v:46-47).          *)
FillBounded == o_fill \in 0 .. Depth

(* The words between the read and the write pointer, oldest first. *)
Contents == [i \in 1 .. o_fill |-> fifo_mem[Slot(Advance(rd_addr, i - 1))]]

(* The FIFO implements the bounded queue: words come out once, in the      *)
(* order they went in, and o_full and o_empty tell when a write or a read  *)
(* takes effect, through every wrap of the two pointers (sfifo.v:42-92).   *)
Queue == INSTANCE BoundedQueue WITH queue <- Contents, out <- o_data

ImplementsQueue == Queue!Spec
=============================================================================
