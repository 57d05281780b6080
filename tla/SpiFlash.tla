------------------------------ MODULE SpiFlash ------------------------------
(***************************************************************************)
(* The SPI flash as the boot loader uses it: a write-enable latch, and a   *)
(* busy bit that is set while an erase or a program command is carried     *)
(* out.  Addresses count words of 32 bits.                                 *)
(***************************************************************************)
EXTENDS Naturals

CONSTANTS
  Sectors,      \* sectors of the flash, 128 in the code
  SectorWords,  \* words of a sector, 16384 in the code
  Erased,       \* the value of an erased word
  Garbled,      \* that of a word which was programmed twice
  Contents      \* the values of the words

VARIABLES
  flash,  \* its contents
  wel,    \* the write-enable latch
  wip     \* write in progress

flashVars == <<flash, wel, wip>>

Size == Sectors * SectorWords
Address == 0 .. Size - 1

SectorOf(a) == (a % Size) \div SectorWords

(* What is in the flash m after the sector of address a is erased, and     *)
(* after word v is programmed at a.                                        *)
EraseAt(m, a) == [b \in Address |-> IF SectorOf(b) = SectorOf(a) THEN Erased ELSE m[b]]
ProgramAt(m, a, v) == [m EXCEPT ![a % Size] = IF @ = Erased THEN v ELSE Garbled]

WriteEnable == wel' = (wel \/ ~wip) /\ UNCHANGED <<flash, wip>>

(* Without the latch, or while busy, the flash takes no such command. *)
Modify(m) ==
  IF wel /\ ~wip THEN flash' = m /\ wip' = TRUE /\ UNCHANGED wel
  ELSE UNCHANGED flashVars

Erase(a) == Modify(EraseAt(flash, a))
Program(a, v) == Modify(ProgramAt(flash, a, v))

(* The end of an erase or a program command. *)
Done ==
  /\ wip
  /\ wip' = FALSE /\ wel' = FALSE
  /\ UNCHANGED flash

(* What a read may return, and the status register: bit 0 is wip, bit 1 wel. *)
Read(a) == IF wip THEN Contents ELSE {flash[a % Size]}
Status == (IF wip THEN 1 ELSE 0) + (IF wel THEN 2 ELSE 0)

TypeOK ==
  /\ flash \in [Address -> Contents]
  /\ wel \in BOOLEAN /\ wip \in BOOLEAN
=============================================================================
