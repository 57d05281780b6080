---------------------------- MODULE FlashService ----------------------------
(***************************************************************************)
(* What the boot loader and its host tool promise for the flash: a file is *)
(* written as a whole, a sector is erased as a whole, and nothing else     *)
(* changes.                                                                *)
(***************************************************************************)
EXTENDS Naturals, Sequences

CONSTANTS
  Sectors, SectorWords, Erased,
  Old,         \* what is in the flash to begin with
  Files,       \* the files that may be written
  WriteAddrs,  \* the addresses they may be written to
  EraseAddrs   \* the addresses whose sector may be erased

VARIABLE image

Address == 0 .. Sectors * SectorWords - 1
SectorOf(a) == a \div SectorWords

Fits(a, f) == a + Len(f) <= Sectors * SectorWords

(* The sectors that are erased for file f at a.  If f ends where a sector  *)
(* does, the next one is erased as well, the first after the last.         *)
Cleared(a, f) == {s % Sectors : s \in SectorOf(a) .. SectorOf(a + Len(f))}

Init == image = Old

Write(a, f) ==
  image' = [b \in Address |->
              CASE b \in a .. a + Len(f) - 1 -> f[b - a + 1]
                [] b \notin a .. a + Len(f) - 1 /\ SectorOf(b) \in Cleared(a, f) -> Erased
                [] OTHER -> image[b]]

(* The flash does not look at the upper bits of an address. *)
EraseSector(a) ==
  LET wrapped == a % (Sectors * SectorWords)
  IN  image' = [b \in Address |-> IF SectorOf(b) = SectorOf(wrapped) THEN Erased ELSE image[b]]

Next ==
  \/ \E a \in WriteAddrs, f \in Files : Fits(a, f) /\ Write(a, f)
  \/ \E a \in EraseAddrs : EraseSector(a)

Spec == Init /\ [][Next]_image
=============================================================================
