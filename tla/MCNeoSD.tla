------------------------------ MODULE MCNeoSD -------------------------------
(***************************************************************************)
(* The SD card controller, its driver and a card for TLC.                  *)
(***************************************************************************)
EXTENDS NeoSDDriver

\* Bits of the first register: shortened with CmdBits and RespBits, and real.
ShortBits == [SHORT |-> 8, LONG |-> 6]
RealBits == [SHORT |-> 16, LONG |-> 8]
=============================================================================
