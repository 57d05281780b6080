------------------------------ MODULE MCSFifo -------------------------------
(* The FIFO for TLC. *)
EXTENDS SFifo
=============================================================================
