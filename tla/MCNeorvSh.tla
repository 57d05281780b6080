----------------------------- MODULE MCNeorvSh ------------------------------
(***************************************************************************)
(* The boot loader and its host tool for TLC: a flash of three sectors of  *)
(* four words, sent in pages of two words.                                 *)
(***************************************************************************)
EXTENDS NeorvSh

\* Erased, garbled and old words, and the words of the files.  The numbers
\* differ from those of the commands.
MCContents == {20, 21, 22, 31, 32, 33, 34, 35}
MCOld == [a \in 0 .. Sectors * SectorWords - 1 |-> 22]

\* Files that end inside and at the end of a page and of a sector.
MCFiles == {<<>>, <<31, 32, 33>>, <<31, 32, 33, 34>>, <<31, 32, 33, 34, 35>>}
MCReads == {<<0, 0>>, <<2, 3>>}
=============================================================================
