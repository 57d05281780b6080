--------------------------- MODULE MCNeorvCache ----------------------------
(***************************************************************************)
(* Two blocks of two words, two tags.  The words are numbered; word n      *)
(* holds the value 2n or 2n + 1, so a value tells which word it is of.     *)
(***************************************************************************)
EXTENDS NeorvCache

At(n) == [tag |-> n \div (Blocks * Words), idx |-> (n \div Words) % Blocks, ofs |-> n % Words]
Number(a) == (a.tag * Blocks + a.idx) * Words + a.ofs
Size == Tags * Blocks * Words

MCValue == 0 .. 2 * Size
MCJunk == 2 * Size
MCValues == [a \in Address |-> {2 * Number(a), 2 * Number(a) + 1}]
MCInitial == [a \in Address |-> 2 * Number(a)]

\* Three of the words compete for block 0; the memory cannot deliver the
\* last one.
MCRequests == {At(1), At(3), At(4), At(5)}
MCStores == {At(1), At(3)}
MCBad == {At(5)}
MCChanging == {At(1)}
=============================================================================
