----------------------------- MODULE MCFraming -----------------------------
(***************************************************************************)
(* Framing for TLC: the shortest request, one that fills the buffer, one   *)
(* the server refuses for its length, and one whose handler fails.         *)
(***************************************************************************)
EXTENDS Framing

Shortest == [len |-> 4, cid |-> 1, ok |-> TRUE]
Longest  == [len |-> ChunkSiz, cid |-> 2, ok |-> TRUE]
TooLong  == [len |-> ChunkSiz + 1, cid |-> 1, ok |-> TRUE]
TooShort == [len |-> 3, cid |-> 1, ok |-> TRUE]
Failing  == [len |-> 5, cid |-> 2, ok |-> FALSE]
ZeroCid  == [len |-> 4, cid |-> 0, ok |-> TRUE]

Various   == {Shortest, Longest, TooLong, TooShort, Failing}
WithZero  == {Shortest, ZeroCid}
=============================================================================
