----------------------------- MODULE SeqFilter -----------------------------
(***************************************************************************)
(* The elements of a list that are in a set, in the order of the list: what *)
(* a loop over one of the server's lists picks or leaves.  It is SelectSeq  *)
(* with a set in place of the test, and a function in place of a recursive  *)
(* operator, so that SeqFilterProofs can say what it does.                  *)
(***************************************************************************)
EXTENDS Integers, Sequences

AppendIf(q, e, S) == IF e \in S THEN Append(q, e) ELSE q

Filter(s, S) ==
    LET f[i \in 0 .. Len(s)] == IF i = 0 THEN << >> ELSE AppendIf(f[i - 1], s[i], S)
    IN  f[Len(s)]
=============================================================================
