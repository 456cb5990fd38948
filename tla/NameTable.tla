----------------------------- MODULE NameTable -----------------------------
(***************************************************************************)
(* What the string hash of uvhash.c promises its user: it is a table from  *)
(* names to values.  A value inserted under a name hides the ones inserted *)
(* before it until it is removed.  Every server has a table of its own.    *)
(***************************************************************************)
EXTENDS Sequences

CONSTANTS Owners, Keys, Values

VARIABLE table      \* by owner and key: the values, the newest first

Empty == [k \in Keys |-> << >>]

Init == table = [o \in Owners |-> Empty]

Insert(o, k, v) == table' = [table EXCEPT ![o][k] = <<v>> \o @]

Remove(o, k) == /\ table[o][k] # << >>
                /\ table' = [table EXCEPT ![o][k] = Tail(@)]

\* The process ends.
Discard(o) == table' = [table EXCEPT ![o] = Empty]

Next == \E o \in Owners :
           \/ \E k \in Keys, v \in Values : Insert(o, k, v)
           \/ \E k \in Keys : Remove(o, k)
           \/ Discard(o)

Spec == Init /\ [][Next]_table
=============================================================================
