------------------------------- MODULE UvHash -------------------------------
(***************************************************************************)
(* The string hash of uvhash.c and the list of groups of child_config.c    *)
(* that is kept in step with it.                                           *)
(*                                                                         *)
(* A key is a pointer to the name inside the group it leads to: two        *)
(* groups can have equal keys at different addresses.  A pointer to a      *)
(* group is the group's number.                                            *)
(***************************************************************************)
EXTENDS Integers, Sequences, SequencesExt, SeqFilter

CONSTANTS Names,
          Groups,    \* the addresses groups can have
          HashOf,    \* hash_str, of the characters of a name
          HashSize   \* HASH_BSIZE_CHILD_CONFIG

ASSUME HashAssumption ==
    /\ HashSize \in Nat \ {0}
    /\ HashOf \in [Names -> Nat]

NoGroup == 0       \* NULL
ASSUME GroupsAssumption == Groups \subseteq Nat \ {NoGroup}

Buckets == 0 .. HashSize - 1
Bucket(k) == HashOf[k] % HashSize

-----------------------------------------------------------------------------
(* uvstrhash: h maps a bucket to its entries [key, address, value]. *)

uvstrhash_new == [b \in Buckets |-> <<>>]

Entry(k, address, v) == [key |-> k, address |-> address, value |-> v]

uvstrhash_insert_Tail(h, k, address, v) ==
    [h EXCEPT ![Bucket(k)] = Append(@, Entry(k, address, v))]
uvstrhash_insert(h, k, address, v) ==
    [h EXCEPT ![Bucket(k)] = <<Entry(k, address, v)>> \o @]

\* The first of those that satisfy a test, or len + 1.
FirstIndex(s, Test(_)) ==
    CHOOSE i \in 1 .. Len(s) + 1 :
        /\ i <= Len(s) => Test(s[i])
        /\ \A j \in 1 .. i - 1 : ~Test(s[j])

\* strcmp
uvstrhash_find(h, k) ==
    LET l == h[Bucket(k)]
        i == FirstIndex(l, LAMBDA e : e.key = k)
    IN  IF i <= Len(l) THEN l[i].value ELSE NoGroup

\* "==": an entry is removed by the address of its key, not by its characters.
uvstrhash_remove(h, k, address) ==
    LET l == h[Bucket(k)]
        i == FirstIndex(l, LAMBDA e : e.address = address)
    IN  IF i <= Len(l) THEN [h EXCEPT ![Bucket(k)] = RemoveAt(l, i)] ELSE h

-----------------------------------------------------------------------------
(* child_config: the global list l of groups [id, name], and the hash h. *)

IdsOf(l) == {l[i].id : i \in DOMAIN l}

\* xmalloc: an address no group has.
Unused(l) == CHOOSE id \in Groups : id \notin IdsOf(l)

child_config_insert(l, h, cc) ==
    [list |-> <<cc>> \o l, hash |-> uvstrhash_insert(h, cc.name, cc.id, cc.id)]

child_config_find_by_name(h, n) == uvstrhash_find(h, n)

\* LIST_REMOVE
Without(l, id) == Filter(l, [id : Groups \ {id}, name : Names])

child_config_remove_ListOnly(l, h, id) ==
    [list |-> Without(l, id), hash |-> h]

child_config_remove(l, h, id) ==
    LET cc == l[FirstIndex(l, LAMBDA x : x.id = id)]
    IN  [list |-> Without(l, id),
         hash |-> uvstrhash_remove(h, cc.name, cc.id)]
=============================================================================
