-------------------------------- MODULE Dump --------------------------------
(***************************************************************************)
(* The dump files of the server's directory, and what c_dump, load_dump    *)
(* and load_newest_dump do to them.                                        *)
(*                                                                         *)
(* A dump is written under a temporary name and then linked to its own; the *)
(* two names can lead to one file.  Both contain a key: the counter of the *)
(* server and the second (DUMP_PATH).  Files hold the names of groups.     *)
(* A dump fits stdio's buffer: it is written when it is closed.            *)
(***************************************************************************)
EXTENDS Integers, Sequences, FiniteSets

CONSTANTS MaxTime,    \* bounds the clock
          MaxDumps    \* bounds the dumps of one life of a server

Seconds == 1 .. MaxTime
Keys    == (1 .. MaxDumps) \X Seconds
NoFile  == 0
Inodes  == 1 .. 2 * MaxDumps * MaxTime

\* "open": nothing has been written yet; "empty" and "part": writing failed.
Kinds == {"open", "empty", "part", "whole"}

\* times counts how often the file has been opened for writing.
File(kind, names, mtime, times) ==
    [kind |-> kind, names |-> names, mtime |-> mtime, times |-> times]
NoData == File("empty", <<>>, 0, 0)

EmptyDisk == [data |-> [i \in Inodes |-> NoData],
              tmp  |-> [k \in Keys |-> NoFile],
              name |-> [k \in Keys |-> NoFile]]

Dumps(d) == {k \in Keys : d.name[k] # NoFile}
Dumped(d, k) == d.data[d.name[k]]

-----------------------------------------------------------------------------
(* c_dump. *)

\* The file that fopen(fname_tmp, "w") returns.
Opened(d, k) ==
    IF d.tmp[k] # NoFile THEN d.tmp[k]
    ELSE CHOOSE i \in Inodes :
            /\ \A l \in Keys : i \notin {d.tmp[l], d.name[l]}
            /\ \A j \in 1 .. i - 1 : \E l \in Keys : j \in {d.tmp[l], d.name[l]}

fopen_w(d, k, now) ==
    LET i == Opened(d, k)
    IN  [d EXCEPT !.tmp[k] = i,
                  !.data[i] = File("open", <<>>, now, @.times + 1)]

\* fprintf and fclose.  Only fprintf's result is looked at.
Write(d, i, kind, names, now) ==
    [d EXCEPT !.data[i] = File(kind, IF kind = "whole" THEN names ELSE <<>>, now, @.times)]

CanLink(d, k) == d.tmp[k] # NoFile /\ d.name[k] = NoFile
link(d, k)    == [d EXCEPT !.name[k] = d.tmp[k]]
unlink_tmp(d, k) == [d EXCEPT !.tmp[k] = NoFile]

-----------------------------------------------------------------------------
(* load_newest_dump and load_dump. *)

Newer_Older(mtime, t) == mtime < t
Newer(mtime, t) == mtime > t

\* What the loop over the directory can end with, in an order nobody knows,
\* when it begins with a file and its time.
NewestDumps(d, first) ==
    LET newer == {k \in Dumps(d) : Newer(Dumped(d, k).mtime, first.mtime)}
    IN  IF newer = {} THEN {first}
        ELSE {Dumped(d, k) : k \in {k \in newer :
                 \A l \in newer : ~Newer(Dumped(d, l).mtime, Dumped(d, k).mtime)}}

\* An empty file is as good as an empty array.
load_dump_Succeeds(file) == file.kind # "part"
load_dump(file) == file.names
=============================================================================
