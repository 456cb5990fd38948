----------------------------- MODULE Lifecycle -----------------------------
(***************************************************************************)
(* The lives of servers that share a socket and a directory: each takes    *)
(* the socket, loads a dump, executes the commands that change or dump the *)
(* groups, and ends by EXIT or in any step by a crash.                     *)
(*                                                                         *)
(* A group is its name and address here; Supervisor has what it runs.      *)
(* Requests are valid: Connection has the refusals.                        *)
(***************************************************************************)
EXTENDS Startup, Dump, UvHash

CONSTANT Options    \* how the servers of a directory are started, and how
                    \* often each of them: the bound of its lives

NoConfig == NoData  \* neither -c nor UBERVISOR_CONFIG

\* The clock runs; memory is never short: whatever file a server is started
\* with, there are addresses for its groups.
ASSUME LifecycleAssumption ==
    /\ MaxTime \in Nat \ {0} /\ MaxDumps \in Nat
    /\ IsFiniteSet(Groups)
    /\ \A o \in Options :
          /\ o.auto_dump \in BOOLEAN /\ o.load_latest \in BOOLEAN
          /\ o.lives \in [Servers -> Nat]
          /\ o.config \in [kind : Kinds, names : Seq(Names), mtime : Nat, times : Nat]
          /\ Len(o.config.names) <= Cardinality(Groups)

VARIABLES options,  \* [auto_dump, load_latest, config, lives]: config is a file
          list,     \* by server: child_config_list_head
          hash,     \* by server: child_config_hash
          todo,     \* by server: the names load_dump has yet to insert
          cnt,      \* by server: the counter of c_dump
          dump,     \* by server: where it is in c_dump
          disk,
          now,      \* time(2)
          last      \* what the last "dump successful." was about

tableVars == <<list, hash>>
takenVars == <<socket, heirs, peer, earlier, starts>>
diskVars  == <<disk, last>>
vars == <<startupVars, options, tableVars, todo, cnt, dump, diskVars, now>>

NoDump == [step |-> "idle", key |-> <<1, 1>>, file |-> NoFile, exits |-> FALSE]

Init ==
    /\ StartupInit
    /\ options \in Options
    /\ list = [s \in Servers |-> <<>>]
    /\ hash = [s \in Servers |-> uvstrhash_new]
    /\ todo = [s \in Servers |-> <<>>]
    /\ cnt = [s \in Servers |-> 0]
    /\ dump = [s \in Servers |-> NoDump]
    /\ disk = EmptyDisk
    /\ now = 1
    /\ last = [key |-> <<1, 1>>, names |-> {}]

NamesOf(l) == [i \in DOMAIN l |-> l[i].name]

-----------------------------------------------------------------------------
(* Starting and ending. *)

\* A process that ends leaves its files.
Ended(s) ==
    /\ Stopped(s)
    /\ list' = [list EXCEPT ![s] = <<>>]
    /\ hash' = [hash EXCEPT ![s] = uvstrhash_new]
    /\ todo' = [todo EXCEPT ![s] = <<>>]
    /\ cnt' = [cnt EXCEPT ![s] = 0]
    /\ dump' = [dump EXCEPT ![s] = NoDump]

\* A server that crashes before it has a socket is one that goes no further.
Crash(s) == /\ pc[s] = "listen" \/ Listening(s)
            /\ Ended(s)
            /\ UNCHANGED <<options, diskVars, now>>

\* cmd_server until the dump is loaded; a server that ends here has no groups.
Starting(s) ==
    /\ \/ starts[s] < options.lives[s] /\ Start(s)
       \/ TakeSocket(s)
    /\ UNCHANGED <<options, tableVars, todo, cnt, dump, diskVars, now>>

\* The file that is loaded: -l searches the directory, -c alone names it.
Candidates == IF options.load_latest THEN NewestDumps(disk, options.config)
           ELSE {options.config}

\* load_newest_dump ignores a load_dump that fails, cmd_server does not.
read_dump(s) ==
    /\ pc[s] = "load"
    /\ \E file \in Candidates :
          IF file = NoConfig
          THEN Go(s, "serve") /\ UNCHANGED <<takenVars, tableVars, todo, cnt, dump>>
          ELSE \/ /\ load_dump_Succeeds(file)
                  /\ Go(s, "restore")
                  /\ todo' = [todo EXCEPT ![s] = load_dump(file)]
                  /\ UNCHANGED <<takenVars, tableVars, cnt, dump>>
               \/ /\ ~load_dump_Succeeds(file) /\ options.load_latest
                  /\ Go(s, "serve")
                  /\ UNCHANGED <<takenVars, tableVars, todo, cnt, dump>>
               \/ ~load_dump_Succeeds(file) /\ ~options.load_latest /\ Ended(s)
    /\ UNCHANGED <<options, diskVars, now>>

Insert(s, n) ==
    LET new == child_config_insert(list[s], hash[s], [id |-> Unused(list[s]), name |-> n])
    IN  list' = [list EXCEPT ![s] = new.list] /\ hash' = [hash EXCEPT ![s] = new.hash]

\* One pass of load_dump's loop, or its end.  The processes it starts, if the
\* group is running, inherit the socket.
restore(s) ==
    /\ pc[s] = "restore"
    /\ IF todo[s] = <<>>
       THEN Go(s, "serve") /\ UNCHANGED <<heirs, tableVars, todo>>
       ELSE /\ Insert(s, Head(todo[s]))
            /\ todo' = [todo EXCEPT ![s] = Tail(@)]
            /\ heirs' \in {heirs, heirs \cup {Sock(s)}}
            /\ UNCHANGED pc
    /\ UNCHANGED <<socket, peer, earlier, starts, options, cnt, dump, diskVars, now>>

-----------------------------------------------------------------------------
(* Commands.  One callback at a time: none begins while a dump is written. *)
(* The command line connects for each of them: to the server that has the  *)
(* socket.  Dumps that no server will load are left out.                   *)

AtCommand(s) == pc[s] = "serve" /\ dump[s].step = "idle" /\ socket = Sock(s)
CanDump(s)   == options.load_latest /\ cnt[s] < MaxDumps

\* The order of c_dump's steps.
StepAfter_LinkFirst(step) ==
    CASE step = "open" -> "link" [] step = "link" -> "write" [] step = "write" -> "unlink"
StepAfter(step) ==
    CASE step = "open" -> "write" [] step = "write" -> "link" [] step = "link" -> "unlink"

\* The first part of c_dump: the counter, the names of the file, fopen.
BeginDump(s, exits) ==
    LET k == <<cnt[s] + 1, now>>
    IN  /\ CanDump(s)
        /\ cnt' = [cnt EXCEPT ![s] = @ + 1]
        /\ disk' = fopen_w(disk, k, now)
        /\ dump' = [dump EXCEPT ![s] = [step |-> StepAfter("open"), key |-> k,
                                        file |-> Opened(disk, k), exits |-> exits]]

\* fopen fails: "failure".
NoBeginDump_Unchecked(s) ==
    /\ CanDump(s)
    /\ cnt' = [cnt EXCEPT ![s] = @ + 1]
    /\ dump' = [dump EXCEPT ![s] = [@ EXCEPT !.step = StepAfter("open")]]
    /\ UNCHANGED disk
NoBeginDump(s) == /\ CanDump(s)
                  /\ cnt' = [cnt EXCEPT ![s] = @ + 1]
                  /\ UNCHANGED <<dump, disk>>

\* The reply, and after an EXIT the end.
EndDump(s) ==
    IF dump[s].exits THEN Ended(s)
    ELSE /\ dump' = [dump EXCEPT ![s] = NoDump]
         /\ UNCHANGED <<startupVars, tableVars, todo, cnt>>

GoOn(s) == /\ dump' = [dump EXCEPT ![s].step = StepAfter(@)]
           /\ UNCHANGED <<startupVars, tableVars, todo, cnt>>

write(s) ==
    /\ dump[s].step = "write"
    /\ \/ \E kind \in {"whole", "part", "empty"} :   \* fclose may fail unnoticed
             /\ disk' = Write(disk, dump[s].file, kind, NamesOf(list[s]), now)
             /\ GoOn(s)
       \/ EndDump(s) /\ UNCHANGED disk              \* fprintf fails: "failure"
    /\ UNCHANGED <<options, now, last>>

link_dump(s) ==
    /\ dump[s].step = "link"
    /\ IF CanLink(disk, dump[s].key)
       THEN /\ disk' = link(disk, dump[s].key)
            /\ last' = [key |-> dump[s].key, names |-> ToSet(NamesOf(list[s]))]
            /\ GoOn(s)
       ELSE EndDump(s) /\ UNCHANGED diskVars       \* "failure."
    /\ UNCHANGED <<options, now>>

unlink_dump(s) ==
    /\ dump[s].step = "unlink"
    /\ disk' = unlink_tmp(disk, dump[s].key)
    /\ EndDump(s)                                  \* "dump successful."
    /\ UNCHANGED <<options, now, last>>

c_spwn(s, n) ==
    /\ AtCommand(s)
    /\ Len(list[s]) < Cardinality(Groups)
    /\ child_config_find_by_name(hash[s], n) = NoGroup
    /\ Insert(s, n)
    /\ IF options.auto_dump THEN BeginDump(s, FALSE) \/ NoBeginDump(s)
       ELSE UNCHANGED <<cnt, dump, disk>>
    /\ UNCHANGED <<startupVars, options, todo, now, last>>

\* DUMP, and UPDT with auto_dump, which keeps the names.
c_dump(s) ==
    /\ AtCommand(s)
    /\ BeginDump(s, FALSE) \/ NoBeginDump(s)
    /\ UNCHANGED <<startupVars, options, tableVars, todo, now, last>>

\* No dump.
c_dele(s, n) ==
    /\ AtCommand(s)
    /\ LET cc == child_config_find_by_name(hash[s], n)
           new == child_config_remove(list[s], hash[s], cc)
       IN  /\ cc # NoGroup
           /\ list' = [list EXCEPT ![s] = new.list]
           /\ hash' = [hash EXCEPT ![s] = new.hash]
    /\ UNCHANGED <<startupVars, options, todo, cnt, dump, diskVars, now>>

\* When EXIT is allowed: with auto_dump and a file that opens, a dump before.
c_exit(s) ==
    /\ AtCommand(s)
    /\ \/ /\ options.auto_dump /\ BeginDump(s, TRUE)
          /\ UNCHANGED <<startupVars, tableVars, todo>>
       \/ Ended(s) /\ UNCHANGED disk
    /\ UNCHANGED <<options, now, last>>

Command(s) == \/ \E n \in Names : c_spwn(s, n) \/ c_dele(s, n)
              \/ c_dump(s) \/ c_exit(s)

Leave == /\ \E k \in heirs : HeirsEnd(k)
         /\ UNCHANGED <<options, tableVars, todo, cnt, dump, diskVars, now>>

Tick == /\ now < MaxTime
        /\ now' = now + 1
        /\ UNCHANGED <<startupVars, options, tableVars, todo, cnt, dump, diskVars>>

Run(s) == \/ Starting(s) \/ read_dump(s) \/ restore(s)
          \/ Command(s) \/ write(s) \/ link_dump(s) \/ unlink_dump(s)

Next == Tick \/ Leave \/ \E s \in Servers : Run(s) \/ Crash(s)

Spec == Init /\ [][Next]_vars

\* A process that can take a step takes it; commands and crashes may stay
\* away, and the processes of a dump may run forever.
Own(s) == \/ TakeSocket(s) /\ UNCHANGED <<options, tableVars, todo, cnt, dump, diskVars, now>>
          \/ read_dump(s) \/ restore(s) \/ write(s) \/ link_dump(s) \/ unlink_dump(s)
Fairness == \A s \in Servers : WF_vars(Own(s))

FairSpec == Spec /\ Fairness

-----------------------------------------------------------------------------
(* Properties. *)

\* Groups have names and addresses, dumps lead to files, lives are bounded.
TypeOK ==
    /\ pc \in [Servers -> Phases]
    /\ socket \in Sockets \cup {Nobody} /\ heirs \subseteq Sockets
    /\ peer \in [Servers -> Sockets \cup {Nobody}]
    /\ earlier \in [Servers -> SUBSET Servers]
    /\ \A s \in Servers : starts[s] \in 0 .. options.lives[s]
    /\ \A s \in Servers :
          /\ \A i \in DOMAIN list[s] : list[s][i] \in [id : Groups, name : Names]
          /\ \A i \in DOMAIN todo[s] : todo[s][i] \in Names
          /\ cnt[s] \in 0 .. MaxDumps
          /\ dump[s].step # "idle" => dump[s].file # NoFile
    /\ \A k \in Keys : disk.tmp[k] \in Inodes \cup {NoFile} /\ disk.name[k] \in Inodes \cup {NoFile}
    /\ now \in Seconds
    /\ last.names \subseteq Names

\* The values the hash has for a name, the one that is found first.
ValuesOf(s, n) ==
    LET of == Filter(hash[s][Bucket(n)], [key : {n}, address : Groups, value : Groups])
    IN  [i \in DOMAIN of |-> of[i].value]

\* child_config_insert and child_config_remove keep the hash and the list in
\* step: a name leads to the groups of the list that have it, in the list's
\* order, and no entry is left of a group that was freed.
HashIsList ==
    \A s \in Servers :
        /\ \A n \in Names :
              LET of == Filter(list[s], [id : Groups, name : {n}])
              IN  ValuesOf(s, n) = [i \in DOMAIN of |-> of[i].id]
        /\ \A b \in Buckets : \A i \in DOMAIN hash[s][b] :
              LET e == hash[s][b][i]
              IN  \E j \in DOMAIN list[s] : e.address = list[s][j].id /\ e.key = list[s][j].name

\* uvstrhash is a table, in which a name that a configuration file has twice
\* leads to the newer group until that one is deleted, as NameTable says.
Table == INSTANCE NameTable WITH
            Owners <- Servers, Keys <- Names, Values <- Groups,
            table <- [s \in Servers |-> [n \in Names |-> ValuesOf(s, n)]]
HashIsTable == Table!Spec

\* c_dump gives a file its name when it has been closed: no crash leaves a dump
\* that is empty because its server never came to write it.  (A file that was
\* opened twice is another matter: it may have got its name before.)
DumpsAreClosed ==
    \A k \in Dumps(disk) : Dumped(disk, k).times = 1 => Dumped(disk, k).kind # "open"

\* The dump that was reported last is good, and no other is as new.
LastStands ==
    /\ last.key \in Dumps(disk)
    /\ LET file == Dumped(disk, last.key)
       IN  /\ file.kind = "whole" /\ file.times = 1
           /\ file.mtime > options.config.mtime
           /\ \A k \in Dumps(disk) \ {last.key} : Dumped(disk, k).mtime < file.mtime

\* A server started with -l loads the groups of the last dump that was reported
\* as successful, whatever ended the server that wrote it, unless the disk
\* failed, the file was opened again or another dump has the same second.
Restores ==
    [][\A s \in Servers :
          pc[s] = "load" /\ pc'[s] \in {"restore", "serve"} /\ options.load_latest /\ LastStands
             => ToSet(todo'[s]) = last.names]_vars

\* A server does not remove the socket of one that listened on it when it
\* looked, even when that one was busy loading its dump and slow to answer.
NotStolen ==
    [][\A s, t \in Servers :
          pc[t] = "unlink" /\ pc'[t] = "bind" /\ ListensOn(s, socket)
             => s \notin earlier[t]]_vars

\* The server is connected to a socket that only processes of a dump hold: it was
\* not accepted before their server ended, or has connected since.
WaitsForHeirs(s) == /\ pc[s] = "helo" /\ peer[s] \in heirs
                    /\ \A t \in Servers : ~ListensOn(t, peer[s])

\* A server that is started comes to serve or ends: it waits for a server that
\* answers, or whose end it notices.  It does not notice the end of one whose
\* dump has left processes that hold the socket, and waits for all of those.
Starts == \A s \in Servers : pc[s] \notin {"serve", "off"}
                                ~> pc[s] \in {"serve", "off"} \/ WaitsForHeirs(s)
=============================================================================
