----------------------------- MODULE Supervisor -----------------------------
(***************************************************************************)
(* The supervision core of the ubervisor server (cmd_server.c): groups of  *)
(* processes, the commands that change them, the heartbeat timers and the  *)
(* SIGCHLD callback that reaps and restarts.                               *)
(*                                                                         *)
(* The server is one thread around an event loop, so a command handler or  *)
(* a timer callback is one action.  sigchld_cb is several: it calls        *)
(* waitpid once per turn of its loop and children die between the turns.   *)
(*                                                                         *)
(* Replies, connections and the content of notifications other than the    *)
(* status are not modelled here.                                           *)
(*                                                                         *)
(* Commands find a group by its name, everything else has a pointer to it. *)
(* A file that is loaded may have a name twice: then there are two groups  *)
(* of that name, of which commands find the newer one.                     *)
(***************************************************************************)
EXTENDS Kernel

CONSTANTS StartReqs, UpdateReqs, LoadReqs,  \* the configurations clients and dumps hold
          AllowExit,                        \* server started without -n
          MaxSame      \* bounds how often a dump has a name

ASSUME RequestAssumption ==
    /\ StartReqs \subseteq Config /\ UpdateReqs \subseteq Config
    \* a dump is one the server wrote: its instance counts have been checked
    /\ LoadReqs \subseteq {r \in Config : Default(r.instances, Unset, 1) \in 1 .. MaxInst}
    /\ AllowExit \in BOOLEAN /\ MaxSame \in Nat \ {0}

\* What points to a group: <<n, k>> is the one of name n that was inserted when
\* there were k - 1 of them.
Address == Names \X (1 .. MaxSame)
NameOf(a) == a[1]

ASSUME AddressAssumption == NULL \notin Address

\* over: has been up for longer than its age (the clock is not modelled).
Process == [cc : Address \cup {NULL}, inst : Slots, age : Int,
            over : BOOLEAN, terminated : BOOLEAN]

ASSUME NoProcessAssumption == NULL \notin Process

VARIABLES groups,     \* child_config_hash: the group at each address, or NULL
          processes,  \* process_hash: the process with each pid, or NULL
          phase,      \* "boot" while dumps load, "run" in the event loop, "down"
          reaping,    \* inside sigchld_cb's loop
          told,       \* by name: the last status subscribers were sent, or 0
          shared      \* names that were in the dump twice and have not been given
                      \* to a new group since (only SubscriberView looks at it)

vars == <<groups, processes, phase, reaping, told, shared, os, pending, caught>>

TypeOK ==
    /\ groups \in [Address -> Group \cup {NULL}]
    /\ processes \in [Pids -> Process \cup {NULL}]
    /\ phase \in {"boot", "run", "down"}
    /\ reaping \in BOOLEAN
    /\ told \in [Names -> Int] /\ shared \subseteq Names
    /\ KernelTypeOK

Init == /\ groups = [a \in Address |-> NULL]
        /\ processes = [p \in Pids |-> NULL]
        /\ phase = "boot"
        /\ reaping = FALSE
        /\ told = [n \in Names |-> 0]
        /\ shared = {}
        /\ KernelInit

\* The event loop is between two callbacks.
Idle == phase = "run" /\ ~reaping

\* The groups with the name of this one.
Namesakes(a) == {b \in Address : NameOf(b) = NameOf(a) /\ groups[b] # NULL}

\* child_config_find_by_name returns this one: the newest of its name.
Found(a) == groups[a] # NULL /\ \A b \in Namesakes(a) : b[2] <= a[2]

-----------------------------------------------------------------------------
(* Starting processes. *)

NewProcess(a, i, age) ==
    [cc |-> a, inst |-> i, age |-> age, over |-> FALSE, terminated |-> FALSE]

Pointers(g, f) ==
    [i \in Slots |-> IF i \in DOMAIN f /\ f[i] # NULL THEN f[i] ELSE g.childs[i]]

\* spawn, called for every slot in the domain of f.  P and O are the process
\* hash and the process table to start from, f one of Forks(O, slots).
spawn(a, g, age, P, O, f) ==
    LET born == {f[i] : i \in DOMAIN f} \ {NULL}
    IN  /\ groups' = [groups EXCEPT ![a] = [g EXCEPT !.childs = Pointers(g, f)]]
        /\ processes' = [p \in Pids |->
                            IF p \in born
                            THEN NewProcess(a, CHOOSE i \in DOMAIN f : f[i] = p, age)
                            ELSE P[p]]
        /\ os' = [p \in Pids |-> IF p \in born THEN Started("child") ELSE O[p]]

-----------------------------------------------------------------------------
(* Startup: the dump is loaded before the signal handlers are installed.   *)
(* Nobody looks whether a name is already there.                           *)

load_dump(a, r) ==
    /\ phase = "boot"
    /\ {b[2] : b \in Namesakes(a)} = 1 .. a[2] - 1
    /\ LET g == LoadedGroup(r)
       IN  \E f \in Forks(os, IF g.status = STATUS_RUNNING THEN Instances(g) ELSE {}) :
              spawn(a, g, g.age, processes, os, f)
    /\ shared' = IF a[2] = 1 THEN shared ELSE shared \cup {NameOf(a)}
    /\ UNCHANGED <<phase, reaping, told, pending, caught>>

EnterLoop ==
    /\ phase = "boot"
    /\ phase' = "run"
    /\ UNCHANGED <<groups, processes, reaping, told, shared, os, pending, caught>>

-----------------------------------------------------------------------------
(* Commands.  A request a handler rejects changes nothing here. *)

ToSpawn(g) == IF g.status = STATUS_RUNNING THEN Instances(g) ELSE {}

c_spwn(a, r) ==
    /\ Idle /\ Namesakes(a) = {} /\ a[2] = 1 /\ ValidSpwn(r)
    /\ LET g == SpwnGroup(r)
       IN  /\ \E f \in Forks(os, ToSpawn(g)) : spawn(a, g, g.age, processes, os, f)
           /\ told' = [told EXCEPT ![NameOf(a)] = g.status]
    /\ shared' = shared \ {NameOf(a)}
    /\ UNCHANGED <<phase, reaping, pending, caught>>

Detach_Forgotten(P, pids) == P

\* The processes keep running, but belong to no group any more.
Detach(P, pids) == [p \in Pids |-> IF p \in pids THEN [P[p] EXCEPT !.cc = NULL] ELSE P[p]]

\* The status notification of an update (an unchanged status is not sent).
Told_Never(a, g, r) == told

Told(a, g, r) == IF StatusChanges(g, r) THEN [told EXCEPT ![NameOf(a)] = r.status] ELSE told

c_updt(a, r, w) ==
    /\ Idle /\ Found(a) /\ ValidUpdt(r)
    /\ LET g == groups[a]
       IN  /\ WILD \notin Dropped(g, r)
           /\ \E f \in Forks(os, ToStart(g, r)) :
                 spawn(a, Updated(g, r, w), g.age, Detach(processes, Dropped(g, r)), os, f)
           /\ told' = Told(a, g, r)
    /\ UNCHANGED <<phase, reaping, shared, pending, caught>>

Dele_KeepsMembers(a) == {}

\* The processes c_dele takes the group pointer from.
DeleMembers(a) == Members(groups[a])

c_dele(a) ==
    /\ Idle /\ Found(a)
    /\ \A i \in Instances(groups[a]) : groups[a].childs[i] # WILD
    /\ groups' = [groups EXCEPT ![a] = NULL]
    /\ processes' = Detach(processes, DeleMembers(a))
    /\ told' = [told EXCEPT ![NameOf(a)] = STATUS_DELETE]
    /\ UNCHANGED <<phase, reaping, shared, os, pending, caught>>

\* The slots "KILL" addresses: one index, or all of them (idx = Unset).
Addressed(g, idx) == IF idx = Unset THEN Instances(g) ELSE Instances(g) \cap {idx}

c_kill(a, sig, idx) ==
    /\ Idle /\ Found(a)
    /\ LET targets == {groups[a].childs[i] : i \in Addressed(groups[a], idx)}
       IN  /\ WILD \notin targets
           /\ os' = Signalled(os, targets, sig)
    /\ UNCHANGED <<groups, processes, phase, reaping, told, shared, pending, caught>>

\* A command (KILL, DELE, PIDS, UPDT) follows an uninitialised pointer.  It
\* is undefined behaviour; the outcome modelled is the crash.
wild_deref(a) ==
    /\ Idle /\ Found(a)
    /\ \E i \in Instances(groups[a]) : groups[a].childs[i] = WILD
    /\ phase' = "down"
    /\ UNCHANGED <<groups, processes, reaping, told, shared, os, pending, caught>>

c_exit ==
    /\ Idle /\ AllowExit
    /\ phase' = "down"
    /\ UNCHANGED <<groups, processes, reaping, told, shared, os, pending, caught>>

-----------------------------------------------------------------------------
(* The heartbeat timer of a process: the age limit, or the heartbeat       *)
(* command.  A tick with nothing to do only rearms the timer.              *)

\* The process has been up for longer than its age.
PassAge(p) ==
    /\ phase # "down" /\ processes[p] # NULL
    /\ processes[p].age > 0 /\ ~processes[p].over
    /\ processes' = [processes EXCEPT ![p] = [@ EXCEPT !.over = TRUE]]
    /\ UNCHANGED <<groups, phase, reaping, told, shared, os, pending, caught>>

AgeSignal_NeverHard(p) ==
    IF processes[p].cc # NULL THEN groups[processes[p].cc].killsig ELSE SIGTERM

AgeSignal(p) == IF processes[p].terminated THEN SIGKILL
                ELSE IF processes[p].cc # NULL THEN groups[processes[p].cc].killsig
                ELSE SIGTERM

heartbeat_cb(p) ==
    /\ Idle /\ processes[p] # NULL
    /\ \/ /\ processes[p].over
          /\ os' = Signalled(os, {p}, AgeSignal(p))
          /\ processes' = [processes EXCEPT ![p] = [@ EXCEPT !.terminated = TRUE]]
       \/ /\ ~processes[p].over
          /\ processes[p].cc # NULL /\ groups[processes[p].cc].heartbeat
          /\ os' \in HelperForks(os, "heartbeat")
          /\ UNCHANGED processes
    /\ UNCHANGED <<groups, phase, reaping, told, shared, pending, caught>>

-----------------------------------------------------------------------------
(* sigchld_cb. *)

\* libevent runs the callback for one of the counted signals.
SigchldBegin ==
    /\ Idle /\ caught > 0
    /\ caught' = caught - 1
    /\ reaping' = TRUE
    /\ UNCHANGED <<groups, processes, phase, told, shared, os, pending>>

GoesOn_Once(p) == FALSE

\* The callback returns when it has waited for a pid that is not in
\* process_hash (a heartbeat or fatal helper), whatever else there is to reap.
GoesOn(p) == processes[p] # NULL

\* waitpid has returned p.
Waited(p) == /\ phase = "run" /\ reaping /\ os[p].st = "zombie"
             /\ reaping' = GoesOn(p)
             /\ UNCHANGED <<phase, shared, pending, caught>>

process_remove_Forgotten(P, p) == P
process_remove_Orphaned(P, p)  == [P EXCEPT ![p] = [@ EXCEPT !.cc = NULL]]

process_remove(P, p) == [P EXCEPT ![p] = NULL]

\* A heartbeat or fatal helper.
ReapHelper(p) ==
    /\ Waited(p) /\ processes[p] = NULL
    /\ os' = [os EXCEPT ![p] = NoTask]
    /\ UNCHANGED <<groups, processes, told>>

\* A process whose group was deleted or shrunk: forgotten, not restarted.
ReapOrphan(p) ==
    /\ Waited(p) /\ processes[p] # NULL /\ processes[p].cc = NULL
    /\ os' = [os EXCEPT ![p] = NoTask]
    /\ processes' = process_remove(processes, p)
    /\ UNCHANGED <<groups, told>>

ToRestart_AnyStatus(g, i) == Instances(g) \cap {i}

\* The slot to start again, if the group is (still) running.
ToRestart(g, i) == IF g.status = STATUS_RUNNING THEN Instances(g) \cap {i} ELSE {}

ReapMember(p, expired) ==
    /\ Waited(p) /\ processes[p] # NULL /\ processes[p].cc # NULL
    /\ LET a == processes[p].cc
           i == processes[p].inst
           g == AfterExit(groups[a], i, os[p].cause, expired)
           O == [os EXCEPT ![p] = NoTask]
           P == process_remove(processes, p)
       IN  \/ /\ Breaks(groups[a], i, os[p].cause, expired)
              /\ groups' = [groups EXCEPT ![a] = g]
              /\ processes' = P
              /\ told' = [told EXCEPT ![NameOf(a)] = STATUS_BROKEN]
              /\ os' \in IF g.fatal THEN HelperForks(O, "fatal") ELSE {O}
           \/ /\ ~Breaks(groups[a], i, os[p].cause, expired)
              /\ \E f \in Forks(O, ToRestart(g, i)) : spawn(a, g, g.age, P, O, f)
              /\ UNCHANGED told

\* waitpid finds no zombie: the callback returns.
ReapDone ==
    /\ phase = "run" /\ reaping /\ Zombies(os) = {}
    /\ reaping' = FALSE
    /\ UNCHANGED <<groups, processes, phase, told, shared, os, pending, caught>>

-----------------------------------------------------------------------------
(* The kernel's steps. *)

\* (Nothing looks at how a helper ended, so it is not recorded.)
TaskExit(p, cause) ==
    /\ phase # "down"
    /\ os[p].role # "child" => cause = "zero"
    /\ Exit(p, cause, phase = "run")
    /\ UNCHANGED <<groups, processes, phase, reaping, told, shared>>

Deliver ==
    /\ phase = "run"
    /\ DeliverSig
    /\ UNCHANGED <<groups, processes, phase, reaping, told, shared>>

-----------------------------------------------------------------------------
Command(a) ==
    \/ \E r \in StartReqs : c_spwn(a, r)
    \/ \E r \in UpdateReqs, w \in {NULL, WILD} : c_updt(a, r, w)
    \/ c_dele(a)
    \/ \E sig \in Signals, idx \in Slots \cup {Unset} : c_kill(a, sig, idx)
    \/ wild_deref(a)

Reap(p) == ReapHelper(p) \/ ReapOrphan(p) \/ \E expired \in BOOLEAN : ReapMember(p, expired)

Next ==
    \/ \E a \in Address, r \in LoadReqs : load_dump(a, r)
    \/ EnterLoop
    \/ \E a \in Address : Command(a)
    \/ c_exit
    \/ \E p \in Pids : PassAge(p) \/ heartbeat_cb(p) \/ Reap(p)
    \/ SigchldBegin
    \/ ReapDone
    \/ \E p \in Pids, cause \in Causes : TaskExit(p, cause)
    \/ Deliver

Spec == Init /\ [][Next]_vars

(***************************************************************************)
(* Fairness.  The kernel delivers a pending signal and ends a task that    *)
(* got SIGKILL; the event loop runs callbacks that are due, a callback     *)
(* makes progress.  Timers compete with signals and commands for the loop, *)
(* but libevent serves all that is due in a round before it polls again,   *)
(* hence SF for them.  Nothing makes a task end by itself, and no client   *)
(* has to send a command.                                                  *)
(***************************************************************************)
Fairness ==
    /\ WF_vars(EnterLoop)
    /\ WF_vars(Deliver)
    /\ WF_vars(SigchldBegin)
    /\ SF_vars(ReapDone)
    /\ \A p \in Pids : /\ WF_vars(Reap(p))
                       /\ WF_vars(PassAge(p))
                       /\ SF_vars(heartbeat_cb(p))
                       /\ WF_vars(os[p].st = "killed" /\ TaskExit(p, SIGKILL))

FairSpec == Spec /\ Fairness

-----------------------------------------------------------------------------
(* Properties. *)

(* process_hash holds exactly the children that have not been waited for:  *)
(* sigchld_cb finds the process of every child (process.c,                 *)
(* cmd_server.c:783), and every pid the server sends a signal to           *)
(* (heartbeat_cb) is still that child, not a reused one.                   *)
HashedUnreaped ==
    \A p \in Pids : processes[p] # NULL <=> os[p].role = "child"

(* Slots and processes point at each other: no cc_childs slot refers to a  *)
(* freed or foreign process, and no p_child_config to a freed group or to  *)
(* a slot it lost (the free() calls of sigchld_cb and c_dele leave no      *)
(* dangling pointer).  Hence a group never has more processes than slots.  *)
SlotsOwned ==
    \A a \in Address : groups[a] # NULL =>
        \A i \in Slots : groups[a].childs[i] \in Pids =>
            /\ i \in Instances(groups[a])
            /\ processes[groups[a].childs[i]] # NULL
            /\ processes[groups[a].childs[i]].cc = a
            /\ processes[groups[a].childs[i]].inst = i

(* A process that belongs to a group has its slot there: c_dele and a      *)
(* shrinking c_updt detach every process whose group or slot goes, so      *)
(* sigchld_cb and heartbeat_cb never follow p_child_config to a freed one. *)
MembersSlotted ==
    \A p \in Pids : processes[p] # NULL /\ processes[p].cc # NULL =>
        /\ groups[processes[p].cc] # NULL
        /\ processes[p].inst \in Instances(groups[processes[p].cc])
        /\ groups[processes[p].cc].childs[processes[p].inst] = p

(* A running group is at full strength whenever the loop is idle: as long  *)
(* as fork succeeds, start, update, restart and load together leave no     *)
(* instance of it without a process (a dead one counts until it is         *)
(* reaped).                                                                *)
FullStrength ==
    \A a \in Address :
        groups[a] # NULL /\ groups[a].status = STATUS_RUNNING =>
            \A i \in Instances(groups[a]) : groups[a].childs[i] \in Pids

(* What subscribers were last told of a name is the truth: every path that *)
(* changes cc_status notifies, and so does every deletion.  (Groups loaded *)
(* from a dump have never been announced.)  A notification carries no more *)
(* than the name: of a name that a dump had twice they are told of either  *)
(* group what may not be true of the other, until both have been deleted.  *)
SubscriberView ==
    \A n \in Names :
        LET named == {a \in Address : NameOf(a) = n /\ groups[a] # NULL}
        IN  IF named = {} THEN told[n] \in {0, STATUS_DELETE}
            ELSE told[n] # 0 /\ n \notin shared => \A a \in named : told[n] = groups[a].status

(* A dead child is never overlooked: while there is a zombie, a SIGCHLD is *)
(* on its way or sigchld_cb is in its loop.  (Holds only without helpers   *)
(* and without a dump: see DeadChildReaped.)                               *)
NoLostChild == phase = "run" /\ Zombies(os) # {} => pending \/ caught > 0 \/ reaping

\* In this step a child is forked with pid p (which may just have been freed).
Born(p) == os'[p] = Started("child") /\ os[p].st # "run"

(* A group that is stopped or broken gets no new process: a fork belongs   *)
(* to a group that is running before or after the handler                  *)
(* (command_start.txt:81,84, "No new processes are started").              *)
StartsOnlyWhenRunning ==
    [][\A p \in Pids : Born(p) =>
          \E a \in Address : /\ processes'[p].cc = a
                             /\ \/ groups[a] # NULL /\ groups[a].status = STATUS_RUNNING
                                \/ groups'[a].status = STATUS_RUNNING]_vars

(* kill(2) is only ever called on a child the server started and has not   *)
(* waited for: never on a helper, nor on a stranger that got the pid.      *)
SignalsOnlyChildren ==
    [][\A p \in Pids : os[p].st = "run" /\ os'[p].st = "killed"
                         => os[p].role = "child"]_vars

(* The age limit: a process that has outlived its age is eventually        *)
(* killed and reaped, also when it ignores its kill signal, when its group *)
(* is deleted or stopped, and whatever signals clients send it.            *)
OverAgeDies ==
    \A p \in Pids : processes[p] # NULL /\ processes[p].over
                        ~> processes[p] = NULL \/ ~processes[p].over

(* "Processes are restarted, when they exit" (command_start.txt:80): a     *)
(* dead child of the server is eventually waited for, and by FullStrength  *)
(* replaced in the same step.                                              *)
DeadChildReaped ==
    \A p \in Pids : os[p].st = "zombie" /\ os[p].role = "child"
                        ~> os[p].st # "zombie" \/ phase = "down"
=============================================================================
