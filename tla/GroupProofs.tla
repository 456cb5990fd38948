---------------------------- MODULE GroupProofs ----------------------------
(***************************************************************************)
(* More theorems about Supervisor.tla, on top of the invariant IInv of     *)
(* SupervisorProofs.tla: what subscribers were told, for which groups      *)
(* processes are started, whom a signal reaches, when a group is at full   *)
(* strength and why no dead child is overlooked.  The lemmas that come     *)
(* first say what the handlers do to a group besides keeping the books.    *)
(***************************************************************************)
EXTENDS SupervisorProofs

-----------------------------------------------------------------------------
(* What the handlers do to the status and the slots of a group. *)

\* A group of the dump is a group, and so is one that spwn creates.
LEMMA LoadedType ==
    ASSUME NEW r \in LoadReqs
    PROVE  LoadedGroup(r) \in Group
<1>1. r \in Config /\ Default(r.instances, Unset, 1) \in 1 .. MaxInst
  BY RequestAssumption
<1>2. /\ Default(r.status, Unset, STATUS_RUNNING) \in Int
      /\ Default(r.killsig, NULL, SIGTERM) \in Signals \cup {NULL}
  BY <1>1, SignalAssumption DEF Default, Config, STATUS_RUNNING
<1> QED BY <1>1, <1>2, NewGroupType DEF LoadedGroup

LEMMA SpwnType ==
    ASSUME NEW r \in StartReqs, ValidSpwn(r)
    PROVE  SpwnGroup(r) \in Group
<1>1. r \in Config /\ Default(r.instances, Unset, 1) \in 1 .. MaxInst
  BY RequestAssumption DEF ValidSpwn
<1>2. r.status \in Int /\ r.killsig \in Signals \cup {NULL}
  BY <1>1 DEF Config
<1> QED BY <1>1, <1>2, NewGroupType DEF SpwnGroup

\* What an update asks spawn for are instances of the updated group.
LEMMA UpdtGroup ==
    ASSUME IInv, NEW a \in Address, NEW r \in UpdateReqs, NEW w \in {NULL, WILD}, c_updt(a, r, w)
    PROVE  /\ r \in Config /\ ValidUpdt(r) /\ groups[a] \in Group
           /\ Updated(groups[a], r, w) \in Group
           /\ ToStart(groups[a], r) \in SUBSET Instances(Updated(groups[a], r, w))
           /\ Updated(groups[a], r, w).status =
                 (IF r.status = Unset THEN groups[a].status ELSE r.status)
<1> DEFINE g == groups[a]
           u == Updated(g, r, w)
           v == Updated(g, r, NULL)
<1>1. r \in Config /\ ValidUpdt(r) /\ g \in Group /\ g # NULL
  BY RequestAssumption DEF c_updt, Found, IInv, TypeOK
<1>2. Instances(u) = Instances(v)
  BY <1>1 DEF Updated, Instances, Group
<1>3. ToStart(g, r) \in SUBSET Instances(u)
  BY <1>1, <1>2, UpdatedType DEF ToStart
<1> QED BY <1>1, <1>3, UpdatedType

\* spawn changes one group, and in it nothing but the slots it forked for.
LEMMA SpawnGroup ==
    ASSUME NEW a \in Address, NEW g \in Group, NEW age, NEW P, NEW O,
           groups \in [Address -> Group \cup {NULL}],
           NEW todo \in SUBSET Instances(g), NEW f \in Forks(O, todo),
           spawn(a, g, age, P, O, f)
    PROVE  /\ groups'[a] # NULL
           /\ groups'[a].status = g.status
           /\ groups'[a].instances = g.instances
           /\ groups'[a].heartbeat = g.heartbeat
           /\ groups'[a].fatal = g.fatal
           /\ \A i \in Slots : groups'[a].childs[i] =
                  IF i \in todo /\ f[i] # NULL THEN f[i] ELSE g.childs[i]
           /\ \A m \in Address \ {a} : groups'[m] = groups[m]
<1> DEFINE h == [g EXCEPT !.childs = Pointers(g, f)]
<1>1. f \in [todo -> Free(O) \cup {NULL}]
  BY DEF Forks
<1>2. groups' = [groups EXCEPT ![a] = h]
  BY DEF spawn
<1>3. /\ Pointers(g, f) \in [Slots -> Pids \cup {NULL, WILD}]
      /\ \A i \in Slots : Pointers(g, f)[i] = IF i \in todo /\ f[i] # NULL THEN f[i] ELSE g.childs[i]
  BY <1>1 DEF Pointers, Group, Free
<1>4. /\ h \in Group /\ h.childs = Pointers(g, f) /\ h.status = g.status
      /\ h.instances = g.instances /\ h.heartbeat = g.heartbeat /\ h.fatal = g.fatal
  BY <1>3 DEF Group
<1> HIDE DEF h
<1> QED BY <1>2, <1>3, <1>4, NoGroupAssumption

\* What spawn leaves in the process table and the process hash.
LEMMA SpawnTasks ==
    ASSUME NEW a \in Address, NEW g, NEW age, NEW P, NEW O, NEW todo, NEW f \in Forks(O, todo),
           spawn(a, g, age, P, O, f), NEW p \in Pids
    PROVE  \/ /\ todo # {} /\ os'[p] = Started("child")
              /\ processes'[p].cc = a
           \/ os'[p] = O[p] /\ processes'[p] = P[p]
<1> DEFINE born == {f[i] : i \in DOMAIN f} \ {NULL}
<1>1. DOMAIN f = todo
  BY DEF Forks
<1>2. CASE p \in born
  <2>1. todo # {}
    BY <1>1, <1>2
  <2>2. os'[p] = Started("child") /\ processes'[p] = NewProcess(a, CHOOSE i \in DOMAIN f : f[i] = p, age)
    BY <1>2 DEF spawn
  <2> QED BY <2>1, <2>2 DEF NewProcess
<1>3. CASE p \notin born
  BY <1>3 DEF spawn
<1> QED BY <1>2, <1>3

-----------------------------------------------------------------------------
(* What subscribers know. *)

\* Nobody is told anything before the event loop runs.  When a name was in the
\* dump once there is one group of it, at the first address.
ViewInv ==
    /\ SubscriberView
    /\ phase = "boot" => told = [n \in Names |-> 0]
    /\ \A a \in Address : groups[a] # NULL /\ a[2] # 1 => NameOf(a) \in shared

\* Two groups of a name that was not in the dump twice are the same.
LEMMA OneOfName ==
    ASSUME ViewInv, NEW a \in Address, NEW b \in Address, NameOf(a) = NameOf(b),
           NameOf(a) \notin shared, groups[a] # NULL, groups[b] # NULL
    PROVE  a = b
<1>1. a[2] = 1 /\ b[2] = 1
  BY DEF ViewInv
<1> QED BY <1>1 DEF Address, NameOf

\* A handler that changes the status of one group and says so.
LEMMA ViewTold ==
    ASSUME IInv, ViewInv, phase # "boot", UNCHANGED phase, NEW a \in Address,
           groups'[a] # NULL,
           \A m \in Address \ {a} : groups'[m] = groups[m],
           \/ told' = [told EXCEPT ![NameOf(a)] = groups'[a].status]
           \/ told' = told /\ groups[a] # NULL /\ groups'[a].status = groups[a].status,
           \/ shared' = shared /\ groups[a] # NULL
           \/ shared' = shared \ {NameOf(a)} /\ a[2] = 1 /\ Namesakes(a) = {}
    PROVE  ViewInv'
<1>1. told \in [Names -> Int] /\ NameOf(a) \in Names /\ \A m \in Address : NameOf(m) \in Names
  BY IInvParts, NameOfType DEF Flags
<1>2. \A m \in Address : groups'[m] # NULL /\ m[2] # 1 => NameOf(m) \in shared'
  BY DEF ViewInv, Namesakes
<1>3. ASSUME NEW m \in Address, NameOf(m) = NameOf(a), groups'[m] # NULL,
             NameOf(a) \notin shared'
      PROVE  m = a
  <2>1. CASE shared' = shared /\ groups[a] # NULL
    <3>1. groups[m] # NULL
      BY <1>3, <2>1
    <3> QED BY <1>3, <2>1, <3>1, OneOfName
  <2>2. CASE Namesakes(a) = {}
    BY <1>3, <2>2 DEF Namesakes
  <2> QED BY <2>1, <2>2
<1>4. SubscriberView'
  <2> SUFFICES ASSUME NEW n \in Names
               PROVE  LET named == {m \in Address : NameOf(m) = n /\ groups'[m] # NULL}
                      IN  IF named = {} THEN told'[n] \in {0, STATUS_DELETE}
                          ELSE told'[n] # 0 /\ n \notin shared'
                                  => \A m \in named : told'[n] = groups'[m].status
    BY DEF SubscriberView
  <2>1. CASE n = NameOf(a)
    <3>1. ASSUME told'[n] # 0, n \notin shared', NEW m \in Address, NameOf(m) = n, groups'[m] # NULL
          PROVE  told'[n] = groups'[m].status
      <4>1. m = a
        BY <1>3, <2>1, <3>1
      <4>2. CASE told' = [told EXCEPT ![NameOf(a)] = groups'[a].status]
        BY <1>1, <2>1, <4>1, <4>2
      <4>3. CASE told' = told /\ groups[a] # NULL /\ groups'[a].status = groups[a].status
        <5>1. CASE shared' = shared
          BY <2>1, <3>1, <4>1, <4>3, <5>1 DEF ViewInv, SubscriberView
        <5>2. CASE Namesakes(a) = {}
          BY <4>3, <5>2 DEF Namesakes
        <5> QED BY <5>1, <5>2
      <4> QED BY <4>2, <4>3
    <3> QED BY <2>1, <3>1
  <2>2. CASE n # NameOf(a)
    <3>1. \A m \in Address : NameOf(m) = n => groups'[m] = groups[m]
      BY <2>2
    <3>2. told'[n] = told[n] /\ (n \in shared' <=> n \in shared)
      BY <1>1, <2>2
    <3> QED BY <3>1, <3>2 DEF ViewInv, SubscriberView
  <2> QED BY <2>1, <2>2
<1> QED BY <1>2, <1>4 DEF ViewInv

LEMMA ViewLoad ==
    ASSUME IInv, ViewInv, NEW a \in Address, NEW r \in LoadReqs, load_dump(a, r)
    PROVE  ViewInv'
<1> DEFINE g == LoadedGroup(r)
           todo == IF g.status = STATUS_RUNNING THEN Instances(g) ELSE {}
<1>1. g \in Group
  BY LoadedType
<1> HIDE DEF g
<1>2. PICK f \in Forks(os, todo) : spawn(a, g, g.age, processes, os, f)
  BY DEF load_dump, g
<1>3. groups \in [Address -> Group \cup {NULL}] /\ todo \in SUBSET Instances(g)
  BY DEF IInv, TypeOK
<1> HIDE DEF todo
<1>4. groups'[a] # NULL /\ \A m \in Address \ {a} : groups'[m] = groups[m]
  BY <1>1, <1>2, <1>3, SpawnGroup
<1>5. told = [m \in Names |-> 0] /\ told' = told /\ phase' = phase
  BY DEF load_dump, ViewInv
<1>6. /\ \A m \in Address : m # a /\ groups'[m] # NULL /\ m[2] # 1 => NameOf(m) \in shared'
      /\ a[2] # 1 => NameOf(a) \in shared'
  BY <1>4 DEF load_dump, ViewInv
<1> QED BY <1>4, <1>5, <1>6 DEF ViewInv, SubscriberView

LEMMA ViewSpwn ==
    ASSUME IInv, ViewInv, NEW a \in Address, NEW r \in StartReqs, c_spwn(a, r)
    PROVE  ViewInv'
<1> DEFINE g == SpwnGroup(r)
<1>1. g \in Group
  BY SpwnType DEF c_spwn
<1> HIDE DEF g
<1>2. PICK f \in Forks(os, ToSpawn(g)) : spawn(a, g, g.age, processes, os, f)
  BY DEF c_spwn, g
<1>3. groups \in [Address -> Group \cup {NULL}] /\ ToSpawn(g) \in SUBSET Instances(g)
  BY DEF IInv, TypeOK, ToSpawn
<1>4. /\ groups'[a] # NULL /\ groups'[a].status = g.status
      /\ \A m \in Address \ {a} : groups'[m] = groups[m]
  BY <1>1, <1>2, <1>3, SpawnGroup
<1>5. /\ told' = [told EXCEPT ![NameOf(a)] = g.status] /\ phase' = phase /\ phase # "boot"
      /\ shared' = shared \ {NameOf(a)} /\ a[2] = 1 /\ Namesakes(a) = {}
  BY DEF c_spwn, Idle, g
<1> QED BY <1>4, <1>5, ViewTold

LEMMA ViewUpdt ==
    ASSUME IInv, ViewInv, NEW a \in Address, NEW r \in UpdateReqs, NEW w \in {NULL, WILD},
           c_updt(a, r, w)
    PROVE  ViewInv'
<1> DEFINE g == groups[a]
           u == Updated(g, r, w)
           P == Detach(processes, Dropped(g, r))
<1>1. /\ u \in Group /\ ToStart(g, r) \in SUBSET Instances(u)
      /\ u.status = (IF r.status = Unset THEN g.status ELSE r.status)
  BY UpdtGroup
<1>2. PICK f \in Forks(os, ToStart(g, r)) : spawn(a, u, g.age, P, os, f)
  BY DEF c_updt
<1>3. groups \in [Address -> Group \cup {NULL}]
  BY DEF IInv, TypeOK
<1> HIDE DEF u, P
<1>4. /\ groups'[a] # NULL /\ groups'[a].status = u.status
      /\ \A m \in Address \ {a} : groups'[m] = groups[m]
  BY <1>1, <1>2, <1>3, SpawnGroup
<1>5. told' = Told(a, g, r) /\ phase' = phase /\ phase # "boot" /\ groups[a] # NULL
      /\ shared' = shared
  BY DEF c_updt, Found, Idle
<1>6. CASE StatusChanges(g, r)
  BY <1>1, <1>4, <1>5, <1>6, ViewTold DEF Told, StatusChanges
<1>7. CASE ~StatusChanges(g, r)
  BY <1>1, <1>4, <1>5, <1>7, ViewTold DEF Told, StatusChanges
<1> QED BY <1>6, <1>7

\* What sigchld_cb does with a member it has waited for: either its group
\* breaks and is announced, or the slot is started again if the group runs.
LEMMA MemberGroup ==
    ASSUME IInv, NEW p \in Pids, NEW expired \in BOOLEAN, ReapMember(p, expired)
    PROVE  LET a == processes[p].cc
               i == processes[p].inst
               g == AfterExit(groups[a], i, os[p].cause, expired)
               O == [os EXCEPT ![p] = NoTask]
               P == [processes EXCEPT ![p] = NULL]
           IN  /\ a \in Address /\ groups[a] \in Group /\ i \in Instances(groups[a])
               /\ g \in Group /\ phase' = phase /\ phase = "run"
               /\ \/ /\ g.status = STATUS_BROKEN
                     /\ groups' = [groups EXCEPT ![a] = g]
                     /\ processes' = P
                     /\ told' = [told EXCEPT ![NameOf(a)] = STATUS_BROKEN]
                     /\ os' \in IF g.fatal THEN HelperForks(O, "fatal") ELSE {O}
                  \/ /\ g.status = groups[a].status
                     /\ \E f \in Forks(O, ToRestart(g, i)) : spawn(a, g, g.age, P, O, f)
                     /\ told' = told
<1> DEFINE a == processes[p].cc
           i == processes[p].inst
           g == AfterExit(groups[a], i, os[p].cause, expired)
           O == [os EXCEPT ![p] = NoTask]
           P == [processes EXCEPT ![p] = NULL]
           brk == Breaks(groups[a], i, os[p].cause, expired)
<1>1. a \in Address /\ groups[a] \in Group /\ i \in Instances(groups[a])
  BY DEF ReapMember, IInv, TypeOK, Good, Slotted, Process
<1>2. /\ g \in Group
      /\ brk => g.status = STATUS_BROKEN
      /\ ~brk => g.status = groups[a].status
  <2>1. g \in Group
    BY <1>1, AfterExitType
  <2>2. (brk => g.status = STATUS_BROKEN) /\ (~brk => g.status = groups[a].status)
    <3> HIDE DEF a, i
    <3> QED BY <1>1, AfterExitStatus
  <2> QED BY <2>1, <2>2
<1>3. phase' = phase /\ phase = "run"
  BY DEF ReapMember, Waited
<1>4. \/ /\ brk /\ groups' = [groups EXCEPT ![a] = g] /\ processes' = P
         /\ told' = [told EXCEPT ![NameOf(a)] = STATUS_BROKEN]
         /\ os' \in IF g.fatal THEN HelperForks(O, "fatal") ELSE {O}
      \/ /\ ~brk /\ told' = told
         /\ \E f \in Forks(O, ToRestart(g, i)) : spawn(a, g, g.age, P, O, f)
  BY DEF ReapMember, process_remove
<1> HIDE DEF g, brk, O, P, a, i
<1> QED BY <1>1, <1>2, <1>3, <1>4 DEF g, O, P, a, i

LEMMA ViewMember ==
    ASSUME IInv, ViewInv, NEW p \in Pids, NEW expired \in BOOLEAN, ReapMember(p, expired)
    PROVE  ViewInv'
<1> DEFINE a == processes[p].cc
           i == processes[p].inst
           g == AfterExit(groups[a], i, os[p].cause, expired)
           O == [os EXCEPT ![p] = NoTask]
           P == [processes EXCEPT ![p] = NULL]
           todo == ToRestart(g, i)
<1>0. shared' = shared
  BY DEF ReapMember, Waited
<1>1. /\ a \in Address /\ groups[a] \in Group /\ g \in Group /\ phase' = phase /\ phase = "run"
      /\ \/ /\ g.status = STATUS_BROKEN
            /\ groups' = [groups EXCEPT ![a] = g]
            /\ told' = [told EXCEPT ![NameOf(a)] = STATUS_BROKEN]
         \/ /\ g.status = groups[a].status
            /\ \E f \in Forks(O, todo) : spawn(a, g, g.age, P, O, f)
            /\ told' = told
  BY MemberGroup
<1>2. groups \in [Address -> Group \cup {NULL}] /\ todo \in SUBSET Instances(g)
  BY DEF IInv, TypeOK, ToRestart
<1> HIDE DEF a, i, g, O, P, todo
<1>3. CASE /\ g.status = STATUS_BROKEN
           /\ groups' = [groups EXCEPT ![a] = g]
           /\ told' = [told EXCEPT ![NameOf(a)] = STATUS_BROKEN]
  <2>1. groups'[a] = g /\ g # NULL /\ \A m \in Address \ {a} : groups'[m] = groups[m]
    BY <1>1, <1>2, <1>3, NoGroupAssumption
  <2> QED BY <1>0, <1>1, <1>3, <2>1, NoGroupAssumption, ViewTold
<1>4. CASE /\ g.status = groups[a].status
           /\ \E f \in Forks(O, todo) : spawn(a, g, g.age, P, O, f)
           /\ told' = told
  <2>1. PICK f \in Forks(O, todo) : spawn(a, g, g.age, P, O, f)
    BY <1>4
  <2>2. /\ groups'[a] # NULL /\ groups'[a].status = g.status
        /\ \A m \in Address \ {a} : groups'[m] = groups[m]
    BY <1>1, <1>2, <2>1, SpawnGroup
  <2> QED BY <1>0, <1>1, <1>4, <2>2, NoGroupAssumption, ViewTold
<1> QED BY <1>1, <1>3, <1>4

\* Steps that change neither a group nor what was told.
LEMMA ViewSame ==
    ASSUME ViewInv, UNCHANGED <<groups, told, shared>>, phase' = "boot" => phase = "boot"
    PROVE  ViewInv'
BY DEF ViewInv, SubscriberView

LEMMA ViewDele ==
    ASSUME IInv, ViewInv, NEW a \in Address, c_dele(a)
    PROVE  ViewInv'
<1>1. /\ groups' = [groups EXCEPT ![a] = NULL] /\ told' = [told EXCEPT ![NameOf(a)] = STATUS_DELETE]
      /\ groups \in [Address -> Group \cup {NULL}] /\ told \in [Names -> Int]
      /\ phase' = phase /\ phase # "boot" /\ shared' = shared /\ groups[a] # NULL
  BY DEF c_dele, Found, Idle, IInv, TypeOK
<1>2. \A m \in Address : NameOf(m) = NameOf(a) /\ NameOf(a) \notin shared => groups'[m] = NULL
  BY <1>1, OneOfName
<1>3. \A m \in Address : NameOf(m) # NameOf(a) => groups'[m] = groups[m]
  BY <1>1
<1>4. \A n \in Names : told'[n] = IF n = NameOf(a) THEN STATUS_DELETE ELSE told[n]
  BY <1>1, NameOfType
<1>5. SubscriberView'
  <2> SUFFICES ASSUME NEW n \in Names
               PROVE  LET named == {m \in Address : NameOf(m) = n /\ groups'[m] # NULL}
                      IN  IF named = {} THEN told'[n] \in {0, STATUS_DELETE}
                          ELSE told'[n] # 0 /\ n \notin shared'
                                  => \A m \in named : told'[n] = groups'[m].status
    BY DEF SubscriberView
  <2>1. CASE n = NameOf(a)
    BY <1>1, <1>2, <1>4, <2>1
  <2>2. CASE n # NameOf(a)
    BY <1>1, <1>3, <1>4, <2>2 DEF ViewInv, SubscriberView
  <2> QED BY <2>1, <2>2
<1>6. \A m \in Address : groups'[m] # NULL => groups[m] # NULL
  BY <1>1
<1> QED BY <1>1, <1>5, <1>6 DEF ViewInv

LEMMA NextView == IInv /\ ViewInv /\ [Next]_vars => ViewInv'
<1> SUFFICES ASSUME IInv, ViewInv, [Next]_vars PROVE ViewInv'
  OBVIOUS
<1>1. CASE UNCHANGED vars
  BY <1>1, ViewSame DEF vars
<1>2. ASSUME NEW a \in Address, NEW r \in LoadReqs, load_dump(a, r) PROVE ViewInv'
  BY <1>2, ViewLoad
<1>3. CASE EnterLoop
  BY <1>3, ViewSame DEF EnterLoop
<1>4. ASSUME NEW a \in Address, NEW r \in StartReqs, c_spwn(a, r) PROVE ViewInv'
  BY <1>4, ViewSpwn
<1>5. ASSUME NEW a \in Address, NEW r \in UpdateReqs, NEW w \in {NULL, WILD}, c_updt(a, r, w)
      PROVE  ViewInv'
  BY <1>5, ViewUpdt
<1>6. ASSUME NEW a \in Address, c_dele(a) PROVE ViewInv'
  BY <1>6, ViewDele
<1>7. ASSUME NEW a \in Address, NEW sig \in Signals, NEW idx \in Slots \cup {Unset}, c_kill(a, sig, idx)
      PROVE  ViewInv'
  BY <1>7, ViewSame DEF c_kill
<1>8. ASSUME NEW a \in Address, wild_deref(a) PROVE ViewInv'
  BY <1>8, ViewSame DEF wild_deref
<1>9. CASE c_exit
  BY <1>9, ViewSame DEF c_exit
<1>10. ASSUME NEW p \in Pids, PassAge(p) \/ heartbeat_cb(p) PROVE ViewInv'
  BY <1>10, ViewSame DEF PassAge, heartbeat_cb
<1>11. ASSUME NEW p \in Pids, ReapHelper(p) \/ ReapOrphan(p) PROVE ViewInv'
  BY <1>11, ViewSame DEF ReapHelper, ReapOrphan, Waited
<1>12. ASSUME NEW p \in Pids, NEW expired \in BOOLEAN, ReapMember(p, expired) PROVE ViewInv'
  BY <1>12, ViewMember
<1>13. CASE SigchldBegin \/ ReapDone \/ Deliver
  BY <1>13, ViewSame DEF SigchldBegin, ReapDone, Deliver
<1>14. ASSUME NEW p \in Pids, NEW cause \in Causes, TaskExit(p, cause) PROVE ViewInv'
  BY <1>14, ViewSame DEF TaskExit
<1> QED
  BY <1>1, <1>2, <1>3, <1>4, <1>5, <1>6, <1>7, <1>8, <1>9, <1>10, <1>11, <1>12, <1>13, <1>14
  DEF Next, Command, Reap

(* Subscribers know the truth: at every moment the last status sent for a  *)
(* name is the status its group has, or says that the group was deleted.   *)
(* Every handler that changes a status or frees a group notifies, and none *)
(* notifies of a status the group does not get.  Names that load_dump has  *)
(* inserted twice (cmd_server.c:2164) are the exception: it lasts until    *)
(* both groups are deleted and the name is started anew.                   *)
THEOREM SubscribersKnow == Spec => []SubscriberView
<1>1. Init => ViewInv
  BY DEF Init, ViewInv, SubscriberView
<1>2. ViewInv => SubscriberView
  BY DEF ViewInv
<1> QED BY <1>1, <1>2, InitIInv, NextIInv, NextView, PTL DEF Spec

-----------------------------------------------------------------------------
(* When processes are started, and whom a signal reaches. *)

\* The new process p belongs to a group that is running before or after.
StartedByRunning(p) ==
    \E a \in Address : /\ processes'[p].cc = a
                       /\ \/ groups[a] # NULL /\ groups[a].status = STATUS_RUNNING
                          \/ groups'[a].status = STATUS_RUNNING

\* A task of this state has just been started for a child.
LEMMA BornState ==
    ASSUME NEW p \in Pids, Born(p)
    PROVE  os'[p].st = "run" /\ os'[p].role = "child" /\ os'[p] # os[p] /\ os'[p] # NoTask
BY DEF Born, Started, NoTask

\* spawn for a group that is or becomes running, when it has anything to start.
LEMMA StartSpawn ==
    ASSUME IInv, NEW a \in Address, NEW g \in Group, NEW age, NEW P, NEW O,
           NEW todo \in SUBSET Instances(g), NEW f \in Forks(O, todo),
           spawn(a, g, age, P, O, f),
           todo # {} => \/ groups[a] # NULL /\ groups[a].status = STATUS_RUNNING
                        \/ g.status = STATUS_RUNNING,
           NEW p \in Pids, Born(p), O[p] = os[p] \/ O[p] = NoTask
    PROVE  StartedByRunning(p)
<1>1. os'[p] # O[p]
  BY BornState
<1>2. todo # {} /\ processes'[p].cc = a
  BY <1>1, SpawnTasks
<1>3. groups'[a].status = g.status
  BY SpawnGroup DEF IInv, TypeOK
<1> QED BY <1>2, <1>3 DEF StartedByRunning

\* A helper forked for is no child.
LEMMA HelperTasks ==
    ASSUME NEW O, O \in [Pids -> Task], NEW role \in {"heartbeat", "fatal"},
           NEW Q \in HelperForks(O, role), NEW p \in Pids
    PROVE  Q[p] = O[p] \/ Q[p] = Started(role)
BY DEF HelperForks

LEMMA StartsStep ==
    ASSUME IInv, Next, NEW p \in Pids, Born(p)
    PROVE  StartedByRunning(p)
<1>0. /\ groups \in [Address -> Group \cup {NULL}] /\ os \in [Pids -> Task]
      /\ os'[p].st = "run" /\ os'[p].role = "child" /\ os'[p] # os[p] /\ os'[p] # NoTask
  BY BornState DEF IInv, TypeOK, KernelTypeOK
<1>1. ASSUME NEW a \in Address, NEW r \in LoadReqs, load_dump(a, r) PROVE StartedByRunning(p)
  <2> DEFINE g == LoadedGroup(r)
             todo == IF g.status = STATUS_RUNNING THEN Instances(g) ELSE {}
  <2>1. g \in Group
    BY LoadedType
  <2>2. PICK f \in Forks(os, todo) : spawn(a, g, g.age, processes, os, f)
    BY <1>1 DEF load_dump
  <2>3. todo \in SUBSET Instances(g) /\ (todo # {} => g.status = STATUS_RUNNING)
    OBVIOUS
  <2> HIDE DEF g, todo
  <2> QED BY <2>1, <2>2, <2>3, StartSpawn
<1>2. ASSUME NEW a \in Address, NEW r \in StartReqs, c_spwn(a, r) PROVE StartedByRunning(p)
  <2> DEFINE g == SpwnGroup(r)
  <2>1. g \in Group
    BY <1>2, SpwnType DEF c_spwn
  <2>2. PICK f \in Forks(os, ToSpawn(g)) : spawn(a, g, g.age, processes, os, f)
    BY <1>2 DEF c_spwn
  <2>3. ToSpawn(g) \in SUBSET Instances(g) /\ (ToSpawn(g) # {} => g.status = STATUS_RUNNING)
    BY DEF ToSpawn
  <2> HIDE DEF g
  <2> QED BY <2>1, <2>2, <2>3, StartSpawn
<1>3. ASSUME NEW a \in Address, NEW r \in UpdateReqs, NEW w \in {NULL, WILD}, c_updt(a, r, w)
      PROVE  StartedByRunning(p)
  <2> DEFINE g == groups[a]
             u == Updated(g, r, w)
             P == Detach(processes, Dropped(g, r))
  <2>1. /\ u \in Group /\ ToStart(g, r) \in SUBSET Instances(u) /\ g # NULL
        /\ u.status = (IF r.status = Unset THEN g.status ELSE r.status)
    BY <1>3, UpdtGroup DEF c_updt, Found
  <2>2. PICK f \in Forks(os, ToStart(g, r)) : spawn(a, u, g.age, P, os, f)
    BY <1>3 DEF c_updt
  <2>3. ToStart(g, r) # {} => g.status = STATUS_RUNNING \/ u.status = STATUS_RUNNING
    BY <2>1 DEF ToStart, Unset, STATUS_RUNNING
  <2> HIDE DEF u, P
  <2> QED BY <2>1, <2>2, <2>3, StartSpawn
<1>4. ASSUME NEW q \in Pids, NEW expired \in BOOLEAN, ReapMember(q, expired)
      PROVE  StartedByRunning(p)
  <2> DEFINE a == processes[q].cc
             i == processes[q].inst
             g == AfterExit(groups[a], i, os[q].cause, expired)
             O == [os EXCEPT ![q] = NoTask]
             P == [processes EXCEPT ![q] = NULL]
  <2>1. /\ a \in Address /\ g \in Group
        /\ \/ os' \in IF g.fatal THEN HelperForks(O, "fatal") ELSE {O}
           \/ \E f \in Forks(O, ToRestart(g, i)) : spawn(a, g, g.age, P, O, f)
    BY <1>4, MemberGroup
  <2>2. O \in [Pids -> Task] /\ (O[p] = os[p] \/ O[p] = NoTask)
    BY <1>0 DEF NoTask, Task
  <2>3. ToRestart(g, i) \in SUBSET Instances(g) /\ (ToRestart(g, i) # {} => g.status = STATUS_RUNNING)
    BY DEF ToRestart
  <2> HIDE DEF a, i, g, O, P
  <2>4. CASE os' \in IF g.fatal THEN HelperForks(O, "fatal") ELSE {O}
    <3>1. os'[p] = O[p] \/ os'[p] = Started("fatal")
      BY <2>2, <2>4, HelperTasks
    <3> QED BY <3>1, <2>2, <1>0 DEF Started
  <2>5. CASE \E f \in Forks(O, ToRestart(g, i)) : spawn(a, g, g.age, P, O, f)
    BY <2>1, <2>2, <2>3, <2>5, StartSpawn
  <2> QED BY <2>1, <2>4, <2>5
<1>5. ASSUME NEW targets, NEW sig, os' = Signalled(os, targets, sig)
      PROVE  StartedByRunning(p)
  <2>1. os'[p] = os[p] \/ os'[p].st = "killed"
    BY <1>0, <1>5 DEF Signalled, Task
  <2> QED BY <2>1, <1>0
<1>6. ASSUME NEW q \in Pids, heartbeat_cb(q) PROVE StartedByRunning(p)
  <2>1. CASE os' = Signalled(os, {q}, AgeSignal(q))
    BY <2>1, <1>0, <1>5
  <2>2. CASE os' \in HelperForks(os, "heartbeat")
    <3>1. os'[p] = os[p] \/ os'[p] = Started("heartbeat")
      BY <1>0, <2>2, HelperTasks
    <3> QED BY <3>1, <1>0 DEF Started
  <2> QED BY <1>6, <2>1, <2>2 DEF heartbeat_cb
<1>7. ASSUME NEW a \in Address, NEW sig \in Signals, NEW idx \in Slots \cup {Unset}, c_kill(a, sig, idx)
      PROVE  StartedByRunning(p)
  BY <1>0, <1>5, <1>7 DEF c_kill
<1>8. ASSUME NEW q \in Pids, NEW t, os' = [os EXCEPT ![q] = t],
             t = NoTask \/ t.st = "zombie"
      PROVE  StartedByRunning(p)
  BY <1>0, <1>8
<1>9. ASSUME NEW q \in Pids, ReapHelper(q) \/ ReapOrphan(q) PROVE StartedByRunning(p)
  BY <1>8, <1>9 DEF ReapHelper, ReapOrphan
<1>10. ASSUME NEW q \in Pids, NEW cause \in Causes, TaskExit(q, cause) PROVE StartedByRunning(p)
  <2>1. [os[q] EXCEPT !.st = "zombie", !.cause = cause].st = "zombie"
    BY <1>0 DEF Task
  <2> QED BY <1>8, <1>10, <2>1 DEF TaskExit, Exit
<1>11. os' # os
  BY <1>0
<1> QED
  BY <1>1, <1>2, <1>3, <1>4, <1>6, <1>7, <1>9, <1>10, <1>11
  DEF Next, Command, Reap, EnterLoop, c_dele, wild_deref, c_exit, PassAge, SigchldBegin, ReapDone,
      Deliver, DeliverSig

(* A group that is stopped or broken gets no new process, by whatever      *)
(* handler and however its death, an update and a restart fall together:   *)
(* every fork of a child is for a group that runs before or after the step *)
(* (command_start.txt:81,84).                                              *)
THEOREM NoStartWhileStopped == Spec => StartsOnlyWhenRunning
<1>1. IInv /\ [Next]_vars =>
        [\A p \in Pids : Born(p) =>
            \E a \in Address : /\ processes'[p].cc = a
                               /\ \/ groups[a] # NULL /\ groups[a].status = STATUS_RUNNING
                                  \/ groups'[a].status = STATUS_RUNNING]_vars
  BY StartsStep DEF StartedByRunning
<1> QED BY <1>1, InitIInv, NextIInv, PTL DEF Spec, StartsOnlyWhenRunning

\* Only what kill(2) is called on is killed.
LEMMA SignalTargets ==
    ASSUME NEW targets, NEW sig, os' = Signalled(os, targets, sig), os \in [Pids -> Task],
           NEW p \in Pids, os[p].st = "run", os'[p].st = "killed"
    PROVE  p \in targets
BY DEF Signalled, Task

LEMMA SignalStep ==
    ASSUME IInv, Next, NEW p \in Pids, os[p].st = "run", os'[p].st = "killed"
    PROVE  os[p].role = "child"
<1>0. /\ os \in [Pids -> Task] /\ Hashed(processes, os) /\ Owned(groups, processes)
      /\ groups \in [Address -> Group \cup {NULL}] /\ os' # os /\ os'[p] # os[p]
  BY DEF IInv, TypeOK, KernelTypeOK, Good
<1>1. ASSUME NEW a \in Address, NEW sig \in Signals, NEW idx \in Slots \cup {Unset}, c_kill(a, sig, idx)
      PROVE  os[p].role = "child"
  <2>1. p \in {groups[a].childs[i] : i \in Addressed(groups[a], idx)}
    BY <1>0, <1>1, SignalTargets DEF c_kill
  <2>2. PICK i \in Addressed(groups[a], idx) : p = groups[a].childs[i]
    BY <2>1
  <2>3. groups[a] # NULL /\ i \in Slots
    BY <1>0, <1>1, <2>2, InstancesAreSlots DEF c_kill, Found, Addressed
  <2> QED BY <1>0, <2>2, <2>3 DEF Owned, Hashed
<1>2. ASSUME NEW q \in Pids, heartbeat_cb(q) PROVE os[p].role = "child"
  <2>1. CASE os' = Signalled(os, {q}, AgeSignal(q))
    <3>1. p \in {q}
      BY <1>0, <2>1, SignalTargets
    <3>2. p = q
      BY <3>1
    <3> QED BY <1>0, <1>2, <3>2 DEF heartbeat_cb, Hashed
  <2>2. CASE os' \in HelperForks(os, "heartbeat")
    <3>1. os'[p] = os[p] \/ os'[p] = Started("heartbeat")
      BY <1>0, <2>2, HelperTasks
    <3> QED BY <3>1, <1>0 DEF Started
  <2> QED BY <1>2, <2>1, <2>2 DEF heartbeat_cb
<1>3. ASSUME NEW a \in Address, NEW g, NEW age, NEW P, NEW O, NEW todo, NEW f \in Forks(O, todo),
             spawn(a, g, age, P, O, f), O[p] = os[p] \/ O[p] = NoTask
      PROVE  FALSE
  <2>1. os'[p] = Started("child") \/ os'[p] = O[p]
    BY <1>3, SpawnTasks
  <2> QED BY <1>0, <1>3, <2>1 DEF Started, NoTask
<1>4. ASSUME NEW a \in Address, NEW r \in LoadReqs, load_dump(a, r) PROVE FALSE
  BY <1>3, <1>4 DEF load_dump
<1>5. ASSUME NEW a \in Address, NEW r \in StartReqs, c_spwn(a, r) PROVE FALSE
  BY <1>3, <1>5 DEF c_spwn
<1>6. ASSUME NEW a \in Address, NEW r \in UpdateReqs, NEW w \in {NULL, WILD}, c_updt(a, r, w)
      PROVE  FALSE
  BY <1>3, <1>6 DEF c_updt
<1>7. ASSUME NEW q \in Pids, NEW expired \in BOOLEAN, ReapMember(q, expired)
      PROVE  FALSE
  <2> DEFINE a == processes[q].cc
             i == processes[q].inst
             g == AfterExit(groups[a], i, os[q].cause, expired)
             O == [os EXCEPT ![q] = NoTask]
             P == [processes EXCEPT ![q] = NULL]
  <2>1. /\ a \in Address
        /\ \/ os' \in IF g.fatal THEN HelperForks(O, "fatal") ELSE {O}
           \/ \E f \in Forks(O, ToRestart(g, i)) : spawn(a, g, g.age, P, O, f)
    BY <1>7, MemberGroup
  <2>2. O \in [Pids -> Task] /\ (O[p] = os[p] \/ O[p] = NoTask)
    BY <1>0 DEF NoTask, Task
  <2> HIDE DEF a, i, g, O, P
  <2>3. CASE os' \in IF g.fatal THEN HelperForks(O, "fatal") ELSE {O}
    <3>1. os'[p] = O[p] \/ os'[p] = Started("fatal")
      BY <2>2, <2>3, HelperTasks
    <3> QED BY <3>1, <2>2, <1>0 DEF Started, NoTask
  <2>4. CASE \E f \in Forks(O, ToRestart(g, i)) : spawn(a, g, g.age, P, O, f)
    BY <1>3, <2>1, <2>2, <2>4
  <2> QED BY <2>1, <2>3, <2>4
<1>8. ASSUME NEW q \in Pids, NEW t, os' = [os EXCEPT ![q] = t],
             t = NoTask \/ t.st = "zombie"
      PROVE  FALSE
  BY <1>0, <1>8 DEF NoTask
<1>9. ASSUME NEW q \in Pids, ReapHelper(q) \/ ReapOrphan(q) PROVE FALSE
  BY <1>8, <1>9 DEF ReapHelper, ReapOrphan
<1>10. ASSUME NEW q \in Pids, NEW cause \in Causes, TaskExit(q, cause) PROVE FALSE
  <2>1. [os[q] EXCEPT !.st = "zombie", !.cause = cause].st = "zombie"
    BY <1>0 DEF Task
  <2> QED BY <1>8, <1>10, <2>1 DEF TaskExit, Exit
<1> QED
  BY <1>0, <1>1, <1>2, <1>4, <1>5, <1>6, <1>7, <1>9, <1>10
  DEF Next, Command, Reap, EnterLoop, c_dele, wild_deref, c_exit, PassAge, SigchldBegin, ReapDone,
      Deliver, DeliverSig

(* kill(2) reaches nobody but children the server has started and not      *)
(* waited for: the pids in the slots of a group (c_kill) and in            *)
(* process_hash (heartbeat_cb) are never those of a helper, and never ones *)
(* that have been given back to the kernel.                                *)
THEOREM SignalsReachChildren == Spec => SignalsOnlyChildren
<1>1. IInv /\ [Next]_vars =>
        [\A p \in Pids : os[p].st = "run" /\ os'[p].st = "killed" => os[p].role = "child"]_vars
  BY SignalStep
<1> QED BY <1>1, InitIInv, NextIInv, PTL DEF Spec, SignalsOnlyChildren

-----------------------------------------------------------------------------
(* A running group is at full strength, as long as fork succeeds. *)

\* A running group has a process in each of its slots, and no slot holds what
\* xrealloc left there.
Full(g) == g.status = STATUS_RUNNING => \A i \in Instances(g) : g.childs[i] \in Pids

Strong(g) == /\ \A i \in Slots : g.childs[i] # WILD
             /\ Full(g)

StrongInv == \A a \in Address : groups[a] # NULL => Strong(groups[a])

\* What is asked of a group that is handed to spawn with the slots todo: the
\* others are in order.
Startable(g, todo) ==
    /\ \A i \in Slots \ todo : g.childs[i] # WILD
    /\ g.status = STATUS_RUNNING => \A i \in Instances(g) \ todo : g.childs[i] \in Pids

\* Forks that do not fail leave the group with all its processes.
LEMMA StrongSpawn ==
    ASSUME ~ForkMayFail, IInv, StrongInv, NEW a \in Address, NEW g \in Group, NEW age, NEW P, NEW O,
           NEW todo \in SUBSET Instances(g), NEW f \in Forks(O, todo),
           spawn(a, g, age, P, O, f), Startable(g, todo)
    PROVE  StrongInv'
<1>1. \A i \in todo : f[i] \in Pids /\ f[i] # NULL /\ f[i] # WILD
  BY NullAssumption, WildAssumption DEF Forks, Free
<1> DEFINE h == groups'[a]
<1>2. /\ h # NULL /\ h.status = g.status /\ h.instances = g.instances
      /\ \A i \in Slots : h.childs[i] = IF i \in todo /\ f[i] # NULL THEN f[i] ELSE g.childs[i]
      /\ \A m \in Address \ {a} : groups'[m] = groups[m]
  <2>1. groups \in [Address -> Group \cup {NULL}]
    BY DEF IInv, TypeOK
  <2>2. /\ h # NULL /\ h.status = g.status /\ h.instances = g.instances
        /\ \A m \in Address \ {a} : groups'[m] = groups[m]
    BY <2>1, SpawnGroup
  <2>3. \A i \in Slots : h.childs[i] = IF i \in todo /\ f[i] # NULL THEN f[i] ELSE g.childs[i]
    BY <2>1, SpawnGroup
  <2> QED BY <2>2, <2>3
<1>3. Instances(h) = Instances(g) /\ Instances(g) \subseteq Slots
  BY <1>2, InstancesAreSlots DEF Instances
<1> HIDE DEF h
<1>4. \A i \in Slots : h.childs[i] # WILD
  BY <1>1, <1>2 DEF Startable
<1>5. ASSUME h.status = STATUS_RUNNING, NEW i \in Instances(h) PROVE h.childs[i] \in Pids
  BY <1>1, <1>2, <1>3, <1>5 DEF Startable
<1>6. Strong(h)
  BY <1>4, <1>5 DEF Strong, Full
<1>7. \A m \in Address : groups'[m] # NULL => Strong(groups'[m])
  BY <1>2, <1>6 DEF StrongInv, h
<1> QED BY <1>7 DEF StrongInv

\* A group without processes, all or none of whose slots are to be started.
LEMMA StartableFresh ==
    ASSUME NEW g \in Group, \A i \in Slots : g.childs[i] = NULL,
           NEW todo, g.status = STATUS_RUNNING => todo = Instances(g)
    PROVE  Startable(g, todo)
BY WildAssumption DEF Startable

LEMMA FreshEmpty ==
    ASSUME NEW k \in 1 .. MaxInst, NEW s, NEW sig, NEW r
    PROVE  \A i \in Slots : NewGroup(k, s, sig, r).childs[i] = NULL
BY DEF NewGroup

LEMMA StartableUpdated ==
    ASSUME NEW g \in Group, Strong(g), NEW r \in Config, ValidUpdt(r), NEW w \in {NULL, WILD}
    PROVE  Startable(Updated(g, r, w), ToStart(g, r))
<1> DEFINE u == Updated(g, r, w)
           v == Updated(g, r, NULL)
           todo == ToStart(g, r)
<1>1. /\ u \in Group
      /\ \A i \in Slots :
            u.childs[i] = IF i \in Grown(g, r)
                          THEN IF g.status = STATUS_RUNNING THEN w ELSE NULL
                          ELSE IF i \in Shrunk(g, r) THEN NULL ELSE g.childs[i]
      /\ Shrunk(g, r) \cap Instances(u) = {}
      /\ u.status = (IF r.status = Unset THEN g.status ELSE r.status)
  BY UpdatedType
<1>2. \A i \in Slots :
            v.childs[i] = IF i \in Grown(g, r) THEN NULL
                          ELSE IF i \in Shrunk(g, r) THEN NULL ELSE g.childs[i]
  BY UpdatedType
<1>3. Instances(u) = Instances(v) /\ Instances(u) \subseteq Slots
  BY <1>1, InstancesAreSlots DEF Updated, Instances, Group
<1>4. Instances(u) \subseteq Instances(g) \cup Grown(g, r)
  <2>1. u.instances = Default(r.instances, Unset, g.instances)
    BY DEF Updated, Group
  <2> QED BY <2>1 DEF Instances, Grown, Default, Unset, ValidUpdt, Group, Config
<1>5. g.status = STATUS_RUNNING => todo = Grown(g, r)
  BY DEF ToStart
<1>6. g.status # STATUS_RUNNING /\ u.status = STATUS_RUNNING
        => todo = {i \in Instances(v) : v.childs[i] = NULL}
  BY <1>1 DEF ToStart
<1>7. u.childs \in [Slots -> Pids \cup {NULL, WILD}]
  BY <1>1 DEF Group
<1> HIDE DEF u, v, todo
<1>8. \A i \in Slots \ todo : u.childs[i] # WILD
  BY <1>1, <1>5, WildAssumption DEF Strong
<1>9. ASSUME u.status = STATUS_RUNNING, NEW i \in Instances(u) \ todo
      PROVE  u.childs[i] \in Pids
  <2>1. i \in Slots
    BY <1>3
  <2>2. CASE g.status = STATUS_RUNNING
    <3>1. i \notin Grown(g, r) /\ i \notin Shrunk(g, r) /\ i \in Instances(g)
      BY <1>1, <1>4, <1>5, <1>9, <2>2
    <3>2. u.childs[i] = g.childs[i]
      BY <1>1, <2>1, <3>1
    <3> QED BY <2>2, <3>1, <3>2 DEF Strong, Full
  <2>3. CASE g.status # STATUS_RUNNING
    <3>1. v.childs[i] # NULL
      BY <1>3, <1>6, <1>9, <2>3
    <3>2. u.childs[i] = v.childs[i]
      BY <1>1, <1>2, <2>1, <2>3
    <3>3. u.childs[i] # WILD
      BY <1>8, <1>9, <2>1
    <3> QED BY <1>7, <2>1, <3>1, <3>2, <3>3
  <2> QED BY <2>2, <2>3
<1> QED BY <1>8, <1>9 DEF Startable, u, todo

\* The slot of a process that has died is the one that is started.
LEMMA StartableExit ==
    ASSUME NEW g \in Group, Strong(g), NEW i \in Instances(g), NEW h \in Group,
           h.childs = [g.childs EXCEPT ![i] = NULL], h.instances = g.instances,
           h.status = g.status
    PROVE  Startable(h, ToRestart(h, i))
<1>1. Instances(h) = Instances(g) /\ Instances(g) \subseteq Slots
  BY InstancesAreSlots DEF Instances
<1>2. g.childs \in [Slots -> Pids \cup {NULL, WILD}]
  BY DEF Group
<1>3. \A j \in Slots : h.childs[j] = IF j = i THEN NULL ELSE g.childs[j]
  BY <1>1, <1>2
<1>4. h.status = STATUS_RUNNING => ToRestart(h, i) = {i}
  BY <1>1 DEF ToRestart
<1> QED BY <1>1, <1>3, <1>4, WildAssumption DEF Startable, Strong, Full

LEMMA StrongMember ==
    ASSUME ~ForkMayFail, IInv, StrongInv, NEW p \in Pids, NEW expired \in BOOLEAN,
           ReapMember(p, expired)
    PROVE  StrongInv'
<1> DEFINE a == processes[p].cc
           i == processes[p].inst
           g == AfterExit(groups[a], i, os[p].cause, expired)
           O == [os EXCEPT ![p] = NoTask]
           P == [processes EXCEPT ![p] = NULL]
           todo == ToRestart(g, i)
<1>1. /\ a \in Address /\ groups[a] \in Group /\ i \in Instances(groups[a]) /\ g \in Group
      /\ \/ /\ g.status = STATUS_BROKEN
            /\ groups' = [groups EXCEPT ![a] = g]
         \/ /\ g.status = groups[a].status
            /\ \E f \in Forks(O, todo) : spawn(a, g, g.age, P, O, f)
  BY MemberGroup
<1>2. groups \in [Address -> Group \cup {NULL}] /\ todo \in SUBSET Instances(g)
  BY DEF IInv, TypeOK, ToRestart
<1>3. g.childs = [groups[a].childs EXCEPT ![i] = NULL] /\ g.instances = groups[a].instances
  BY <1>1, AfterExitType
<1>4. Strong(groups[a]) /\ i \in Slots
  BY <1>1, InstancesAreSlots, NoGroupAssumption DEF StrongInv
<1> HIDE DEF a, i, g, O, P
<1>5. CASE g.status = STATUS_BROKEN /\ groups' = [groups EXCEPT ![a] = g]
  <2>1. groups[a].childs \in [Slots -> Pids \cup {NULL, WILD}]
    BY <1>1 DEF Group
  <2>2. \A j \in Slots : g.childs[j] # WILD
    BY <1>3, <1>4, <2>1, WildAssumption DEF Strong
  <2>3. Strong(g)
    BY <1>5, <2>2 DEF Strong, Full, STATUS_BROKEN, STATUS_RUNNING
  <2>4. \A m \in Address : groups'[m] # NULL => Strong(groups'[m])
    BY <1>2, <1>5, <2>3 DEF StrongInv
  <2> QED BY <2>4 DEF StrongInv
<1>6. CASE g.status = groups[a].status /\ \E f \in Forks(O, todo) : spawn(a, g, g.age, P, O, f)
  <2>1. PICK f \in Forks(O, todo) : spawn(a, g, g.age, P, O, f)
    BY <1>6
  <2>2. Startable(g, todo)
    BY <1>1, <1>3, <1>4, <1>6, StartableExit
  <2> HIDE DEF todo
  <2> QED BY <1>1, <1>2, <2>1, <2>2, StrongSpawn
<1> QED BY <1>1, <1>5, <1>6

LEMMA StrongStep ==
    ASSUME ~ForkMayFail, IInv, StrongInv, [Next]_vars
    PROVE  StrongInv'
<1>0. groups \in [Address -> Group \cup {NULL}]
  BY DEF IInv, TypeOK
<1>1. ASSUME NEW a \in Address, NEW r \in LoadReqs, load_dump(a, r) PROVE StrongInv'
  <2> DEFINE g == LoadedGroup(r)
             todo == IF g.status = STATUS_RUNNING THEN Instances(g) ELSE {}
  <2>1. g \in Group /\ \A i \in Slots : g.childs[i] = NULL
    BY RequestAssumption, LoadedType, FreshEmpty DEF LoadedGroup
  <2>2. PICK f \in Forks(os, todo) : spawn(a, g, g.age, processes, os, f)
    BY <1>1 DEF load_dump
  <2>3. todo \in SUBSET Instances(g) /\ (g.status = STATUS_RUNNING => todo = Instances(g))
    OBVIOUS
  <2> HIDE DEF g, todo
  <2>4. Startable(g, todo)
    BY <2>1, <2>3, StartableFresh
  <2> QED BY <2>1, <2>2, <2>3, <2>4, StrongSpawn
<1>2. ASSUME NEW a \in Address, NEW r \in StartReqs, c_spwn(a, r) PROVE StrongInv'
  <2> DEFINE g == SpwnGroup(r)
  <2>1. g \in Group /\ \A i \in Slots : g.childs[i] = NULL
    BY <1>2, SpwnType, FreshEmpty DEF c_spwn, ValidSpwn, SpwnGroup
  <2>2. PICK f \in Forks(os, ToSpawn(g)) : spawn(a, g, g.age, processes, os, f)
    BY <1>2 DEF c_spwn
  <2>3. /\ ToSpawn(g) \in SUBSET Instances(g)
        /\ g.status = STATUS_RUNNING => ToSpawn(g) = Instances(g)
    BY DEF ToSpawn
  <2> HIDE DEF g
  <2>4. Startable(g, ToSpawn(g))
    BY <2>1, <2>3, StartableFresh
  <2> QED BY <2>1, <2>2, <2>3, <2>4, StrongSpawn
<1>3. ASSUME NEW a \in Address, NEW r \in UpdateReqs, NEW w \in {NULL, WILD}, c_updt(a, r, w)
      PROVE  StrongInv'
  <2> DEFINE g == groups[a]
             u == Updated(g, r, w)
             P == Detach(processes, Dropped(g, r))
  <2>1. /\ u \in Group /\ ToStart(g, r) \in SUBSET Instances(u)
        /\ r \in Config /\ ValidUpdt(r) /\ g \in Group
    BY <1>3, UpdtGroup
  <2>2. PICK f \in Forks(os, ToStart(g, r)) : spawn(a, u, g.age, P, os, f)
    BY <1>3 DEF c_updt
  <2>3. Strong(g)
    BY <1>3 DEF c_updt, Found, StrongInv
  <2>4. Startable(u, ToStart(g, r))
    BY <2>1, <2>3, StartableUpdated
  <2> HIDE DEF g, u, P
  <2> QED BY <2>1, <2>2, <2>4, StrongSpawn
<1>4. ASSUME NEW a \in Address, c_dele(a) PROVE StrongInv'
  <2>1. groups' = [groups EXCEPT ![a] = NULL]
    BY <1>4 DEF c_dele
  <2> QED BY <1>0, <2>1 DEF StrongInv
<1>5. ASSUME NEW p \in Pids, NEW expired \in BOOLEAN, ReapMember(p, expired) PROVE StrongInv'
  BY <1>5, StrongMember
<1>6. CASE UNCHANGED groups
  BY <1>6 DEF StrongInv
<1> QED
  BY <1>1, <1>2, <1>3, <1>4, <1>5, <1>6
  DEF Next, Command, Reap, EnterLoop, c_kill, wild_deref, c_exit, PassAge, heartbeat_cb, SigchldBegin,
      ReapHelper, ReapOrphan, ReapDone, TaskExit, Deliver, vars

(* As long as fork succeeds a running group is at full strength whenever   *)
(* the loop is idle, and inside sigchld_cb after each of its turns: what a *)
(* group lacks is started in the handler that makes it running or larger   *)
(* and a dead member is replaced in the step that reaps it.  (With forks   *)
(* that fail a slot stays empty, see SlotsOwned for what still holds.)     *)
THEOREM RunningIsFull ==
    ASSUME ~ForkMayFail
    PROVE  Spec => []FullStrength
<1>1. Init => StrongInv
  BY DEF Init, StrongInv
<1>2. IInv /\ StrongInv /\ [Next]_vars => StrongInv'
  BY StrongStep
<1>3. StrongInv => FullStrength
  BY DEF StrongInv, Strong, Full, FullStrength
<1> QED BY <1>1, <1>2, <1>3, InitIInv, NextIInv, PTL DEF Spec

-----------------------------------------------------------------------------
(* No dead child is overlooked, where there are no helpers and no dump.    *)

\* No group ever has a heartbeat or fatal command, and none comes from a dump.
NoHelpers == LoadReqs = {} /\ \A r \in StartReqs \cup UpdateReqs : ~r.heartbeat /\ ~r.fatal

Plain(g) == ~g.heartbeat /\ ~g.fatal

LostInv ==
    /\ \A a \in Address : groups[a] # NULL => Plain(groups[a])
    /\ \A p \in Pids : os[p].role \in {"none", "child"}
    /\ phase = "boot" => \A p \in Pids : os[p].st = "free"
    /\ NoLostChild

\* Starting children makes no zombie and no helper.
LEMMA LostSpawn ==
    ASSUME IInv, LostInv, NEW a \in Address, NEW g \in Group, Plain(g), NEW age, NEW P, NEW O,
           \A p \in Pids : O[p] = os[p] \/ O[p] = NoTask,
           NEW todo \in SUBSET Instances(g), NEW f \in Forks(O, todo),
           spawn(a, g, age, P, O, f),
           phase = "run", UNCHANGED <<phase, pending, caught>>, reaping' = reaping
    PROVE  LostInv'
<1>1. \A p \in Pids : os'[p] = os[p] \/ os'[p] = NoTask \/ os'[p] = Started("child")
  BY SpawnTasks
<1>2. \A m \in Address : groups'[m] # NULL => Plain(groups'[m])
  <2>1. groups \in [Address -> Group \cup {NULL}]
    BY DEF IInv, TypeOK
  <2>2. /\ groups'[a].heartbeat = g.heartbeat /\ groups'[a].fatal = g.fatal
        /\ \A m \in Address \ {a} : groups'[m] = groups[m]
    BY <2>1, SpawnGroup
  <2>3. Plain(groups'[a])
    BY <2>2 DEF Plain
  <2> QED BY <2>2, <2>3 DEF LostInv
<1>3. \A p \in Pids : os'[p].role \in {"none", "child"}
  BY <1>1 DEF LostInv, NoTask, Started
<1>4. Zombies(os') \subseteq Zombies(os)
  BY <1>1 DEF Zombies, NoTask, Started
<1>5. NoLostChild'
  BY <1>4 DEF LostInv, NoLostChild
<1> QED BY <1>2, <1>3, <1>5 DEF LostInv

\* A step that leaves the groups alone and ends or starts no task.
LEMMA LostSame ==
    ASSUME IInv, LostInv, phase # "boot", phase' # "boot", phase' = "run" => phase = "run",
           \A a \in Address : groups'[a] = groups[a] \/ groups'[a] = NULL,
           \A p \in Pids : os'[p].role = os[p].role /\ (os'[p].st = "zombie" <=> os[p].st = "zombie"),
           phase' = "run" /\ (pending \/ caught > 0 \/ reaping)
               => pending' \/ caught' > 0 \/ reaping' \/ Zombies(os) = {}
    PROVE  LostInv'
<1>1. Zombies(os') = Zombies(os)
  BY DEF Zombies
<1>2. NoLostChild'
  BY <1>1 DEF LostInv, NoLostChild
<1> QED BY <1>2 DEF LostInv

\* The account of an exit gives a group no helper.
LEMMA PlainExit ==
    ASSUME NEW g \in Group, Plain(g), NEW i \in Instances(g), NEW cause, NEW expired \in BOOLEAN
    PROVE  Plain(AfterExit(g, i, cause, expired))
<1> DEFINE e == [g EXCEPT !.childs[i] = NULL]
           c == [e EXCEPT !.error = Errors(e, expired), !.stamped = TRUE]
           b == [c EXCEPT !.status = STATUS_BROKEN]
<1>1. EmptySlot(g, i) = e
  BY DEF EmptySlot
<1>2. Plain(e) /\ Plain(c) /\ Plain(b)
  BY DEF Plain, Group
<1>3. AfterExit(g, i, cause, expired) \in {e, c, b}
  BY <1>1 DEF AfterExit, CountError
<1> HIDE DEF b, c, e
<1> QED BY <1>2, <1>3

LEMMA LostMember ==
    ASSUME IInv, LostInv, NEW p \in Pids, NEW expired \in BOOLEAN, ReapMember(p, expired)
    PROVE  LostInv'
<1> DEFINE a == processes[p].cc
           i == processes[p].inst
           g == AfterExit(groups[a], i, os[p].cause, expired)
           O == [os EXCEPT ![p] = NoTask]
           P == [processes EXCEPT ![p] = NULL]
           todo == ToRestart(g, i)
<1>1. /\ a \in Address /\ groups[a] \in Group /\ i \in Instances(groups[a]) /\ g \in Group
      /\ \/ /\ groups' = [groups EXCEPT ![a] = g]
            /\ os' \in IF g.fatal THEN HelperForks(O, "fatal") ELSE {O}
         \/ \E f \in Forks(O, todo) : spawn(a, g, g.age, P, O, f)
  BY MemberGroup
<1>2. /\ groups \in [Address -> Group \cup {NULL}] /\ todo \in SUBSET Instances(g)
      /\ os \in [Pids -> Task]
  BY DEF IInv, TypeOK, KernelTypeOK, ToRestart
<1>3. /\ phase' = phase /\ phase = "run" /\ pending' = pending /\ caught' = caught
      /\ reaping = TRUE /\ reaping' = TRUE
  BY DEF ReapMember, Waited, GoesOn, IInv, TypeOK
<1>4. Plain(g)
  <2>1. Plain(groups[a])
    BY <1>1, NoGroupAssumption DEF LostInv
  <2>2. groups[a] \in Group /\ i \in Instances(groups[a])
    BY <1>1
  <2> HIDE DEF a, i
  <2> QED BY <2>1, <2>2, PlainExit
<1>5. \A q \in Pids : O[q] = os[q] \/ O[q] = NoTask
  BY <1>2
<1> HIDE DEF a, i, g, P, todo
<1>6. CASE /\ groups' = [groups EXCEPT ![a] = g]
           /\ os' \in IF g.fatal THEN HelperForks(O, "fatal") ELSE {O}
  <2>1. os' = O
    BY <1>4, <1>6 DEF Plain
  <2>2. \A m \in Address : groups'[m] # NULL => Plain(groups'[m])
    BY <1>1, <1>2, <1>4, <1>6 DEF LostInv
  <2>3. \A q \in Pids : os'[q].role \in {"none", "child"}
    BY <1>5, <2>1 DEF LostInv, NoTask
  <2> QED BY <1>3, <2>2, <2>3 DEF LostInv, NoLostChild
<1>7. CASE \E f \in Forks(O, todo) : spawn(a, g, g.age, P, O, f)
  <2> HIDE DEF O
  <2>1. PICK f \in Forks(O, todo) : spawn(a, g, g.age, P, O, f)
    BY <1>7
  <2> QED BY <1>1, <1>2, <1>3, <1>4, <1>5, <2>1, LostSpawn
<1> QED BY <1>1, <1>6, <1>7

LEMMA LostStep ==
    ASSUME NoHelpers, IInv, LostInv, [Next]_vars
    PROVE  LostInv'
<1>0. /\ groups \in [Address -> Group \cup {NULL}] /\ os \in [Pids -> Task]
      /\ processes \in [Pids -> Process \cup {NULL}] /\ Hashed(processes, os) /\ Roles(os)
      /\ caught \in Nat
  BY DEF IInv, TypeOK, KernelTypeOK, Good
<1>1. CASE UNCHANGED vars
  BY <1>1 DEF vars, LostInv, NoLostChild, Zombies
<1>2. CASE EnterLoop
  <2>1. groups' = groups /\ os' = os /\ phase' = "run" /\ phase = "boot"
    BY <1>2 DEF EnterLoop
  <2>2. Zombies(os') = {}
    BY <2>1 DEF Zombies, LostInv
  <2> QED BY <2>1, <2>2 DEF LostInv, NoLostChild
<1>3. ASSUME NEW a \in Address, NEW r \in StartReqs, c_spwn(a, r) PROVE LostInv'
  <2> DEFINE g == SpwnGroup(r)
  <2>1. g \in Group
    BY <1>3, SpwnType DEF c_spwn
  <2>2. Plain(g)
    BY <2>1 DEF NoHelpers, Plain, SpwnGroup, NewGroup
  <2>3. PICK f \in Forks(os, ToSpawn(g)) : spawn(a, g, g.age, processes, os, f)
    BY <1>3 DEF c_spwn
  <2>4. /\ ToSpawn(g) \in SUBSET Instances(g)
        /\ phase = "run" /\ UNCHANGED <<phase, pending, caught>> /\ reaping' = reaping
    BY <1>3 DEF ToSpawn, c_spwn, Idle
  <2> HIDE DEF g
  <2> QED BY <2>1, <2>2, <2>3, <2>4, LostSpawn
<1>4. ASSUME NEW a \in Address, NEW r \in UpdateReqs, NEW w \in {NULL, WILD}, c_updt(a, r, w)
      PROVE  LostInv'
  <2> DEFINE g == groups[a]
             u == Updated(g, r, w)
             P == Detach(processes, Dropped(g, r))
  <2>1. u \in Group /\ ToStart(g, r) \in SUBSET Instances(u) /\ g \in Group
    BY <1>4, UpdtGroup
  <2>2. Plain(u)
    <3>1. u.heartbeat = (g.heartbeat \/ r.heartbeat) /\ u.fatal = (g.fatal \/ r.fatal)
      BY <2>1, ZenonT(40) DEF Updated, Group
    <3>2. Plain(g)
      BY <1>4 DEF c_updt, Found, LostInv
    <3> QED BY <3>1, <3>2 DEF NoHelpers, Plain
  <2>3. PICK f \in Forks(os, ToStart(g, r)) : spawn(a, u, g.age, P, os, f)
    BY <1>4 DEF c_updt
  <2>4. phase = "run" /\ UNCHANGED <<phase, pending, caught>> /\ reaping' = reaping
    BY <1>4 DEF c_updt, Idle
  <2> HIDE DEF g, u, P
  <2> QED BY <2>1, <2>2, <2>3, <2>4, LostSpawn
<1>5. ASSUME NEW a \in Address, c_dele(a) PROVE LostInv'
  <2>1. groups' = [groups EXCEPT ![a] = NULL] /\ UNCHANGED <<phase, reaping, os, pending, caught>>
        /\ phase = "run"
    BY <1>5 DEF c_dele, Idle
  <2> QED BY <1>0, <2>1, LostSame
<1>6. ASSUME NEW targets, NEW sig, os' = Signalled(os, targets, sig), phase = "run",
             UNCHANGED <<groups, phase, reaping, pending, caught>>
      PROVE  LostInv'
  <2>1. \A p \in Pids : os'[p].role = os[p].role /\ (os'[p].st = "zombie" <=> os[p].st = "zombie")
    BY <1>0, <1>6 DEF Signalled, Task
  <2> QED BY <1>6, <2>1, LostSame
<1>7. ASSUME NEW a \in Address, NEW sig \in Signals, NEW idx \in Slots \cup {Unset}, c_kill(a, sig, idx)
      PROVE  LostInv'
  BY <1>6, <1>7 DEF c_kill, Idle
<1>8. ASSUME phase' = "down", UNCHANGED <<groups, os>> PROVE LostInv'
  BY <1>8 DEF LostInv, NoLostChild
<1>9. ASSUME NEW p \in Pids, heartbeat_cb(p) PROVE LostInv'
  <2>1. ~(processes[p].cc # NULL /\ groups[processes[p].cc].heartbeat)
    <3>1. processes[p] # NULL /\ Slotted(groups, processes)
      BY <1>9 DEF heartbeat_cb, IInv, Good
    <3>2. processes[p].cc # NULL => processes[p].cc \in Address /\ groups[processes[p].cc] # NULL
      BY <1>0, <3>1 DEF Slotted, Process
    <3> QED BY <3>2 DEF LostInv, Plain
  <2> QED BY <1>6, <1>9, <2>1 DEF heartbeat_cb, Idle
<1>10. ASSUME NEW p \in Pids, ReapHelper(p) PROVE LostInv'
  <2>1. os[p].role # "child" /\ os[p].role # "none"
    BY <1>0, <1>10 DEF ReapHelper, Waited, Hashed, Roles
  <2> QED BY <2>1 DEF LostInv
<1>11. ASSUME NEW p \in Pids, ReapOrphan(p) PROVE LostInv'
  <2>1. /\ groups' = groups /\ os' = [os EXCEPT ![p] = NoTask] /\ phase = "run" /\ phase' = "run"
        /\ reaping' = TRUE
    BY <1>11 DEF ReapOrphan, Waited, GoesOn
  <2>2. \A q \in Pids : os'[q].role \in {"none", "child"}
    BY <1>0, <2>1 DEF LostInv, NoTask
  <2> QED BY <2>1, <2>2 DEF LostInv, NoLostChild
<1>12. ASSUME NEW p \in Pids, NEW expired \in BOOLEAN, ReapMember(p, expired) PROVE LostInv'
  BY <1>12, LostMember
<1>13. ASSUME NEW p \in Pids, NEW cause \in Causes, TaskExit(p, cause) PROVE LostInv'
  <2>1. /\ groups' = groups /\ phase' = phase /\ os[p].st \in {"run", "killed"}
        /\ os' = [os EXCEPT ![p] = [os[p] EXCEPT !.st = "zombie", !.cause = cause]]
        /\ pending' = (pending \/ phase = "run")
    BY <1>13 DEF TaskExit, Exit
  <2>2. \A q \in Pids : os'[q].role = os[q].role
    BY <1>0, <2>1 DEF Task
  <2>3. phase # "boot"
    BY <2>1 DEF LostInv
  <2> QED BY <2>1, <2>2, <2>3 DEF LostInv, NoLostChild
<1>14. CASE UNCHANGED <<groups, os, phase, reaping, pending, caught>>
  BY <1>14 DEF LostInv, NoLostChild
<1>15. CASE SigchldBegin
  <2>1. groups' = groups /\ os' = os /\ phase = "run" /\ phase' = "run" /\ reaping' = TRUE
    BY <1>15 DEF SigchldBegin, Idle
  <2> QED BY <2>1 DEF LostInv, NoLostChild
<1>16. CASE ReapDone
  <2>1. groups' = groups /\ os' = os /\ phase = "run" /\ phase' = "run" /\ Zombies(os) = {}
    BY <1>16 DEF ReapDone
  <2> QED BY <2>1 DEF LostInv, NoLostChild
<1>17. CASE Deliver
  <2>1. groups' = groups /\ os' = os /\ phase = "run" /\ phase' = "run" /\ caught' = caught + 1
    BY <1>17 DEF Deliver, DeliverSig
  <2>2. caught' > 0
    BY <1>0, <2>1
  <2> QED BY <2>1, <2>2 DEF LostInv, NoLostChild
<1>18. ASSUME NEW p \in Pids, PassAge(p) PROVE LostInv'
  BY <1>14, <1>18 DEF PassAge
<1>19. ASSUME NEW a \in Address, wild_deref(a) PROVE LostInv'
  BY <1>8, <1>19 DEF wild_deref
<1>20. CASE c_exit
  BY <1>8, <1>20 DEF c_exit
<1> QED
  BY <1>1, <1>2, <1>3, <1>4, <1>5, <1>7, <1>9, <1>10, <1>11, <1>12, <1>13, <1>15, <1>16, <1>17,
     <1>18, <1>19, <1>20
  DEF Next, Command, Reap, NoHelpers

(* A dead child is never overlooked: with SIGCHLD unqueued and absorbed,   *)
(* there is a signal pending or counted, or sigchld_cb is in its loop,     *)
(* whenever a child waits to be reaped.  Where the hypothesis fails this   *)
(* does too: a callback that reaps a helper returns early (hazard at       *)
(* cmd_server.c:783), and no handler is installed while a dump loads.      *)
THEOREM ChildrenNotLost ==
    ASSUME NoHelpers
    PROVE  Spec => []NoLostChild
<1>1. Init => LostInv
  BY DEF Init, KernelInit, LostInv, NoLostChild, NoTask
<1>2. IInv /\ LostInv /\ [Next]_vars => LostInv'
  BY LostStep
<1>3. LostInv => NoLostChild
  BY DEF LostInv
<1> QED BY <1>1, <1>2, <1>3, InitIInv, NextIInv, PTL DEF Spec
=============================================================================
