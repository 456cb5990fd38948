-------------------------- MODULE SupervisorProofs --------------------------
(***************************************************************************)
(* Theorems about Supervisor.tla, for every set of names, pids, signals    *)
(* and requests and every value of the bounds.                             *)
(*                                                                         *)
(* The invariant is proved for groups, processes and the process table as  *)
(* values (Good below), so that one lemma about spawn serves every handler *)
(* that starts processes: a handler first changes the group, the process   *)
(* hash and the process table, and spawn works on the result.  What the    *)
(* operators on groups keep is proved in ChildConfigProofs.tla.            *)
(***************************************************************************)
EXTENDS Supervisor, ChildConfigProofs

Typed(G, P, O) == /\ G \in [Address -> Group \cup {NULL}]
                  /\ P \in [Pids -> Process \cup {NULL}]
                  /\ O \in [Pids -> Task]

Hashed(P, O) == \A p \in Pids : P[p] # NULL <=> O[p].role = "child"

\* A free entry of the process table has no role; anything else has one.
Roles(O) == \A p \in Pids : O[p].st = "free" <=> O[p].role = "none"

Owned(G, P) ==
    \A a \in Address : G[a] # NULL =>
        \A i \in Slots : G[a].childs[i] \in Pids =>
            /\ i \in Instances(G[a])
            /\ P[G[a].childs[i]] # NULL
            /\ P[G[a].childs[i]].cc = a
            /\ P[G[a].childs[i]].inst = i

Slotted(G, P) ==
    \A p \in Pids : P[p] # NULL /\ P[p].cc # NULL =>
        /\ G[P[p].cc] # NULL
        /\ P[p].inst \in Instances(G[P[p].cc])
        /\ G[P[p].cc].childs[P[p].inst] = p

Good(G, P, O) == Typed(G, P, O) /\ Hashed(P, O) /\ Roles(O) /\ Owned(G, P) /\ Slotted(G, P)

IInv == TypeOK /\ Good(groups, processes, os)

-----------------------------------------------------------------------------
(* spawn. *)

\* What spawn enters into process_hash.
LEMMA NewProcessType ==
    ASSUME NEW a \in Address, NEW i \in Slots, NEW age \in Int
    PROVE  /\ NewProcess(a, i, age) \in Process /\ NewProcess(a, i, age) # NULL
           /\ NewProcess(a, i, age).cc = a /\ NewProcess(a, i, age).inst = i
<1>1. NewProcess(a, i, age) \in Process
  BY DEF NewProcess, Process
<1>2. NewProcess(a, i, age) # NULL
  BY <1>1, NoProcessAssumption
<1> QED BY <1>1, <1>2 DEF NewProcess

\* Forking for a set of empty slots of one group keeps everything in order.
LEMMA SpawnGood ==
    ASSUME NEW a \in Address, NEW g \in Group, NEW age \in Int, NEW P, NEW O,
           groups \in [Address -> Group \cup {NULL}],
           Good([groups EXCEPT ![a] = g], P, O),
           NEW todo \in SUBSET Instances(g),
           \A i \in todo : g.childs[i] \notin Pids,
           NEW f \in Forks(O, todo),
           spawn(a, g, age, P, O, f)
    PROVE  /\ Good(groups', processes', os')
           /\ groups'[a] = [g EXCEPT !.childs = Pointers(g, f)]
<1> DEFINE G == [groups EXCEPT ![a] = g]
           h == [g EXCEPT !.childs = Pointers(g, f)]
           born == {f[i] : i \in DOMAIN f} \ {NULL}
           slot(p) == CHOOSE i \in DOMAIN f : f[i] = p
<1>1. /\ f \in [todo -> Free(O) \cup {NULL}]
      /\ \A i, j \in todo : f[i] = f[j] /\ f[i] # NULL => i = j
  BY DEF Forks
<1>2. todo \subseteq Slots
  BY InstancesAreSlots
<1>3. born \subseteq Pids /\ \A p \in born : O[p].st = "free"
  BY <1>1 DEF Free
<1>4. \A p \in born : slot(p) \in todo /\ f[slot(p)] = p
  BY <1>1
<1>5. \A i \in todo : f[i] # NULL => f[i] \in born /\ slot(f[i]) = i
  BY <1>1, <1>4
<1>6. /\ groups' = [groups EXCEPT ![a] = h]
      /\ processes' = [p \in Pids |-> IF p \in born THEN NewProcess(a, slot(p), age) ELSE P[p]]
      /\ os' = [p \in Pids |-> IF p \in born THEN Started("child") ELSE O[p]]
  BY DEF spawn
<1>7. \A p \in Pids : P[p] # NULL => p \notin born
  BY <1>3 DEF Good, Hashed, Roles
<1>8. /\ Pointers(g, f) \in [Slots -> Pids \cup {NULL, WILD}]
      /\ \A i \in Slots : Pointers(g, f)[i] = IF i \in todo /\ f[i] # NULL THEN f[i] ELSE g.childs[i]
  BY <1>1 DEF Pointers, Group, Free
<1>9. /\ h \in Group /\ h.childs = Pointers(g, f)
      /\ h.instances = g.instances /\ Instances(h) = Instances(g)
  BY <1>8 DEF Group, Instances
<1>10. \A p \in born : /\ NewProcess(a, slot(p), age) \in Process
                       /\ NewProcess(a, slot(p), age) # NULL
                       /\ NewProcess(a, slot(p), age).cc = a
                       /\ NewProcess(a, slot(p), age).inst = slot(p)
  <2> SUFFICES ASSUME NEW p \in born
               PROVE  /\ NewProcess(a, slot(p), age) \in Process
                      /\ NewProcess(a, slot(p), age) # NULL
                      /\ NewProcess(a, slot(p), age).cc = a
                      /\ NewProcess(a, slot(p), age).inst = slot(p)
    OBVIOUS
  <2>1. slot(p) \in Slots
    BY <1>2, <1>4
  <2> QED BY <2>1, NewProcessType
<1>11. /\ Started("child") \in Task /\ Started("child").role = "child"
       /\ Started("child").st = "run"
  BY DEF Started, Task
<1> HIDE DEF h, born, slot
<1>12. Typed(groups', processes', os')
  BY <1>6, <1>9, <1>10, <1>11 DEF Good, Typed
<1>13. Hashed(processes', os') /\ Roles(os')
  BY <1>6, <1>10, <1>11 DEF Good, Hashed, Roles
<1>14. Owned(groups', processes')
  <2> SUFFICES ASSUME NEW m \in Address, groups'[m] # NULL,
                      NEW i \in Slots, groups'[m].childs[i] \in Pids
               PROVE  LET p == groups'[m].childs[i]
                      IN  /\ i \in Instances(groups'[m]) /\ processes'[p] # NULL
                          /\ processes'[p].cc = m /\ processes'[p].inst = i
    BY DEF Owned
  <2> DEFINE p == groups'[m].childs[i]
  <2>1. CASE m = a /\ i \in todo /\ f[i] # NULL
    <3>1. groups'[m] = h /\ p = f[i]
      BY <2>1, <1>6, <1>8, <1>9
    <3>2. p \in born /\ slot(p) = i
      BY <3>1, <2>1, <1>5
    <3>3. processes'[p] = NewProcess(a, i, age)
      BY <3>2, <1>3, <1>6
    <3> QED BY <2>1, <3>1, <3>2, <3>3, <1>9, <1>10
  <2>2. CASE ~(m = a /\ i \in todo /\ f[i] # NULL)
    <3>1. /\ G[m] # NULL /\ p = G[m].childs[i]
          /\ Instances(G[m]) = Instances(groups'[m])
      BY <2>2, <1>6, <1>8, <1>9, NoGroupAssumption
    <3>2. /\ i \in Instances(G[m]) /\ P[p] # NULL /\ P[p].cc = m /\ P[p].inst = i
      BY <3>1 DEF Good, Owned
    <3>3. processes'[p] = P[p]
      BY <3>2, <1>6, <1>7
    <3> QED BY <3>1, <3>2, <3>3
  <2> QED BY <2>1, <2>2
<1>15. Slotted(groups', processes')
  <2> SUFFICES ASSUME NEW p \in Pids, processes'[p] # NULL, processes'[p].cc # NULL
               PROVE  LET m == processes'[p].cc
                          i == processes'[p].inst
                      IN  /\ groups'[m] # NULL /\ i \in Instances(groups'[m])
                          /\ groups'[m].childs[i] = p
    BY DEF Slotted
  <2>1. CASE p \in born
    <3>1. processes'[p].cc = a /\ processes'[p].inst = slot(p)
      BY <2>1, <1>6, <1>10
    <3>2. slot(p) \in todo /\ f[slot(p)] = p
      BY <2>1, <1>4
    <3>3. groups'[a] = h /\ h # NULL /\ h.childs[slot(p)] = p
      BY <3>2, <1>2, <1>6, <1>8, <1>9, NoGroupAssumption, NullAssumption
    <3> QED BY <3>1, <3>2, <3>3, <1>9
  <2>2. CASE p \notin born
    <3> DEFINE m == P[p].cc
               i == P[p].inst
    <3>1. processes'[p] = P[p]
      BY <2>2, <1>6
    <3>2. G[m] # NULL /\ i \in Instances(G[m]) /\ G[m].childs[i] = p /\ m \in Address
      BY <3>1 DEF Good, Slotted, Typed, Process
    <3>3. CASE m = a
      <4>1. groups'[m] = h /\ h # NULL /\ i \in Instances(h) /\ g.childs[i] = p
        BY <3>2, <3>3, <1>6, <1>9, NoGroupAssumption
      <4>2. i \notin todo /\ i \in Slots
        BY <4>1, <1>9, InstancesAreSlots
      <4> QED BY <3>1, <4>1, <4>2, <1>8, <1>9
    <3>4. CASE m # a
      BY <3>1, <3>2, <3>4, <1>6
    <3> QED BY <3>3, <3>4
  <2> QED BY <2>1, <2>2
<1> QED BY <1>6, <1>12, <1>13, <1>14, <1>15 DEF Good, h

-----------------------------------------------------------------------------
(* What the handlers do before they call spawn. *)

\* A new group without processes under a free name.
LEMMA FreshGood ==
    ASSUME Good(groups, processes, os), NEW a \in Address, groups[a] = NULL,
           NEW g \in Group, \A i \in Slots : g.childs[i] = NULL
    PROVE  Good([groups EXCEPT ![a] = g], processes, os)
<1> DEFINE G == [groups EXCEPT ![a] = g]
<1>1. Typed(G, processes, os)
  BY DEF Good, Typed
<1>2. Owned(G, processes)
  BY NullAssumption DEF Good, Typed, Owned
<1>3. Slotted(G, processes)
  BY DEF Good, Typed, Slotted
<1> QED BY <1>1, <1>2, <1>3 DEF Good

\* A detached process keeps everything but its group.
LEMMA DetachType ==
    ASSUME NEW P \in [Pids -> Process \cup {NULL}], NEW pids \in SUBSET Pids,
           \A p \in pids : P[p] # NULL
    PROVE  /\ Detach(P, pids) \in [Pids -> Process \cup {NULL}]
           /\ \A p \in Pids \ pids : Detach(P, pids)[p] = P[p]
           /\ \A p \in pids : Detach(P, pids)[p] # NULL /\ Detach(P, pids)[p].cc = NULL
<1>1. ASSUME NEW p \in pids
      PROVE  [P[p] EXCEPT !.cc = NULL] \in Process /\ [P[p] EXCEPT !.cc = NULL].cc = NULL
  BY <1>1 DEF Process
<1>2. \A p \in pids : [P[p] EXCEPT !.cc = NULL] # NULL
  BY <1>1, NoProcessAssumption
<1> QED BY <1>1, <1>2 DEF Detach

\* An update: the slots it takes away lose their processes, and the slots it
\* will start are empty.
LEMMA UpdatedGood ==
    ASSUME Good(groups, processes, os), NEW a \in Address, groups[a] # NULL,
           NEW r \in Config, ValidUpdt(r), NEW w \in {NULL, WILD},
           WILD \notin Dropped(groups[a], r)
    PROVE  Good([groups EXCEPT ![a] = Updated(groups[a], r, w)],
                Detach(processes, Dropped(groups[a], r)), os)
<1> DEFINE g == groups[a]
           u == Updated(g, r, w)
           G == [groups EXCEPT ![a] = u]
           D == Dropped(g, r)
           P == Detach(processes, D)
<1>1. g \in Group
  BY DEF Good, Typed
<1>2. /\ u \in Group
      /\ \A i \in Slots : u.childs[i] \in Pids =>
            u.childs[i] = g.childs[i] /\ i \notin Shrunk(g, r)
      /\ \A i \in Instances(g) : i \in Instances(u) \/ i \in Shrunk(g, r)
      /\ \A i \in Instances(g) \ Shrunk(g, r) : u.childs[i] = g.childs[i]
      /\ Shrunk(g, r) \subseteq Instances(g)
  BY <1>1, UpdatedType, InstancesAreSlots, NullAssumption, WildAssumption
<1>3. D = {g.childs[i] : i \in Shrunk(g, r)} \cap Pids
  BY <1>1, <1>2, InstancesAreSlots, NullAssumption DEF Dropped, Group
<1>4. \A p \in D : processes[p] # NULL /\ processes[p].cc = a /\ processes[p].inst \in Shrunk(g, r)
  BY <1>1, <1>2, <1>3, InstancesAreSlots DEF Good, Owned
<1>5. \A p \in Pids : processes[p] # NULL /\ processes[p].cc = a
                        /\ processes[p].inst \in Shrunk(g, r) => p \in D
  <2> SUFFICES ASSUME NEW p \in Pids, processes[p] # NULL, processes[p].cc = a,
                      processes[p].inst \in Shrunk(g, r)
               PROVE  p \in D
    OBVIOUS
  <2>1. g.childs[processes[p].inst] = p
    BY AddressAssumption DEF Good, Slotted
  <2> QED BY <2>1, <1>3
<1>6. /\ P \in [Pids -> Process \cup {NULL}]
      /\ \A p \in Pids \ D : P[p] = processes[p]
      /\ \A p \in D : P[p] # NULL /\ P[p].cc = NULL
  BY <1>3, <1>4, DetachType DEF Good, Typed
<1> HIDE DEF D, P, u
<1>7. Typed(G, P, os)
  BY <1>2, <1>6 DEF Good, Typed
<1>8. Hashed(P, os)
  BY <1>4, <1>6 DEF Good, Hashed
<1>9. Owned(G, P)
  <2> SUFFICES ASSUME NEW m \in Address, G[m] # NULL,
                      NEW i \in Slots, G[m].childs[i] \in Pids
               PROVE  LET p == G[m].childs[i]
                      IN  /\ i \in Instances(G[m]) /\ P[p] # NULL
                          /\ P[p].cc = m /\ P[p].inst = i
    BY DEF Owned
  <2> DEFINE p == G[m].childs[i]
  <2>1. /\ groups[m] # NULL /\ p = groups[m].childs[i]
        /\ m = a => i \notin Shrunk(g, r)
    BY <1>2 DEF Good, Typed
  <2>2. /\ i \in Instances(groups[m]) /\ processes[p] # NULL
        /\ processes[p].cc = m /\ processes[p].inst = i
    BY <2>1 DEF Good, Owned
  <2>3. p \notin D
    BY <2>1, <2>2, <1>4
  <2>4. i \in Instances(G[m])
    BY <2>1, <2>2, <1>2 DEF Good, Typed
  <2> QED BY <2>2, <2>3, <2>4, <1>6
<1>10. Slotted(G, P)
  <2> SUFFICES ASSUME NEW p \in Pids, P[p] # NULL, P[p].cc # NULL
               PROVE  LET m == P[p].cc
                          i == P[p].inst
                      IN G[m] # NULL /\ i \in Instances(G[m]) /\ G[m].childs[i] = p
    BY DEF Slotted
  <2> DEFINE m == P[p].cc
             i == P[p].inst
  <2>1. p \notin D /\ P[p] = processes[p]
    BY <1>6
  <2>2. m \in Address /\ groups[m] # NULL /\ i \in Instances(groups[m]) /\ groups[m].childs[i] = p
    BY <2>1 DEF Good, Slotted, Typed, Process
  <2>3. CASE m = a
    <3>1. i \notin Shrunk(g, r)
      BY <2>1, <2>3, <1>5
    <3> QED BY <3>1, <2>2, <2>3, <1>2, NoGroupAssumption DEF Good, Typed
  <2>4. CASE m # a
    BY <2>2, <2>4 DEF Good, Typed
  <2> QED BY <2>3, <2>4
<1> QED BY <1>7, <1>8, <1>9, <1>10 DEF Good, G, u, P, D, g

\* The death of a process that has no group.
LEMMA OrphanGood ==
    ASSUME Good(groups, processes, os), NEW p \in Pids,
           processes[p] # NULL, processes[p].cc = NULL
    PROVE  Good(groups, [processes EXCEPT ![p] = NULL], [os EXCEPT ![p] = NoTask])
<1> DEFINE P == [processes EXCEPT ![p] = NULL]
           O == [os EXCEPT ![p] = NoTask]
<1>1. NoTask \in Task /\ NoTask.role = "none" /\ NoTask.st = "free"
  BY DEF NoTask, Task
<1>2. Typed(groups, P, O) /\ Hashed(P, O) /\ Roles(O)
  BY <1>1 DEF Good, Typed, Hashed, Roles
<1>3. Owned(groups, P)
  BY AddressAssumption DEF Good, Typed, Owned
<1>4. Slotted(groups, P)
  BY DEF Good, Typed, Slotted
<1> QED BY <1>2, <1>3, <1>4 DEF Good

\* The death of a member, h being its group after the exit is accounted for.
LEMMA MemberGood ==
    ASSUME Good(groups, processes, os), NEW p \in Pids,
           processes[p] # NULL, processes[p].cc # NULL,
           NEW h \in Group, h.instances = groups[processes[p].cc].instances,
           h.childs = [groups[processes[p].cc].childs EXCEPT ![processes[p].inst] = NULL]
    PROVE  Good([groups EXCEPT ![processes[p].cc] = h],
                [processes EXCEPT ![p] = NULL], [os EXCEPT ![p] = NoTask])
<1> DEFINE a == processes[p].cc
           k == processes[p].inst
           g == groups[a]
           G == [groups EXCEPT ![a] = h]
           P == [processes EXCEPT ![p] = NULL]
           O == [os EXCEPT ![p] = NoTask]
<1>1. NoTask \in Task /\ NoTask.role = "none" /\ NoTask.st = "free"
  BY DEF NoTask, Task
<1>2. /\ a \in Address /\ k \in Slots /\ groups[a] # NULL /\ g \in Group
      /\ k \in Instances(g) /\ g.childs[k] = p
  BY DEF Good, Typed, Slotted, Process
<1>3. /\ h # NULL /\ Instances(h) = Instances(g) /\ h.childs[k] = NULL
      /\ \A i \in Slots : i # k => h.childs[i] = g.childs[i]
  BY <1>2, NoGroupAssumption DEF Instances, Group
<1>4. \A m \in Address : G[m] = IF m = a THEN h ELSE groups[m]
  BY <1>2 DEF Good, Typed
<1>5. \A q \in Pids : P[q] = IF q = p THEN NULL ELSE processes[q]
  BY DEF Good, Typed
<1>6. Typed(G, P, O) /\ Hashed(P, O) /\ Roles(O)
  BY <1>1, <1>2 DEF Good, Typed, Hashed, Roles
<1> HIDE DEF G, P, O
<1>7. Owned(G, P)
  <2> SUFFICES ASSUME NEW m \in Address, G[m] # NULL,
                      NEW i \in Slots, G[m].childs[i] \in Pids
               PROVE  LET q == G[m].childs[i]
                      IN  /\ i \in Instances(G[m]) /\ P[q] # NULL
                          /\ P[q].cc = m /\ P[q].inst = i
    BY DEF Owned
  <2> DEFINE q == G[m].childs[i]
  <2>1. /\ groups[m] # NULL /\ q = groups[m].childs[i]
        /\ Instances(G[m]) = Instances(groups[m])
        /\ ~(m = a /\ i = k)
    BY <1>2, <1>3, <1>4, NullAssumption
  <2>2. /\ i \in Instances(groups[m]) /\ processes[q] # NULL
        /\ processes[q].cc = m /\ processes[q].inst = i
    BY <2>1 DEF Good, Owned
  <2>3. q # p
    BY <2>1, <2>2
  <2> QED BY <2>1, <2>2, <2>3, <1>5
<1>8. Slotted(G, P)
  <2> SUFFICES ASSUME NEW q \in Pids, P[q] # NULL, P[q].cc # NULL
               PROVE  LET m == P[q].cc
                          i == P[q].inst
                      IN G[m] # NULL /\ i \in Instances(G[m]) /\ G[m].childs[i] = q
    BY DEF Slotted
  <2> DEFINE m == P[q].cc
             i == P[q].inst
  <2>1. q # p /\ P[q] = processes[q]
    BY <1>5
  <2>2. /\ m \in Address /\ groups[m] # NULL /\ i \in Instances(groups[m]) /\ i \in Slots
        /\ groups[m].childs[i] = q
    BY <2>1 DEF Good, Slotted, Typed, Process
  <2>3. ~(m = a /\ i = k)
    BY <2>1, <2>2, <1>2
  <2> QED BY <2>2, <2>3, <1>3, <1>4
<1> QED BY <1>6, <1>7, <1>8 DEF Good, G, P, O

\* Steps of the process table that start or end no child.
LEMMA TableGood ==
    ASSUME NEW G, NEW P, NEW O, Good(G, P, O), NEW Q \in [Pids -> Task],
           \A p \in Pids : Q[p].st = "free" <=> Q[p].role = "none",
           \A p \in Pids : Q[p].role = "child" <=> O[p].role = "child"
    PROVE  Good(G, P, Q)
BY DEF Good, Typed, Hashed, Roles

\* A helper is forked for, or not.
LEMMA HelperGood ==
    ASSUME NEW G, NEW P, NEW O, Good(G, P, O), NEW role \in {"heartbeat", "fatal"},
           NEW Q \in HelperForks(O, role)
    PROVE  Good(G, P, Q)
<1>1. O \in [Pids -> Task]
  BY DEF Good, Typed
<1>2. CASE Q = O
  BY <1>2
<1>3. ASSUME NEW q \in Free(O), Q = [O EXCEPT ![q] = Started(role)]
      PROVE  Good(G, P, Q)
  <2>1. Started(role) \in Task /\ Started(role).role = role /\ Started(role).st = "run"
    BY DEF Started, Task
  <2>2. q \in Pids /\ O[q].role = "none"
    BY <1>3 DEF Free, Good, Roles
  <2>3. Q \in [Pids -> Task]
    BY <1>1, <1>3, <2>1
  <2>4. \A p \in Pids : Q[p].st = "free" <=> Q[p].role = "none"
    BY <1>1, <1>3, <2>1, <2>2 DEF Good, Roles
  <2>5. \A p \in Pids : Q[p].role = "child" <=> O[p].role = "child"
    BY <1>1, <1>3, <2>1, <2>2
  <2> QED BY <2>3, <2>4, <2>5, TableGood
<1> QED BY <1>2, <1>3 DEF HelperForks

\* A signal is sent.
LEMMA SignalGood ==
    ASSUME NEW G, NEW P, NEW O, Good(G, P, O), NEW targets, NEW sig
    PROVE  Good(G, P, Signalled(O, targets, sig))
<1> DEFINE Q == Signalled(O, targets, sig)
<1>1. O \in [Pids -> Task] /\ Roles(O)
  BY DEF Good, Typed
<1>2. Q \in [Pids -> Task]
  BY <1>1 DEF Signalled, Task
<1>3. \A p \in Pids : Q[p].role = O[p].role /\ (Q[p].st = "free" <=> O[p].st = "free")
  BY <1>1 DEF Signalled, Task
<1> QED BY <1>1, <1>2, <1>3, TableGood DEF Roles

-----------------------------------------------------------------------------
(* The handlers that start processes. *)

\* A notification is recorded.
LEMMA ToldType ==
    ASSUME NEW t \in [Names -> Int], NEW n, NEW s \in Int
    PROVE  [t EXCEPT ![n] = s] \in [Names -> Int]
OBVIOUS

\* load_dump and c_spwn insert a group where there is none.
LEMMA NewAddress ==
    ASSUME NEW a \in Address
    PROVE  /\ {b[2] : b \in Namesakes(a)} = 1 .. a[2] - 1 => groups[a] = NULL
           /\ Namesakes(a) = {} => groups[a] = NULL
<1>1. groups[a] # NULL => a \in Namesakes(a)
  BY DEF Namesakes
<1>2. a[2] \notin 1 .. a[2] - 1
  BY DEF Address
<1> QED BY <1>1, <1>2

\* The name of a group is a name.
LEMMA NameOfType == \A a \in Address : NameOf(a) \in Names
BY DEF Address, NameOf

LEMMA LoadStep ==
    ASSUME IInv, NEW a \in Address, NEW r \in LoadReqs, load_dump(a, r)
    PROVE  Good(groups', processes', os')
<1> DEFINE g == LoadedGroup(r)
           todo == IF g.status = STATUS_RUNNING THEN Instances(g) ELSE {}
<1>1. r \in Config /\ Default(r.instances, Unset, 1) \in 1 .. MaxInst
  BY RequestAssumption
<1>2. /\ Default(r.status, Unset, STATUS_RUNNING) \in Int
      /\ Default(r.killsig, NULL, SIGTERM) \in Signals \cup {NULL}
  BY <1>1, SignalAssumption DEF Default, Config, STATUS_RUNNING
<1>3. g \in Group /\ \A i \in Slots : g.childs[i] = NULL
  BY <1>1, <1>2, NewGroupType DEF LoadedGroup
<1> HIDE DEF g
<1>4. Good([groups EXCEPT ![a] = g], processes, os)
  BY <1>3, FreshGood, NewAddress DEF IInv, load_dump
<1>5. /\ todo \in SUBSET Instances(g) /\ \A i \in todo : g.childs[i] \notin Pids
      /\ g.age \in Int
  BY <1>3, InstancesAreSlots, NullAssumption DEF Group
<1>6. PICK f \in Forks(os, todo) : spawn(a, g, g.age, processes, os, f)
  BY DEF load_dump, g
<1>7. groups \in [Address -> Group \cup {NULL}]
  BY DEF IInv, TypeOK
<1> HIDE DEF todo
<1> QED BY <1>3, <1>4, <1>5, <1>6, <1>7, SpawnGood

LEMMA SpwnStep ==
    ASSUME IInv, NEW a \in Address, NEW r \in StartReqs, c_spwn(a, r)
    PROVE  Good(groups', processes', os') /\ told' \in [Names -> Int]
<1> DEFINE g == SpwnGroup(r)
           todo == ToSpawn(g)
<1>1. r \in Config /\ Default(r.instances, Unset, 1) \in 1 .. MaxInst
  BY RequestAssumption DEF c_spwn, ValidSpwn
<1>2. r.status \in Int /\ r.killsig \in Signals \cup {NULL}
  BY <1>1 DEF Config
<1>3. g \in Group /\ \A i \in Slots : g.childs[i] = NULL
  BY <1>1, <1>2, NewGroupType DEF SpwnGroup
<1> HIDE DEF g
<1>4. Good([groups EXCEPT ![a] = g], processes, os)
  BY <1>3, FreshGood, NewAddress DEF IInv, c_spwn
<1>5. /\ todo \in SUBSET Instances(g) /\ \A i \in todo : g.childs[i] \notin Pids
      /\ g.age \in Int /\ g.status \in Int
  BY <1>3, InstancesAreSlots, NullAssumption DEF Group, ToSpawn
<1>6. PICK f \in Forks(os, todo) : spawn(a, g, g.age, processes, os, f)
  BY DEF c_spwn, g
<1>7. groups \in [Address -> Group \cup {NULL}]
  BY DEF IInv, TypeOK
<1>8. told' \in [Names -> Int]
  BY <1>5 DEF c_spwn, g, IInv, TypeOK
<1> HIDE DEF todo
<1> QED BY <1>3, <1>4, <1>5, <1>6, <1>7, <1>8, SpawnGood

LEMMA UpdtStep ==
    ASSUME IInv, NEW a \in Address, NEW r \in UpdateReqs, NEW w \in {NULL, WILD}, c_updt(a, r, w)
    PROVE  Good(groups', processes', os') /\ told' \in [Names -> Int]
<1> DEFINE g == groups[a]
           u == Updated(g, r, w)
           v == Updated(g, r, NULL)
           todo == ToStart(g, r)
           P == Detach(processes, Dropped(g, r))
<1>1. r \in Config /\ ValidUpdt(r) /\ g \in Group /\ g # NULL
  BY RequestAssumption DEF c_updt, Found, IInv, TypeOK
<1>2. u \in Group /\ Good([groups EXCEPT ![a] = u], P, os)
  BY <1>1, UpdatedType, UpdatedGood DEF c_updt, IInv
<1>3. todo \in SUBSET Instances(u)
  <2>1. Instances(u) = Instances(v)
    BY <1>1 DEF Updated, Instances, Group
  <2> QED BY <2>1, <1>1, UpdatedType DEF ToStart
<1>4. \A i \in todo : u.childs[i] \notin Pids
  <2> SUFFICES ASSUME NEW i \in todo PROVE u.childs[i] \notin Pids
    OBVIOUS
  <2>1. i \in Slots
    BY <1>2, <1>3, InstancesAreSlots
  <2>2. CASE g.status = STATUS_RUNNING
    BY <1>1, <2>1, <2>2, UpdatedType, NullAssumption, WildAssumption DEF ToStart
  <2>3. CASE g.status # STATUS_RUNNING
    <3>1. v.childs[i] = NULL
      BY <2>3 DEF ToStart
    <3>2. u.childs[i] = v.childs[i]
      BY <1>1, <2>1, <2>3, UpdatedType
    <3> QED BY <3>1, <3>2, NullAssumption
  <2> QED BY <2>2, <2>3
<1>5. PICK f \in Forks(os, todo) : spawn(a, u, g.age, P, os, f)
  BY DEF c_updt
<1>6. groups \in [Address -> Group \cup {NULL}] /\ g.age \in Int
  BY <1>1 DEF IInv, TypeOK, Group
<1>7. told' \in [Names -> Int]
  <2>1. told' = Told(a, g, r) /\ told \in [Names -> Int] /\ r.status \in Int
    BY <1>1 DEF c_updt, IInv, TypeOK, Config
  <2> QED BY <2>1 DEF Told
<1> HIDE DEF u, v, P, todo, g
<1> QED BY <1>2, <1>3, <1>4, <1>5, <1>6, <1>7, SpawnGood

LEMMA MemberStep ==
    ASSUME IInv, NEW p \in Pids, NEW expired \in BOOLEAN, ReapMember(p, expired)
    PROVE  Good(groups', processes', os') /\ told' \in [Names -> Int]
<1> DEFINE a == processes[p].cc
           i == processes[p].inst
           g == AfterExit(groups[a], i, os[p].cause, expired)
           O == [os EXCEPT ![p] = NoTask]
           P == [processes EXCEPT ![p] = NULL]
           brk == Breaks(groups[a], i, os[p].cause, expired)
<1>1. /\ a \in Address /\ i \in Slots /\ groups[a] \in Group /\ i \in Instances(groups[a])
  BY DEF ReapMember, IInv, TypeOK, Good, Slotted, Process
<1>2. /\ g \in Group /\ g.childs = [groups[a].childs EXCEPT ![i] = NULL]
      /\ g.instances = groups[a].instances
  BY <1>1, AfterExitType
<1> HIDE DEF g
<1>3. Good([groups EXCEPT ![a] = g], P, O)
  BY <1>2, MemberGood DEF ReapMember, IInv
<1>4. groups \in [Address -> Group \cup {NULL}] /\ told \in [Names -> Int]
  BY DEF IInv, TypeOK
<1>5. CASE brk
  <2>1. /\ groups' = [groups EXCEPT ![a] = g] /\ processes' = P
        /\ told' = [told EXCEPT ![NameOf(a)] = STATUS_BROKEN]
        /\ os' \in IF g.fatal THEN HelperForks(O, "fatal") ELSE {O}
    BY <1>5 DEF ReapMember, process_remove, g
  <2> HIDE DEF P, O, a
  <2>2. Good(groups', processes', os')
    BY <1>3, <2>1, HelperGood
  <2>3. told' \in [Names -> Int]
    BY <2>1, <1>4, ToldType DEF STATUS_BROKEN
  <2> QED BY <2>2, <2>3
<1>6. CASE ~brk
  <2> DEFINE todo == ToRestart(g, i)
  <2>1. /\ \E f \in Forks(O, todo) : spawn(a, g, g.age, P, O, f)
        /\ told' = told
    BY <1>6 DEF ReapMember, process_remove, g
  <2>2. PICK f \in Forks(O, todo) : spawn(a, g, g.age, P, O, f)
    BY <2>1
  <2>3. /\ todo \in SUBSET Instances(g) /\ todo \subseteq {i}
        /\ g.childs[i] \notin Pids /\ g.age \in Int
    BY <1>1, <1>2, NullAssumption DEF ToRestart, Group
  <2>4. \A j \in todo : g.childs[j] \notin Pids
    BY <2>3
  <2> HIDE DEF todo, P, O, a, i
  <2>5. Good(groups', processes', os')
    BY <1>1, <1>2, <1>3, <1>4, <2>2, <2>3, <2>4, SpawnGood
  <2> QED BY <1>4, <2>1, <2>5
<1> QED BY <1>5, <1>6

-----------------------------------------------------------------------------
(* The invariant. *)

\* The variables besides groups, processes and the process table.
Flags == /\ phase \in {"boot", "run", "down"} /\ reaping \in BOOLEAN
         /\ told \in [Names -> Int] /\ shared \subseteq Names
         /\ pending \in BOOLEAN /\ caught \in 0 .. MaxCaught

LEMMA IInvParts == IInv <=> Flags /\ Good(groups, processes, os)
BY DEF IInv, TypeOK, KernelTypeOK, Flags, Good, Typed

\* A step that leaves groups, processes and the process table alone.
LEMMA SameGood ==
    ASSUME IInv, UNCHANGED <<groups, processes, os>>
    PROVE  Good(groups', processes', os')
BY DEF IInv, Good, Typed, Hashed, Roles, Owned, Slotted

LEMMA InitIInv == Init => IInv
<1> SUFFICES ASSUME Init PROVE Flags /\ Good(groups, processes, os)
  BY IInvParts
<1>1. NoTask \in Task /\ NoTask.role = "none" /\ NoTask.st = "free"
  BY DEF NoTask, Task
<1>2. Flags
  <2>1. told = [n \in Names |-> 0] /\ shared = {} /\ phase = "boot" /\ reaping = FALSE
        /\ pending = FALSE /\ caught = 0
    BY DEF Init, KernelInit
  <2>2. caught \in 0 .. MaxCaught
    BY <2>1, KernelAssumption
  <2>3. told \in [Names -> Int]
    BY <2>1
  <2> QED BY <2>1, <2>2, <2>3 DEF Flags
<1>3. /\ groups = [a \in Address |-> NULL] /\ processes = [p \in Pids |-> NULL]
      /\ os = [p \in Pids |-> NoTask]
  BY DEF Init, KernelInit
<1> QED BY <1>1, <1>2, <1>3 DEF Good, Typed, Hashed, Roles, Owned, Slotted

LEMMA DeleStep ==
    ASSUME IInv, NEW a \in Address, c_dele(a)
    PROVE  Good(groups', processes', os')
<1> DEFINE g == groups[a]
           D == Members(g)
<1>1. g \in Group /\ groups \in [Address -> Group \cup {NULL}]
      /\ groups' = [groups EXCEPT ![a] = NULL] /\ os' = os
      /\ processes' = Detach(processes, D)
  BY DEF c_dele, Found, DeleMembers, IInv, TypeOK
<1>2. D \subseteq Pids /\ \A p \in D : processes[p] # NULL /\ processes[p].cc = a
  BY <1>1, InstancesAreSlots DEF IInv, Good, Owned, Members, c_dele, Found
<1>3. \A p \in Pids : processes[p] # NULL /\ processes[p].cc = a => p \in D
  BY AddressAssumption DEF IInv, Good, Slotted, Members
<1>4. /\ processes' \in [Pids -> Process \cup {NULL}]
      /\ \A p \in Pids \ D : processes'[p] = processes[p]
      /\ \A p \in D : processes'[p] # NULL /\ processes'[p].cc = NULL
  BY <1>1, <1>2, DetachType DEF IInv, Good, Typed
<1> HIDE DEF D
<1>5. Typed(groups', processes', os') /\ Hashed(processes', os') /\ Roles(os')
  BY <1>1, <1>2, <1>4 DEF IInv, Good, Typed, Hashed, Roles
<1>6. Owned(groups', processes')
  BY <1>1, <1>2, <1>4 DEF IInv, Good, Owned
<1>7. Slotted(groups', processes')
  BY <1>1, <1>3, <1>4 DEF IInv, Good, Typed, Slotted, Process
<1> QED BY <1>5, <1>6, <1>7 DEF Good

LEMMA PassAgeStep ==
    ASSUME IInv, NEW p \in Pids, NEW q, processes[p] # NULL,
           q \in {[processes[p] EXCEPT !.over = TRUE], [processes[p] EXCEPT !.terminated = TRUE]}
    PROVE  Good(groups, [processes EXCEPT ![p] = q], os)
<1>1. q \in Process /\ q.cc = processes[p].cc /\ q.inst = processes[p].inst
  BY DEF IInv, Good, Typed, Process
<1>2. q # NULL
  BY <1>1, NoProcessAssumption
<1> QED BY <1>1, <1>2 DEF IInv, Good, Typed, Hashed, Owned, Slotted

LEMMA HeartbeatStep ==
    ASSUME IInv, NEW p \in Pids, heartbeat_cb(p)
    PROVE  Good(groups', processes', os')
<1>1. groups' = groups /\ processes[p] # NULL /\ Good(groups, processes, os)
  BY DEF heartbeat_cb, IInv
<1>2. ASSUME os' = Signalled(os, {p}, AgeSignal(p)),
             processes' = [processes EXCEPT ![p] = [processes[p] EXCEPT !.terminated = TRUE]]
      PROVE  Good(groups', processes', os')
  <2>1. Good(groups, processes', os)
    BY <1>1, <1>2, PassAgeStep
  <2> QED BY <1>1, <1>2, <2>1, SignalGood
<1>3. ASSUME os' \in HelperForks(os, "heartbeat"), processes' = processes
      PROVE  Good(groups', processes', os')
  BY <1>1, <1>3, HelperGood
<1> QED BY <1>2, <1>3 DEF heartbeat_cb

LEMMA HelperStep ==
    ASSUME IInv, NEW p \in Pids, ReapHelper(p)
    PROVE  Good(groups', processes', os')
<1>1. NoTask \in Task /\ NoTask.role = "none" /\ NoTask.st = "free"
  BY DEF NoTask, Task
<1>2. /\ groups' = groups /\ processes' = processes /\ os' = [os EXCEPT ![p] = NoTask]
      /\ os[p].role # "child" /\ os \in [Pids -> Task] /\ Good(groups, processes, os)
  BY DEF ReapHelper, IInv, Good, Hashed, Typed
<1>3. /\ os' \in [Pids -> Task]
      /\ \A q \in Pids : os'[q].st = "free" <=> os'[q].role = "none"
      /\ \A q \in Pids : os'[q].role = "child" <=> os[q].role = "child"
  BY <1>1, <1>2 DEF Good, Roles
<1> QED BY <1>2, <1>3, TableGood

LEMMA ExitStep ==
    ASSUME IInv, NEW p \in Pids, NEW cause \in Causes, TaskExit(p, cause)
    PROVE  Good(groups', processes', os') /\ pending' \in BOOLEAN
<1>1. /\ groups' = groups /\ processes' = processes
      /\ os' = [os EXCEPT ![p] = [os[p] EXCEPT !.st = "zombie", !.cause = cause]]
      /\ os[p].st # "free" /\ os \in [Pids -> Task] /\ Good(groups, processes, os)
      /\ pending' = (pending \/ phase = "run")
  BY DEF TaskExit, Exit, IInv, Good, Typed
<1>2. /\ os' \in [Pids -> Task]
      /\ \A q \in Pids : os'[q].role = os[q].role /\ (os'[q].st = "free" <=> os[q].st = "free")
  BY <1>1 DEF Task
<1>3. Good(groups, processes, os')
  <2>1. \A q \in Pids : os'[q].st = "free" <=> os'[q].role = "none"
    BY <1>1, <1>2 DEF Good, Roles
  <2>2. \A q \in Pids : os'[q].role = "child" <=> os[q].role = "child"
    BY <1>2
  <2>3. os' \in [Pids -> Task] /\ Good(groups, processes, os)
    BY <1>1, <1>2
  <2> QED BY <2>1, <2>2, <2>3, TableGood
<1>4. pending' \in BOOLEAN
  BY <1>1, IInvParts DEF Flags
<1> QED BY <1>1, <1>3, <1>4

LEMMA NextIInv == IInv /\ [Next]_vars => IInv'
<1> SUFFICES ASSUME IInv, [Next]_vars PROVE Flags' /\ Good(groups', processes', os')
  BY IInvParts DEF IInv, TypeOK, KernelTypeOK, Flags, Good, Typed
<1>0. Flags
  BY IInvParts
<1>1. CASE UNCHANGED vars
  BY <1>0, <1>1, SameGood DEF vars, Flags
<1>2. ASSUME NEW a \in Address, NEW r \in LoadReqs, load_dump(a, r)
      PROVE  Flags' /\ Good(groups', processes', os')
  BY <1>0, <1>2, LoadStep, NameOfType DEF load_dump, Flags
<1>3. CASE EnterLoop
  BY <1>0, <1>3, SameGood DEF EnterLoop, Flags
<1>4. ASSUME NEW a \in Address, NEW r \in StartReqs, c_spwn(a, r)
      PROVE  Flags' /\ Good(groups', processes', os')
  BY <1>0, <1>4, SpwnStep DEF c_spwn, Flags
<1>5. ASSUME NEW a \in Address, NEW r \in UpdateReqs, NEW w \in {NULL, WILD}, c_updt(a, r, w)
      PROVE  Flags' /\ Good(groups', processes', os')
  BY <1>0, <1>5, UpdtStep DEF c_updt, Flags
<1>6. ASSUME NEW a \in Address, c_dele(a)
      PROVE  Flags' /\ Good(groups', processes', os')
  <2>1. told' \in [Names -> Int]
    BY <1>0, <1>6, ToldType DEF c_dele, Flags, STATUS_DELETE
  <2> QED BY <1>0, <1>6, <2>1, DeleStep DEF c_dele, Flags
<1>7. ASSUME NEW a \in Address, NEW sig \in Signals, NEW idx \in Slots \cup {Unset}, c_kill(a, sig, idx)
      PROVE  Flags' /\ Good(groups', processes', os')
  BY <1>0, <1>7, SignalGood DEF c_kill, Flags, IInv
<1>8. ASSUME NEW a \in Address, wild_deref(a)
      PROVE  Flags' /\ Good(groups', processes', os')
  BY <1>0, <1>8, SameGood DEF wild_deref, Flags
<1>9. CASE c_exit
  BY <1>0, <1>9, SameGood DEF c_exit, Flags
<1>10. ASSUME NEW p \in Pids, PassAge(p)
       PROVE  Flags' /\ Good(groups', processes', os')
  BY <1>0, <1>10, PassAgeStep DEF PassAge, Flags
<1>11. ASSUME NEW p \in Pids, heartbeat_cb(p)
       PROVE  Flags' /\ Good(groups', processes', os')
  BY <1>0, <1>11, HeartbeatStep DEF heartbeat_cb, Flags
<1>12. CASE SigchldBegin
  BY <1>0, <1>12, SameGood, KernelAssumption DEF SigchldBegin, Flags
<1>13. ASSUME NEW p \in Pids, ReapHelper(p)
       PROVE  Flags' /\ Good(groups', processes', os')
  BY <1>0, <1>13, HelperStep DEF ReapHelper, Waited, GoesOn, Flags
<1>14. ASSUME NEW p \in Pids, ReapOrphan(p)
       PROVE  Flags' /\ Good(groups', processes', os')
  BY <1>0, <1>14, OrphanGood DEF ReapOrphan, Waited, GoesOn, process_remove, Flags, IInv
<1>15. ASSUME NEW p \in Pids, NEW expired \in BOOLEAN, ReapMember(p, expired)
       PROVE  Flags' /\ Good(groups', processes', os')
  <2>1. UNCHANGED <<phase, shared, pending, caught>> /\ reaping' \in BOOLEAN
    BY <1>15 DEF ReapMember, Waited, GoesOn
  <2> QED BY <1>0, <1>15, <2>1, MemberStep DEF Flags
<1>16. CASE ReapDone
  BY <1>0, <1>16, SameGood DEF ReapDone, Flags
<1>17. ASSUME NEW p \in Pids, NEW cause \in Causes, TaskExit(p, cause)
       PROVE  Flags' /\ Good(groups', processes', os')
  BY <1>0, <1>17, ExitStep DEF TaskExit, Exit, Flags
<1>18. CASE Deliver
  <2>1. /\ caught' = caught + 1 /\ caught < MaxCaught /\ pending' = FALSE
        /\ UNCHANGED <<groups, processes, phase, reaping, told, shared, os>>
    BY <1>18 DEF Deliver, DeliverSig
  <2>2. caught' \in 0 .. MaxCaught
    BY <1>0, <2>1, KernelAssumption DEF Flags
  <2> QED BY <1>0, <2>1, <2>2, SameGood DEF Flags
<1> QED
  BY <1>1, <1>2, <1>3, <1>4, <1>5, <1>6, <1>7, <1>8, <1>9, <1>10, <1>11, <1>12, <1>13, <1>14,
     <1>15, <1>16, <1>17, <1>18
  DEF Next, Command, Reap

(* Type correctness of the supervision core: every handler leaves each     *)
(* variable in its type, for any requests and any number of processes.     *)
THEOREM TypeCorrect == Spec => []TypeOK
<1>1. IInv => TypeOK
  BY DEF IInv
<1> QED BY <1>1, InitIInv, NextIInv, PTL DEF Spec

(* process_hash, the slots of the groups and the children of the server    *)
(* agree at every moment: no slot or process points at something freed, no *)
(* group has more processes than slots, and every pid the server may       *)
(* signal is a child it has not waited for yet.                            *)
THEOREM Bookkeeping == Spec => [](HashedUnreaped /\ SlotsOwned /\ MembersSlotted)
<1>1. IInv => HashedUnreaped /\ SlotsOwned /\ MembersSlotted
  BY DEF IInv, Good, Hashed, Owned, Slotted, HashedUnreaped, SlotsOwned, MembersSlotted
<1> QED BY <1>1, InitIInv, NextIInv, PTL DEF Spec

(* No freed process is found by a signal: what process_hash leads to is a  *)
(* child that waitpid has not returned, and the other way round.           *)
THEOREM ChildrenHashed == Spec => []HashedUnreaped
<1>1. HashedUnreaped /\ SlotsOwned /\ MembersSlotted => HashedUnreaped
  OBVIOUS
<1> QED BY <1>1, Bookkeeping, PTL

(* A group never outgrows its slots: each of its processes is in one, which *)
(* c_updt's resizing and spawn's failures keep so.                         *)
THEOREM MembersHaveSlots == Spec => []MembersSlotted
<1>1. HashedUnreaped /\ SlotsOwned /\ MembersSlotted => MembersSlotted
  OBVIOUS
<1> QED BY <1>1, Bookkeeping, PTL
=============================================================================
