-------------------------- MODULE ChildConfigProofs --------------------------
(***************************************************************************)
(* Lemmas about the operators of ChildConfig.tla: what creating, updating  *)
(* and accounting for an exit do to a group.  The proofs about             *)
(* Supervisor.tla and ErrorWindow.tla rest on them.                        *)
(***************************************************************************)
EXTENDS ChildConfig, TLAPS

\* A new group is a group without processes.
LEMMA NewGroupType ==
    ASSUME NEW r \in Config, NEW k \in 1 .. MaxInst, NEW s \in Int,
           NEW sig \in Signals \cup {NULL}
    PROVE  /\ NewGroup(k, s, sig, r) \in Group
           /\ NewGroup(k, s, sig, r).instances = k
           /\ NewGroup(k, s, sig, r).status = s
           /\ \A i \in Slots : NewGroup(k, s, sig, r).childs[i] = NULL
BY DEF NewGroup, Config, Group

\* Instances are slots.
LEMMA InstancesAreSlots ==
    ASSUME NEW g \in Group
    PROVE  Instances(g) \subseteq Slots
BY BoundsAssumption DEF Group, Instances, Slots

\* An update keeps the type of a group.  What was in the slots it does not
\* add or take away stays; the others hold no process.
LEMMA UpdatedType ==
    ASSUME NEW g \in Group, NEW r \in Config, ValidUpdt(r), NEW w \in {NULL, WILD}
    PROVE  /\ Updated(g, r, w) \in Group
           /\ \A i \in Slots :
                 Updated(g, r, w).childs[i] =
                    IF i \in Grown(g, r)
                    THEN IF g.status = STATUS_RUNNING THEN w ELSE NULL
                    ELSE IF i \in Shrunk(g, r) THEN NULL ELSE g.childs[i]
           /\ \A i \in Instances(g) : i \in Instances(Updated(g, r, w)) \/ i \in Shrunk(g, r)
           /\ Grown(g, r) \subseteq Instances(Updated(g, r, w))
           /\ Grown(g, r) \cap Instances(g) = {}
           /\ Shrunk(g, r) \subseteq Instances(g)
           /\ Shrunk(g, r) \cap Instances(Updated(g, r, w)) = {}
           /\ Updated(g, r, w).status = (IF r.status = Unset THEN g.status ELSE r.status)
<1> DEFINE u == Updated(g, r, w)
<1>1. ResizedChilds(g, r, w) \in [Slots -> Pids \cup {NULL, WILD}]
  BY DEF ResizedChilds, Group
<1>2. Default(r.instances, Unset, g.instances) \in 1 .. MaxInst
  BY DEF Default, ValidUpdt, Group, Config, Unset
<1>3. Default(r.status, Unset, g.status) \in Int
  BY DEF Default, Group, Config
<1>4. Default(r.killsig, NULL, g.killsig) \in Signals \cup {NULL}
  BY DEF Default, Group, Config
<1>5. /\ ErrorReset(g, r) \in Nat
      /\ (g.heartbeat \/ r.heartbeat) \in BOOLEAN
      /\ (g.fatal \/ r.fatal) \in BOOLEAN
      /\ (IF r.age > 0 THEN r.age ELSE g.age) \in Int
  BY DEF Group, Config, ErrorReset
<1>6. u \in Group
  BY <1>1, <1>2, <1>3, <1>4, <1>5 DEF Updated, Group
<1>7. /\ u.childs = ResizedChilds(g, r, w)
      /\ u.instances = Default(r.instances, Unset, g.instances)
      /\ u.status = Default(r.status, Unset, g.status)
  BY DEF Updated, Group
<1>8. \A i \in Slots :
         u.childs[i] = IF i \in Grown(g, r)
                       THEN IF g.status = STATUS_RUNNING THEN w ELSE NULL
                       ELSE IF i \in Shrunk(g, r) THEN NULL ELSE g.childs[i]
  BY <1>7 DEF ResizedChilds
<1>9. /\ \A i \in Instances(g) : i \in Instances(u) \/ i \in Shrunk(g, r)
      /\ Grown(g, r) \subseteq Instances(u)
      /\ Grown(g, r) \cap Instances(g) = {}
      /\ Shrunk(g, r) \subseteq Instances(g)
      /\ Shrunk(g, r) \cap Instances(u) = {}
  BY <1>7 DEF Instances, Grown, Shrunk, Default, Unset, ValidUpdt, Group, Config
<1>10. u.status = (IF r.status = Unset THEN g.status ELSE r.status)
  BY <1>7 DEF Default
<1> QED BY <1>6, <1>8, <1>9, <1>10

\* The account of an exit empties the slot and keeps the size of the group.
LEMMA AfterExitType ==
    ASSUME NEW g \in Group, NEW i \in Instances(g), NEW cause, NEW expired \in BOOLEAN
    PROVE  /\ AfterExit(g, i, cause, expired) \in Group
           /\ AfterExit(g, i, cause, expired).childs = [g.childs EXCEPT ![i] = NULL]
           /\ AfterExit(g, i, cause, expired).instances = g.instances
           /\ AfterExit(g, i, cause, expired).heartbeat = g.heartbeat
           /\ AfterExit(g, i, cause, expired).fatal = g.fatal
           /\ AfterExit(g, i, cause, expired).status \in {g.status, STATUS_BROKEN}
<1> DEFINE e == EmptySlot(g, i)
           c == [e EXCEPT !.error = Errors(e, expired), !.stamped = TRUE]
<1>1. i \in Slots
  BY InstancesAreSlots
<1>2. e = [g EXCEPT !.childs[i] = NULL]
  BY DEF EmptySlot
<1>3. /\ e \in Group /\ e.childs = [g.childs EXCEPT ![i] = NULL]
      /\ e.instances = g.instances /\ e.status = g.status
      /\ e.heartbeat = g.heartbeat /\ e.fatal = g.fatal
  BY <1>1, <1>2 DEF Group
<1>4. Errors(e, expired) \in Nat
  BY <1>3 DEF Errors, Group
<1>5. /\ c \in Group /\ c.childs = e.childs /\ c.instances = e.instances
      /\ c.status = e.status /\ c.heartbeat = e.heartbeat /\ c.fatal = e.fatal
  BY <1>3, <1>4 DEF Group
<1>6. CountError(e, expired) \in {c, [c EXCEPT !.status = STATUS_BROKEN]}
  BY DEF CountError
<1>7. AfterExit(g, i, cause, expired) \in {e, c, [c EXCEPT !.status = STATUS_BROKEN]}
  BY <1>6 DEF AfterExit
<1> HIDE DEF e, c
<1> QED BY <1>3, <1>5, <1>7 DEF Group, STATUS_BROKEN

\* An exit breaks the group exactly if Breaks says so; else the status stays.
LEMMA AfterExitStatus ==
    ASSUME NEW g \in Group, NEW i \in Instances(g), NEW cause, NEW expired \in BOOLEAN
    PROVE  /\ Breaks(g, i, cause, expired) =>
                 AfterExit(g, i, cause, expired).status = STATUS_BROKEN
           /\ ~Breaks(g, i, cause, expired) =>
                 AfterExit(g, i, cause, expired).status = g.status
<1> DEFINE e == [g EXCEPT !.childs[i] = NULL]
           c == [e EXCEPT !.error = Errors(e, expired), !.stamped = TRUE]
           b == [c EXCEPT !.status = STATUS_BROKEN]
<1>1. EmptySlot(g, i) = e
  BY DEF EmptySlot
<1>2. e \in Group /\ e.status = g.status
  BY InstancesAreSlots DEF Group
<1>3. Errors(e, expired) \in Nat
  BY <1>2 DEF Errors, Group
<1>4. c \in Group /\ c.status = g.status
  BY <1>2, <1>3 DEF Group
<1>5. b.status = STATUS_BROKEN /\ b.error = c.error /\ b.instances = c.instances
  BY <1>4 DEF Group
<1>6. CountError(e, expired) = IF TooManyErrors(c) THEN b ELSE c
  BY DEF CountError
<1>7. TooManyErrors(CountError(e, expired)) <=> TooManyErrors(c)
  BY <1>5, <1>6 DEF TooManyErrors
<1> HIDE DEF b, c, e
<1>8. CASE exit_is_error(cause, g)
  BY <1>1, <1>4, <1>5, <1>6, <1>7, <1>8 DEF AfterExit, Breaks
<1>9. CASE ~exit_is_error(cause, g)
  BY <1>1, <1>2, <1>9 DEF AfterExit, Breaks
<1> QED BY <1>8, <1>9

\* An error is counted, and breaks the group when there are too many.
LEMMA CountErrorGroup ==
    ASSUME NEW g \in Group, NEW expired \in BOOLEAN
    PROVE  LET k == Errors(g, expired)
               h == CountError(g, expired)
           IN  /\ k \in Nat
               /\ h \in Group /\ h.error = k /\ h.stamped = TRUE /\ h.instances = g.instances
               /\ k >= ErrorMax * g.instances => h.status = STATUS_BROKEN
               /\ ~(k >= ErrorMax * g.instances) => h.status = g.status
<1> DEFINE k == Errors(g, expired)
           c == [g EXCEPT !.error = k, !.stamped = TRUE]
           b == [c EXCEPT !.status = STATUS_BROKEN]
<1>1. k \in Nat
  BY DEF Errors, Group
<1> HIDE DEF k
<1>2. /\ c \in Group /\ c.error = k /\ c.stamped = TRUE
      /\ c.instances = g.instances /\ c.status = g.status
  BY <1>1 DEF Group
<1> HIDE DEF c
<1>3. /\ b \in Group /\ b.error = k /\ b.stamped = TRUE
      /\ b.instances = g.instances /\ b.status = STATUS_BROKEN
  BY <1>2 DEF Group, STATUS_BROKEN
<1>4. CountError(g, expired) = IF TooManyErrors(c) THEN b ELSE c
  BY DEF CountError, c, k
<1>5. TooManyErrors(c) <=> k >= ErrorMax * g.instances
  BY <1>2 DEF TooManyErrors
<1> HIDE DEF b
<1>6. CASE k >= ErrorMax * g.instances
  <2>1. CountError(g, expired) = b
    BY <1>4, <1>5, <1>6
  <2> QED BY <1>1, <1>3, <1>6, <2>1 DEF k
<1>7. CASE ~(k >= ErrorMax * g.instances)
  <2>1. CountError(g, expired) = c
    BY <1>4, <1>5, <1>7
  <2> QED BY <1>1, <1>2, <1>7, <2>1 DEF k
<1> QED BY <1>6, <1>7
==============================================================================
