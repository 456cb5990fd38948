-------------------------- MODULE ErrorWindowProofs --------------------------
(***************************************************************************)
(* Theorems about ErrorWindow.tla, for every ERROR_PERIOD, ERROR_MAX and   *)
(* number of instances, however long the clock runs and whatever clients   *)
(* send.                                                                   *)
(***************************************************************************)
EXTENDS ErrorWindow, ChildConfigProofs

\* The errors are logged in the order of time ...
Sorted == \A i, j \in 1 .. Len(log) : i <= j => log[i] <= log[j]

\* ... and cc_errtime is the time of the last one, unless the log has been
\* emptied since.
Stamps == /\ \A i \in 1 .. Len(log) : log[i] \in 1 .. now
          /\ g.stamped <=> errtime # 0
          /\ Len(log) > 0 => errtime = log[Len(log)]

\* A group counts from 1 once it has logged an error.
Counts == Len(log) = 0 <=> g.error = 0

\* What is left of a stopped group can still fail, but only once each.
Alive == /\ live <= g.instances
         /\ g.status = STATUS_STOPPED => Len(log) + live <= size

IInv == TypeOK /\ Sorted /\ Stamps /\ Counts /\ CounterIsLastRun /\ Alive

-----------------------------------------------------------------------------
(* The steps. *)

\* ErrorExit in terms of the counter, the log and the limit.
LEMMA ErrorExitStep ==
    ASSUME IInv, ErrorExit
    PROVE  /\ g' \in Group /\ g'.instances = g.instances /\ g'.stamped = TRUE
           /\ g'.error = IF Expired(now) \/ errtime = 0 THEN 1 ELSE g.error + 1
           /\ g'.error >= Limit => g'.status = STATUS_BROKEN
           /\ ~(g'.error >= Limit) => g'.status = g.status
           /\ now' = now /\ now \in Nat \ {0} /\ errtime' = now /\ size' = size
           /\ log \in Seq(Nat) /\ log' \in Seq(Nat) /\ Len(log') = Len(log) + 1
           /\ \A i \in 1 .. Len(log) : log'[i] = log[i]
           /\ log'[Len(log')] = now
           /\ live > 0 /\ live' \in {live, live - 1}
           /\ g'.status # STATUS_RUNNING => live' = live - 1
<1>1. /\ g \in Group /\ now \in Nat \ {0} /\ errtime \in Nat /\ log \in Seq(Nat)
      /\ g.stamped <=> errtime # 0
  BY DEF IInv, TypeOK, Stamps
<1>2. /\ g' = CountError(g, Expired(now)) /\ log' = Append(log, now)
      /\ errtime' = now /\ now' = now /\ size' = size /\ live > 0
      /\ live' = IF g'.status = STATUS_RUNNING THEN live ELSE live - 1
  BY DEF ErrorExit
<1>3. Expired(now) \in BOOLEAN
  BY DEF Expired
<1>4. Errors(g, Expired(now)) = IF Expired(now) \/ errtime = 0 THEN 1 ELSE g.error + 1
  BY <1>1 DEF Errors
<1>5. /\ g' \in Group /\ g'.error = Errors(g, Expired(now)) /\ g'.stamped = TRUE
      /\ g'.instances = g.instances
      /\ Errors(g, Expired(now)) >= Limit => g'.status = STATUS_BROKEN
      /\ ~(Errors(g, Expired(now)) >= Limit) => g'.status = g.status
  BY <1>1, <1>2, <1>3, CountErrorGroup DEF Limit
<1>6. /\ log' \in Seq(Nat) /\ Len(log') = Len(log) + 1
      /\ \A i \in 1 .. Len(log) : log'[i] = log[i]
      /\ log'[Len(log')] = now
  BY <1>1, <1>2
<1> QED BY <1>1, <1>2, <1>4, <1>5, <1>6

\* The counter and the log go on together.
LEMMA ErrorExitCounts ==
    ASSUME IInv, ErrorExit
    PROVE  Counts' /\ CounterIsLastRun'
<1> DEFINE k == g.error
           n == Len(log)
           e == g'.error
<1>1. /\ e = IF Expired(now) \/ errtime = 0 THEN 1 ELSE k + 1
      /\ Len(log') = n + 1 /\ now \in Nat
      /\ \A i \in 1 .. n : log'[i] = log[i]
      /\ log'[n + 1] = now
  BY ErrorExitStep
<1>2. /\ k \in Nat /\ n \in Nat /\ \A i \in 1 .. n : log[i] \in 1 .. now
      /\ n > 0 => errtime = log[n]
      /\ n = 0 <=> k = 0
      /\ k <= n
      /\ \A i \in (n - k + 1 .. n) \ {n - k + 1} : log[i] - log[i - 1] <= Period
      /\ 0 < k /\ k < n => log[n - k + 1] - log[n - k] > Period
      /\ errtime \in Nat /\ Period \in Nat
  BY ClockAssumption DEF IInv, TypeOK, Group, Stamps, Counts, CounterIsLastRun, Last
<1>3. n > 0 => errtime # 0
  BY <1>2
<1> DEFINE Goal(m) == /\ e <= m
                      /\ \A i \in (m - e + 1 .. m) \ {m - e + 1} :
                            log'[i] - log'[i - 1] <= Period
                      /\ 0 < e /\ e < m => log'[m - e + 1] - log'[m - e] > Period
<1>4. ASSUME Expired(now) \/ errtime = 0 PROVE Goal(n + 1)
  <2>1. e = 1
    BY <1>1, <1>4
  <2>2. n > 0 => now - log[n] > Period
    BY <1>1, <1>2, <1>3, <1>4 DEF Expired
  <2> HIDE DEF e, n, k
  <2> QED BY <1>1, <1>2, <2>1, <2>2
<1>5. ASSUME ~(Expired(now) \/ errtime = 0) PROVE Goal(n + 1)
  <2>1. e = k + 1
    BY <1>1, <1>5
  <2>2. n > 0 => now - log[n] <= Period
    BY <1>1, <1>2, <1>5 DEF Expired
  <2> HIDE DEF e, n, k
  <2>3. ASSUME NEW i \in (n + 1 - e + 1 .. n + 1) \ {n + 1 - e + 1}
        PROVE  log'[i] - log'[i - 1] <= Period
    <3>1. CASE i = n + 1
      <4>1. n > 0 /\ log'[i - 1] = log[n]
        BY <1>1, <1>2, <2>1, <2>3, <3>1
      <4> QED BY <1>1, <2>2, <3>1, <4>1
    <3>2. CASE i # n + 1
      <4>1. i \in 1 .. n /\ i - 1 \in 1 .. n /\ i \in (n - k + 1 .. n) \ {n - k + 1}
        BY <1>2, <2>1, <2>3, <3>2
      <4> QED BY <1>1, <1>2, <4>1
    <3> QED BY <3>1, <3>2
  <2>4. 0 < e /\ e < n + 1 => log'[n + 1 - e + 1] - log'[n + 1 - e] > Period
    <3>1. SUFFICES ASSUME 0 < e, e < n + 1 PROVE log'[n + 1 - e + 1] - log'[n + 1 - e] > Period
      OBVIOUS
    <3>2. k < n /\ 0 < k /\ n - k + 1 \in 1 .. n /\ n - k \in 1 .. n
          /\ n + 1 - e = n - k /\ n + 1 - e + 1 = n - k + 1
      BY <1>2, <2>1, <3>1
    <3> QED BY <1>1, <1>2, <3>2
  <2> QED BY <1>2, <2>1, <2>3, <2>4
<1>6. e # 0 /\ n + 1 # 0
  BY <1>1, <1>2
<1>7. Goal(n + 1)
  BY <1>4, <1>5
<1>8. Counts'
  BY <1>1, <1>6 DEF Counts
<1>9. Len(log') = n + 1
  BY <1>1
<1>10. CounterIsLastRun'
  <2>1. Goal(Len(log'))
    <3> HIDE DEF Goal, n
    <3> QED BY <1>7, <1>9
  <2> QED BY <2>1 DEF CounterIsLastRun, Last
<1> QED BY <1>8, <1>10

LEMMA ErrorExitIInv ==
    ASSUME IInv, ErrorExit
    PROVE  IInv'
<1>1. /\ g' \in Group /\ g'.instances = g.instances /\ g'.stamped = TRUE
      /\ g'.error >= Limit => g'.status = STATUS_BROKEN
      /\ ~(g'.error >= Limit) => g'.status = g.status
      /\ now' = now /\ now \in Nat \ {0} /\ errtime' = now /\ size' = size
      /\ log \in Seq(Nat) /\ log' \in Seq(Nat) /\ Len(log') = Len(log) + 1
      /\ \A i \in 1 .. Len(log) : log'[i] = log[i]
      /\ log'[Len(log')] = now
      /\ live > 0 /\ live' \in {live, live - 1}
      /\ g'.status # STATUS_RUNNING => live' = live - 1
  BY ErrorExitStep
<1>2. live \in 0 .. MaxInst /\ size \in 1 .. MaxInst /\ MaxInst \in Nat /\ g.instances \in Nat
  BY BoundsAssumption DEF IInv, TypeOK, Group
<1>3. TypeOK'
  BY <1>1, <1>2 DEF TypeOK
<1>4. \A i \in 1 .. Len(log) : log[i] \in 1 .. now
  BY DEF IInv, Stamps
<1>5. \A i \in 1 .. Len(log') : log'[i] \in 1 .. now' /\ log'[i] <= log'[Len(log')]
  <2> SUFFICES ASSUME NEW i \in 1 .. Len(log')
               PROVE  log'[i] \in 1 .. now' /\ log'[i] <= log'[Len(log')]
    OBVIOUS
  <2>1. CASE i = Len(log')
    BY <1>1, <2>1
  <2>2. CASE i # Len(log')
    <3>1. i \in 1 .. Len(log)
      BY <1>1, <2>2
    <3> QED BY <1>1, <1>4, <3>1
  <2> QED BY <2>1, <2>2
<1>6. Sorted'
  <2> SUFFICES ASSUME NEW i \in 1 .. Len(log'), NEW j \in 1 .. Len(log'), i <= j
               PROVE  log'[i] <= log'[j]
    BY DEF Sorted
  <2>1. CASE j = Len(log')
    BY <1>5, <2>1
  <2>2. CASE j # Len(log')
    <3>1. i \in 1 .. Len(log) /\ j \in 1 .. Len(log)
      BY <1>1, <2>2
    <3> QED BY <1>1, <3>1 DEF IInv, Sorted
  <2> QED BY <2>1, <2>2
<1>7. Stamps'
  BY <1>1, <1>5 DEF Stamps
<1>8. Alive'
  <2>1. live' <= g'.instances
    BY <1>1, <1>2 DEF IInv, Alive
  <2>2. ASSUME g'.status = STATUS_STOPPED PROVE Len(log') + live' <= size'
    <3>1. g.status = STATUS_STOPPED /\ live' = live - 1
      BY <1>1, <2>2 DEF STATUS_STOPPED, STATUS_RUNNING, STATUS_BROKEN
    <3> QED BY <1>1, <1>2, <3>1 DEF IInv, Alive
  <2> QED BY <2>1, <2>2 DEF Alive
<1> QED BY <1>3, <1>6, <1>7, <1>8, ErrorExitCounts DEF IInv

\* Update in the same terms.
LEMMA UpdateFields ==
    ASSUME IInv, NEW r \in Updates, Update(r)
    PROVE  /\ r \in Config /\ ValidUpdt(r) /\ g \in Group /\ g' \in Group
           /\ g'.instances \in 1 .. MaxInst /\ g'.stamped = g.stamped
           /\ now' = now /\ errtime' = errtime
           /\ StatusChanges(g, r) => /\ g'.status = r.status /\ g'.error = 0
                                     /\ log' = << >> /\ size' = g'.instances
           /\ ~StatusChanges(g, r) => /\ g'.status = g.status /\ g'.error = g.error
                                      /\ log' = log /\ size' = size
<1>1. r \in Config /\ ValidUpdt(r) /\ g \in Group /\ g' = Updated(g, r, NULL)
  BY UpdatesAssumption DEF Update, IInv, TypeOK
<1>2. /\ g' \in Group
      /\ g'.status = (IF r.status = Unset THEN g.status ELSE r.status)
  BY <1>1, UpdatedType
<1>3. g'.error = ErrorReset(g, r) /\ g'.stamped = g.stamped
  BY <1>1 DEF Updated, Group
<1>4. /\ log' = IF StatusChanges(g, r) THEN << >> ELSE log
      /\ size' = IF StatusChanges(g, r) THEN g'.instances ELSE size
      /\ now' = now /\ errtime' = errtime
  BY DEF Update
<1>5. g'.instances \in 1 .. MaxInst
  BY <1>2 DEF Group
<1>6. CASE StatusChanges(g, r)
  BY <1>1, <1>2, <1>3, <1>4, <1>5, <1>6 DEF StatusChanges, ErrorReset
<1>7. CASE ~StatusChanges(g, r)
  <2>1. g'.status = g.status
    BY <1>2, <1>7 DEF StatusChanges
  <2> QED BY <1>1, <1>2, <1>3, <1>4, <1>5, <1>7, <2>1 DEF ErrorReset
<1> QED BY <1>6, <1>7

\* The processes an update leaves fit in the group, and in a group that was
\* not running it adds none unless it sets the group running.
LEMMA UpdateLive ==
    ASSUME IInv, NEW r \in Updates, Update(r)
    PROVE  /\ live' \in 0 .. MaxInst /\ live' <= g'.instances
           /\ g.status # STATUS_RUNNING /\ g'.status # STATUS_RUNNING => live' <= live
<1>1. g'.instances \in 1 .. MaxInst /\ MaxInst \in Nat /\ g.instances \in 1 .. MaxInst
  BY UpdateFields, BoundsAssumption DEF Group
<1>2. live \in 0 .. MaxInst /\ live <= g.instances
  BY DEF IInv, TypeOK, Alive
<1>3. CASE g.status = STATUS_RUNNING \/ g'.status = STATUS_RUNNING
  <2>1. live' = g'.instances
    BY <1>3 DEF Update
  <2> QED BY <1>1, <1>3, <2>1
<1>4. CASE ~(g.status = STATUS_RUNNING \/ g'.status = STATUS_RUNNING)
  <2>1. live' \in {k \in 0 .. live : k <= g'.instances /\ live - k <= g.instances - g'.instances}
                    \cup (IF g'.instances >= g.instances THEN {live} ELSE {})
    BY <1>4 DEF Update
  <2>2. \/ live' \in 0 .. live /\ live' <= g'.instances
        \/ g'.instances >= g.instances /\ live' = live
    BY <2>1
  <2> QED BY <1>1, <1>2, <2>2
<1> QED BY <1>3, <1>4

LEMMA UpdateIInv ==
    ASSUME IInv, NEW r \in Updates, Update(r)
    PROVE  IInv'
<1>1. /\ g \in Group /\ g' \in Group
      /\ g'.instances \in 1 .. MaxInst /\ (g'.stamped <=> g.stamped)
      /\ now' = now /\ errtime' = errtime
      /\ StatusChanges(g, r) => /\ g'.status = r.status /\ g'.error = 0
                                /\ log' = << >> /\ size' = g'.instances
      /\ ~StatusChanges(g, r) => /\ g'.status = g.status /\ g'.error = g.error
                                 /\ log' = log /\ size' = size
  BY UpdateFields
<1>2. /\ live' \in 0 .. MaxInst /\ live' <= g'.instances /\ live' \in Nat
      /\ g.status # STATUS_RUNNING /\ g'.status # STATUS_RUNNING => live' <= live
  BY UpdateLive, BoundsAssumption
<1>3. g'.stamped <=> errtime' # 0
  BY <1>1 DEF IInv, Stamps
<1>4. CASE StatusChanges(g, r)
  <2>1. log' = << >> /\ Len(log') = 0 /\ g'.error = 0 /\ size' = g'.instances
    BY <1>1, <1>4
  <2>2. TypeOK'
    BY <1>1, <1>2, <2>1 DEF IInv, TypeOK
  <2>3. Sorted' /\ Stamps' /\ Counts'
    BY <1>3, <2>1 DEF Sorted, Stamps, Counts
  <2>4. CounterIsLastRun'
    BY <2>1 DEF CounterIsLastRun, Last
  <2>5. Alive'
    BY <1>1, <1>2, <2>1 DEF Alive
  <2> QED BY <2>2, <2>3, <2>4, <2>5 DEF IInv
<1>5. CASE ~StatusChanges(g, r)
  <2>1. log' = log /\ g'.error = g.error /\ size' = size /\ g'.status = g.status
    BY <1>1, <1>5
  <2>2. TypeOK'
    BY <1>1, <1>2, <2>1 DEF IInv, TypeOK
  <2>3. Sorted' /\ Counts'
    BY <2>1 DEF IInv, Sorted, Counts
  <2>4. Stamps'
    BY <1>1, <1>3, <2>1 DEF IInv, Stamps
  <2>5. CounterIsLastRun'
    BY <2>1 DEF IInv, CounterIsLastRun, Last
  <2>6. Alive'
    <3>1. Len(log') + live \in Int /\ Len(log) \in Nat /\ live \in Nat /\ size \in Int
      BY <2>1, BoundsAssumption DEF IInv, TypeOK
    <3>2. g.status = STATUS_STOPPED => Len(log) + live <= size
      BY DEF IInv, Alive
    <3> QED BY <1>2, <2>1, <3>1, <3>2 DEF Alive, STATUS_STOPPED, STATUS_RUNNING
  <2> QED BY <2>2, <2>3, <2>4, <2>5, <2>6 DEF IInv
<1> QED BY <1>4, <1>5

LEMMA InitIInv == Init => IInv
<1> SUFFICES ASSUME Init PROVE IInv
  OBVIOUS
<1>1. Start \in Config /\ Default(Start.instances, Unset, 1) \in 1 .. MaxInst
  BY UpdatesAssumption DEF ValidSpwn
<1>2. Start.status \in Int /\ Start.killsig \in Signals \cup {NULL}
  BY <1>1 DEF Config
<1>3. g \in Group /\ g.error = 0 /\ g.stamped = FALSE /\ g.instances \in 1 .. MaxInst
  <2>1. g = SpwnGroup(Start)
    BY DEF Init
  <2>2. g \in Group
    BY <1>1, <1>2, <2>1, NewGroupType DEF SpwnGroup
  <2>3. g.error = 0 /\ g.stamped = FALSE
    BY <2>1 DEF SpwnGroup, NewGroup
  <2> QED BY <2>2, <2>3 DEF Group
<1>4. /\ now = 1 /\ errtime = 0 /\ log = << >> /\ Len(log) = 0 /\ size = g.instances
      /\ live \in {0, g.instances} /\ (g.status = STATUS_STOPPED => live = 0)
  BY DEF Init, STATUS_STOPPED, STATUS_RUNNING
<1>5. TypeOK
  BY <1>3, <1>4, BoundsAssumption DEF TypeOK
<1>6. Sorted /\ Stamps /\ Counts
  BY <1>3, <1>4 DEF Sorted, Stamps, Counts
<1>7. CounterIsLastRun
  BY <1>3, <1>4 DEF CounterIsLastRun, Last
<1>8. Alive
  BY <1>3, <1>4, BoundsAssumption DEF Alive
<1> QED BY <1>5, <1>6, <1>7, <1>8 DEF IInv

LEMMA NextIInv == IInv /\ [Next]_vars => IInv'
<1> SUFFICES ASSUME IInv, [Next]_vars PROVE IInv'
  OBVIOUS
<1>1. CASE UNCHANGED vars
  BY <1>1 DEF vars, IInv, TypeOK, Sorted, Stamps, Counts, CounterIsLastRun, Last, Alive
<1>2. CASE ErrorExit
  BY <1>2, ErrorExitIInv
<1>3. CASE CleanExit
  <2>1. /\ live > 0 /\ live' = live - 1
        /\ now' = now /\ g' = g /\ errtime' = errtime /\ log' = log /\ size' = size
    BY <1>3 DEF CleanExit
  <2>2. live \in 0 .. MaxInst /\ MaxInst \in Nat /\ Len(log) \in Nat /\ g.instances \in Int
        /\ size \in Int
    BY BoundsAssumption DEF IInv, TypeOK, Group
  <2>3. TypeOK'
    BY <2>1, <2>2 DEF IInv, TypeOK
  <2>4. Sorted' /\ Stamps' /\ Counts' /\ CounterIsLastRun'
    BY <2>1 DEF IInv, Sorted, Stamps, Counts, CounterIsLastRun, Last
  <2>5. Alive'
    BY <2>1, <2>2 DEF IInv, Alive
  <2> QED BY <2>3, <2>4, <2>5 DEF IInv
<1>4. CASE Tick
  <2>1. /\ now' = now + 1 /\ now \in Nat
        /\ g' = g /\ errtime' = errtime /\ log' = log /\ size' = size /\ live' = live
    BY <1>4 DEF Tick, IInv, TypeOK
  <2>2. TypeOK'
    BY <2>1 DEF IInv, TypeOK
  <2>3. Sorted' /\ Counts' /\ CounterIsLastRun' /\ Alive'
    BY <2>1 DEF IInv, Sorted, Counts, CounterIsLastRun, Last, Alive
  <2>4. Stamps'
    BY <2>1 DEF IInv, Stamps
  <2> QED BY <2>2, <2>3, <2>4 DEF IInv
<1>5. ASSUME NEW r \in Updates, Update(r) PROVE IInv'
  BY <1>5, UpdateIInv
<1> QED BY <1>1, <1>2, <1>3, <1>4, <1>5 DEF Next

-----------------------------------------------------------------------------
(* Type correctness: counting, expiring, resetting and resizing leave the  *)
(* counter a number and the group one that the server can keep.            *)
THEOREM WindowTypeCorrect == Spec => []TypeOK
<1>1. IInv => TypeOK
  BY DEF IInv
<1> QED BY <1>1, InitIInv, NextIInv, PTL DEF Spec

(* What sigchld_cb keeps in one number and one time stamp is at every      *)
(* moment the length of the last run of errors without a pause of more     *)
(* than ERROR_PERIOD between two of them (cmd_server.c:807-811).           *)
THEOREM CountsTheLastRun == Spec => []CounterIsLastRun
<1>1. IInv => CounterIsLastRun
  BY DEF IInv
<1> QED BY <1>1, InitIInv, NextIInv, PTL DEF Spec

\* ERROR_MAX * instances is a number, and at least one.
LEMMA LimitType ==
    ASSUME IInv
    PROVE  Limit \in Nat \ {0}
<1>1. g.instances \in Nat \ {0} /\ ErrorMax \in Nat \ {0}
  BY BoundsAssumption DEF IInv, TypeOK, Group
<1> QED BY <1>1 DEF Limit

\* A run of the log that lies within the period has no pause in it, so the
\* counter has reached its length.
LEMMA BurstStep ==
    ASSUME IInv, [Next]_vars, log' # log, Len(log') >= Limit,
           log'[Len(log')] - log'[Len(log') - Limit + 1] <= Period
    PROVE  g'.status = STATUS_BROKEN
<1>0. Limit \in Nat \ {0}
  BY LimitType
<1>1. ASSUME NEW r \in Updates, Update(r) PROVE FALSE
  <2>1. log' = << >>
    BY <1>1, UpdateFields
  <2> QED BY <1>0, <2>1
<1>2. ErrorExit
  BY <1>1 DEF Next, CleanExit, Tick, vars
<1> DEFINE m == Len(log')
           e == g'.error
<1>3. e >= Limit => g'.status = STATUS_BROKEN
  BY <1>2, ErrorExitStep
<1>4. /\ e \in Nat /\ m \in Nat /\ Period \in Nat /\ (m = 0 <=> e = 0)
      /\ \A i \in 1 .. m : log'[i] \in Nat
      /\ \A i, j \in 1 .. m : i <= j => log'[i] <= log'[j]
      /\ 0 < e /\ e < m => log'[m - e + 1] - log'[m - e] > Period
  <2>1. TypeOK' /\ Sorted' /\ Counts' /\ CounterIsLastRun'
    BY NextIInv DEF IInv
  <2>2. e \in Nat /\ log' \in Seq(Nat)
    BY <2>1 DEF TypeOK, Group
  <2>3. m \in Nat /\ \A i \in 1 .. m : log'[i] \in Nat
    BY <2>2
  <2>4. m = 0 <=> e = 0
    BY <2>1 DEF Counts
  <2>5. \A i, j \in 1 .. m : i <= j => log'[i] <= log'[j]
    BY <2>1 DEF Sorted
  <2>6. 0 < e /\ e < m => log'[m - e + 1] - log'[m - e] > Period
    BY <2>1 DEF CounterIsLastRun
  <2> QED BY <2>2, <2>3, <2>4, <2>5, <2>6, ClockAssumption
<1>5. m >= Limit /\ log'[m] - log'[m - Limit + 1] <= Period
  OBVIOUS
<1> HIDE DEF m, e
<1>6. ASSUME e < Limit PROVE FALSE
  <2>1. 0 < e /\ e < m
    BY <1>0, <1>4, <1>5, <1>6
  <2>2. /\ m - e + 1 \in 1 .. m /\ m - e \in 1 .. m /\ m - Limit + 1 \in 1 .. m /\ m \in 1 .. m
        /\ m - Limit + 1 <= m - e /\ m - e + 1 <= m
    BY <1>0, <1>4, <1>5, <1>6, <2>1
  <2>3. /\ log'[m - Limit + 1] <= log'[m - e] /\ log'[m - e + 1] <= log'[m]
        /\ log'[m - Limit + 1] \in Nat /\ log'[m - e] \in Nat
        /\ log'[m - e + 1] \in Nat /\ log'[m] \in Nat
    BY <1>4, <2>2
  <2> QED BY <1>4, <1>5, <2>1, <2>3, SMTT(20)
<1> QED BY <1>0, <1>3, <1>4, <1>6

(* No burst is missed: with one counter and one time stamp, ERROR_MAX *    *)
(* instances errors within ERROR_PERIOD seconds break the group, whatever  *)
(* came before them.                                                       *)
THEOREM NoBurstMissed == Spec => BurstBreaks
<1>1. IInv /\ [Next]_vars =>
        [log' # log /\ Len(log') >= Limit
           /\ log'[Len(log')] - log'[Len(log') - Limit + 1] <= Period
           => g'.status = STATUS_BROKEN]_vars
  BY BurstStep
<1> QED BY <1>1, InitIInv, NextIInv, PTL DEF Spec, BurstBreaks

LEMMA SteadyStep ==
    ASSUME IInv, [Next]_vars, g.status # STATUS_BROKEN, g'.status = STATUS_BROKEN,
           Len(log') > Len(log)
    PROVE  /\ Len(log') >= Limit
           /\ \A i \in Len(log') - Limit + 2 .. Len(log') : log'[i] - log'[i - 1] <= Period
<1>0. Limit \in Nat \ {0} /\ Len(log) \in Nat
  BY LimitType DEF IInv, TypeOK
<1>1. ASSUME NEW r \in Updates, Update(r) PROVE FALSE
  <2>1. log' = << >> \/ log' = log
    BY <1>1, UpdateFields
  <2> QED BY <1>0, <2>1
<1>2. ErrorExit
  BY <1>0, <1>1 DEF Next, CleanExit, Tick, vars
<1> DEFINE m == Len(log')
           e == g'.error
<1>3. e >= Limit
  BY <1>2, ErrorExitStep
<1>4. /\ e \in Nat /\ m \in Nat /\ e <= m
      /\ \A i \in (m - e + 1 .. m) \ {m - e + 1} : log'[i] - log'[i - 1] <= Period
  <2>1. TypeOK' /\ CounterIsLastRun'
    BY NextIInv DEF IInv
  <2>2. e \in Nat /\ log' \in Seq(Nat)
    BY <2>1 DEF TypeOK, Group
  <2>3. m \in Nat
    BY <2>2
  <2>4. e <= m /\ \A i \in (m - e + 1 .. m) \ {m - e + 1} : log'[i] - log'[i - 1] <= Period
    BY <2>1 DEF CounterIsLastRun, Last
  <2> QED BY <2>2, <2>3, <2>4
<1> HIDE DEF m, e
<1>5. m >= Limit
  BY <1>0, <1>3, <1>4
<1>6. \A i \in m - Limit + 2 .. m : i \in (m - e + 1 .. m) \ {m - e + 1}
  BY <1>0, <1>3, <1>4
<1> QED BY <1>4, <1>5, <1>6 DEF m

(* The server gives a group up only for a steady run of errors: the last   *)
(* ERROR_MAX * instances of them follow each other within ERROR_PERIOD.    *)
THEOREM OnlySteadyErrorsBreak == Spec => BreaksOnlySteadily
<1>1. IInv /\ [Next]_vars =>
        [g.status # STATUS_BROKEN /\ g'.status = STATUS_BROKEN /\ Len(log') > Len(log)
         => /\ Len(log') >= Limit
            /\ \A i \in Len(log') - Limit + 2 .. Len(log') : log'[i] - log'[i - 1] <= Period]_vars
  BY SteadyStep
<1> QED BY <1>1, InitIInv, NextIInv, PTL DEF Spec, BreaksOnlySteadily

LEMMA StoppedStep ==
    ASSUME ErrorMax > 1, IInv, [Next]_vars, g.status = STATUS_STOPPED, g'.status # STATUS_STOPPED
    PROVE  log' = << >> \/ g.instances < size
<1>1. ASSUME NEW r \in Updates, Update(r) PROVE log' = << >>
  BY <1>1, UpdateFields
<1>2. CASE ErrorExit
  <2>1. /\ g'.error >= Limit /\ Len(log') = Len(log) + 1 /\ live > 0
    BY <1>2, ErrorExitStep
  <2>2. g'.error <= Len(log') /\ g'.error \in Nat
    BY NextIInv DEF IInv, CounterIsLastRun, TypeOK, Group
  <2>3. /\ Len(log) \in Nat /\ live \in Nat /\ size \in Nat \ {0} /\ g.instances \in Nat
        /\ Len(log) + live <= size /\ ErrorMax \in Nat
    BY BoundsAssumption DEF IInv, TypeOK, Alive, Group
  <2>4. Limit >= 2 * g.instances
    <3>1. ErrorMax - 2 \in Nat
      BY <2>3
    <3>2. (ErrorMax - 2) * g.instances \in Nat
      BY <2>3, <3>1
    <3>3. ErrorMax * g.instances = (ErrorMax - 2) * g.instances + 2 * g.instances
      BY <2>3
    <3> QED BY <2>3, <3>2, <3>3 DEF Limit
  <2>5. Limit \in Nat
    BY LimitType
  <2>6. ASSUME g.instances >= size PROVE FALSE
    BY <2>1, <2>2, <2>3, <2>4, <2>5, <2>6
  <2> QED BY <2>3, <2>6
<1> QED BY <1>1, <1>2 DEF Next, CleanExit, Tick, vars

(* Stopping a group and killing what is left of it leaves it stopped: the  *)
(* deaths count as errors, but there are not enough of them, if ERROR_MAX  *)
(* is more than 1 (it is 6) and no instances have been taken away since.   *)
THEOREM StopIsNotBroken ==
    ASSUME ErrorMax > 1
    PROVE  Spec => StoppedStaysStopped
<1>1. IInv /\ [Next]_vars =>
        [g.status = STATUS_STOPPED /\ g'.status # STATUS_STOPPED
         => log' = << >> \/ g.instances < size]_vars
  BY StoppedStep
<1> QED BY <1>1, InitIInv, NextIInv, PTL DEF Spec, StoppedStaysStopped
=============================================================================
