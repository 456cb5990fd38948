----------------------------- MODULE ErrorWindow -----------------------------
(***************************************************************************)
(* The error counter of one group with the clock in it: when do failing    *)
(* processes make the server give a group up?  Supervisor.tla leaves the   *)
(* clock out and lets `expired' be anything; here it is what sigchld_cb    *)
(* computes from cc_errtime, and a log of the errors since the status was  *)
(* last set tells what the counter should amount to.                       *)
(*                                                                         *)
(* The group record and everything done to it come from ChildConfig.  Its  *)
(* processes are only counted: a running group always has all of them      *)
(* (FullStrength of Supervisor.tla), another one those that are left.      *)
(***************************************************************************)
EXTENDS ChildConfig, Sequences

CONSTANTS Period,     \* ERROR_PERIOD
          MaxTime,    \* bound on the clock
          MaxErrors,  \* bound on the errors between two changes of the status
          Start,      \* the request that created the group
          Updates     \* the updates clients send

ASSUME ClockAssumption == Period \in Nat \ {0} /\ MaxTime \in Nat /\ MaxErrors \in Nat
ASSUME UpdatesAssumption == Updates \subseteq Config /\ Start \in Config /\ ValidSpwn(Start)

VARIABLES now,      \* time(NULL)
          g,        \* the group
          errtime,  \* cc_errtime, 0 before the first error
          live,     \* number of its processes
          log,      \* when they failed, since the status was last set
          size      \* the instances the group had then

vars == <<now, g, errtime, live, log, size>>

TypeOK == /\ now \in Nat \ {0}
          /\ g \in Group
          /\ errtime \in Nat
          /\ live \in 0 .. MaxInst
          /\ log \in Seq(Nat)
          /\ size \in 1 .. MaxInst

Limit == ErrorMax * g.instances

Init == /\ now = 1
        /\ g = SpwnGroup(Start)
        /\ errtime = 0
        /\ live = IF g.status = STATUS_RUNNING THEN g.instances ELSE 0
        /\ log = << >>
        /\ size = g.instances

Expired_Off(t) == errtime + Period <= t

\* The counter starts again: the last error is too long ago.
Expired(t) == errtime + Period < t

\* A process fails: exit_is_error in sigchld_cb.
ErrorExit ==
    /\ live > 0 /\ Len(log) < MaxErrors
    /\ g' = CountError(g, Expired(now))
    /\ errtime' = now
    /\ log' = Append(log, now)
    /\ live' = IF g'.status = STATUS_RUNNING THEN live ELSE live - 1
    /\ UNCHANGED <<now, size>>

\* A process ends without an error; a running group replaces it.
CleanExit ==
    /\ live > 0 /\ g.status # STATUS_RUNNING
    /\ live' = live - 1
    /\ UNCHANGED <<now, g, errtime, log, size>>

\* c_updt; without failing forks a running group has all its instances.
\* Instances that are taken away may be running or not.
Update(r) ==
    /\ ValidUpdt(r)
    /\ g' = Updated(g, r, NULL)
    /\ live' \in IF g.status = STATUS_RUNNING \/ g'.status = STATUS_RUNNING
                 THEN {g'.instances}
                 ELSE {k \in 0 .. live : k <= g'.instances /\ live - k <= g.instances - g'.instances}
                      \cup (IF g'.instances >= g.instances THEN {live} ELSE {})
    /\ log' = IF StatusChanges(g, r) THEN << >> ELSE log
    /\ size' = IF StatusChanges(g, r) THEN g'.instances ELSE size
    /\ UNCHANGED <<now, errtime>>

Tick == /\ now < MaxTime
        /\ now' = now + 1
        /\ UNCHANGED <<g, errtime, live, log, size>>

Next == ErrorExit \/ CleanExit \/ Tick \/ \E r \in Updates : Update(r)

Spec == Init /\ [][Next]_vars

-----------------------------------------------------------------------------
\* The last k errors, as indices of log.
Last(k) == Len(log) - k + 1 .. Len(log)

(* The counter is the length of the last run of errors without a pause of  *)
(* more than ERROR_PERIOD between two of them: what sigchld_cb computes    *)
(* with one number and one time stamp (cmd_server.c:807-811).              *)
CounterIsLastRun ==
    /\ g.error <= Len(log)
    /\ \A i \in Last(g.error) \ {Len(log) - g.error + 1} : log[i] - log[i - 1] <= Period
    /\ 0 < g.error /\ g.error < Len(log) =>
          log[Len(log) - g.error + 1] - log[Len(log) - g.error] > Period

(* No burst is missed: when ERROR_MAX * instances errors have come within  *)
(* ERROR_PERIOD seconds, the last of them has broken the group, however    *)
(* they lie in time and whatever came before them.                         *)
BurstBreaks ==
    [][log' # log /\ Len(log') >= Limit
         /\ log'[Len(log')] - log'[Len(log') - Limit + 1] <= Period
         => g'.status = STATUS_BROKEN]_vars

(* The server does not give a group up for old errors: it breaks only when *)
(* the last ERROR_MAX * instances errors since the status was set follow   *)
(* each other within ERROR_PERIOD seconds.                                 *)
BreaksOnlySteadily ==
    [][g.status # STATUS_BROKEN /\ g'.status = STATUS_BROKEN /\ Len(log') > Len(log)
         => /\ Len(log') >= Limit
            /\ \A i \in Len(log') - Limit + 2 .. Len(log') : log'[i] - log'[i - 1] <= Period]_vars

(* Stopping a group and killing what is left of it (deaths from the kill   *)
(* signal count as errors) leaves it stopped, for ERROR_MAX > 1 and unless *)
(* instances have been taken away since: the limit on cc_error shrinks     *)
(* with the group, cc_error does not (cmd_server.c:813).                   *)
StoppedStaysStopped ==
    [][g.status = STATUS_STOPPED /\ g'.status # STATUS_STOPPED
         => log' = << >> \/ g.instances < size]_vars

(* "if there are more then (ERROR_MAX * instances) spawn errors over a     *)
(* period of ERROR_PERIOD seconds, mark a process group broken"            *)
(* (cmd_server.c:134-135): a group is only marked broken for errors of one *)
(* period.  (Here: at least that many, because line 813 compares with >=.) *)
(* Each error extends the period (line 811), so slow ones add up.          *)
BrokenOnlyByBurst ==
    [][g.status # STATUS_BROKEN /\ g'.status = STATUS_BROKEN /\ log' # log
         => /\ Len(log') >= Limit
            /\ log'[Len(log')] - log'[Len(log') - Limit + 1] <= Period]_vars
=============================================================================
