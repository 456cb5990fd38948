---------------------------- MODULE MCSupervisor ----------------------------
(***************************************************************************)
(* Supervisor for TLC: requests to choose from, and the symmetry of pids   *)
(* (they are interchangeable; only used where no liveness is checked).     *)
(***************************************************************************)
EXTENDS SupervisorClaims, TLC

\* A request with every option left out, and one that starts a group.
Nothing == [instances |-> Unset, status |-> Unset, killsig |-> NULL, age |-> 0,
            heartbeat |-> FALSE, fatal |-> FALSE, command |-> FALSE, ids |-> FALSE]
Start   == [Nothing EXCEPT !.command = TRUE, !.status = STATUS_RUNNING, !.killsig = SIGTERM]

Stop       == [Nothing EXCEPT !.status = STATUS_STOPPED]
Go         == [Nothing EXCEPT !.status = STATUS_RUNNING]
Resize(k)  == [Nothing EXCEPT !.instances = k]
StopAt(k)  == [Stop EXCEPT !.instances = k]

NoReqs == {}

\* sup_safety: starting, stopping, resizing, breaking.
SafetyStart  == {[Start EXCEPT !.fatal = TRUE, !.instances = 2],
                 [Start EXCEPT !.status = Unset, !.heartbeat = TRUE],
                 [Start EXCEPT !.instances = MaxInst + 1]}
SafetyUpdate == {Stop, Go, Resize(1), Resize(2), StopAt(2), Resize(0)}
SafetyLoad   == {[Start EXCEPT !.status = Unset, !.killsig = NULL]}

\* sup_faults: timers of both kinds; what resizes and starts.
FaultStart  == {[Start EXCEPT !.age = 1, !.heartbeat = TRUE]}
FaultUpdate == {Stop, Go, Resize(1), Resize(2)}

\* sup_live: an age limit, no helpers.
LiveStart  == {[Start EXCEPT !.age = 1]}
LiveUpdate == {Stop, Go}

\* The runs of SupervisorClaims: the least that shows the behaviour.
PlainStart     == {Start}
HeartbeatStart == {[Start EXCEPT !.heartbeat = TRUE]}
GrowUpdate     == {Resize(2)}

PidSymmetry == Permutations(Pids)
=============================================================================
