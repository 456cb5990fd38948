------------------------------- MODULE Kernel -------------------------------
(***************************************************************************)
(* What the server relies on from outside its own code: the kernel's       *)
(* process table (fork, exit, wait, kill) and the way SIGCHLD reaches a    *)
(* libevent callback.                                                      *)
(*                                                                         *)
(* SIGCHLD is not queued: while one is pending another one is absorbed.    *)
(* When the server is scheduled, libevent's C handler counts the signal,   *)
(* and the event loop later runs the callback once per counted signal.     *)
(***************************************************************************)
EXTENDS ChildConfig

CONSTANTS ForkMayFail,  \* may fork(2) return -1
          MaxCaught     \* bound on the counted, not yet handled signals

ASSUME KernelAssumption == ForkMayFail \in BOOLEAN /\ MaxCaught \in Nat \ {0}

VARIABLES os,       \* os[p]: the task with process id p
          pending,  \* a SIGCHLD is pending for the server process
          caught    \* signals counted by libevent, callback not run yet

kernelVars == <<os, pending, caught>>

Causes == {"zero", "nonzero"} \cup Signals   \* how a task ended

\* "killed": SIGKILL has been sent; the task is bound to die from it.
Task == [st : {"free", "run", "killed", "zombie"},
         role : {"none", "child", "heartbeat", "fatal"},
         cause : Causes \cup {NULL}]

NoTask        == [st |-> "free", role |-> "none", cause |-> NULL]
Started(role) == [st |-> "run", role |-> role, cause |-> NULL]

KernelTypeOK == /\ os \in [Pids -> Task]
                /\ pending \in BOOLEAN
                /\ caught \in 0 .. MaxCaught

Free(O)    == {p \in Pids : O[p].st = "free"}
Zombies(O) == {p \in Pids : O[p].st = "zombie"}

\* The ways a sequence of forks, one for each slot in todo, can go: the pid
\* each one returned, NULL for the ones that failed.
Forks(O, todo) ==
    {f \in [todo -> Free(O) \cup {NULL}] :
        /\ ForkMayFail \/ \A i \in todo : f[i] # NULL
        /\ \A i, j \in todo : f[i] = f[j] /\ f[i] # NULL => i = j}

\* The process tables that can result from forking one helper.
HelperForks(O, role) ==
    {[O EXCEPT ![h] = Started(role)] : h \in Free(O)}
      \cup (IF ForkMayFail THEN {O} ELSE {})

\* kill(p, sig): only SIGKILL is certain to have an effect.  A task may end
\* from any signal at any time (Exit), so the others need no record.
Signalled(O, targets, sig) ==
    [p \in Pids |-> IF p \in targets /\ sig = SIGKILL /\ O[p].st = "run"
                    THEN [O[p] EXCEPT !.st = "killed"] ELSE O[p]]

KernelInit == /\ os = [p \in Pids |-> NoTask]
              /\ pending = FALSE
              /\ caught = 0

\* Task p ends.  handled: the server has a SIGCHLD handler installed; without
\* one the signal is discarded (the task is a zombie all the same).
Exit(p, cause, handled) ==
    /\ os[p].st \in {"run", "killed"}
    /\ os[p].st = "killed" => cause = SIGKILL
    /\ os' = [os EXCEPT ![p] = [@ EXCEPT !.st = "zombie", !.cause = cause]]
    /\ pending' = (pending \/ handled)
    /\ UNCHANGED caught

\* The pending SIGCHLD interrupts the server and libevent counts it.
DeliverSig ==
    /\ pending /\ caught < MaxCaught
    /\ pending' = FALSE
    /\ caught' = caught + 1
    /\ UNCHANGED os
=============================================================================
