-------------------------- MODULE SupervisorClaims --------------------------
(***************************************************************************)
(* What the documentation says of supervision, where the code does         *)
(* something else.  Each of these is refuted by a run of its own (and      *)
(* DeadChildReaped of Supervisor.tla by two).                              *)
(***************************************************************************)
EXTENDS Supervisor

(* "Get list of process ids of the processes in the group"                 *)
(* (command_pids.txt:13): whatever c_pids reads from a slot is a process   *)
(* or NULL.  A spawn that fails in c_updt's growth loop leaves the slot as *)
(* xrealloc returned it (cmd_server.c:1087-1097).                          *)
SlotsInitialised ==
    \A a \in Address : groups[a] # NULL =>
        \A i \in Instances(groups[a]) : groups[a].childs[i] # WILD
=============================================================================
