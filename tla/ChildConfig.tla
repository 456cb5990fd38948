---------------------------- MODULE ChildConfig ----------------------------
(***************************************************************************)
(* Process groups: the configuration a client sends (struct child_config   *)
(* as child_config_from_json fills it), the group the server keeps, and    *)
(* the pure part of the handlers that change one.                          *)
(*                                                                         *)
(* A string option (heartbeat, fatal_cb, args) is kept as "is it set",     *)
(* because that is all a handler tests; dir, stdout, stderr and the names  *)
(* behind uid and gid only matter inside the forked child and are left     *)
(* out.  cc_error of a request has no effect on supervision (cc_errtime is *)
(* 0 in a new group, so the first error resets the counter) and is left    *)
(* out of Config.                                                          *)
(***************************************************************************)
EXTENDS Integers

CONSTANTS Names,     \* names a group can have
          Pids,      \* process ids the kernel hands out; bounds the tasks alive at once
          Signals,   \* signal numbers
          SIGTERM, SIGKILL,
          NULL,      \* C's NULL: no group, no process, no kill signal given
          WILD,      \* an uninitialised pointer that is not NULL
          MaxInst,   \* MAX_INSTANCES
          ErrorMax   \* ERROR_MAX

ASSUME BoundsAssumption == MaxInst \in Nat \ {0} /\ ErrorMax \in Nat \ {0}
ASSUME SignalAssumption == {SIGTERM, SIGKILL} \subseteq Signals /\ SIGTERM # SIGKILL
ASSUME NullAssumption   == NULL \notin Signals /\ NULL \notin Pids
ASSUME WildAssumption   == WILD \notin Pids /\ WILD # NULL

STATUS_RUNNING == 1
STATUS_STOPPED == 2
STATUS_BROKEN  == 3
STATUS_DELETE  == 5   \* only ever sent in a notification
Unset == -1           \* a numeric option the client left out

Slots == 0 .. MaxInst - 1

Config == [instances : Int, status : Int, killsig : Signals \cup {NULL}, age : Int,
           heartbeat : BOOLEAN, fatal : BOOLEAN,
           command : BOOLEAN,   \* args given
           ids : BOOLEAN]       \* uid or gid given

(***************************************************************************)
(* childs[i] for i >= instances is memory that does not exist: NULL here.  *)
(* stamped is cc_errtime # 0.                                              *)
(***************************************************************************)
Group == [instances : 1 .. MaxInst, status : Int, killsig : Signals \cup {NULL}, age : Int,
          heartbeat : BOOLEAN, fatal : BOOLEAN,
          childs : [Slots -> Pids \cup {NULL, WILD}],
          error : Nat, stamped : BOOLEAN]

ASSUME NoGroupAssumption == NULL \notin Group

Instances(g) == 0 .. g.instances - 1
Members(g)   == {g.childs[i] : i \in Instances(g)} \cap Pids

-----------------------------------------------------------------------------
(* Creating a group. *)

NewGroup(instances, status, killsig, r) ==
    [instances |-> instances, status |-> status, killsig |-> killsig, age |-> r.age,
     heartbeat |-> r.heartbeat, fatal |-> r.fatal,
     childs |-> [i \in Slots |-> NULL], error |-> 0, stamped |-> FALSE]

Default_Raw(x, unset, value) == x

Default(x, unset, value) == IF x = unset THEN value ELSE x

ValidSpwn(r) == r.command /\ Default(r.instances, Unset, 1) \in 1 .. MaxInst

\* c_spwn supplies only the number of instances ...
SpwnGroup(r) == NewGroup(Default(r.instances, Unset, 1), r.status, r.killsig, r)

\* ... load_dump supplies the signal and the status too.
LoadedGroup(r) ==
    NewGroup(Default(r.instances, Unset, 1), Default(r.status, Unset, STATUS_RUNNING),
             Default(r.killsig, NULL, SIGTERM), r)

-----------------------------------------------------------------------------
(* Updating a group: c_updt without the processes it starts. *)

ValidUpdt_Unchecked(r) == ~r.ids /\ ~r.command /\ r.instances <= MaxInst

ValidUpdt(r) ==
    /\ ~r.ids /\ ~r.command
    /\ r.instances = Unset \/ r.instances \in 1 .. MaxInst

\* The slots an update adds, and those it takes away.
Grown(g, r)  == IF r.instances > g.instances THEN g.instances .. r.instances - 1 ELSE {}
Shrunk(g, r) == IF r.instances \in 1 .. g.instances - 1
                THEN r.instances .. g.instances - 1 ELSE {}

StatusChanges(g, r) == r.status # Unset /\ r.status # g.status

\* What xrealloc leaves in the new slots (w) stays there until spawn assigns
\* them; only a group that is not running has them set to NULL.
ResizedChilds(g, r, w) ==
    [i \in Slots |-> IF i \in Grown(g, r)
                     THEN IF g.status = STATUS_RUNNING THEN w ELSE NULL
                     ELSE IF i \in Shrunk(g, r) THEN NULL ELSE g.childs[i]]

ErrorReset_Missing(g, r) == g.error

\* cc_error after an update: reset when the status changes.
ErrorReset(g, r) == IF StatusChanges(g, r) THEN 0 ELSE g.error

Updated(g, r, w) ==
    [g EXCEPT !.instances = Default(r.instances, Unset, g.instances),
              !.childs    = ResizedChilds(g, r, w),
              !.status    = Default(r.status, Unset, g.status),
              !.error     = ErrorReset(g, r),
              !.killsig   = Default(r.killsig, NULL, g.killsig),
              !.heartbeat = g.heartbeat \/ r.heartbeat,
              !.fatal     = g.fatal \/ r.fatal,
              !.age       = IF r.age > 0 THEN r.age ELSE g.age]

Dropped_Forgotten(g, r) == {}

\* The slots' pointers c_updt follows when it shrinks a group.
Dropped(g, r) == {g.childs[i] : i \in Shrunk(g, r)} \ {NULL}

ToStart_Always(g, r) ==
    IF r.status = STATUS_RUNNING
    THEN {i \in Instances(Updated(g, r, NULL)) : g.childs[i] = NULL}
    ELSE Grown(g, r)

ToStart_GrowthOnly(g, r) == IF g.status = STATUS_RUNNING THEN Grown(g, r) ELSE {}

\* The slots c_updt calls spawn for: the growth loop looks at the status the
\* group had, the status block starts what is missing on the way to running.
ToStart(g, r) ==
    IF g.status = STATUS_RUNNING THEN Grown(g, r)
    ELSE IF r.status = STATUS_RUNNING
         THEN {i \in Instances(Updated(g, r, NULL)) : Updated(g, r, NULL).childs[i] = NULL}
         ELSE {}

-----------------------------------------------------------------------------
(* Accounting for the exit of a member: the middle of sigchld_cb. *)

\* The exit conditions that count against a group.
exit_is_error(cause, g) == cause = "nonzero" \/ cause = g.killsig

EmptySlot_Kept(g, i) == g

EmptySlot(g, i) == IF i \in Instances(g) THEN [g EXCEPT !.childs[i] = NULL] ELSE g

Errors_NeverExpire(g, expired) == g.error + 1

\* expired: more than ERROR_PERIOD seconds since the last error.  Time is not
\* modelled here, so the caller chooses it (ErrorWindow.tla has the clock).
Errors(g, expired) == IF expired \/ ~g.stamped THEN 1 ELSE g.error + 1

TooManyErrors(g) == g.error >= ErrorMax * g.instances

CountError(g, expired) ==
    LET counted == [g EXCEPT !.error = Errors(g, expired), !.stamped = TRUE]
    IN  IF TooManyErrors(counted) THEN [counted EXCEPT !.status = STATUS_BROKEN] ELSE counted

AfterExit(g, i, cause, expired) ==
    IF exit_is_error(cause, g) THEN CountError(EmptySlot(g, i), expired) ELSE EmptySlot(g, i)

\* This exit put the group over the limit (it may have been there already).
Breaks(g, i, cause, expired) ==
    exit_is_error(cause, g) /\ TooManyErrors(CountError(EmptySlot(g, i), expired))
=============================================================================
