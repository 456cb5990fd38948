----------------------------- MODULE Connection -----------------------------
(***************************************************************************)
(* The server's side of its connections (cmd_server.c, subscription.c):    *)
(* which replies and notifications a command puts into which output        *)
(* buffer, in which order, and what is lost when a connection is dropped   *)
(* or the server ends.                                                     *)
(*                                                                         *)
(* A request is one that read_cb has taken out of the stream (Framing).    *)
(* Of its payload only the command is kept: the handler, the only one to   *)
(* look at the rest, chooses what the payload says.  Of all groups one is  *)
(* kept, and of it only the lengths of its configuration and of the        *)
(* notification of its status, which has its name, as JSON text.  Several  *)
(* lines logged in a row are one "log" event, which fits a chunk: slog     *)
(* cuts it off.                                                            *)
(***************************************************************************)
EXTENDS Chunks

CONSTANTS Clients,    \* one connection each
          Idents,     \* the event masks of SUBS
          CfgSizes,   \* lengths a group's configuration can have
          NameSizes,  \* lengths the notification of a group's status can have
          Options,    \* how servers are built and started, a subset of OptionSet
          MaxWire,    \* chunks a socket holds
          MaxQueue    \* bounds how far a subscriber falls behind

Events       == {"log", "status", "cfg"}   \* SUBS_SERVER, SUBS_STATUS, SUBS_GROUP_CFG
CommandNames == {"DELE", "DUMP", "EXIT", "GETC", "HELO", "KILL", "LIST", "PIDS",
                 "READ", "SPWN", "SUBS", "UPDT", "????"}
\* ndebug: assertions are compiled out (the default build).
OptionSet    == [allow_exit : BOOLEAN, auto_dump : BOOLEAN, ndebug : BOOLEAN]

ASSUME ConnectionAssumption ==
    /\ Idents \subseteq SUBSET Events
    /\ CfgSizes \subseteq Nat \ {0} /\ NameSizes \subseteq Nat \ {0}
    /\ Options \subseteq OptionSet /\ Options # {}
    /\ MaxWire \in Nat \ {0} /\ MaxQueue \in Nat

VARIABLES server,        \* "up", "exited", "crashed", "aborted" by an assertion
          options,       \* environment and options, fixed at the start
          backlog,       \* clients that are connected and not accepted
          held,          \* it has ended, and others hold the listening socket
          connections,   \* client_con_list
          reqs,          \* by client: requests not handled yet [cid, cmd]
          out,           \* by client: chunks in the output buffer of the bufferevent
          wire,          \* by client: chunks in the socket, survive its closing
          subscriptions, \* subscription_list, [con, ident, cid]
          cfg,           \* length of the group's configuration, 0: no group
          notice,        \* length of its status notification, 0: no group
          twice          \* clients that got two replies to one request

serverVars == <<server, options, held, backlog, connections, reqs, out, wire,
                subscriptions, cfg, notice, twice>>

\* The name is in the configuration, too.
Group(size, len) == size \in CfgSizes /\ len \in NameSizes /\ len <= size

ConnectionInit ==
    /\ server = "up"
    /\ options \in Options
    /\ backlog = {} /\ held = FALSE
    /\ connections = {}
    /\ reqs = [c \in Clients |-> <<>>]
    /\ out  = [c \in Clients |-> <<>>]
    /\ wire = [c \in Clients |-> <<>>]
    /\ subscriptions = <<>>
    \* a group of the dump, or none
    /\ cfg \in CfgSizes \cup {0} /\ notice \in NameSizes \cup {0}
    /\ Group(cfg, notice) \/ (cfg = 0 /\ notice = 0)
    /\ twice = {}

-----------------------------------------------------------------------------
(* Output.  o is the state of all output buffers so far. *)

\* The reply to q, sent under the cid of the request being handled.
reply(o, c, q, len) == [o EXCEPT ![c] = @ \o send_message(Message("reply", len), q.cid)]

send_status_msg(o, c, q) == reply(o, c, q, 1)

Subscriptions(cons, idents) == [con : cons, ident : idents, cid : Nat]

\* One chunk for every subscription with the event in its mask, under the cid
\* of the subscription.
send_notification(o, event, len) ==
    [x \in Clients |->
        LET wanted == Filter(subscriptions,
                             Subscriptions({x}, {ident \in Idents : event \in ident}))
        IN  o[x] \o [i \in 1 .. Len(wanted) |->
                        notification(Message("event", len), wanted[i].cid)]]

send_log_notification(o)                    == send_notification(o, "log", 1)
send_status_update_notification(o, len)     == send_notification(o, "status", len)
send_group_cfg_update_notification(o, size) == send_notification(o, "cfg", size)

slog(o) == send_log_notification(o)

\* assert(ret_len <= CHUNKSIZ) in send_notification.
Asserts(len) == ~options.ndebug /\ len > ChunkSiz

-----------------------------------------------------------------------------
(* How a command ends: run_server_command. *)

\* The handler returns 1.
Keep(c, o) ==
    /\ out' = o
    /\ reqs' = [reqs EXCEPT ![c] = Tail(@)]
    /\ UNCHANGED <<server, held, backlog, connections>>

subscription_insert(c, ident, k) ==
    subscriptions' = <<[con |-> c, ident |-> ident, cid |-> k]>> \o subscriptions

subscription_remove_for_client(c) ==
    subscriptions' = Filter(subscriptions, Subscriptions(Clients \ {c}, Idents))

drop_client_connection_Subscribed(c, o) ==
    /\ out' = [o EXCEPT ![c] = <<>>]
    /\ reqs' = [reqs EXCEPT ![c] = <<>>]
    /\ connections' = connections \ {c}
    /\ UNCHANGED <<server, held, backlog, subscriptions>>

\* The output buffer is freed, not flushed.
drop_client_connection(c, o) ==
    /\ out' = [o EXCEPT ![c] = <<>>]
    /\ reqs' = [reqs EXCEPT ![c] = <<>>]
    /\ connections' = connections \ {c}
    /\ subscription_remove_for_client(c)
    /\ UNCHANGED <<server, held, backlog>>

\* The process ends, with everything it has buffered.  If processes of a dump
\* live on and hold the listening socket, its backlog stays connected.
End(how) ==
    /\ server' = how
    /\ held' \in BOOLEAN
    /\ backlog' = IF held' THEN backlog ELSE {}
    /\ connections' = {}
    /\ subscriptions' = <<>>
    /\ cfg' = 0 /\ notice' = 0
    /\ reqs' = [x \in Clients |-> IF x \in backlog' THEN reqs[x] ELSE <<>>]
    /\ out'  = [x \in Clients |-> <<>>]
    /\ UNCHANGED twice

\* The command is refused with a message, and the handler returns 0 or 1.
Fail(c, q) ==
    /\ drop_client_connection(c, send_status_msg(out, c, q))
    /\ UNCHANGED <<cfg, notice, twice>>
Refuse(c, q) ==
    /\ Keep(c, send_status_msg(out, c, q))
    /\ UNCHANGED <<subscriptions, cfg, notice, twice>>

Answer(c, o) == Keep(c, o) /\ UNCHANGED <<subscriptions, cfg, notice, twice>>

\* Handlers of a request that names a group.
HasGroup == cfg # 0

-----------------------------------------------------------------------------
(* Commands that change no group. *)

c_list(c, q) == \E len \in {1, ChunkSiz + 1} : Answer(c, reply(out, c, q, len))

c_helo(c, q) == Answer(c, reply(out, c, q, 1))

c_getc(c, q) ==
    \/ Fail(c, q)
    \/ Refuse(c, q)
    \/ HasGroup /\ Answer(c, reply(out, c, q, cfg))

c_pids(c, q) ==
    \/ Fail(c, q)
    \/ Refuse(c, q)
    \/ HasGroup /\ Answer(c, reply(out, c, q, 1))

\* Up to CHUNKSIZ bytes of the log, and the JSON around them.
c_read(c, q) ==
    \/ Fail(c, q)
    \/ Refuse(c, q)
    \/ HasGroup /\ \E len \in {1, ChunkSiz + 1} : Answer(c, reply(out, c, q, len))

c_kill_Silent(c, q) ==
    \/ Fail(c, q)
    \/ Refuse(c, q)
    \/ HasGroup /\ \E o \in {slog(out), reply(slog(out), c, q, 1)} : Answer(c, o)

c_kill(c, q) ==
    \/ Fail(c, q)
    \/ Refuse(c, q)
    \/ HasGroup /\ Answer(c, reply(slog(out), c, q, 1))

c_subs(c, q) ==
    \/ Fail(c, q)
    \/ \E ident \in Idents :
          /\ subscription_insert(c, ident, q.cid)
          /\ Keep(c, send_status_msg(out, c, q))
          /\ UNCHANGED <<cfg, notice, twice>>

-----------------------------------------------------------------------------
(* DUMP, and the reply of commands that dump when auto_dump is set. *)

\* One reply, whatever fails (Dump has the files); but if the last write to
\* the file fails, there is a second reply, and the stream is closed a second
\* time, which the process may not survive.
DumpOutcomes(o, c, q) ==
    LET once == send_status_msg(o, c, q)
    IN  {[out |-> once, survives |-> TRUE, twice |-> {}],
         [out |-> send_status_msg(once, c, q), survives |-> TRUE, twice |-> {c}],
         [out |-> o, survives |-> FALSE, twice |-> {}]}

\* "if (!auto_dump) send_status_msg(...) else c_dump(...)"
Success(o, c, q) ==
    IF options.auto_dump
    THEN DumpOutcomes(o, c, q)
    ELSE {[out |-> send_status_msg(o, c, q), survives |-> TRUE, twice |-> {}]}

c_dump(c, q) ==
    \E d \in DumpOutcomes(out, c, q) :
       \/ d.survives /\ Keep(c, d.out) /\ twice' = twice \cup d.twice
          /\ UNCHANGED <<subscriptions, cfg, notice>>
       \/ ~d.survives /\ End("crashed")

-----------------------------------------------------------------------------
(* Commands that change a group. *)

\* Any text can be the longest: JSON writes one character as up to six.
c_spwn(c, q) ==
    \/ Fail(c, q)
    \/ Refuse(c, q)
    \/ /\ ~HasGroup
       /\ \E d \in Success(out, c, q), size \in CfgSizes, len \in NameSizes :
             \/ /\ d.survives /\ Group(size, len) /\ ~Asserts(len)
                /\ LET created == send_status_update_notification(slog(d.out), len)
                       status  == send_status_update_notification(created, len)
                   IN  \E o \in {status, slog(status)} : Keep(c, o)   \* spawn logs
                /\ cfg' = size /\ notice' = len
                /\ twice' = twice \cup d.twice
                /\ UNCHANGED subscriptions
             \/ d.survives /\ Asserts(len) /\ End("aborted")
             \/ ~d.survives /\ End("crashed")

\* A request that does not parse is logged before the connection is dropped.
\* The notification of the status fits if that of the configuration does.
c_updt(c, q) ==
    \/ Fail(c, q)
    \/ /\ drop_client_connection(c, send_status_msg(slog(out), c, q))
       /\ UNCHANGED <<cfg, notice, twice>>
    \/ Refuse(c, q)
    \/ /\ HasGroup
       /\ \E size \in {n \in CfgSizes : n >= notice}, changed \in BOOLEAN :
             LET logged == slog(out)
                 status == send_status_update_notification(logged, notice)
             IN  \E told \in {logged, status, slog(status)} :
                 \E o \in IF changed
                          THEN {send_group_cfg_update_notification(told, size)}
                          ELSE {out} :
                 \E d \in Success(o, c, q) :
                    \/ /\ d.survives /\ ~(changed /\ Asserts(size))
                       /\ Keep(c, d.out)
                       /\ cfg' = IF changed THEN size ELSE cfg
                       /\ twice' = twice \cup d.twice
                       /\ UNCHANGED <<subscriptions, notice>>
                    \/ changed /\ Asserts(size) /\ End("aborted")
                    \/ ~d.survives /\ ~(changed /\ Asserts(size)) /\ End("crashed")

c_dele(c, q) ==
    \/ Fail(c, q)
    \/ Refuse(c, q)
    \/ /\ HasGroup
       /\ ~Asserts(notice)
       /\ Keep(c, reply(send_status_update_notification(slog(out), notice), c, q, 1))
       /\ cfg' = 0 /\ notice' = 0
       /\ UNCHANGED <<subscriptions, twice>>
    \/ HasGroup /\ Asserts(notice) /\ End("aborted")

\* The reply is buffered, and exit() flushes no bufferevent.
c_exit(c, q) ==
    \/ ~options.allow_exit /\ Refuse(c, q)
    \/ options.allow_exit /\ \E d \in Success(out, c, q) :
          End(IF d.survives THEN "exited" ELSE "crashed")

-----------------------------------------------------------------------------
(* The event loop. *)

Handler(c, q) ==
    \/ q.cmd = "DELE" /\ c_dele(c, q)
    \/ q.cmd = "DUMP" /\ c_dump(c, q)
    \/ q.cmd = "EXIT" /\ c_exit(c, q)
    \/ q.cmd = "GETC" /\ c_getc(c, q)
    \/ q.cmd = "HELO" /\ c_helo(c, q)
    \/ q.cmd = "KILL" /\ c_kill(c, q)
    \/ q.cmd = "LIST" /\ c_list(c, q)
    \/ q.cmd = "PIDS" /\ c_pids(c, q)
    \/ q.cmd = "READ" /\ c_read(c, q)
    \/ q.cmd = "SPWN" /\ c_spwn(c, q)
    \/ q.cmd = "SUBS" /\ c_subs(c, q)
    \/ q.cmd = "UPDT" /\ c_updt(c, q)
    \* bsearch finds no handler: no reply
    \/ q.cmd = "????" /\ drop_client_connection(c, out) /\ UNCHANGED <<cfg, notice, twice>>

run_server_command(c) ==
    /\ server = "up" /\ c \in connections /\ reqs[c] # <<>>
    /\ UNCHANGED <<options, wire>>
    /\ Handler(c, Head(reqs[c]))

accept_cb(c) ==
    /\ server = "up" /\ c \in backlog
    /\ backlog' = backlog \ {c}
    /\ connections' = connections \cup {c}
    /\ UNCHANGED <<server, options, held, reqs, out, wire, subscriptions, cfg, notice, twice>>

\* The supervision core sends a notification.
Notify(event, len) ==
    /\ server = "up" /\ ~Asserts(len)
    /\ \A s \in {subscriptions[i] : i \in DOMAIN subscriptions} :
          Len(out[s.con]) + Len(wire[s.con]) <= MaxQueue
    /\ out' = send_notification(out, event, len)
    /\ out' # out
    /\ UNCHANGED <<server, options, held, backlog, connections, reqs, wire, subscriptions,
                   cfg, notice, twice>>

\* It logs (sigchld_cb, timers), or reports that the group is broken.
Event ==
    \/ Notify("log", 1)
    \/ HasGroup /\ Notify("status", notice)
    \/ /\ server = "up" /\ HasGroup /\ Asserts(notice) /\ End("aborted")
       /\ UNCHANGED <<options, wire>>

\* The last process that holds the listening socket ends, and the kernel closes
\* the connections of its backlog.
HeirsEnd ==
    /\ held /\ held' = FALSE
    /\ backlog' = {}
    /\ reqs' = [x \in Clients |-> <<>>]
    /\ UNCHANGED <<server, options, connections, out, wire, subscriptions, cfg, notice, twice>>

\* libevent writes buffered output to the socket.
Flush(c) ==
    /\ server = "up" /\ c \in connections /\ out[c] # <<>>
    /\ Len(wire[c]) < MaxWire
    /\ wire' = [wire EXCEPT ![c] = Append(@, Head(out[c]))]
    /\ out'  = [out EXCEPT ![c] = Tail(@)]
    /\ UNCHANGED <<server, options, held, backlog, connections, reqs, subscriptions,
                   cfg, notice, twice>>
=============================================================================
