------------------------------ MODULE Session ------------------------------
(***************************************************************************)
(* Clients of the server, and their conversations with it: the one-shot    *)
(* commands and "subs" of the C program (client.c, cmd_*.c) and the client *)
(* class of ubervisor.py with its command ids, pipelined calls and         *)
(* subscriptions.                                                          *)
(*                                                                         *)
(* A client connects once.  What it does not tell apart in a reply is left *)
(* out: whether the reply is good or an error, and its text.               *)
(***************************************************************************)
EXTENDS Connection, FiniteSets

CONSTANTS PyClients,   \* UbervisorClient objects; the others are C programs
          PyCommands, CCommands,   \* the commands each of them sends
          MaxCid,      \* 65535 in ubervisor.py
          MaxPending   \* bounds the cids in use at a time

Cids == 1 .. MaxCid

\* An application never has so many calls without a reply, and subscriptions,
\* that _increment_cid meets the cid of a call.
ASSUME SessionAssumption ==
    /\ PyClients \subseteq Clients
    /\ PyCommands \cup CCommands \subseteq CommandNames
    /\ MaxCid \in Nat /\ MaxPending \in 1 .. MaxCid - 1

VARIABLES st,      \* "new", "idle", "busy" reading a reply, "closed", or
                   \* "lost" when it has taken a length for another one
          cid,     \* the last cid used
          inuse,   \* _inuse_cids
          asked,   \* the cids of the requests without a reply yet, in order
          part     \* chunks of a message that goes on

clientVars == <<st, cid, inuse, asked, part>>
vars == <<server, options, held, backlog, connections, reqs, out, wire,
          subscriptions, cfg, notice, twice, st, cid, inuse, asked, part>>

Init ==
    /\ ConnectionInit
    /\ st = [c \in Clients |-> "new"]
    /\ cid = [c \in Clients |-> 1]
    /\ inuse = [c \in Clients |-> {}]
    /\ asked = [c \in Clients |-> <<>>]
    /\ part = [c \in Clients |-> <<>>]

-----------------------------------------------------------------------------
(* Requests. *)

_increment_cid_Zero(c) == (cid[c] + 1) % (MaxCid + 1)
_increment_cid_Taken(c) == (cid[c] % MaxCid) + 1

\* Counts on, wraps to 1, skips the cids of subscriptions.
_increment_cid(c) ==
    LET after(i) == ((cid[c] + i - 1) % MaxCid) + 1
        k == CHOOSE k \in 1 .. MaxCid :
                /\ after(k) \notin inuse[c]
                /\ \A j \in 1 .. k - 1 : after(j) \in inuse[c]
    IN  after(k)

\* sock_send_command and _send: a write, into a connection that may be gone.
Send(c, k, cmd) ==
    /\ asked' = [asked EXCEPT ![c] = Append(@, k)]
    /\ reqs' = IF c \in connections \cup backlog'
               THEN [reqs EXCEPT ![c] = Append(@, [cid |-> k, cmd |-> cmd])]
               ELSE reqs

\* The clients that have a connection, for the server or only for the kernel.
Attached == connections \cup backlog

\* connect(2) succeeds while any process holds the listening socket.
Connects(c) == (server = "up" \/ held) /\ backlog' = backlog \cup {c}

NoOutput ==
    UNCHANGED <<server, options, held, connections, out, wire, subscriptions, cfg, notice, twice>>

\* A C program: connect, one request with cid 1, wait for the reply.
sock_send_command(c, cmd) ==
    /\ c \notin PyClients /\ st[c] = "new"
    /\ Connects(c)
    /\ Send(c, 1, cmd)
    /\ st' = [st EXCEPT ![c] = "busy"]
    /\ inuse' = IF cmd = "SUBS" THEN [inuse EXCEPT ![c] = {1}] ELSE inuse
    /\ UNCHANGED <<cid, part>> /\ NoOutput

\* UbervisorClient(): connect and helo, which accepts any cid.
connect(c) ==
    /\ c \in PyClients /\ st[c] = "new"
    /\ Connects(c)
    /\ Send(c, _increment_cid(c), "HELO")
    /\ cid' = [cid EXCEPT ![c] = _increment_cid(c)]
    /\ st' = [st EXCEPT ![c] = "busy"]
    /\ UNCHANGED <<inuse, part>> /\ NoOutput

\* A method that sends a command; with wait = False it returns the cid at once.
Call(c, cmd, waits) ==
    /\ c \in PyClients /\ st[c] = "idle"
    /\ c \notin twice            \* what follows two replies to one call is left out
    /\ \A x \in Clients : Len(out[x]) <= MaxQueue
    /\ UNCHANGED backlog
    /\ LET k == _increment_cid(c)
       IN  /\ Send(c, k, cmd)
           /\ cid' = [cid EXCEPT ![c] = k]
           /\ inuse' = IF cmd = "SUBS" THEN [inuse EXCEPT ![c] = @ \cup {k}] ELSE inuse
    \* see SessionAssumption
    /\ Len(asked[c]) + Cardinality(inuse[c]) < MaxPending
    /\ st' = [st EXCEPT ![c] = IF waits THEN "busy" ELSE "idle"]
    /\ UNCHANGED part /\ NoOutput

\* wait(), by an application that expects something.
wait(c) ==
    /\ c \in PyClients /\ st[c] = "idle"
    /\ asked[c] # <<>> \/ inuse[c] # {}
    /\ st' = [st EXCEPT ![c] = "busy"]
    /\ UNCHANGED <<serverVars, cid, inuse, asked, part>>

-----------------------------------------------------------------------------
(* Replies. *)

IsReply(ch) == ch.of.kind = "reply"

LengthAsRead(c, ch) == IF c \in PyClients THEN LengthInPy(ch.field) ELSE LengthInC(ch.field)

\* The client reads one chunk; after the last one of a message read_reply or
\* wait returns.
Forever(c) == c \notin PyClients /\ inuse[c] # {}     \* cmd_subscribe

\* What a client knows is of no use once it has gone.
Forgotten(c) ==
    /\ cid' = [cid EXCEPT ![c] = 1]
    /\ inuse' = [inuse EXCEPT ![c] = {}]
    /\ asked' = [asked EXCEPT ![c] = <<>>]
    /\ part' = [part EXCEPT ![c] = <<>>]
    /\ wire' = [wire EXCEPT ![c] = <<>>]
    /\ twice' = twice \ {c}

\* helo() and read_reply do not look at the cid, wait(c) leaves that to its
\* caller, _reply raises an exception: all go on.
Deliver(c, ch) ==
    /\ part' = [part EXCEPT ![c] = <<>>]
    /\ asked' = IF IsReply(ch) /\ asked[c] # <<>> THEN [asked EXCEPT ![c] = Tail(@)] ELSE asked
    /\ st' = [st EXCEPT ![c] = IF Forever(c) THEN "busy" ELSE "idle"]
    /\ UNCHANGED <<cid, inuse, twice>>

ReadChunk(c) ==
    /\ st[c] = "busy" /\ wire[c] # <<>>
    /\ LET ch == Head(wire[c])
           right == LengthAsRead(c, ch) = ch.size
       IN  \/ /\ right /\ IsExtended(ch.field)
              /\ part' = [part EXCEPT ![c] = Append(@, ch)]
              /\ wire' = [wire EXCEPT ![c] = Tail(@)]
              /\ UNCHANGED <<st, cid, inuse, asked, twice>>
           \/ /\ right /\ ~IsExtended(ch.field)
              /\ wire' = [wire EXCEPT ![c] = Tail(@)]
              /\ Deliver(c, ch)
           \/ /\ ~right
              /\ st' = [st EXCEPT ![c] = "lost"]
              /\ Forgotten(c)
    /\ UNCHANGED <<server, options, held, backlog, connections, reqs, out, subscriptions, cfg, notice>>

\* An exception, or an exit of the C program: the client and its end of the
\* connection are gone.
GiveUp(c) ==
    /\ st' = [st EXCEPT ![c] = "closed"]
    /\ Forgotten(c)
    /\ UNCHANGED <<server, options, held, backlog, connections, reqs, out, subscriptions, cfg, notice>>

\* read or recv returns nothing: the server has gone or dropped the client,
\* and the client is not in the backlog of a socket that somebody holds.
EndOfFile(c) ==
    /\ st[c] = "busy" /\ wire[c] = <<>> /\ c \notin Attached
    /\ GiveUp(c)

\* read(2) or recv(4) returns a part of the header, the rest is still in the
\* server: no caller tries again.
ShortRead(c) ==
    /\ st[c] = "busy" /\ wire[c] = <<>> /\ out[c] # <<>>
    /\ GiveUp(c)

\* close(); a C program ends when it has its reply.
close(c) == st[c] = "idle" /\ GiveUp(c)

\* The server notices that a client has gone.
error_cb(c) ==
    /\ server = "up" /\ c \in connections /\ st[c] \in {"closed", "lost"}
    /\ drop_client_connection(c, out)
    /\ UNCHANGED <<options, wire, cfg, notice, twice, clientVars>>

-----------------------------------------------------------------------------
Accept(c)   == UNCHANGED clientVars /\ accept_cb(c)
Serve(c)    == UNCHANGED clientVars /\ run_server_command(c)
Transmit(c) == UNCHANGED clientVars /\ Flush(c)

Next ==
    \/ \E c \in Clients :
          \/ \E cmd \in CCommands : sock_send_command(c, cmd)
          \/ \E cmd \in PyCommands, w \in BOOLEAN : Call(c, cmd, w)
          \/ connect(c) \/ wait(c) \/ close(c)
          \/ ReadChunk(c) \/ EndOfFile(c) \/ ShortRead(c)
          \/ Accept(c) \/ Serve(c) \/ Transmit(c) \/ error_cb(c)
    \/ (Event \/ HeirsEnd) /\ UNCHANGED clientVars

Spec == Init /\ [][Next]_vars

\* The server is one loop that gets to every connection, and libevent writes
\* what a socket accepts; a client that reads goes on reading.
Fairness ==
    \A c \in Clients :
       /\ WF_vars(Accept(c))
       /\ WF_vars(Serve(c))
       /\ WF_vars(Transmit(c))
       /\ WF_vars(ReadChunk(c) \/ EndOfFile(c))

FairSpec == Spec /\ Fairness

-----------------------------------------------------------------------------
(* Properties. *)

Talks(c) == st[c] \in {"idle", "busy"}

\* What the client has yet to read, the chunks of an incomplete message first.
InTransit(c) == part[c] \o wire[c] \o out[c]

\* The chunks that end a reply.
LastChunks == [field : {f \in Field : ~IsExtended(f)}, cid : Nat, size : Nat,
               of : [kind : {"reply"}, len : Nat]]

\* Every variable has its type: cids stay within the protocol's field, and
\* neither a connection that was dropped nor one that was not accepted has
\* output, nor the former requests (clients of ubervisor.py and client.c,
\* connections of cmd_server.c).
TypeOK ==
    /\ server \in {"up", "exited", "crashed", "aborted"} /\ options \in Options
    /\ held \in BOOLEAN
    /\ connections \subseteq Clients /\ backlog \subseteq Clients \ connections
    /\ \A c \in Clients :
          /\ st[c] \in {"new", "idle", "busy", "closed", "lost"}
          /\ cid[c] \in Cids /\ inuse[c] \subseteq Cids
          /\ \A i \in DOMAIN asked[c] : asked[c][i] \in Cids
          /\ \A i \in DOMAIN InTransit(c) :
                InTransit(c)[i].field \in Field /\ InTransit(c)[i].cid \in Cids
          /\ c \notin connections => out[c] = <<>>
          /\ c \notin Attached => reqs[c] = <<>>

\* A subscription's connection is in client_con_list: s_client, which
\* send_notification writes to, never dangles, although connections are
\* dropped in error_cb, in the middle of read_cb and by failing handlers.
SubscribersConnected ==
    \A i \in DOMAIN subscriptions : subscriptions[i].con \in connections

\* Every request gets one reply, in order and under its own cid: the replies a
\* client has yet to read and then the requests the server has yet to handle
\* are exactly what the client has asked.  When the connection was dropped,
\* the last of them may be missing.
RepliesConserved ==
    \A c \in Clients : Talks(c) /\ c \notin twice =>
       LET last == Filter(InTransit(c), LastChunks)
           due  == [i \in 1 .. Len(last) |-> last[i].cid]
                   \o [i \in 1 .. Len(reqs[c]) |-> reqs[c][i].cid]
       IN  IF c \in Attached THEN due = asked[c]
           ELSE due = SubSeq(asked[c], 1, Len(due))

\* The cid says what a message is: no two calls that wait for a reply share
\* one, and a notification comes under the cid of a subscription, which no
\* later call has been given, and after the reply to its SUBS.  The counter of
\* cids wraps around while subscriptions go on.
CidsTellApart ==
    \A c \in Clients : Talks(c) /\ c \notin twice =>
       LET q == InTransit(c)
           waiting == {asked[c][i] : i \in DOMAIN asked[c]}
       IN  /\ Cardinality(waiting) = Len(asked[c])
           /\ \A i \in DOMAIN q : ~IsReply(q[i]) =>
                 /\ q[i].cid \in inuse[c]
                 /\ \/ q[i].cid \notin waiting
                    \/ \E j \in 1 .. i - 1 : IsReply(q[j]) /\ q[j].cid = q[i].cid

\* A client takes the chunks for what send_message and send_notification made
\* of their messages: the same lengths, and a message goes on exactly where
\* the next chunk belongs to it.  Only a notification that does not fit a chunk
\* is misread (of a server without assertions): a group's configuration, or the
\* status of a group whose name is that long.
ReadAsWritten ==
    \A c \in connections \ twice : Talks(c) =>
       LET q == InTransit(c)
           Fits(ch) == IsReply(ch) \/ ch.of.len <= ChunkSiz
           GoesOn(i) == i < Len(q) /\ IsReply(q[i]) /\ IsReply(q[i + 1]) /\ q[i + 1].cid = q[i].cid
       IN  \A i \in DOMAIN q : Fits(q[i]) =>
              /\ LengthAsRead(c, q[i]) = q[i].size
              /\ IsExtended(q[i].field) <=> GoesOn(i)

\* No client waits for a reply for ever: it gets one, or learns that there will
\* be none, whatever the server drops, and also when it ends by EXIT, a crash or
\* an assertion.  But who was not accepted yet, or connects later, waits for as
\* long as processes of a dump hold the listening socket (cmd_server.c:2466).
Stranded(c) == c \in backlog /\ server # "up"
Answered ==
    \A c \in Clients : []<>(st[c] # "busy" \/ asked[c] = <<>> \/ Stranded(c))

\* send_notification's assert(ret_len <= CHUNKSIZ), cmd_server.c:310, holds.
NotificationFits == server # "aborted"
=============================================================================
