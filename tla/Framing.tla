------------------------------ MODULE Framing ------------------------------
(***************************************************************************)
(* How requests come out of a client's byte stream: accept_cb, read_cb and *)
(* error_cb of cmd_server.c on top of a libevent bufferevent.              *)
(*                                                                         *)
(* A request is a length (2 bytes), a cid (2 bytes) and so many bytes of   *)
(* payload.  Bytes are not modelled, only their offsets in the stream: a   *)
(* field read at the offset where it was written has the value that was    *)
(* written, at any other offset it can be anything.                        *)
(*                                                                         *)
(* read_cb is one callback that reads field after field in a loop; while   *)
(* it is in there (busy) only the client can act, so each field it reads   *)
(* is an action.  The server's handlers are reduced to their result.       *)
(***************************************************************************)
EXTENDS Integers, Sequences

CONSTANTS Requests,  \* what the client sends: [len, cid, ok], ok: the handler returns 1
          ChunkSiz,  \* CHUNKSIZ
          MaxReqs    \* bound on the requests of a connection

ASSUME ChunkAssumption == ChunkSiz \in Nat /\ ChunkSiz >= 4
ASSUME RequestAssumption ==
    /\ Requests \subseteq [len : Nat, cid : Nat, ok : BOOLEAN]
    /\ MaxReqs \in Nat

VARIABLES queue,    \* the requests the client has begun to send
          start,    \* start[k]: where in the stream the k-th one begins
          total,    \* length of the stream they make
          filled,   \* how much of it libevent has put in the input buffer
          pos,      \* how much of that read_cb has taken out
          c_len, c_cid,  \* of struct client_con
          low,      \* the low watermark for reading
          busy,     \* in read_cb
          gone,     \* the client has closed its end
          open,     \* the connection exists in the server
          done      \* the requests that were executed, and the cids of their answers

stream == <<queue, start, total, gone>>
parser == <<pos, c_len, c_cid, low, done>>
vars   == <<stream, filled, busy, open, parser>>

Cids == {r.cid : r \in Requests}

TypeOK ==
    /\ queue \in Seq(Requests) /\ start \in Seq(Nat) /\ Len(start) = Len(queue)
    /\ total \in Nat /\ filled \in Nat /\ pos \in Nat
    /\ pos <= filled /\ filled <= total
    /\ c_len \in 0 .. ChunkSiz /\ c_cid \in Nat /\ low \in 2 .. ChunkSiz
    /\ busy \in BOOLEAN /\ gone \in BOOLEAN /\ open \in BOOLEAN
    /\ done \in Seq([req : Nat, cid : Nat])

\* accept_cb
Init ==
    /\ queue = << >> /\ start = << >> /\ total = 0
    /\ filled = 0 /\ pos = 0
    /\ c_len = 0 /\ c_cid = 0 /\ low = 4
    /\ busy = FALSE /\ gone = FALSE /\ open = TRUE
    /\ done = << >>

-----------------------------------------------------------------------------
(* The client and the socket. *)

Send(r) ==
    /\ ~gone /\ Len(queue) < MaxReqs
    /\ queue' = Append(queue, r)
    /\ start' = Append(start, total)
    /\ total' = total + 4 + r.len
    /\ UNCHANGED <<gone, filled, busy, open, parser>>

\* A client may leave in the middle of a request.
Disconnect ==
    /\ ~gone
    /\ gone' = TRUE
    /\ UNCHANGED <<queue, start, total, filled, busy, open, parser>>

-----------------------------------------------------------------------------
(* libevent: a fragment arrives and goes into the buffer, up to the high   *)
(* watermark, with a call back when the low watermark is reached; another  *)
(* one for the end of file, or the write error, that a client which is     *)
(* gone causes.                                                            *)

Buffered == filled - pos

Fill ==
    /\ open /\ ~busy
    /\ \E n \in filled + 1 .. total :
          /\ n - pos <= ChunkSiz
          /\ filled' = n
          /\ busy' = (n - pos >= low)
    /\ UNCHANGED <<stream, open, parser>>

error_cb ==
    /\ open /\ ~busy /\ gone
    /\ open' = FALSE
    /\ UNCHANGED <<stream, filled, busy, parser>>

-----------------------------------------------------------------------------
(* read_cb, field by field. *)

LenAt(o) == IF \E k \in DOMAIN start : start[k] = o
            THEN {queue[k].len : k \in {k \in DOMAIN start : start[k] = o}}
            ELSE 0 .. ChunkSiz + 1

CidAt(o) == IF \E k \in DOMAIN start : start[k] + 2 = o
            THEN {queue[k].cid : k \in {k \in DOMAIN start : start[k] + 2 = o}}
            ELSE Cids

\* The request whose payload a handler is given, 0 if it is none.
PayloadAt(o, len) ==
    LET found == {k \in DOMAIN start : start[k] + 4 = o /\ queue[k].len = len}
    IN  IF found = {} THEN {0} ELSE found

\* The connection is freed, and nothing of it is used any more.
drop_client_connection == open' = FALSE /\ busy' = FALSE

ReadLen_Unchecked(len) == TRUE

ReadLen_Valid(len) == len >= 4 /\ len <= ChunkSiz

read_len ==
    /\ busy /\ c_len = 0 /\ c_cid = 0 /\ Buffered >= 2
    /\ pos' = pos + 2
    /\ \E len \in LenAt(pos) :
          \/ /\ ReadLen_Valid(len)
             /\ c_len' = len /\ low' = 2
             /\ UNCHANGED <<open, busy>>
          \/ /\ ~ReadLen_Valid(len)
             /\ drop_client_connection
             /\ UNCHANGED <<c_len, low>>
    /\ UNCHANGED <<stream, filled, c_cid, done>>

\* The low watermark while the payload is awaited.
PayloadMark_WithHeader(len) == len + 4
PayloadMark(len) == len

read_cid ==
    /\ busy /\ c_len > 0 /\ c_cid = 0 /\ Buffered >= 2
    /\ pos' = pos + 2
    /\ c_cid' \in CidAt(pos)
    /\ low' = PayloadMark(c_len)
    /\ UNCHANGED <<stream, filled, busy, open, c_len, done>>

\* After a request read_cb looks for the next one before it returns.
GoesOn_Once == FALSE
GoesOn == TRUE

NextCid_Kept == c_cid
NextCid == 0

run_server_command ==
    /\ busy /\ c_len > 0 /\ c_cid # 0 /\ Buffered >= c_len
    /\ pos' = pos + c_len
    /\ low' = 2 /\ c_len' = 0
    /\ \E k \in PayloadAt(pos, c_len) :
          /\ done' = Append(done, [req |-> k, cid |-> c_cid])
          /\ \/ /\ k # 0 => queue[k].ok
                /\ c_cid' = NextCid
                /\ busy' = GoesOn
                /\ UNCHANGED open
             \/ /\ k # 0 => ~queue[k].ok
                /\ drop_client_connection
                /\ UNCHANGED c_cid
    /\ UNCHANGED <<stream, filled>>

\* What the next field needs has not arrived.
Return ==
    /\ busy
    /\ Buffered < IF c_len = 0 \/ c_cid = 0 THEN 2 ELSE c_len
    /\ busy' = FALSE
    /\ UNCHANGED <<stream, filled, open, parser>>

-----------------------------------------------------------------------------
read_cb == read_len \/ read_cid \/ run_server_command \/ Return

Next == \/ \E r \in Requests : Send(r)
        \/ Disconnect
        \/ Fill \/ error_cb \/ read_cb

Spec == Init /\ [][Next]_vars

\* The socket delivers what was written and libevent reads it; the callback
\* is a loop that runs.  Clients need not do anything.
FairSpec == Spec /\ WF_vars(Fill) /\ WF_vars(read_cb)

-----------------------------------------------------------------------------
End(k) == start[k] + 4 + queue[k].len

\* Request k is to be executed: none before it ends the connection.
Due(k) == /\ ReadLen_Valid(queue[k].len)
          /\ \A j \in 1 .. k - 1 : queue[j].ok /\ ReadLen_Valid(queue[j].len)

(* Whatever the fragments, the server executes the client's requests, in   *)
(* order, each once, with its own cid, and no bytes that are not a request *)
(* (for cids other than 0).  RequestStream says it.                        *)
Promise == INSTANCE RequestStream WITH queue <- queue, done <- done
InOrder == Promise!Spec

(* No request waits in the input buffer: when read_cb has returned, every  *)
(* request that is complete there has been executed, and the watermark it  *)
(* left does not delay the next one (cmd_server.c:1997, 2013, 2027).       *)
NothingWaits ==
    open /\ ~busy => /\ \A k \in DOMAIN queue : Due(k) /\ End(k) <= filled => k <= Len(done)
                     /\ \A k \in DOMAIN queue : k = Len(done) + 1 => low <= End(k) - pos

(* A request that has been sent is executed, unless its client leaves.     *)
Served == \A k \in 1 .. MaxReqs :
              k <= Len(queue) /\ Due(k) ~> Len(done) >= k \/ gone
=============================================================================
