--------------------------- MODULE RequestStream ---------------------------
(***************************************************************************)
(* What a connection promises a client (internals.txt, "Protocol"): its    *)
(* requests are executed one at a time, in the order they were sent, each  *)
(* answered under its own cid.  A request that is refused, or one whose    *)
(* handler fails, is the last.                                             *)
(***************************************************************************)
EXTENDS Naturals, Sequences

CONSTANTS Requests,  \* what a client can send: length, cid, does the handler succeed
          ChunkSiz   \* CHUNKSIZ

VARIABLES queue,  \* the requests the client has sent
          done    \* the executed ones: which, and the cid of the answer

Acceptable(r) == r.len \in 4 .. ChunkSiz

Init == queue = << >> /\ done = << >>

Send(r) == /\ queue' = Append(queue, r)
           /\ UNCHANGED done

Serve ==
    LET k == Len(done) + 1
    IN  /\ k <= Len(queue)
        /\ Acceptable(queue[k])
        /\ \A j \in 1 .. k - 1 : queue[j].ok
        /\ done' = Append(done, [req |-> k, cid |-> queue[k].cid])
        /\ UNCHANGED queue

Next == Serve \/ \E r \in Requests : Send(r)

Spec == Init /\ [][Next]_<<queue, done>>
=============================================================================
