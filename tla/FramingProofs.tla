--------------------------- MODULE FramingProofs ---------------------------
(***************************************************************************)
(* For clients that do not use cid 0: read_cb takes requests out of any    *)
(* stream in any fragments as RequestStream promises, and leaves none      *)
(* behind in the buffer.                                                   *)
(***************************************************************************)
EXTENDS Framing, TLAPS

NonZeroCids == \A r \in Requests : r.cid # 0

-----------------------------------------------------------------------------
(* The inductive invariant. *)

\* Where request k begins, or will begin.
Begins(k) == IF k <= Len(queue) THEN start[k] ELSE total

\* Requests lie one behind the other in the stream.
Contiguous ==
    /\ Begins(1) = 0
    /\ \A k \in 1 .. Len(queue) : Begins(k + 1) = End(k) /\ End(k) <= total
    /\ \A j, k \in 1 .. Len(queue) : j < k => End(j) <= start[k]

Current == Len(done) + 1

\* read_cb is where its state says it is: at the beginning of the current
\* request, at its cid, or at its payload.
Aligned ==
    /\ Len(done) <= Len(queue)
    /\ \A k \in 1 .. Len(done) : queue[k].ok
    /\ c_len = 0 => c_cid = 0 /\ pos = Begins(Current)
    /\ c_len > 0 => /\ Current <= Len(queue)
                    /\ c_len = queue[Current].len
                    /\ ReadLen_Valid(c_len)
                    /\ c_cid = 0 => pos = start[Current] + 2
                    /\ c_cid # 0 => pos = start[Current] + 4 /\ c_cid = queue[Current].cid

\* The watermark asks for no more than the next field; without a callback
\* running there is less than that.
Marked ==
    /\ c_len = 0 => low \in {2, 4}
    /\ c_len > 0 => low = IF c_cid = 0 THEN 2 ELSE c_len
    /\ ~busy => Buffered < low

IInv == /\ TypeOK
        /\ Contiguous
        /\ busy => open
        /\ open => Aligned /\ Marked

-----------------------------------------------------------------------------
LEMMA InitIInv == Init => IInv
  <1> SUFFICES ASSUME Init PROVE IInv OBVIOUS
  <1>1. Len(queue) = 0 /\ Len(start) = 0 /\ Len(done) = 0
    BY DEF Init
  <1>2. TypeOK
    <2>1. queue \in Seq(Requests) /\ start \in Seq(Nat) /\ done \in Seq([req : Nat, cid : Nat])
      BY DEF Init
    <2>2. low \in 2 .. ChunkSiz /\ c_len \in 0 .. ChunkSiz
      BY ChunkAssumption DEF Init
    <2>3. Len(start) = Len(queue) /\ pos <= filled /\ filled <= total
      BY <1>1 DEF Init
    <2>4. QED BY <2>1, <2>2, <2>3 DEF Init, TypeOK
  <1>3. Contiguous
    BY <1>1 DEF Init, Contiguous, Begins
  <1>4. Aligned /\ Marked
    BY <1>1 DEF Init, Aligned, Marked, Begins, Current, Buffered
  <1>5. QED BY <1>2, <1>3, <1>4 DEF Init, IInv

\* What the client adds lies behind everything read_cb has looked at.
LEMMA SendIInv ==
  ASSUME IInv, NEW r \in Requests, Send(r)
  PROVE  IInv'
  <1> USE DEF IInv
  <1>1. /\ queue' = Append(queue, r) /\ start' = Append(start, total)
        /\ total' = total + 4 + r.len
        /\ UNCHANGED <<gone, filled, busy, open, pos, c_len, c_cid, low, done>>
    BY DEF Send, parser
  <1>2. /\ queue \in Seq(Requests) /\ start \in Seq(Nat) /\ Len(start) = Len(queue)
        /\ total \in Nat /\ r.len \in Nat /\ Len(queue) \in Nat
    BY RequestAssumption DEF TypeOK
  <1>3. /\ queue' \in Seq(Requests) /\ start' \in Seq(Nat) /\ total' \in Nat /\ total <= total'
        /\ Len(queue') = Len(queue) + 1 /\ Len(start') = Len(queue')
    BY <1>1, <1>2
  <1>4. /\ queue'[Len(queue) + 1] = r /\ start'[Len(queue) + 1] = total
        /\ \A k \in 1 .. Len(queue) : queue'[k] = queue[k] /\ start'[k] = start[k]
    BY <1>1, <1>2
  <1>5. \A k \in 1 .. Len(queue) :
           /\ queue[k].len \in Nat /\ start[k] \in Nat
           /\ End(k) \in Nat /\ End(k)' = End(k)
    <2> SUFFICES ASSUME NEW k \in 1 .. Len(queue)
                 PROVE  /\ queue[k].len \in Nat /\ start[k] \in Nat
                        /\ End(k) \in Nat /\ End(k)' = End(k)
      OBVIOUS
    <2>1. queue[k] \in Requests /\ start[k] \in Nat
      BY <1>2
    <2>2. queue[k].len \in Nat
      BY <2>1, RequestAssumption
    <2>3. QED BY <2>1, <2>2, <1>4 DEF End
  <1>6. \A k \in 1 .. Len(queue) + 1 : Begins(k)' = Begins(k)
    BY <1>2, <1>3, <1>4 DEF Begins
  <1>7. ASSUME NEW k \in Nat, k = Len(queue) + 1
        PROVE  End(k)' = total' /\ Begins(k + 1)' = total'
    <2>1. ~(k + 1 <= Len(queue'))
      BY <1>2, <1>3, <1>7
    <2>2. start'[k] + 4 + queue'[k].len = total'
      BY <1>1, <1>2, <1>4, <1>7
    <2>3. QED BY <2>1, <2>2 DEF End, Begins
  <1>8. TypeOK'
    BY <1>1, <1>2, <1>3 DEF TypeOK
  <1>9. Contiguous'
    <2>1. Begins(1)' = 0
      BY <1>2, <1>6 DEF Contiguous
    <2>2. ASSUME NEW k \in 1 .. Len(queue')
          PROVE  Begins(k + 1)' = End(k)' /\ End(k)' <= total'
      <3>1. CASE k \in 1 .. Len(queue)
        <4>1. k + 1 \in 1 .. Len(queue) + 1
          BY <3>1, <1>2
        <4>2. Begins(k + 1) = End(k) /\ End(k) <= total
          BY <3>1 DEF Contiguous
        <4>3. Begins(k + 1)' = Begins(k + 1)
          BY <4>1, <1>6
        <4>4. End(k)' = End(k) /\ End(k) \in Nat
          BY <3>1, <1>5
        <4>5. Begins(k + 1)' = End(k)'
          BY <4>2, <4>3, <4>4
        <4>6. End(k)' <= total'
          BY <4>2, <4>4, <1>2, <1>3
        <4>7. QED BY <4>5, <4>6
      <3>2. CASE k = Len(queue) + 1
        <4>1. End(k)' = total' /\ Begins(k + 1)' = total'
          BY <3>2, <1>7
        <4>2. QED BY <4>1, <1>3
      <3>3. QED BY <3>1, <3>2, <1>2, <1>3
    <2>3. ASSUME NEW j \in 1 .. Len(queue'), NEW k \in 1 .. Len(queue'), j < k
          PROVE  End(j)' <= start'[k]
      <3>1. j \in 1 .. Len(queue)
        BY <2>3, <1>2, <1>3
      <3>2. End(j)' = End(j)
        BY <3>1, <1>5
      <3>3. CASE k \in 1 .. Len(queue)
        BY <2>3, <3>1, <3>2, <3>3, <1>4 DEF Contiguous
      <3>4. CASE k = Len(queue) + 1
        BY <3>1, <3>2, <3>4, <1>4 DEF Contiguous
      <3>5. QED BY <3>3, <3>4, <1>2, <1>3
    <2>4. QED BY <2>1, <2>2, <2>3 DEF Contiguous
  <1>10. open => Aligned'
    <2> SUFFICES ASSUME open PROVE Aligned' OBVIOUS
    <2>1. Len(done) \in Nat /\ Len(done) <= Len(queue)
      BY DEF Aligned, TypeOK
    <2>2. Current \in 1 .. Len(queue) + 1 /\ Current' = Current
      BY <2>1, <1>1, <1>2 DEF Current
    <2>3. Begins(Current)' = Begins(Current)
      <3>1. \A k \in 1 .. Len(queue) + 1 :
               (IF k <= Len(queue') THEN start'[k] ELSE total') = Begins(k)
        BY <1>6 DEF Begins
      <3>2. QED BY <3>1, <2>2 DEF Begins
    <2>4. \A k \in 1 .. Len(done) : queue'[k].ok
      BY <2>1, <1>2, <1>4 DEF Aligned
    <2>5. Current <= Len(queue) => queue'[Current] = queue[Current] /\ start'[Current] = start[Current]
      BY <2>2, <1>2, <1>4
    <2>6. c_len = 0 => c_cid = 0 /\ pos = Begins(Current)
      BY DEF Aligned
    <2>7. c_len > 0 => /\ Current <= Len(queue)
                       /\ c_len = queue'[Current].len
                       /\ ReadLen_Valid(c_len)
                       /\ c_cid = 0 => pos = start'[Current] + 2
                       /\ c_cid # 0 => pos = start'[Current] + 4 /\ c_cid = queue'[Current].cid
      BY <2>5 DEF Aligned
    <2>8. ReadLen_Valid(c_len)' = ReadLen_Valid(c_len)
      BY <1>1 DEF ReadLen_Valid
    <2>9. Len(done) <= Len(queue') /\ (Current <= Len(queue) => Current <= Len(queue'))
      BY <2>1, <2>2, <1>2, <1>3
    <2>10. QED BY <2>2, <2>3, <2>4, <2>6, <2>7, <2>8, <2>9, <1>1 DEF Aligned
  <1>11. open => Marked'
    BY <1>1 DEF Marked, Buffered
  <1>12. QED BY <1>1, <1>8, <1>9, <1>10, <1>11

-----------------------------------------------------------------------------
(* What read_cb finds where it looks. *)

LEMMA QueueTypes ==
  ASSUME TypeOK
  PROVE  /\ Len(queue) \in Nat /\ Len(done) \in Nat /\ DOMAIN start = 1 .. Len(queue)
         /\ \A k \in 1 .. Len(queue) :
               /\ queue[k] \in Requests /\ queue[k].len \in Nat /\ queue[k].cid \in Nat
               /\ queue[k].ok \in BOOLEAN /\ start[k] \in Nat
               /\ End(k) = start[k] + 4 + queue[k].len
  <1>1. /\ Len(queue) \in Nat /\ Len(done) \in Nat /\ DOMAIN start = 1 .. Len(queue)
        /\ \A k \in 1 .. Len(queue) : queue[k] \in Requests /\ start[k] \in Nat
    BY DEF TypeOK
  <1>2. \A r \in Requests : r.len \in Nat /\ r.cid \in Nat /\ r.ok \in BOOLEAN
    BY RequestAssumption
  <1>3. QED BY <1>1, <1>2 DEF End

\* No two requests begin at one place.
LEMMA StartsDiffer ==
  ASSUME TypeOK, Contiguous, NEW j \in 1 .. Len(queue), NEW k \in 1 .. Len(queue),
         start[j] = start[k]
  PROVE  j = k
  <1>1. /\ j \in Nat /\ k \in Nat
        /\ start[j] \in Nat /\ queue[j].len \in Nat /\ End(j) = start[j] + 4 + queue[j].len
        /\ start[k] \in Nat /\ queue[k].len \in Nat /\ End(k) = start[k] + 4 + queue[k].len
    BY QueueTypes
  <1>2. ~(j < k)
    BY <1>1 DEF Contiguous
  <1>3. ~(k < j)
    BY <1>1 DEF Contiguous
  <1>4. QED BY <1>1, <1>2, <1>3

\* A length is only read where a request begins.
LEMMA LenThere ==
  ASSUME IInv, open, c_len = 0, Buffered >= 2
  PROVE  /\ Current \in 1 .. Len(queue) /\ pos = start[Current]
         /\ LenAt(pos) = {queue[Current].len}
  <1>1. TypeOK /\ Contiguous /\ Aligned
    BY DEF IInv
  <1>2. /\ pos \in Nat /\ filled \in Nat /\ total \in Nat /\ filled <= total
        /\ Len(done) \in Nat /\ Len(queue) \in Nat
    BY <1>1, QueueTypes DEF TypeOK
  <1>3. pos = Begins(Current) /\ pos # total
    BY <1>1, <1>2 DEF Aligned, Buffered
  <1>4. Current \in 1 .. Len(queue) /\ pos = start[Current]
    BY <1>2, <1>3 DEF Begins, Current
  <1>5. {k \in DOMAIN start : start[k] = pos} = {Current}
    BY <1>1, <1>4, StartsDiffer, QueueTypes
  <1>6. {queue[k].len : k \in {k \in DOMAIN start : start[k] = pos}} = {queue[Current].len}
    BY <1>5
  <1>7. \E k \in DOMAIN start : start[k] = pos
    BY <1>1, <1>4, QueueTypes
  <1>8. QED BY <1>4, <1>6, <1>7 DEF LenAt

LEMMA CidThere ==
  ASSUME IInv, open, c_len > 0, c_cid = 0
  PROVE  CidAt(pos) = {queue[Current].cid}
  <1>1. TypeOK /\ Contiguous /\ Current <= Len(queue) /\ pos = start[Current] + 2
    BY DEF IInv, Aligned
  <1>2. Current \in 1 .. Len(queue) /\ start[Current] \in Nat
    BY <1>1, QueueTypes DEF Current
  <1>3. \A k \in DOMAIN start : start[k] + 2 = pos => k = Current
    <2> SUFFICES ASSUME NEW k \in 1 .. Len(queue), start[k] + 2 = pos PROVE k = Current
      BY <1>1, QueueTypes
    <2>1. start[k] = start[Current]
      BY <1>1, <1>2, QueueTypes
    <2>2. QED BY <2>1, <1>1, <1>2, StartsDiffer
  <1>4. Current \in DOMAIN start /\ start[Current] + 2 = pos
    BY <1>1, <1>2, QueueTypes
  <1>5. {k \in DOMAIN start : start[k] + 2 = pos} = {Current}
    BY <1>3, <1>4
  <1>6. {queue[k].cid : k \in {k \in DOMAIN start : start[k] + 2 = pos}} = {queue[Current].cid}
    BY <1>5
  <1>7. QED BY <1>4, <1>6 DEF CidAt

LEMMA PayloadThere ==
  ASSUME IInv, open, c_len > 0, c_cid # 0
  PROVE  PayloadAt(pos, c_len) = {Current}
  <1>1. /\ TypeOK /\ Contiguous /\ Current <= Len(queue) /\ pos = start[Current] + 4
        /\ c_len = queue[Current].len
    BY DEF IInv, Aligned
  <1>2. Current \in 1 .. Len(queue) /\ start[Current] \in Nat
    BY <1>1, QueueTypes DEF Current
  <1>3. \A k \in DOMAIN start : start[k] + 4 = pos => k = Current
    <2> SUFFICES ASSUME NEW k \in 1 .. Len(queue), start[k] + 4 = pos PROVE k = Current
      BY <1>1, QueueTypes
    <2>1. start[k] = start[Current]
      BY <1>1, <1>2, QueueTypes
    <2>2. QED BY <2>1, <1>1, <1>2, StartsDiffer
  <1>4. Current \in DOMAIN start /\ start[Current] + 4 = pos
    BY <1>1, <1>2, QueueTypes
  <1>5. {k \in DOMAIN start : start[k] + 4 = pos /\ queue[k].len = c_len} = {Current}
    BY <1>1, <1>3, <1>4
  <1>6. QED BY <1>5 DEF PayloadAt

-----------------------------------------------------------------------------
(* The steps of read_cb. *)

\* A step that leaves the stream alone leaves it contiguous.
LEMMA ContiguousKept ==
  ASSUME Contiguous, UNCHANGED stream
  PROVE  /\ Contiguous'
         /\ \A k \in Nat : Begins(k)' = Begins(k) /\ End(k)' = End(k)
  BY DEF stream, Contiguous, Begins, End

LEMMA ReadLenIInv ==
  ASSUME IInv, read_len
  PROVE  IInv'
  <1>1. /\ TypeOK /\ Contiguous /\ open /\ Aligned /\ Marked
        /\ busy /\ c_len = 0 /\ c_cid = 0 /\ Buffered >= 2
    BY DEF IInv, read_len
  <1>2. /\ Current \in 1 .. Len(queue) /\ pos = start[Current]
        /\ LenAt(pos) = {queue[Current].len}
    BY <1>1, LenThere
  <1>3. /\ pos' = pos + 2 /\ UNCHANGED <<stream, filled, c_cid, done>>
        /\ \/ /\ ReadLen_Valid(queue[Current].len)
              /\ c_len' = queue[Current].len /\ low' = 2 /\ UNCHANGED <<open, busy>>
           \/ open' = FALSE /\ busy' = FALSE /\ UNCHANGED <<c_len, low>>
    BY <1>2 DEF read_len, drop_client_connection
  <1>4. /\ pos \in Nat /\ filled \in Nat /\ pos + 2 <= filled
        /\ queue[Current].len \in Nat /\ Len(done) \in Nat /\ Len(queue) \in Nat
    BY <1>1, <1>2, QueueTypes, SMTT(20) DEF TypeOK, Buffered
  <1>5. c_len' \in 0 .. ChunkSiz /\ low' \in 2 .. ChunkSiz
    <2>1. ChunkSiz \in Nat /\ ChunkSiz >= 4 /\ c_len \in 0 .. ChunkSiz /\ low \in 2 .. ChunkSiz
      BY <1>1, ChunkAssumption DEF TypeOK
    <2>2. QED BY <1>3, <1>4, <2>1 DEF ReadLen_Valid
  <1>6. TypeOK'
    <2>1. pos' \in Nat /\ pos' <= filled'
      BY <1>3, <1>4
    <2>2. open' \in BOOLEAN /\ busy' \in BOOLEAN
      BY <1>1, <1>3 DEF TypeOK
    <2>3. QED BY <1>1, <1>3, <1>5, <2>1, <2>2 DEF TypeOK, stream
  <1>7. Contiguous'
    BY <1>1, <1>3, ContiguousKept
  <1>8. ASSUME open'
        PROVE  Aligned' /\ Marked' /\ busy'
    <2>1. /\ c_len' = queue[Current].len /\ low' = 2 /\ open' = open /\ busy' = busy
          /\ ReadLen_Valid(queue[Current].len)
      BY <1>3, <1>8
    <2>2. /\ Current' = Current /\ queue' = queue /\ start' = start /\ done' = done
          /\ c_cid' = 0 /\ c_len' > 0
      BY <1>1, <1>3, <1>4, <2>1 DEF stream, Current, ReadLen_Valid
    <2>3. ReadLen_Valid(c_len)'
      BY <2>1 DEF ReadLen_Valid
    <2>4. Aligned'
      <3>1. Len(done) <= Len(queue) /\ \A k \in 1 .. Len(done) : queue[k].ok
        BY <1>1 DEF Aligned
      <3>2. QED BY <3>1, <1>2, <1>3, <2>1, <2>2, <2>3 DEF Aligned
    <2>5. QED BY <1>1, <2>1, <2>2, <2>4 DEF Marked
  <1>9. QED BY <1>3, <1>6, <1>7, <1>8 DEF IInv

LEMMA ReadCidIInv ==
  ASSUME NonZeroCids, IInv, read_cid
  PROVE  IInv'
  <1>1. /\ TypeOK /\ Contiguous /\ open /\ Aligned /\ Marked
        /\ busy /\ c_len > 0 /\ c_cid = 0 /\ Buffered >= 2
    BY DEF IInv, read_cid
  <1>2. CidAt(pos) = {queue[Current].cid} /\ pos = start[Current] + 2 /\ Current <= Len(queue)
    BY <1>1, CidThere DEF Aligned
  <1>3. /\ pos' = pos + 2 /\ c_cid' = queue[Current].cid /\ low' = c_len
        /\ UNCHANGED <<stream, filled, busy, open, c_len, done>>
    BY <1>2 DEF read_cid, PayloadMark
  <1>4. Current \in 1 .. Len(queue) /\ Len(queue) \in Nat /\ Len(done) \in Nat
    BY <1>1, <1>2, QueueTypes DEF Current
  <1>5. queue[Current].cid \in Nat /\ queue[Current].cid # 0 /\ start[Current] \in Nat
    BY <1>1, <1>4, QueueTypes DEF NonZeroCids
  <1>6. /\ pos \in Nat /\ filled \in Nat /\ pos + 2 <= filled /\ c_len \in 2 .. ChunkSiz
    BY <1>1, ChunkAssumption DEF TypeOK, Buffered, Aligned, ReadLen_Valid
  <1>7. TypeOK'
    BY <1>1, <1>3, <1>5, <1>6 DEF TypeOK, stream
  <1>8. Contiguous'
    BY <1>1, <1>3, ContiguousKept
  <1>9. Current' = Current /\ queue' = queue /\ start' = start /\ ReadLen_Valid(c_len)'
    BY <1>1, <1>3 DEF stream, Current, ReadLen_Valid, Aligned
  <1>10. Aligned'
    <2>1. /\ Len(done) <= Len(queue) /\ \A k \in 1 .. Len(done) : queue[k].ok
          /\ c_len = queue[Current].len
      BY <1>1 DEF Aligned
    <2>2. pos' = start[Current] + 4
      BY <1>2, <1>3, <1>5
    <2>3. QED BY <2>1, <2>2, <1>1, <1>2, <1>3, <1>5, <1>9 DEF Aligned
  <1>11. Marked'
    BY <1>1, <1>3, <1>5 DEF Marked
  <1>12. QED BY <1>1, <1>3, <1>7, <1>8, <1>10, <1>11 DEF IInv

\* What running a command does, said of the current request.
LEMMA RunStep ==
  ASSUME IInv, run_server_command
  PROVE  /\ TypeOK /\ Contiguous /\ open /\ Aligned /\ busy /\ c_len > 0 /\ c_cid # 0
         /\ Current \in 1 .. Len(queue) /\ pos' = End(Current) /\ pos' <= filled
         /\ low' = 2 /\ c_len' = 0 /\ UNCHANGED <<stream, filled>>
         /\ done' = Append(done, [req |-> Current, cid |-> queue[Current].cid])
         /\ ReadLen_Valid(queue[Current].len)
         /\ \/ queue[Current].ok /\ c_cid' = 0 /\ busy' = TRUE /\ UNCHANGED open
            \/ open' = FALSE /\ busy' = FALSE /\ UNCHANGED c_cid
  <1>1. /\ TypeOK /\ Contiguous /\ open /\ Aligned
        /\ busy /\ c_len > 0 /\ c_cid # 0 /\ Buffered >= c_len
    BY DEF IInv, run_server_command
  <1>2. /\ Current <= Len(queue) /\ pos = start[Current] + 4 /\ c_cid = queue[Current].cid
        /\ c_len = queue[Current].len /\ ReadLen_Valid(c_len)
    BY <1>1 DEF Aligned
  <1>3. Current \in 1 .. Len(queue) /\ Current # 0
    BY <1>1, <1>2, QueueTypes DEF Current
  <1>4. pos' = End(Current) /\ pos' <= filled
    <2>1. start[Current] \in Nat /\ queue[Current].len \in Nat /\ filled \in Nat
          /\ End(Current) = start[Current] + 4 + queue[Current].len
      BY <1>1, <1>3, QueueTypes DEF TypeOK
    <2>2. pos' = pos + c_len
      BY DEF run_server_command
    <2>3. QED BY <1>1, <1>2, <2>1, <2>2 DEF Buffered
  <1>5. PayloadAt(pos, c_len) = {Current}
    BY <1>1, PayloadThere
  <1>6. QED BY <1>1, <1>2, <1>3, <1>4, <1>5
            DEF run_server_command, drop_client_connection, NextCid, GoesOn

LEMMA RunIInv ==
  ASSUME IInv, run_server_command
  PROVE  IInv'
  <1> DEFINE answer == [req |-> Current, cid |-> queue[Current].cid]
  <1>1. /\ TypeOK /\ Contiguous /\ open /\ Aligned /\ busy
        /\ Current \in 1 .. Len(queue) /\ pos' = End(Current) /\ pos' <= filled
        /\ low' = 2 /\ c_len' = 0 /\ UNCHANGED <<stream, filled>>
        /\ done' = Append(done, answer)
    BY RunStep
  <1>2. \/ queue[Current].ok /\ c_cid' = 0 /\ busy' = TRUE /\ UNCHANGED open
        \/ open' = FALSE /\ busy' = FALSE /\ UNCHANGED c_cid
    BY RunStep
  <1>3. /\ Len(queue) \in Nat /\ Len(done) \in Nat /\ End(Current) \in Nat
        /\ queue[Current].cid \in Nat /\ Current \in Nat
    <2>1. start[Current] \in Nat /\ queue[Current].len \in Nat /\ queue[Current].cid \in Nat
          /\ End(Current) = start[Current] + 4 + queue[Current].len
          /\ Len(queue) \in Nat /\ Len(done) \in Nat
      BY <1>1, QueueTypes
    <2>2. QED BY <2>1, <1>1
  <1>4. /\ done' \in Seq([req : Nat, cid : Nat]) /\ Len(done') = Len(done) + 1
    <2>1. answer \in [req : Nat, cid : Nat]
      BY <1>3
    <2>2. done \in Seq([req : Nat, cid : Nat])
      BY <1>1 DEF TypeOK
    <2> HIDE DEF answer
    <2>3. QED BY <2>1, <2>2, <1>1
  <1>5. TypeOK'
    <2>1. ChunkSiz \in Nat /\ ChunkSiz >= 4 /\ c_cid \in Nat
      BY <1>1, ChunkAssumption DEF TypeOK
    <2>2. c_cid' = 0 \/ c_cid' = c_cid
      BY <1>2
    <2>3. c_len' \in 0 .. ChunkSiz /\ low' \in 2 .. ChunkSiz /\ c_cid' \in Nat
      BY <1>1, <2>1, <2>2
    <2>4. open' \in BOOLEAN /\ busy' \in BOOLEAN
      BY <1>1, <1>2 DEF TypeOK
    <2>5. QED BY <1>1, <1>3, <1>4, <2>3, <2>4 DEF TypeOK, stream
  <1>6. Contiguous' /\ \A k \in Nat : Begins(k)' = Begins(k)
    BY <1>1, ContiguousKept
  <1>7. ASSUME open'
        PROVE  Aligned' /\ Marked' /\ busy'
    <2>1. queue[Current].ok /\ c_cid' = 0 /\ busy' = TRUE
      BY <1>2, <1>7
    <2>2. Current' = Current + 1 /\ queue' = queue
      BY <1>1, <1>4 DEF Current, stream
    <2>3. Len(done') <= Len(queue')
      BY <1>1, <1>3, <1>4, <2>2 DEF Current
    <2>4. \A k \in 1 .. Len(done') : queue'[k].ok
      <3>1. \A k \in 1 .. Len(done) : queue[k].ok
        BY <1>1 DEF Aligned
      <3>2. QED BY <3>1, <1>3, <1>4, <2>1, <2>2 DEF Current
    <2>5. pos' = Begins(Current)'
      <3>1. Begins(Current + 1) = End(Current)
        BY <1>1 DEF Contiguous
      <3>2. \A k \in Nat : (IF k <= Len(queue') THEN start'[k] ELSE total') = Begins(k)
        BY <1>6 DEF Begins
      <3>3. Begins(Current)' = Begins(Current + 1)
        BY <3>2, <2>2, <1>3 DEF Begins
      <3>4. QED BY <3>1, <3>3, <1>1
    <2>6. Aligned'
      BY <1>1, <2>1, <2>3, <2>4, <2>5 DEF Aligned
    <2>7. Marked'
      BY <1>1, <2>1 DEF Marked
    <2>8. QED BY <2>1, <2>6, <2>7
  <1>8. QED BY <1>1, <1>2, <1>5, <1>6, <1>7 DEF IInv

-----------------------------------------------------------------------------
(* The other steps, and the invariant. *)

LEMMA ParserKept ==
  ASSUME Aligned, UNCHANGED <<queue, start, total, parser>>
  PROVE  Aligned'
  BY DEF Aligned, parser, Current, Begins, ReadLen_Valid

LEMMA FillIInv ==
  ASSUME IInv, Fill
  PROVE  IInv'
  <1>1. PICK n \in filled + 1 .. total :
           n - pos <= ChunkSiz /\ filled' = n /\ busy' = (n - pos >= low)
    BY DEF Fill
  <1>2. open /\ ~busy /\ UNCHANGED <<stream, open, parser>> /\ TypeOK /\ Contiguous /\ Aligned /\ Marked
    BY DEF Fill, IInv
  <1>3. filled \in Nat /\ pos \in Nat /\ total \in Nat /\ pos <= filled /\ low \in Nat
    BY <1>2 DEF TypeOK
  <1>4. filled' \in Nat /\ pos <= filled' /\ filled' <= total /\ busy' \in BOOLEAN
    BY <1>1, <1>3
  <1>5. TypeOK'
    BY <1>2, <1>4 DEF TypeOK, stream, parser
  <1>6. Contiguous'
    BY <1>2, ContiguousKept
  <1>7. Aligned'
    BY <1>2, ParserKept DEF stream
  <1>8. Marked'
    <2>1. n \in Int /\ pos \in Int /\ low \in Int
      BY <1>3
    <2>2. ~(n - pos >= low) => n - pos < low
      BY <2>1
    <2>3. ~busy' => filled' - pos < low
      BY <2>2, <1>1
    <2>4. QED BY <2>3, <1>2 DEF Marked, Buffered, parser
  <1>9. QED BY <1>2, <1>5, <1>6, <1>7, <1>8 DEF IInv

LEMMA ReturnIInv ==
  ASSUME IInv, Return
  PROVE  IInv'
  <1>1. /\ busy /\ ~busy' /\ open /\ UNCHANGED <<stream, filled, open, parser>>
        /\ Buffered < IF c_len = 0 \/ c_cid = 0 THEN 2 ELSE c_len
        /\ TypeOK /\ Contiguous /\ Aligned /\ Marked
    BY DEF Return, IInv
  <1>2. TypeOK'
    BY <1>1 DEF Return, TypeOK, stream, parser
  <1>3. Contiguous'
    BY <1>1, ContiguousKept
  <1>4. Aligned'
    BY <1>1, ParserKept DEF stream
  <1>5. Marked'
    <2>1. Buffered < low
      <3>1. c_len \in Nat /\ low \in Nat /\ Buffered \in Int
        BY <1>1 DEF TypeOK, Buffered
      <3>2. CASE c_len = 0
        BY <1>1, <3>1, <3>2 DEF Marked
      <3>3. CASE c_len # 0
        BY <1>1, <3>1, <3>3 DEF Marked
      <3>4. QED BY <3>2, <3>3
    <2>2. QED BY <2>1, <1>1 DEF Marked, Buffered, parser
  <1>6. QED BY <1>1, <1>2, <1>3, <1>4, <1>5 DEF IInv

\* The client leaves, the connection is dropped for it, or nothing happens.
LEMMA RestIInv ==
  ASSUME IInv, Disconnect \/ error_cb \/ UNCHANGED vars
  PROVE  IInv'
  <1>1. /\ UNCHANGED <<queue, start, total, filled, busy, parser>>
        /\ gone' \in BOOLEAN
        /\ open' = open \/ (open' = FALSE /\ ~busy)
    BY DEF Disconnect, error_cb, vars, stream, IInv, TypeOK
  <1>2. TypeOK'
    BY <1>1 DEF IInv, TypeOK, parser
  <1>3. Contiguous'
    BY <1>1 DEF IInv, Contiguous, Begins, End
  <1>4. open' => Aligned' /\ Marked'
    BY <1>1, ParserKept DEF IInv, Marked, Buffered, parser
  <1>5. QED BY <1>1, <1>2, <1>3, <1>4 DEF IInv

LEMMA StepIInv ==
  ASSUME NonZeroCids, IInv, [Next]_vars
  PROVE  IInv'
  <1>1. ASSUME NEW r \in Requests, Send(r) PROVE IInv'
    BY <1>1, SendIInv
  <1>2. CASE Fill
    BY <1>2, FillIInv
  <1>3. CASE read_len
    BY <1>3, ReadLenIInv
  <1>4. CASE read_cid
    BY <1>4, ReadCidIInv
  <1>5. CASE run_server_command
    BY <1>5, RunIInv
  <1>6. CASE Return
    BY <1>6, ReturnIInv
  <1>7. CASE Disconnect \/ error_cb \/ UNCHANGED vars
    BY <1>7, RestIInv
  <1>8. QED BY <1>1, <1>2, <1>3, <1>4, <1>5, <1>6, <1>7 DEF Next, read_cb

LEMMA Invariant ==
  ASSUME NonZeroCids
  PROVE  Spec => []IInv
  <1>1. Init => IInv
    BY InitIInv
  <1>2. IInv /\ [Next]_vars => IInv'
    BY StepIInv
  <1>3. QED BY <1>1, <1>2, PTL DEF Spec

-----------------------------------------------------------------------------
(* The theorems. *)

(* The parser's state stays in bounds: c_len never exceeds the buffer it   *)
(* is read into, and no more is taken out of the input than is there.      *)
THEOREM FramingTypeCorrect ==
  ASSUME NonZeroCids
  PROVE  Spec => []TypeOK
  <1>1. IInv => TypeOK
    BY DEF IInv
  <1>2. QED BY <1>1, Invariant, PTL

(* No fragmentation makes read_cb leave a complete request in the buffer,  *)
(* and the watermarks it sets never ask for more than the rest of one.     *)
THEOREM NothingEverWaits ==
  ASSUME NonZeroCids
  PROVE  Spec => []NothingWaits
  <1>1. IInv => NothingWaits
    <2> SUFFICES ASSUME IInv, open, ~busy PROVE NothingWaits
      BY DEF NothingWaits
    <2>1. /\ TypeOK /\ Contiguous /\ Aligned /\ Marked
          /\ Len(done) \in Nat /\ Len(queue) \in Nat
          /\ filled \in Nat /\ pos \in Nat /\ pos <= filled /\ low \in Nat /\ c_len \in Nat
      BY QueueTypes DEF IInv, TypeOK
    <2>2. DOMAIN queue = 1 .. Len(queue)
      BY <2>1 DEF TypeOK
    <2>3. ASSUME Current \in 1 .. Len(queue)
          PROVE  /\ low <= End(Current) - pos
                 /\ ReadLen_Valid(queue[Current].len) => filled < End(Current)
      <3>1. /\ start[Current] \in Nat /\ queue[Current].len \in Nat
            /\ End(Current) = start[Current] + 4 + queue[Current].len
        BY <2>1, <2>3, QueueTypes
      <3>2. filled - pos < low
        BY <2>1 DEF Marked, Buffered
      <3>3. CASE c_len = 0
        <4>1. pos = start[Current] /\ low <= 4
          BY <3>3, <2>1, <2>3 DEF Aligned, Begins, Marked
        <4>2. QED BY <4>1, <3>1, <3>2, <2>1, SMTT(20) DEF ReadLen_Valid
      <3>4. CASE c_len > 0 /\ c_cid = 0
        <4>1. pos = start[Current] + 2 /\ low = 2 /\ queue[Current].len > 0
          BY <3>4, <2>1 DEF Aligned, Marked
        <4>2. pos \in Nat /\ filled \in Nat
          BY <2>1
        <4>3. QED BY <4>1, <4>2, <3>1, <3>2
      <3>5. CASE c_len > 0 /\ c_cid # 0
        <4>1. pos = start[Current] + 4 /\ low = queue[Current].len
          BY <3>5, <2>1 DEF Aligned, Marked
        <4>2. pos \in Nat /\ filled \in Nat
          BY <2>1
        <4>3. QED BY <4>1, <4>2, <3>1, <3>2
      <3>6. QED BY <3>3, <3>4, <3>5, <2>1
    <2>4. ASSUME NEW k \in DOMAIN queue, Due(k), End(k) <= filled
          PROVE  k <= Len(done)
      <3>1. SUFFICES ASSUME Current <= k PROVE FALSE
        BY <2>1, <2>2 DEF Current
      <3>2. Current \in 1 .. Len(queue) /\ k \in 1 .. Len(queue)
        BY <3>1, <2>1, <2>2 DEF Current
      <3>3. ReadLen_Valid(queue[Current].len)
        BY <3>1, <3>2, <2>4, <2>1 DEF Due, Current
      <3>4. filled < End(Current)
        BY <3>2, <3>3, <2>3
      <3>5. /\ End(Current) \in Nat /\ End(k) \in Nat /\ start[k] \in Nat /\ start[k] <= End(k)
        <4>1. \A j \in 1 .. Len(queue) : End(j) \in Nat /\ start[j] \in Nat /\ start[j] <= End(j)
          <5> SUFFICES ASSUME NEW j \in 1 .. Len(queue)
                       PROVE  End(j) \in Nat /\ start[j] \in Nat /\ start[j] <= End(j)
            OBVIOUS
          <5>1. start[j] \in Nat /\ queue[j].len \in Nat /\ End(j) = start[j] + 4 + queue[j].len
            BY <2>1, QueueTypes
          <5>2. QED BY <5>1
        <4>2. QED BY <4>1, <3>2
      <3>6. End(Current) <= End(k)
        <4>1. CASE Current = k
          BY <4>1, <3>5
        <4>2. CASE Current < k
          BY <4>2, <3>2, <3>5, <2>1 DEF Contiguous
        <4>3. QED BY <4>1, <4>2, <3>1, <3>2
      <3>7. QED BY <3>4, <3>5, <3>6, <2>1, <2>4
    <2>5. ASSUME NEW k \in DOMAIN queue, k = Len(done) + 1
          PROVE  low <= End(k) - pos
      BY <2>5, <2>2, <2>3 DEF Current
    <2>6. QED BY <2>4, <2>5 DEF NothingWaits
  <1>2. QED BY <1>1, Invariant, PTL

(* read_cb implements RequestStream: requests are executed in order, each  *)
(* once, under its own cid, and nothing else is ever executed.             *)
THEOREM FramingCorrect ==
  ASSUME NonZeroCids
  PROVE  Spec => InOrder
  <1>1. Init => Promise!Init
    BY DEF Init, Promise!Init
  <1>2. IInv /\ [Next]_vars => [Promise!Next]_<<queue, done>>
    <2> SUFFICES ASSUME IInv, [Next]_vars PROVE [Promise!Next]_<<queue, done>>
      OBVIOUS
    <2>1. ASSUME NEW r \in Requests, Send(r) PROVE Promise!Next
      BY <2>1 DEF Send, parser, Promise!Next, Promise!Send
    <2>2. CASE run_server_command
      <3>1. /\ TypeOK /\ Aligned /\ Current \in 1 .. Len(queue)
            /\ ReadLen_Valid(queue[Current].len) /\ UNCHANGED queue
            /\ done' = Append(done, [req |-> Current, cid |-> queue[Current].cid])
        BY <2>2, RunStep DEF stream
      <3>2. Promise!Acceptable(queue[Current])
        <4>1. queue[Current].len \in Nat
          BY <3>1, QueueTypes
        <4>2. QED BY <4>1, <3>1, ChunkAssumption DEF ReadLen_Valid, Promise!Acceptable
      <3>3. \A j \in 1 .. Current - 1 : queue[j].ok
        BY <3>1, QueueTypes DEF Aligned, Current
      <3>4. Promise!Serve
        BY <3>1, <3>2, <3>3 DEF Promise!Serve, Current
      <3>5. QED BY <3>4 DEF Promise!Next
    <2>3. CASE Fill \/ read_len \/ read_cid \/ Return \/ Disconnect \/ error_cb \/ UNCHANGED vars
      BY <2>3 DEF Fill, read_len, read_cid, Return, Disconnect, error_cb, vars, stream, parser
    <2>4. QED BY <2>1, <2>2, <2>3 DEF Next, read_cb
  <1>3. QED BY <1>1, <1>2, Invariant, PTL DEF Spec, InOrder, Promise!Spec
=============================================================================
