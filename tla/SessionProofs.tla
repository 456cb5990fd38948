--------------------------- MODULE SessionProofs ---------------------------
(***************************************************************************)
(* Session's safety properties for any number of clients, subscriptions,   *)
(* commands and any sizes.  A conversation is followed as the list of the  *)
(* chunks a client has yet to read: the server adds replies and            *)
(* notifications at its end, or cuts it when it drops the connection, and  *)
(* the client takes messages off its beginning.                            *)
(***************************************************************************)
EXTENDS Session, SeqFilterProofs, FiniteSetTheorems

-----------------------------------------------------------------------------
(* Chunks. *)

\* What send_message and send_notification make.
WellWritten(ch) ==
    IF IsReply(ch)
    THEN \/ ch.field = ChunkExt + ChunkSiz /\ ch.size = ChunkSiz
         \/ ch.field = ch.size /\ ch.size \in 1 .. ChunkSiz
    ELSE ch.field = ch.of.len % (2 * ChunkExt) /\ ch.size = ch.of.len

Chunk == [field : Field, cid : Cids, size : Nat,
          of : [kind : {"reply", "event"}, len : Nat \ {0}]]
Written == {ch \in Chunk : WellWritten(ch)}

(* Division has one result. *)
LEMMA Division ==
  ASSUME NEW x \in Nat, NEW d \in Nat \ {0}, NEW q \in Nat, NEW r \in 0 .. d - 1,
         x = q * d + r
  PROVE  x % d = r /\ x \div d = q
BY Z3

(* The flags of a length. *)
LEMMA Flags ==
  /\ \A f \in 1 .. ChunkSiz : ~IsExtended(f) /\ LengthInC(f) = f /\ LengthInPy(f) = f
  /\ LET f == ChunkExt + ChunkSiz
     IN  f \in Field /\ IsExtended(f) /\ LengthInC(f) = ChunkSiz /\ LengthInPy(f) = ChunkSiz
<1> DEFINE R == ChunkReserved
<1>1. ChunkSiz \in Nat \ {0} /\ R \in Nat \ {0} /\ ChunkSiz = R - 1 /\ ChunkExt = 2 * R
  BY ChunkSizAssumption DEF ChunkReserved, ChunkExt
<1>2. ASSUME NEW f \in 1 .. ChunkSiz
      PROVE  ~IsExtended(f) /\ LengthInC(f) = f /\ LengthInPy(f) = f
  <2>1. f = 0 * R + f /\ f = 0 * ChunkExt + f
    BY <1>1
  <2>2. f % R = f /\ f \div ChunkExt = 0
    BY <1>1, <2>1, Division
  <2> QED BY <2>2 DEF IsExtended, LengthInC, LengthInPy
<1> DEFINE f == ChunkExt + ChunkSiz
<1>3. f = 2 * R + ChunkSiz /\ f = 1 * ChunkExt + ChunkSiz /\ f \in Nat
  BY <1>1
<1>4. f % R = ChunkSiz
  BY <1>1, <1>3, Division
<1>5. f \div ChunkExt = 1
  BY <1>1, <1>3, Division
<1>6. f \in Field
  BY <1>1, <1>3 DEF Field
<1> QED BY <1>1, <1>2, <1>3, <1>4, <1>5, <1>6 DEF IsExtended, LengthInC, LengthInPy

(* A client reads a chunk of a reply as it was written, and a notification as *)
(* long as it fits a chunk; one that runs into the flags is never right.     *)
LEMMA Reading ==
  ASSUME NEW c, NEW ch \in Written
  PROVE  /\ IsReply(ch) => LengthAsRead(c, ch) = ch.size
         /\ ~IsReply(ch) /\ ch.of.len <= ChunkSiz =>
               LengthAsRead(c, ch) = ch.size /\ ~IsExtended(ch.field)
         /\ ~IsReply(ch) /\ IsExtended(ch.field) => LengthAsRead(c, ch) # ch.size
<1>1. ch \in Chunk /\ WellWritten(ch)
  BY DEF Written
<1>2. IsReply(ch) => LengthAsRead(c, ch) = ch.size
  BY <1>1, Flags DEF WellWritten, LengthAsRead
<1> DEFINE R == ChunkReserved  n == ch.of.len  f == ch.field
<1>3. R \in Nat \ {0} /\ ChunkSiz = R - 1 /\ ChunkExt = 2 * R /\ ChunkSiz \in Nat \ {0}
  BY ChunkSizAssumption DEF ChunkReserved, ChunkExt
<1>4. n \in Nat \ {0} /\ f \in 0 .. 4 * R - 1
  BY <1>1, <1>3 DEF Chunk, Field
<1>5. ASSUME ~IsReply(ch), n <= ChunkSiz
      PROVE  LengthAsRead(c, ch) = ch.size /\ ~IsExtended(f)
  <2>1. f = n % (2 * ChunkExt) /\ ch.size = n
    BY <1>1, <1>5 DEF WellWritten
  <2> HIDE DEF R, n, f
  <2>2. n = 0 * (4 * R) + n /\ n \in 0 .. 4 * R - 1 /\ 4 * R \in Nat \ {0} /\ 2 * ChunkExt = 4 * R
    BY <1>3, <1>4, <1>5
  <2>3. n % (4 * R) = n
    BY <1>4, <2>2, Division
  <2>4. f = n /\ f \in 1 .. ChunkSiz
    BY <1>4, <1>5, <2>1, <2>2, <2>3
  <2> QED BY <2>1, <2>4, Flags DEF LengthAsRead, f
<1>6. ASSUME ~IsReply(ch), IsExtended(f) PROVE LengthAsRead(c, ch) # ch.size
  <2>1. f = n % (2 * ChunkExt) /\ ch.size = n
    BY <1>1, <1>6 DEF WellWritten
  <2>2. f >= R /\ f - ChunkExt < f /\ f % R < R
    <3>1. f \div (2 * R) = 1
      BY <1>3, <1>6 DEF IsExtended
    <3> HIDE DEF R, f
    <3>2. f >= 2 * R
      BY <1>3, <1>4, <3>1, Z3
    <3> QED BY <1>3, <1>4, <3>2
  <2>3. f <= n
    <3> HIDE DEF R, n, f
    <3>1. 4 * R \in Nat \ {0} /\ 2 * ChunkExt = 4 * R
      BY <1>3
    <3>2. n % (4 * R) <= n
      BY <1>4, <3>1, Z3
    <3> QED BY <2>1, <3>1, <3>2
  <2>4. LengthAsRead(c, ch) < n
    <3>1. LengthAsRead(c, ch) = f - ChunkExt \/ LengthAsRead(c, ch) = f % R
      BY <1>6 DEF LengthAsRead, LengthInC, LengthInPy
    <3> QED BY <1>3, <1>4, <2>2, <2>3, <3>1
  <2> QED BY <1>4, <2>1, <2>4
<1> QED BY <1>2, <1>5, <1>6

-----------------------------------------------------------------------------
(* Messages. *)

\* The chunks of a reply under a cid: all but the last one go on.
Answers(k) ==
    {m \in Seq(Written) :
        /\ m # << >>
        /\ \A i \in DOMAIN m : /\ IsReply(m[i]) /\ m[i].cid = k
                               /\ IsExtended(m[i].field) <=> i # Len(m)}

\* Notifications under one of the cids in S.
Notes(S) == {ch \in Written : ~IsReply(ch) /\ ch.cid \in S}

(* The chunks of a message cover it. *)
LEMMA Counting ==
  ASSUME NEW C \in Nat \ {0}, NEW len \in Nat \ {0}
  PROVE  LET count == (len + C - 1) \div C
         IN  /\ count \in Nat \ {0}
             /\ \A i \in 1 .. count :
                   /\ i # count => len - (i - 1) * C > C
                   /\ i = count => len - (i - 1) * C \in 1 .. C
<1> DEFINE count == (len + C - 1) \div C  rem == (len + C - 1) % C
<1>1. count \in Nat /\ rem \in 0 .. C - 1 /\ len + C - 1 = count * C + rem
  BY Z3
<1> HIDE DEF count, rem
<1>2. count # 0
  <2>1. ASSUME count = 0 PROVE FALSE
    <3>1. count * C = 0
      BY <2>1
    <3> QED BY <1>1, <3>1
  <2> QED BY <2>1
<1>3. ASSUME NEW i \in 1 .. count
      PROVE  /\ i # count => len - (i - 1) * C > C
             /\ i = count => len - (i - 1) * C \in 1 .. C
  <2>1. (i - 1) * C \in Nat /\ count * C \in Nat /\ (count - i) * C \in Nat
    BY <1>1
  <2>2. (i - 1) * C = count * C - (count - i) * C - C
    BY <1>1, Z3
  <2>3. i # count => (count - i) * C >= C
    BY <1>1, Z3
  <2>4. i = count => (count - i) * C = 0
    BY <1>1
  <2> QED BY <1>1, <2>1, <2>2, <2>3, <2>4
<1> QED BY <1>1, <1>2, <1>3 DEF count

(* send_message writes a reply. *)
LEMMA SendMessage ==
  ASSUME NEW len \in Nat \ {0}, NEW k \in Cids
  PROVE  send_message(Message("reply", len), k) \in Answers(k)
<1> DEFINE C == ChunkSiz
           count == (len + C - 1) \div C
           off(i) == (i - 1) * C
           n(i) == IF Continues(off(i), len) THEN C ELSE len - off(i)
           chunk(i) == [field |-> IF Continues(off(i), len) THEN ChunkExt + n(i) ELSE n(i),
                        cid |-> k, size |-> n(i), of |-> Message("reply", len)]
           m == [i \in 1 .. count |-> chunk(i)]
<1>1. send_message(Message("reply", len), k) = m
  BY DEF send_message, Message
<1>2. C \in Nat \ {0}
  BY ChunkSizAssumption
<1>3. /\ count \in Nat \ {0}
      /\ \A i \in 1 .. count : /\ i # count => len - off(i) > C
                               /\ i = count => len - off(i) \in 1 .. C
  BY <1>2, Counting
<1> HIDE DEF count, off
<1>4. ASSUME NEW i \in 1 .. count
      PROVE  /\ chunk(i) \in Written
             /\ IsReply(chunk(i)) /\ chunk(i).cid = k
             /\ IsExtended(chunk(i).field) <=> i # count
  <2>1. CASE i # count
    <3>1. Continues(off(i), len)
      BY <1>3, <2>1 DEF Continues
    <3>2. chunk(i) = [field |-> ChunkExt + C, cid |-> k, size |-> C, of |-> Message("reply", len)]
      BY <3>1
    <3> HIDE DEF chunk, n
    <3> QED BY <1>2, <2>1, <3>2, Flags DEF Written, Chunk, WellWritten, IsReply, Message
  <2>2. CASE i = count
    <3> DEFINE r == len - off(i)
    <3>1. ~Continues(off(i), len) /\ r \in 1 .. C
      BY <1>2, <1>3, <2>2 DEF Continues
    <3>2. chunk(i) = [field |-> r, cid |-> k, size |-> r, of |-> Message("reply", len)]
      BY <3>1
    <3> HIDE DEF chunk, n, r
    <3>3. r \in Field
      BY <1>2, <3>1 DEF Field, ChunkExt, ChunkReserved
    <3> QED BY <1>2, <2>2, <3>1, <3>2, <3>3, Flags DEF Written, Chunk, WellWritten, IsReply, Message
  <2> QED BY <2>1, <2>2
<1> HIDE DEF chunk, n
<1>5. m \in Seq(Written) /\ Len(m) = count /\ DOMAIN m = 1 .. count /\ m # << >>
  <2>1. m \in [1 .. count -> Written]
    BY <1>4
  <2> QED BY <1>3, <2>1, SeqDef, LenProperties, EmptySeq
<1>6. \A i \in DOMAIN m : /\ IsReply(m[i]) /\ m[i].cid = k
                          /\ IsExtended(m[i].field) <=> i # Len(m)
  BY <1>4, <1>5
<1> QED BY <1>1, <1>5, <1>6 DEF Answers

(* send_notification writes one chunk for a subscription. *)
LEMMA Notification ==
  ASSUME NEW len \in Nat \ {0}, NEW k \in Cids, NEW S, k \in S
  PROVE  notification(Message("event", len), k) \in Notes(S)
<1>1. len % (2 * ChunkExt) \in Field
  <2>1. 2 * ChunkExt \in Nat \ {0}
    BY ChunkSizAssumption DEF ChunkExt, ChunkReserved
  <2>2. len % (2 * ChunkExt) \in 0 .. 2 * ChunkExt - 1
    BY <2>1
  <2> QED BY <2>2 DEF Field
<1> QED BY <1>1 DEF Notes, Written, Chunk, WellWritten, IsReply, Message, notification

-----------------------------------------------------------------------------
(* Cids of chunks and of requests. *)

CidsOf(s) == [i \in 1 .. Len(s) |-> s[i].cid]

(* The cids of two lists after each other. *)
LEMMA CidsOfConcat ==
  ASSUME NEW E, \A e \in E : e.cid \in Cids, NEW s \in Seq(E), NEW t \in Seq(E)
  PROVE  /\ CidsOf(s) \in Seq(Cids) /\ Len(CidsOf(s)) = Len(s)
         /\ CidsOf(s \o t) = CidsOf(s) \o CidsOf(t)
<1>1. ASSUME NEW p \in Seq(E)
      PROVE  CidsOf(p) \in Seq(Cids) /\ Len(CidsOf(p)) = Len(p)
  <2>1. Len(p) \in Nat /\ \A i \in 1 .. Len(p) : p[i] \in E
    BY ElementOfSeq, LenProperties
  <2>2. CidsOf(p) \in [1 .. Len(p) -> Cids]
    BY <2>1 DEF CidsOf
  <2> QED BY <2>1, <2>2, FunctionIsSeq
<1>2. s \o t \in Seq(E) /\ Len(s \o t) = Len(s) + Len(t)
  BY ConcatProperties
<1> DEFINE a == CidsOf(s \o t)  b == CidsOf(s) \o CidsOf(t)
<1>3. a \in Seq(Cids) /\ b \in Seq(Cids) /\ Len(a) = Len(s) + Len(t) /\ Len(b) = Len(s) + Len(t)
  <2>1. CidsOf(s) \in Seq(Cids) /\ CidsOf(t) \in Seq(Cids)
        /\ Len(CidsOf(s)) = Len(s) /\ Len(CidsOf(t)) = Len(t)
    BY <1>1
  <2>2. a \in Seq(Cids) /\ Len(a) = Len(s) + Len(t)
    BY <1>1, <1>2
  <2>3. b \in Seq(Cids) /\ Len(b) = Len(CidsOf(s)) + Len(CidsOf(t))
    BY <2>1, ConcatProperties
  <2> QED BY <2>1, <2>2, <2>3
<1>4. ASSUME NEW i \in 1 .. Len(s) + Len(t) PROVE a[i] = b[i]
  <2>1. a[i] = (s \o t)[i].cid
    BY <1>2 DEF CidsOf
  <2>2. CASE i <= Len(s)
    <3>1. i \in 1 .. Len(s) /\ (s \o t)[i] = s[i]
      BY <2>2, ConcatProperties, LenProperties
    <3>2. b[i] = CidsOf(s)[i]
      BY <1>1, <2>2, ConcatProperties, LenProperties
    <3> QED BY <2>1, <3>1, <3>2 DEF CidsOf
  <2>3. CASE i > Len(s)
    <3> DEFINE j == i - Len(s)
    <3>1. j \in 1 .. Len(t) /\ (s \o t)[i] = t[j]
      BY <2>3, ConcatProperties, LenProperties
    <3>2. b[i] = CidsOf(t)[j]
      BY <1>1, <2>3, ConcatProperties, LenProperties
    <3> QED BY <2>1, <3>1, <3>2 DEF CidsOf
  <2>4. i \in Nat /\ Len(s) \in Nat
    BY LenProperties
  <2> HIDE DEF a, b
  <2> QED BY <2>2, <2>3, <2>4
<1> HIDE DEF a, b
<1>5. a = b
  BY <1>3, <1>4, SeqEqual, LenProperties
<1> QED BY <1>1, <1>5 DEF a, b

(* Chunks have cids, and so do requests. *)
LEMMA HaveCids == /\ \A ch \in Written : ch.cid \in Cids
                  /\ \A ch \in Written \cap LastChunks : ch.cid \in Cids
                  /\ \A q \in [cid : Cids, cmd : CommandNames] : q.cid \in Cids
BY DEF Written, Chunk

(* A last chunk is a chunk of a reply without the flag. *)
LEMMA LastChunk ==
  ASSUME NEW ch \in Written
  PROVE  ch \in LastChunks <=> IsReply(ch) /\ ~IsExtended(ch.field)
BY DEF Written, Chunk, LastChunks, IsReply, Cids

\* The replies that end in q, and then the requests in r: all that is due.
Due(q, r) == CidsOf(Filter(q, LastChunks)) \o CidsOf(r)
Requests  == [cid : Cids, cmd : CommandNames]

(* What is due are cids. *)
LEMMA DueType ==
  ASSUME NEW q \in Seq(Written), NEW r \in Seq(Requests)
  PROVE  /\ Filter(q, LastChunks) \in Seq(Written \cap LastChunks)
         /\ CidsOf(Filter(q, LastChunks)) \in Seq(Cids) /\ CidsOf(r) \in Seq(Cids)
         /\ Due(q, r) \in Seq(Cids)
<1>1. Filter(q, LastChunks) \in Seq(Written \cap LastChunks)
  BY FilterType
<1>2. CidsOf(Filter(q, LastChunks)) \in Seq(Cids)
  BY <1>1, HaveCids, CidsOfConcat
<1>3. CidsOf(r) \in Seq(Cids)
  BY HaveCids, CidsOfConcat DEF Requests
<1> QED BY <1>1, <1>2, <1>3, ConcatProperties DEF Due

(* Notifications end no reply. *)
LEMMA NotesNotDue ==
  ASSUME NEW S, NEW n \in Seq(Notes(S))
  PROVE  n \in Seq(Written) /\ Filter(n, LastChunks) = << >>
<1>1. \A ch \in Notes(S) : ch \in Written /\ ch \notin LastChunks
  BY LastChunk DEF Notes
<1>2. n \in Seq(Written)
  BY <1>1, SeqMonotonic
<1>3. \A i \in DOMAIN n : n[i] \notin LastChunks
  BY <1>1, ElementOfSeq, LenProperties
<1> QED BY <1>2, <1>3, FilterNone

(* A message ends one reply. *)
LEMMA AnswerIsDue ==
  ASSUME NEW k \in Cids, NEW m \in Answers(k)
  PROVE  /\ m \in Seq(Written) /\ m # << >>
         /\ Filter(m, LastChunks) = <<m[Len(m)]>>
         /\ CidsOf(Filter(m, LastChunks)) = <<k>>
<1>1. /\ m \in Seq(Written) /\ m # << >>
      /\ \A i \in DOMAIN m : /\ IsReply(m[i]) /\ m[i].cid = k
                             /\ IsExtended(m[i].field) <=> i # Len(m)
  BY DEF Answers
<1>2. PICK p \in Seq(Written), e \in Written : m = Append(p, e)
  BY <1>1, SequenceEmptyOrAppend
<1>3. /\ Len(m) = Len(p) + 1 /\ m[Len(m)] = e
      /\ \A i \in DOMAIN p : i \in DOMAIN m /\ i # Len(m) /\ m[i] = p[i]
  BY <1>2, AppendProperties, LenProperties
<1>4. \A i \in DOMAIN p : p[i] \notin LastChunks
  <2> SUFFICES ASSUME NEW i \in DOMAIN p PROVE p[i] \notin LastChunks
    OBVIOUS
  <2>1. p[i] \in Written /\ IsExtended(p[i].field)
    BY <1>1, <1>3, ElementOfSeq, LenProperties
  <2> QED BY <2>1, LastChunk
<1>5. Filter(p, LastChunks) = << >>
  BY <1>4, FilterNone
<1>6. Len(m) \in DOMAIN m
  BY <1>1, <1>3, EmptySeq, LenProperties
<1>7. e \in LastChunks /\ e.cid = k
  BY <1>1, <1>3, <1>6, LastChunk
<1>8. Filter(m, LastChunks) = AppendIf(Filter(p, LastChunks), e, LastChunks)
  BY <1>2, FilterAppend
<1>9. Filter(m, LastChunks) = <<e>>
  BY <1>5, <1>7, <1>8 DEF AppendIf
<1>10. CidsOf(<<e>>) = <<e.cid>>
  BY DEF CidsOf
<1> QED BY <1>1, <1>3, <1>7, <1>9, <1>10

-----------------------------------------------------------------------------
(* Conversations.  q is what the client has yet to read, r the requests the *)
(* server has yet to handle, a the cids of the calls without a reply, u the *)
(* cids the client remembers as subscriptions, S those the server knows.    *)

Distinct(a) == \A i, j \in DOMAIN a : a[i] = a[j] => i = j
Members(a)  == {a[i] : i \in DOMAIN a}

\* y may follow x: a message goes on to its end, and is not followed by
\* another one under its cid.
Link(x, y) ==
    /\ IsReply(x) /\ IsExtended(x.field) => IsReply(y) /\ y.cid = x.cid
    /\ IsReply(x) /\ ~IsExtended(x.field) /\ IsReply(y) => y.cid # x.cid

Chained(q)  == \A i \in 1 .. Len(q) - 1 : Link(q[i], q[i + 1])
Complete(q) == q # << >> => ~(IsReply(q[Len(q)]) /\ IsExtended(q[Len(q)].field))

\* A notification belongs to a subscription whose reply has been read or
\* comes before it.
Explained(q, a, u) ==
    \A i \in DOMAIN q : ~IsReply(q[i]) =>
       /\ q[i].cid \in u
       /\ \/ q[i].cid \notin Members(a)
          \/ \E j \in 1 .. i - 1 : q[j] \in LastChunks /\ q[j].cid = q[i].cid

\* The client is connected.
Open(q, r, a, u, S) ==
    /\ a = Due(q, r) /\ Distinct(a)
    /\ Chained(q) /\ Complete(q) /\ Explained(q, a, u)
    /\ S \subseteq u
    /\ \A i \in DOMAIN r : r[i].cid \notin S /\ (r[i].cmd = "SUBS" => r[i].cid \in u)

\* The client was dropped, and may not get all that is due.
Cut(q, a, u) ==
    /\ \E rest \in Seq(Cids) : a = Due(q, << >>) \o rest
    /\ Distinct(a) /\ Chained(q) /\ Explained(q, a, u)

(* Elements of two lists after each other. *)
LEMMA ConcatElements ==
  ASSUME NEW E, NEW s \in Seq(E), NEW t \in Seq(E)
  PROVE  /\ s \o t \in Seq(E) /\ Len(s \o t) = Len(s) + Len(t)
         /\ Len(s) \in Nat /\ Len(t) \in Nat
         /\ DOMAIN s = 1 .. Len(s) /\ DOMAIN t = 1 .. Len(t)
         /\ DOMAIN (s \o t) = 1 .. Len(s) + Len(t)
         /\ \A i \in 1 .. Len(s) : (s \o t)[i] = s[i]
         /\ \A i \in 1 .. Len(t) : (s \o t)[Len(s) + i] = t[i]
<1>1. s \o t \in Seq(E) /\ Len(s \o t) = Len(s) + Len(t)
  BY ConcatProperties
<1>2. /\ Len(s) \in Nat /\ Len(t) \in Nat
      /\ DOMAIN s = 1 .. Len(s) /\ DOMAIN t = 1 .. Len(t)
      /\ DOMAIN (s \o t) = 1 .. Len(s) + Len(t)
  BY <1>1, LenProperties
<1>3. \A i \in 1 .. Len(s) : (s \o t)[i] = s[i]
  BY <1>2, ConcatProperties
<1>4. ASSUME NEW i \in 1 .. Len(t) PROVE (s \o t)[Len(s) + i] = t[i]
  <2> DEFINE k == Len(s) + i
  <2>1. k \in 1 .. Len(s) + Len(t) /\ ~(k <= Len(s)) /\ k - Len(s) = i
    BY <1>2
  <2> HIDE DEF k
  <2>2. (s \o t)[k] = t[k - Len(s)]
    BY <2>1, ConcatProperties
  <2> QED BY <2>1, <2>2 DEF k
<1> QED BY <1>1, <1>2, <1>3, <1>4

(* Chains are chained by a link. *)
LEMMA ChainConcat ==
  ASSUME NEW s \in Seq(Written), NEW t \in Seq(Written), Chained(s), Chained(t),
         s # << >> /\ t # << >> => Link(s[Len(s)], t[1])
  PROVE  Chained(s \o t)
<1> DEFINE p == s \o t  m == Len(s)
<1>1. /\ p \in Seq(Written) /\ Len(p) = m + Len(t) /\ m \in Nat /\ Len(t) \in Nat
      /\ \A i \in 1 .. m : p[i] = s[i]
      /\ \A i \in 1 .. Len(t) : p[m + i] = t[i]
  BY ConcatElements
<1> HIDE DEF p
<1> SUFFICES ASSUME NEW i \in 1 .. Len(p) - 1 PROVE Link(p[i], p[i + 1])
  BY DEF Chained, p
<1>2. CASE i + 1 <= m
  <2>1. i \in 1 .. m /\ i + 1 \in 1 .. m /\ i \in 1 .. m - 1
    BY <1>1, <1>2
  <2>2. p[i] = s[i] /\ p[i + 1] = s[i + 1]
    BY <1>1, <2>1
  <2>3. Link(s[i], s[i + 1])
    BY <2>1 DEF Chained
  <2> QED BY <2>2, <2>3
<1>3. CASE i = m
  <2>1. i \in 1 .. m /\ 1 \in 1 .. Len(t)
    BY <1>1, <1>3
  <2>2. p[i] = s[m] /\ p[i + 1] = t[1]
    BY <1>1, <1>3, <2>1
  <2>3. s # << >> /\ t # << >>
    BY <2>1, EmptySeq
  <2> QED BY <2>2, <2>3
<1>4. CASE i > m
  <2> DEFINE j == i - m
  <2>1. j \in 1 .. Len(t) /\ j + 1 \in 1 .. Len(t) /\ j \in 1 .. Len(t) - 1
        /\ i = m + j /\ i + 1 = m + (j + 1)
    BY <1>1, <1>4
  <2> HIDE DEF j
  <2>2. p[m + j] = t[j] /\ p[m + (j + 1)] = t[j + 1]
    BY <1>1, <2>1
  <2>3. Link(t[j], t[j + 1])
    BY <2>1 DEF Chained
  <2> QED BY <2>1, <2>2, <2>3
<1> QED BY <1>1, <1>2, <1>3, <1>4

(* The parts of a chain are chained. *)
LEMMA ChainParts ==
  ASSUME NEW s \in Seq(Written), NEW t \in Seq(Written), Chained(s \o t)
  PROVE  /\ Chained(s) /\ Chained(t)
         /\ s # << >> /\ t # << >> => Link(s[Len(s)], t[1])
<1> DEFINE p == s \o t  m == Len(s)
<1>1. /\ p \in Seq(Written) /\ Len(p) = m + Len(t) /\ m \in Nat /\ Len(t) \in Nat
      /\ \A i \in 1 .. m : p[i] = s[i]
      /\ \A i \in 1 .. Len(t) : p[m + i] = t[i]
  BY ConcatElements
<1>2. \A i \in 1 .. Len(p) - 1 : Link(p[i], p[i + 1])
  BY DEF Chained
<1> HIDE DEF p
<1>3. ASSUME NEW i \in 1 .. m - 1 PROVE Link(s[i], s[i + 1])
  <2>1. i \in 1 .. m /\ i + 1 \in 1 .. m /\ i \in 1 .. Len(p) - 1
    BY <1>1
  <2>2. p[i] = s[i] /\ p[i + 1] = s[i + 1]
    BY <1>1, <2>1
  <2> QED BY <1>2, <2>1, <2>2
<1>4. ASSUME NEW j \in 1 .. Len(t) - 1 PROVE Link(t[j], t[j + 1])
  <2> DEFINE i == m + j
  <2>1. j \in 1 .. Len(t) /\ j + 1 \in 1 .. Len(t) /\ i \in 1 .. Len(p) - 1 /\ i + 1 = m + (j + 1)
    BY <1>1
  <2>2. p[i] = t[j] /\ p[m + (j + 1)] = t[j + 1]
    BY <1>1, <2>1
  <2> HIDE DEF i
  <2> QED BY <1>2, <2>1, <2>2
<1>5. ASSUME s # << >>, t # << >> PROVE Link(s[m], t[1])
  <2>1. m \in 1 .. m /\ 1 \in 1 .. Len(t) /\ m \in 1 .. Len(p) - 1
    BY <1>1, <1>5, EmptySeq
  <2>2. p[m] = s[m] /\ p[m + 1] = t[1]
    BY <1>1, <2>1
  <2> QED BY <1>2, <2>1, <2>2
<1> QED BY <1>3, <1>4, <1>5 DEF Chained

(* What is due in two parts. *)
LEMMA DueConcat ==
  ASSUME NEW q \in Seq(Written), NEW z \in Seq(Written), NEW r \in Seq(Requests)
  PROVE  Due(q \o z, r) = CidsOf(Filter(q, LastChunks)) \o Due(z, r)
<1> DEFINE f == Filter(q, LastChunks)  g == Filter(z, LastChunks)
<1>1. f \in Seq(Written \cap LastChunks) /\ g \in Seq(Written \cap LastChunks)
  BY DueType
<1>2. Filter(q \o z, LastChunks) = f \o g
  BY FilterConcat
<1> HIDE DEF f, g
<1>3. CidsOf(f \o g) = CidsOf(f) \o CidsOf(g)
      /\ CidsOf(f) \in Seq(Cids) /\ CidsOf(g) \in Seq(Cids) /\ CidsOf(r) \in Seq(Cids)
  BY <1>1, HaveCids, CidsOfConcat, DueType
<1>4. (CidsOf(f) \o CidsOf(g)) \o CidsOf(r) = CidsOf(f) \o (CidsOf(g) \o CidsOf(r))
  BY <1>3, ConcatAssociative, SMTT(20)
<1> QED BY <1>2, <1>3, <1>4 DEF Due, f, g

(* Different cids in two parts. *)
LEMMA DistinctParts ==
  ASSUME NEW s \in Seq(Cids), NEW t \in Seq(Cids), Distinct(s \o t)
  PROVE  /\ Distinct(s) /\ Distinct(t)
         /\ \A i \in DOMAIN s, j \in DOMAIN t : s[i] # t[j]
<1> DEFINE p == s \o t  m == Len(s)
<1>1. /\ DOMAIN p = 1 .. m + Len(t) /\ m \in Nat /\ Len(t) \in Nat
      /\ DOMAIN s = 1 .. m /\ DOMAIN t = 1 .. Len(t)
      /\ \A i \in 1 .. m : p[i] = s[i]
      /\ \A i \in 1 .. Len(t) : p[m + i] = t[i]
  BY ConcatElements
<1>2. \A i, j \in DOMAIN p : p[i] = p[j] => i = j
  BY DEF Distinct
<1> HIDE DEF p
<1>3. ASSUME NEW i \in DOMAIN s, NEW j \in DOMAIN s, s[i] = s[j] PROVE i = j
  BY <1>1, <1>2, <1>3
<1>4. ASSUME NEW i \in DOMAIN t, NEW j \in DOMAIN t, t[i] = t[j] PROVE i = j
  <2>1. m + i \in DOMAIN p /\ m + j \in DOMAIN p /\ p[m + i] = t[i] /\ p[m + j] = t[j]
    BY <1>1
  <2>2. m + i = m + j
    BY <1>2, <1>4, <2>1
  <2> QED BY <1>1, <2>2
<1>5. ASSUME NEW i \in DOMAIN s, NEW j \in DOMAIN t PROVE s[i] # t[j]
  <2>1. i \in DOMAIN p /\ m + j \in DOMAIN p /\ p[i] = s[i] /\ p[m + j] = t[j] /\ i # m + j
    BY <1>1
  <2> QED BY <1>2, <2>1
<1> QED BY <1>3, <1>4, <1>5 DEF Distinct

(* What follows is explained by what was there. *)
LEMMA ExplainedConcat ==
  ASSUME NEW q \in Seq(Written), NEW n \in Seq(Written), NEW a, NEW u, Explained(q, a, u),
         \A i \in DOMAIN n : ~IsReply(n[i]) =>
            /\ n[i].cid \in u
            /\ \/ n[i].cid \notin Members(a)
               \/ \E j \in DOMAIN q : q[j] \in LastChunks /\ q[j].cid = n[i].cid
  PROVE  Explained(q \o n, a, u)
<1> DEFINE p == q \o n  m == Len(q)
<1>1. /\ DOMAIN p = 1 .. m + Len(n) /\ m \in Nat /\ Len(n) \in Nat
      /\ DOMAIN q = 1 .. m /\ DOMAIN n = 1 .. Len(n)
      /\ \A i \in 1 .. m : p[i] = q[i]
      /\ \A i \in 1 .. Len(n) : p[m + i] = n[i]
  BY ConcatElements
<1> HIDE DEF p
<1> SUFFICES ASSUME NEW i \in DOMAIN p, ~IsReply(p[i]), p[i].cid \in Members(a)
             PROVE  /\ p[i].cid \in u
                    /\ \E j \in 1 .. i - 1 : p[j] \in LastChunks /\ p[j].cid = p[i].cid
  <2>1. ASSUME NEW i \in DOMAIN p, ~IsReply(p[i]) PROVE p[i].cid \in u
    <3>1. CASE i \in DOMAIN q
      BY <1>1, <2>1, <3>1 DEF Explained
    <3>2. CASE i \notin DOMAIN q
      <4>1. i - m \in DOMAIN n /\ i = m + (i - m)
        BY <1>1, <3>2
      <4>2. p[i] = n[i - m]
        BY <1>1, <4>1
      <4> QED BY <2>1, <4>1, <4>2
    <3> QED BY <3>1, <3>2
  <2> QED BY <2>1 DEF Explained, p
<1>2. CASE i \in DOMAIN q
  <2>1. p[i] = q[i]
    BY <1>1, <1>2
  <2>2. q[i].cid \in u /\ \E j \in 1 .. i - 1 : q[j] \in LastChunks /\ q[j].cid = q[i].cid
    BY <1>2, <2>1 DEF Explained
  <2>3. \A j \in 1 .. i - 1 : p[j] = q[j]
    BY <1>1, <1>2
  <2> QED BY <2>1, <2>2, <2>3
<1>3. CASE i \notin DOMAIN q
  <2> DEFINE k == i - m
  <2>1. k \in DOMAIN n /\ i = m + k
    BY <1>1, <1>3
  <2>2. p[i] = n[k]
    BY <1>1, <2>1
  <2>3. n[k].cid \in u /\ \E j \in DOMAIN q : q[j] \in LastChunks /\ q[j].cid = n[k].cid
    BY <2>1, <2>2
  <2>4. \A j \in DOMAIN q : p[j] = q[j] /\ j \in 1 .. i - 1
    BY <1>1, <1>3
  <2> QED BY <2>2, <2>3, <2>4
<1> QED BY <1>2, <1>3

(* The last chunk is that of the second part. *)
LEMMA CompleteConcat ==
  ASSUME NEW s \in Seq(Written), NEW t \in Seq(Written)
  PROVE  t # << >> => (Complete(s \o t) <=> Complete(t))
<1> SUFFICES ASSUME t # << >> PROVE Complete(s \o t) <=> Complete(t)
  OBVIOUS
<1>1. Len(t) \in 1 .. Len(t) /\ Len(s \o t) = Len(s) + Len(t) /\ Len(s) \in Nat
  BY ConcatElements, EmptySeq
<1>2. (s \o t)[Len(s \o t)] = t[Len(t)]
  BY <1>1, ConcatElements
<1>3. s \o t # << >>
  BY <1>1, EmptySeq
<1> QED BY <1>2, <1>3 DEF Complete

(* Whoever waits for a reply finds it in what is due. *)
LEMMA DueMembers ==
  ASSUME NEW q \in Seq(Written), NEW r \in Seq(Requests), NEW k \in Members(Due(q, r))
  PROVE  \/ \E j \in DOMAIN q : q[j] \in LastChunks /\ q[j].cid = k
         \/ \E j \in DOMAIN r : r[j].cid = k
<1> DEFINE f == Filter(q, LastChunks)
<1>1. /\ f \in Seq(Written \cap LastChunks) /\ CidsOf(f) \in Seq(Cids) /\ CidsOf(r) \in Seq(Cids)
      /\ Len(CidsOf(f)) = Len(f) /\ Len(CidsOf(r)) = Len(r)
  BY DueType, HaveCids, CidsOfConcat DEF Requests
<1>2. \A i \in DOMAIN f : f[i] \in LastChunks /\ \E j \in DOMAIN q : f[i] = q[j]
  BY <1>1, FilterSource, ElementOfSeq, LenProperties
<1> HIDE DEF f
<1>3. PICK i \in DOMAIN (CidsOf(f) \o CidsOf(r)) : (CidsOf(f) \o CidsOf(r))[i] = k
  BY DEF Members, Due, f
<1>4. /\ Len(f) \in Nat /\ Len(r) \in Nat /\ DOMAIN f = 1 .. Len(f) /\ DOMAIN r = 1 .. Len(r)
      /\ i \in 1 .. Len(f) + Len(r)
  BY <1>1, <1>3, ConcatElements, LenProperties
<1>5. CASE i <= Len(f)
  <2>1. i \in 1 .. Len(CidsOf(f)) /\ i \in DOMAIN f
    BY <1>1, <1>4, <1>5
  <2>2. k = CidsOf(f)[i]
    BY <1>1, <1>3, <2>1, ConcatElements
  <2>3. k = f[i].cid
    BY <1>4, <2>1, <2>2 DEF CidsOf
  <2> QED BY <1>2, <2>1, <2>3
<1>6. CASE i > Len(f)
  <2> DEFINE j == i - Len(f)
  <2>1. j \in 1 .. Len(CidsOf(r)) /\ j \in DOMAIN r /\ i = Len(CidsOf(f)) + j
    BY <1>1, <1>4, <1>6
  <2> HIDE DEF j
  <2>2. k = CidsOf(r)[j]
    BY <1>1, <1>3, <2>1, ConcatElements
  <2>3. k = r[j].cid
    BY <1>4, <2>1, <2>2 DEF CidsOf
  <2> QED BY <2>1, <2>3
<1> QED BY <1>4, <1>5, <1>6

(* The server notifies a client. *)
LEMMA OpenNotes ==
  ASSUME NEW q \in Seq(Written), NEW r \in Seq(Requests), NEW a, NEW u, NEW S,
         Open(q, r, a, u, S), NEW n \in Seq(Notes(S))
  PROVE  q \o n \in Seq(Written) /\ Open(q \o n, r, a, u, S)
<1>1. /\ n \in Seq(Written) /\ Filter(n, LastChunks) = << >>
      /\ \A i \in DOMAIN n : ~IsReply(n[i]) /\ n[i].cid \in S
  <2>1. n \in Seq(Written) /\ Filter(n, LastChunks) = << >>
    BY NotesNotDue
  <2>2. \A i \in DOMAIN n : n[i] \in Notes(S)
    BY ElementOfSeq, LenProperties
  <2> QED BY <2>1, <2>2 DEF Notes
<1>2. q \o n \in Seq(Written)
  BY <1>1, ConcatProperties
<1>3. Due(q \o n, r) = Due(q, r)
  <2>0. n \in Seq(Written)
    BY <1>1
  <2>1. Filter(q \o n, LastChunks) = Filter(q, LastChunks) \o << >>
    <3>1. Filter(q \o n, LastChunks) = Filter(q, LastChunks) \o Filter(n, LastChunks)
      BY <2>0, FilterConcat
    <3> QED BY <1>1, <3>1
  <2>2. Filter(q, LastChunks) \o << >> = Filter(q, LastChunks)
    BY DueType, ConcatEmptySeq
  <2> QED BY <2>1, <2>2 DEF Due
<1>4. CASE n = << >>
  <2>1. q \o n = q
    BY <1>4, ConcatEmptySeq
  <2> QED BY <1>2, <2>1
<1>5. CASE n # << >>
  <2>1. Chained(n) /\ Complete(n)
    <3>1. Len(n) \in 1 .. Len(n) /\ DOMAIN n = 1 .. Len(n)
      BY <1>1, <1>5, EmptySeq, LenProperties
    <3>2. \A i \in 1 .. Len(n) - 1 : i \in DOMAIN n
      BY <3>1
    <3> QED BY <1>1, <3>1, <3>2 DEF Chained, Complete, Link
  <2>2. q # << >> => Link(q[Len(q)], n[1])
    <3>1. 1 \in DOMAIN n
      BY <1>1, <1>5, EmptySeq, LenProperties
    <3> QED BY <1>1, <3>1 DEF Open, Complete, Link
  <2>3. Chained(q \o n)
    BY <1>1, <2>1, <2>2, ChainConcat DEF Open
  <2>4. Complete(q \o n)
    BY <1>1, <1>5, <2>1, CompleteConcat
  <2>5. Explained(q \o n, a, u)
    <3>1. ASSUME NEW i \in DOMAIN n, n[i].cid \in Members(a)
          PROVE  \E j \in DOMAIN q : q[j] \in LastChunks /\ q[j].cid = n[i].cid
      <4>1. \A j \in DOMAIN r : r[j].cid # n[i].cid
        BY <1>1 DEF Open
      <4> QED BY <3>1, <4>1, DueMembers DEF Open
    <3>2. \A i \in DOMAIN n : n[i].cid \in u
      BY <1>1 DEF Open
    <3>3. Explained(q, a, u)
      BY DEF Open
    <3> QED BY <1>1, <3>1, <3>2, <3>3, ExplainedConcat
  <2> QED BY <1>2, <1>3, <2>3, <2>4, <2>5 DEF Open
<1> QED BY <1>4, <1>5

(* The request that is handled, and the others. *)
LEMMA FirstRequest ==
  ASSUME NEW r \in Seq(Requests), r # << >>
  PROVE  /\ Head(r) \in Requests /\ Head(r).cid \in Cids /\ Tail(r) \in Seq(Requests)
         /\ r = <<Head(r)>> \o Tail(r)
         /\ CidsOf(r) = <<Head(r).cid>> \o CidsOf(Tail(r))
         /\ Len(Tail(r)) = Len(r) - 1 /\ Len(r) \in Nat \ {0} /\ r[1] = Head(r)
         /\ \A i \in DOMAIN Tail(r) : i + 1 \in DOMAIN r /\ Tail(r)[i] = r[i + 1]
<1> DEFINE h == Head(r)  t == Tail(r)
<1>1. h \in Requests /\ t \in Seq(Requests) /\ r = <<h>> \o t
  BY HeadTailProperties, ConcatSimplifications
<1>2. <<h>> \in Seq(Requests) /\ CidsOf(<<h>>) = <<h.cid>>
  BY <1>1 DEF CidsOf
<1>3. CidsOf(<<h>> \o t) = CidsOf(<<h>>) \o CidsOf(t)
  BY <1>1, <1>2, HaveCids, CidsOfConcat DEF Requests
<1>4. h.cid \in Cids
  BY <1>1 DEF Requests
<1>5. /\ Len(t) = Len(r) - 1 /\ Len(r) \in Nat \ {0} /\ r[1] = h
      /\ \A i \in DOMAIN t : i + 1 \in DOMAIN r /\ t[i] = r[i + 1]
  BY HeadTailProperties, EmptySeq, LenProperties
<1> QED BY <1>1, <1>2, <1>3, <1>4, <1>5

(* The server answers the first request. *)
LEMMA OpenReply ==
  ASSUME NEW q \in Seq(Written), NEW r \in Seq(Requests), r # << >>, NEW a, NEW u, NEW S,
         Open(q, r, a, u, S), NEW m \in Answers(Head(r).cid)
  PROVE  /\ q \o m \in Seq(Written) /\ Tail(r) \in Seq(Requests)
         /\ Open(q \o m, Tail(r), a, u, S)
         /\ \A i \in DOMAIN Tail(r) : Tail(r)[i].cid # Head(r).cid
         /\ Head(r).cmd = "SUBS" => Head(r).cid \in u
<1> DEFINE h == Head(r)  t == Tail(r)  k == h.cid  f == Filter(q, LastChunks)
<1>1. /\ h \in Requests /\ k \in Cids /\ t \in Seq(Requests)
      /\ CidsOf(r) = <<k>> \o CidsOf(t)
      /\ Len(t) = Len(r) - 1 /\ Len(r) \in Nat \ {0} /\ r[1] = h
      /\ \A i \in DOMAIN t : i + 1 \in DOMAIN r /\ t[i] = r[i + 1]
  BY FirstRequest
<1>2. m \in Seq(Written) /\ m # << >> /\ CidsOf(Filter(m, LastChunks)) = <<k>>
  BY <1>1, AnswerIsDue
<1>3. q \o m \in Seq(Written)
  BY <1>2, ConcatProperties
<1>4. Due(q \o m, t) = Due(q, r)
  <2>1. Due(q \o m, t) = CidsOf(f) \o Due(m, t)
    BY <1>1, <1>2, DueConcat
  <2>2. Due(m, t) = CidsOf(r)
    BY <1>1, <1>2 DEF Due
  <2> QED BY <2>1, <2>2 DEF Due
<1>5. /\ CidsOf(f) \in Seq(Cids) /\ CidsOf(r) \in Seq(Cids) /\ f \in Seq(Written \cap LastChunks)
      /\ Len(CidsOf(f)) = Len(f) /\ Len(CidsOf(r)) = Len(r)
  <2>1. f \in Seq(Written \cap LastChunks)
    BY DueType
  <2> QED BY <2>1, DueType, HaveCids, CidsOfConcat DEF Requests
<1>6. /\ Distinct(CidsOf(r))
      /\ \A i \in DOMAIN CidsOf(f), j \in DOMAIN CidsOf(r) : CidsOf(f)[i] # CidsOf(r)[j]
  <2>1. Distinct(CidsOf(f) \o CidsOf(r))
    BY DEF Open, Due
  <2> QED BY <1>5, <2>1, DistinctParts
<1> HIDE DEF h, t, k
<1>7. /\ 1 \in DOMAIN CidsOf(r) /\ CidsOf(r)[1] = k
      /\ \A i \in DOMAIN t : i + 1 \in DOMAIN CidsOf(r) /\ CidsOf(r)[i + 1] = t[i].cid /\ i + 1 # 1
  <2>1. DOMAIN CidsOf(r) = 1 .. Len(r) /\ DOMAIN r = 1 .. Len(r) /\ DOMAIN t = 1 .. Len(t)
    BY <1>1, <1>5, LenProperties
  <2>2. 1 \in DOMAIN CidsOf(r) /\ CidsOf(r)[1] = k
    BY <1>1, <2>1 DEF CidsOf, k
  <2>3. ASSUME NEW i \in DOMAIN t
        PROVE  i + 1 \in DOMAIN CidsOf(r) /\ CidsOf(r)[i + 1] = t[i].cid /\ i + 1 # 1
    BY <1>1, <2>1, <2>3 DEF CidsOf
  <2> QED BY <2>2, <2>3
<1>8. \A i \in DOMAIN t : t[i].cid # k
  BY <1>6, <1>7 DEF Distinct
<1>9. \A i \in DOMAIN m : m[i] \in Written /\ IsReply(m[i]) /\ m[i].cid = k
                          /\ (IsExtended(m[i].field) <=> i # Len(m))
  BY <1>2, ElementOfSeq, LenProperties DEF Answers, k, h
<1>10. 1 \in DOMAIN m /\ Len(m) \in DOMAIN m /\ DOMAIN m = 1 .. Len(m) /\ Len(m) \in Nat
  BY <1>2, EmptySeq, LenProperties
<1>11. Chained(m) /\ Complete(m)
  <2>1. ASSUME NEW i \in 1 .. Len(m) - 1 PROVE Link(m[i], m[i + 1])
    <3> DEFINE n == Len(m)
    <3>1. n \in Nat /\ DOMAIN m = 1 .. n /\ i \in 1 .. n - 1
      BY <1>10
    <3> HIDE DEF n
    <3>2. i \in 1 .. n /\ i + 1 \in 1 .. n /\ i # n
      BY <3>1
    <3>3. i \in DOMAIN m /\ i + 1 \in DOMAIN m /\ i # Len(m)
      BY <3>1, <3>2 DEF n
    <3> QED BY <1>9, <3>3 DEF Link
  <2>2. Complete(m)
    BY <1>9, <1>10 DEF Complete
  <2> QED BY <2>1, <2>2 DEF Chained
<1>12. ASSUME q # << >> PROVE Link(q[Len(q)], m[1])
  <2> DEFINE last == q[Len(q)]
  <2>1. Len(q) \in DOMAIN q /\ last \in Written
    BY <1>12, EmptySeq, LenProperties, ElementOfSeq
  <2>2. ASSUME IsReply(last) PROVE ~IsExtended(last.field) /\ last.cid # k
    <3>1. ~IsExtended(last.field)
      BY <1>12, <2>2 DEF Open, Complete
    <3>2. last \in LastChunks
      BY <2>1, <2>2, <3>1, LastChunk
    <3>3. PICK j \in DOMAIN f : f[j] = last
      BY <2>1, <3>2, FilterKeeps
    <3>4. j \in DOMAIN CidsOf(f) /\ CidsOf(f)[j] = last.cid
      BY <1>5, <3>3, LenProperties DEF CidsOf
    <3> QED BY <1>6, <1>7, <3>1, <3>4
  <2> QED BY <1>9, <1>10, <2>2 DEF Link
<1>13. Chained(q \o m)
  BY <1>2, <1>11, <1>12, ChainConcat DEF Open
<1>14. Complete(q \o m)
  BY <1>2, <1>11, CompleteConcat
<1>15. Explained(q \o m, a, u)
  <2>1. Explained(q, a, u)
    BY DEF Open
  <2> QED BY <1>2, <1>9, <2>1, ExplainedConcat
<1>16. \A i \in DOMAIN t : t[i].cid \notin S /\ (t[i].cmd = "SUBS" => t[i].cid \in u)
  BY <1>1 DEF Open
<1>17. h.cmd = "SUBS" => k \in u
  <2>1. 1 \in DOMAIN r
    BY <1>1, LenProperties
  <2> QED BY <1>1, <2>1 DEF Open, k
<1>18. Open(q \o m, t, a, u, S)
  BY <1>4, <1>13, <1>14, <1>15, <1>16 DEF Open
<1> QED BY <1>1, <1>3, <1>8, <1>17, <1>18 DEF h, t, k

(* The server remembers a subscription. *)
LEMMA OpenSubscribed ==
  ASSUME NEW q, NEW r, NEW a, NEW u, NEW S, Open(q, r, a, u, S),
         NEW k \in u, \A i \in DOMAIN r : r[i].cid # k
  PROVE  Open(q, r, a, u, S \cup {k})
BY DEF Open

(* The server drops a client, with the end z of its output. *)
LEMMA OpenDropped ==
  ASSUME NEW q \in Seq(Written), NEW z \in Seq(Written), NEW r \in Seq(Requests),
         NEW a, NEW u, NEW S, Open(q \o z, r, a, u, S)
  PROVE  Cut(q, a, u)
<1>1. /\ Due(z, r) \in Seq(Cids) /\ CidsOf(Filter(q, LastChunks)) \in Seq(Cids)
      /\ a = CidsOf(Filter(q, LastChunks)) \o Due(z, r)
  BY DueType, DueConcat DEF Open
<1>2. Due(q, << >>) = CidsOf(Filter(q, LastChunks))
  <2>1. CidsOf(<< >>) = << >>
    BY DEF CidsOf
  <2> QED BY <1>1, <2>1, ConcatEmptySeq DEF Due
<1>3. Chained(q)
  BY ChainParts DEF Open
<1>4. Explained(q, a, u)
  <2> DEFINE p == q \o z
  <2>1. DOMAIN q \subseteq DOMAIN p /\ \A i \in DOMAIN q : i \in 1 .. Len(q) /\ p[i] = q[i]
    BY ConcatElements
  <2>2. \A i \in DOMAIN q : \A j \in 1 .. i - 1 : j \in DOMAIN q
    BY ConcatElements
  <2>3. Explained(p, a, u)
    BY DEF Open
  <2> HIDE DEF p
  <2> QED BY <2>1, <2>2, <2>3 DEF Explained
<1> QED BY <1>1, <1>2, <1>3, <1>4 DEF Cut, Open

-----------------------------------------------------------------------------
(* A client calls. *)

(* One cid more. *)
LEMMA OneMore ==
  ASSUME NEW a \in Seq(Cids), NEW k \in Cids, Distinct(a), k \notin Members(a)
  PROVE  /\ Append(a, k) \in Seq(Cids) /\ Append(a, k) = a \o <<k>>
         /\ Distinct(Append(a, k)) /\ Members(Append(a, k)) = Members(a) \cup {k}
<1> DEFINE b == Append(a, k)  n == Len(a)
<1>1. /\ b \in Seq(Cids) /\ DOMAIN b = 1 .. n + 1 /\ n \in Nat /\ DOMAIN a = 1 .. n
      /\ \A i \in 1 .. n : b[i] = a[i]
      /\ b[n + 1] = k
  BY AppendProperties, LenProperties
<1>2. b = a \o <<k>>
  BY AppendIsConcat
<1> HIDE DEF b, n
<1>3. ASSUME NEW i \in DOMAIN b PROVE (i \in DOMAIN a /\ b[i] = a[i]) \/ (i = n + 1 /\ b[i] = k)
  <2>1. i \in 1 .. n \/ i = n + 1
    BY <1>1
  <2> QED BY <1>1, <2>1
<1>4. DOMAIN a \subseteq DOMAIN b /\ n + 1 \in DOMAIN b
  BY <1>1
<1>5. Members(b) = Members(a) \cup {k}
  BY <1>1, <1>3, <1>4 DEF Members
<1>6. \A i \in DOMAIN a : a[i] # k
  BY DEF Members
<1>7. Distinct(b)
  BY <1>3, <1>6 DEF Distinct
<1> QED BY <1>1, <1>2, <1>5, <1>7 DEF b

(* The new cid explains no notification away. *)
LEMMA ExplainedCall ==
  ASSUME NEW q \in Seq(Written), NEW a \in Seq(Cids), NEW u, NEW v, NEW k \in Cids,
         Explained(q, a, u), Distinct(a), k \notin Members(a), k \notin u, u \subseteq v
  PROVE  Explained(q, Append(a, k), v)
<1>1. Members(Append(a, k)) = Members(a) \cup {k}
  BY OneMore
<1> QED BY <1>1 DEF Explained

(* The client calls, of a server that listens. *)
LEMMA OpenCall ==
  ASSUME NEW q \in Seq(Written), NEW r \in Seq(Requests), NEW a \in Seq(Cids), NEW u, NEW S,
         Open(q, r, a, u, S), NEW k \in Cids, k \notin Members(a), k \notin u,
         NEW cmd \in CommandNames, NEW v, u \subseteq v, cmd = "SUBS" => k \in v
  PROVE  LET h == [cid |-> k, cmd |-> cmd]
         IN  Append(r, h) \in Seq(Requests) /\ Open(q, Append(r, h), Append(a, k), v, S)
<1> DEFINE h == [cid |-> k, cmd |-> cmd]  f == Filter(q, LastChunks)  b == Append(a, k)
           t == Append(r, h)
<1>1. h \in Requests /\ t \in Seq(Requests) /\ t = r \o <<h>> /\ <<h>> \in Seq(Requests)
  <2>1. h \in Requests
    BY DEF Requests
  <2> QED BY <2>1, AppendIsConcat, AppendProperties
<1>2. b = Due(q, t)
  <2>1. CidsOf(t) = CidsOf(r) \o CidsOf(<<h>>)
    BY <1>1, HaveCids, CidsOfConcat DEF Requests
  <2>2. CidsOf(<<h>>) = <<k>>
    BY DEF CidsOf
  <2>3. CidsOf(f) \in Seq(Cids) /\ CidsOf(r) \in Seq(Cids) /\ <<k>> \in Seq(Cids)
    BY DueType
  <2>4. a = CidsOf(f) \o CidsOf(r)
    BY DEF Open, Due
  <2>5. b = a \o <<k>>
    BY OneMore DEF Open
  <2>6. (CidsOf(f) \o CidsOf(r)) \o <<k>> = CidsOf(f) \o (CidsOf(r) \o <<k>>)
    BY <2>3, ConcatAssociative, SMTT(20)
  <2> QED BY <2>1, <2>2, <2>4, <2>5, <2>6 DEF Due
<1>3. Distinct(b)
  BY OneMore DEF Open
<1>4. Explained(q, b, v)
  BY ExplainedCall DEF Open
<1>5. S \subseteq v /\ k \notin S
  BY DEF Open
<1>6. \A i \in DOMAIN t : t[i].cid \notin S /\ (t[i].cmd = "SUBS" => t[i].cid \in v)
  <2>1. ASSUME NEW i \in DOMAIN t PROVE (i \in DOMAIN r /\ t[i] = r[i]) \/ t[i] = h
    <3>1. /\ DOMAIN t = 1 .. Len(r) + 1 /\ Len(r) \in Nat /\ DOMAIN r = 1 .. Len(r)
          /\ \A j \in 1 .. Len(r) : t[j] = r[j]
          /\ t[Len(r) + 1] = h
      BY <1>1, AppendProperties, LenProperties
    <3> HIDE DEF t, h
    <3>2. i \in 1 .. Len(r) \/ i = Len(r) + 1
      BY <3>1
    <3> QED BY <3>1, <3>2
  <2>2. \A i \in DOMAIN r : r[i].cid \notin S /\ (r[i].cmd = "SUBS" => r[i].cid \in v)
    BY DEF Open
  <2>3. h.cid = k /\ h.cmd = cmd
    OBVIOUS
  <2> HIDE DEF h, t
  <2> QED BY <1>5, <2>1, <2>2, <2>3
<1>7. Chained(q) /\ Complete(q)
  BY DEF Open
<1> HIDE DEF t, b
<1>8. Open(q, t, b, v, S)
  BY <1>2, <1>3, <1>4, <1>5, <1>6, <1>7 DEF Open
<1> QED BY <1>1, <1>8 DEF t, b

(* The client calls, and has been dropped. *)
LEMMA CutCall ==
  ASSUME NEW q \in Seq(Written), NEW a \in Seq(Cids), NEW u, Cut(q, a, u),
         NEW k \in Cids, k \notin Members(a), k \notin u, NEW v, u \subseteq v
  PROVE  Cut(q, Append(a, k), v)
<1>1. PICK rest \in Seq(Cids) : a = Due(q, << >>) \o rest
  BY DEF Cut
<1>2. Distinct(a) /\ Chained(q) /\ Explained(q, a, u)
  BY DEF Cut
<1>3. Append(a, k) = a \o <<k>> /\ Distinct(Append(a, k))
  BY <1>2, OneMore
<1>4. Explained(q, Append(a, k), v)
  BY <1>2, ExplainedCall
<1>5. << >> \in Seq(Requests)
  BY EmptySeq
<1>6. Due(q, << >>) \in Seq(Cids) /\ <<k>> \in Seq(Cids)
  <2> DEFINE e == << >>
  <2>1. e \in Seq(Requests)
    BY <1>5
  <2> HIDE DEF e
  <2>2. Due(q, e) \in Seq(Cids)
    BY <2>1, DueType
  <2>3. <<k>> \in Seq(Cids)
    OBVIOUS
  <2> QED BY <2>2, <2>3 DEF e
<1>7. (Due(q, << >>) \o rest) \o <<k>> = Due(q, << >>) \o (rest \o <<k>>) /\ rest \o <<k>> \in Seq(Cids)
  BY <1>6, ConcatAssociative, ConcatProperties, SMTT(20)
<1>8. \E z \in Seq(Cids) : Append(a, k) = Due(q, << >>) \o z
  BY <1>1, <1>3, <1>7
<1> QED BY <1>2, <1>3, <1>4, <1>8 DEF Cut

-----------------------------------------------------------------------------
(* A client reads. *)

(* The rest of what there is to read is explained by what is not answered. *)
LEMMA ExplainedRead ==
  ASSUME NEW p \in Seq(Written), NEW ch \in Written, NEW z \in Seq(Written),
         NEW b \in Seq(Cids), NEW a, NEW u,
         \A i \in DOMAIN p : IsExtended(p[i].field), ~IsExtended(ch.field),
         IsReply(ch) => a = <<ch.cid>> \o b, ~IsReply(ch) => a = b,
         Distinct(a), Explained((p \o <<ch>>) \o z, a, u)
  PROVE  Distinct(b) /\ Explained(z, b, u)
<1> DEFINE s == p \o <<ch>>  q == s \o z  m == Len(p) + 1
<1>1. s \in Seq(Written) /\ Len(s) = m /\ m \in Nat
      /\ \A i \in 1 .. m : (i \in DOMAIN p /\ s[i] = p[i]) \/ (i = m /\ s[i] = ch)
  <2>1. <<ch>> \in Seq(Written) /\ Len(<<ch>>) = 1 /\ <<ch>>[1] = ch
    OBVIOUS
  <2>2. /\ s \in Seq(Written) /\ Len(s) = Len(p) + 1 /\ Len(p) \in Nat /\ DOMAIN p = 1 .. Len(p)
        /\ \A i \in 1 .. Len(p) : s[i] = p[i]
        /\ s[Len(p) + 1] = ch
    BY <2>1, ConcatElements
  <2> HIDE DEF s
  <2>3. ASSUME NEW i \in 1 .. m PROVE (i \in DOMAIN p /\ s[i] = p[i]) \/ (i = m /\ s[i] = ch)
    <3>1. i \in 1 .. Len(p) \/ i = Len(p) + 1
      BY <2>2
    <3> QED BY <2>2, <3>1
  <2> QED BY <2>2, <2>3
<1>2. /\ DOMAIN q = 1 .. m + Len(z) /\ Len(z) \in Nat /\ DOMAIN z = 1 .. Len(z)
      /\ \A i \in 1 .. m : q[i] = s[i]
      /\ \A i \in 1 .. Len(z) : q[m + i] = z[i]
  BY <1>1, ConcatElements
<1>3. Distinct(b) /\ Members(b) \subseteq Members(a) /\ (IsReply(ch) => ch.cid \notin Members(b))
  <2>1. CASE IsReply(ch)
    <3> DEFINE h == <<ch.cid>>
    <3>1. h \in Seq(Cids) /\ 1 \in DOMAIN h /\ h[1] = ch.cid /\ Len(h) = 1
      BY HaveCids
    <3>2. Distinct(h \o b)
      BY <2>1
    <3>3. Distinct(b) /\ \A i \in DOMAIN h, j \in DOMAIN b : h[i] # b[j]
      BY <3>1, <3>2, DistinctParts
    <3>4. \A j \in DOMAIN b : 1 + j \in DOMAIN (h \o b) /\ (h \o b)[1 + j] = b[j]
      BY <3>1, ConcatElements
    <3> HIDE DEF h
    <3>5. Members(b) \subseteq Members(h \o b)
      BY <3>4 DEF Members
    <3>6. ch.cid \notin Members(b)
      BY <3>1, <3>3 DEF Members
    <3> QED BY <2>1, <3>3, <3>5, <3>6 DEF h
  <2>2. CASE ~IsReply(ch)
    BY <2>2
  <2> QED BY <2>1, <2>2
<1> HIDE DEF s, q, m
<1>4. Explained(q, a, u)
  BY DEF q, s
<1>5. ASSUME NEW i \in DOMAIN z, ~IsReply(z[i])
      PROVE  /\ z[i].cid \in u
             /\ \/ z[i].cid \notin Members(b)
                \/ \E j \in 1 .. i - 1 : z[j] \in LastChunks /\ z[j].cid = z[i].cid
  <2> DEFINE l == m + i
  <2>1. l \in DOMAIN q /\ q[l] = z[i] /\ i \in Nat /\ l \in Nat /\ l - i = m
    BY <1>1, <1>2
  <2> HIDE DEF l
  <2>2. /\ z[i].cid \in u
        /\ \/ z[i].cid \notin Members(a)
           \/ \E j \in 1 .. l - 1 : q[j] \in LastChunks /\ q[j].cid = z[i].cid
    <3>1. ~IsReply(q[l])
      BY <1>5, <2>1
    <3>2. /\ q[l].cid \in u
          /\ \/ q[l].cid \notin Members(a)
             \/ \E j \in 1 .. l - 1 : q[j] \in LastChunks /\ q[j].cid = q[l].cid
      BY <1>4, <2>1, <3>1 DEF Explained
    <3> QED BY <2>1, <3>2
  <2>3. ASSUME NEW j \in 1 .. l - 1, q[j] \in LastChunks, q[j].cid = z[i].cid,
               z[i].cid \in Members(b)
        PROVE  \E e \in 1 .. i - 1 : z[e] \in LastChunks /\ z[e].cid = z[i].cid
    <3>1. CASE j \in 1 .. m
      <4>1. (j \in DOMAIN p /\ q[j] = p[j]) \/ q[j] = ch
        BY <1>1, <1>2, <3>1
      <4>2. ~(j \in DOMAIN p /\ q[j] = p[j])
        <5>1. \A x \in DOMAIN p : p[x] \in Written
          BY ElementOfSeq, LenProperties
        <5>2. \A x \in DOMAIN p : p[x] \notin LastChunks
          BY <5>1, LastChunk
        <5> QED BY <2>3, <5>2
      <4>3. q[j] = ch /\ IsReply(ch)
        BY <2>3, <4>1, <4>2, LastChunk
      <4> QED BY <1>3, <2>3, <4>3
    <3>2. CASE j \notin 1 .. m
      <4> DEFINE e == j - m
      <4>1. e \in 1 .. i - 1 /\ e \in 1 .. Len(z) /\ j = m + e
        BY <1>1, <1>2, <2>1, <3>2
      <4>2. q[j] = z[e]
        BY <1>2, <4>1
      <4> QED BY <2>3, <4>1, <4>2
    <3> QED BY <3>1, <3>2
  <2> QED BY <1>3, <2>2, <2>3
<1> QED BY <1>3, <1>5 DEF Explained

(* A message that ends with ch is the first that is due. *)
LEMMA DueRead ==
  ASSUME NEW p \in Seq(Written), NEW ch \in Written, NEW z \in Seq(Written), NEW r \in Seq(Requests),
         \A i \in DOMAIN p : IsExtended(p[i].field), ~IsExtended(ch.field)
  PROVE  /\ IsReply(ch) => Due((p \o <<ch>>) \o z, r) = <<ch.cid>> \o Due(z, r)
         /\ ~IsReply(ch) => Due((p \o <<ch>>) \o z, r) = Due(z, r)
         /\ p \o <<ch>> \in Seq(Written) /\ Due(z, r) \in Seq(Cids)
<1> DEFINE s == p \o <<ch>>
<1>1. s = Append(p, ch) /\ s \in Seq(Written)
  BY AppendIsConcat, AppendProperties
<1>2. Filter(p, LastChunks) = << >>
  <2>1. \A i \in DOMAIN p : p[i] \notin LastChunks
    BY ElementOfSeq, LenProperties, LastChunk
  <2> QED BY <2>1, FilterNone
<1>3. Filter(s, LastChunks) = AppendIf(<< >>, ch, LastChunks)
  BY <1>1, <1>2, FilterAppend
<1>4. Due(s \o z, r) = CidsOf(Filter(s, LastChunks)) \o Due(z, r) /\ Due(z, r) \in Seq(Cids)
  BY <1>1, DueConcat, DueType
<1> HIDE DEF s
<1>5. ASSUME IsReply(ch) PROVE Due(s \o z, r) = <<ch.cid>> \o Due(z, r)
  <2>1. Filter(s, LastChunks) = <<ch>>
    BY <1>3, <1>5, LastChunk DEF AppendIf
  <2>2. CidsOf(<<ch>>) = <<ch.cid>>
    BY DEF CidsOf
  <2> QED BY <1>4, <2>1, <2>2
<1>6. ASSUME ~IsReply(ch) PROVE Due(s \o z, r) = Due(z, r)
  <2>1. Filter(s, LastChunks) = << >>
    BY <1>3, <1>6, LastChunk DEF AppendIf
  <2>2. CidsOf(<< >>) = << >>
    BY DEF CidsOf
  <2>3. << >> \o Due(z, r) = Due(z, r)
    BY <1>4, ConcatEmptySeq
  <2> QED BY <1>4, <2>1, <2>2, <2>3
<1> QED BY <1>1, <1>4, <1>5, <1>6 DEF s

(* The client has read a message to its end. *)
LEMMA OpenRead ==
  ASSUME NEW p \in Seq(Written), NEW ch \in Written, NEW z \in Seq(Written), NEW r \in Seq(Requests),
         NEW a, NEW u, NEW S,
         \A i \in DOMAIN p : IsExtended(p[i].field), ~IsExtended(ch.field),
         Open((p \o <<ch>>) \o z, r, a, u, S)
  PROVE  /\ IsReply(ch) => a # << >> /\ Open(z, r, Tail(a), u, S)
         /\ ~IsReply(ch) => Open(z, r, a, u, S)
<1> DEFINE s == p \o <<ch>>  b == Due(z, r)
<1>1. /\ s \in Seq(Written) /\ b \in Seq(Cids)
      /\ IsReply(ch) => a = <<ch.cid>> \o b
      /\ ~IsReply(ch) => a = b
  BY DueRead, ZenonT(40) DEF Open
<1>2. Distinct(a) /\ Chained(s \o z) /\ Complete(s \o z) /\ Explained(s \o z, a, u)
  BY DEF Open
<1>3. Distinct(b) /\ Explained(z, b, u)
  BY <1>1, <1>2, ExplainedRead
<1>4. Chained(z)
  BY <1>1, <1>2, ChainParts
<1>5. Complete(z)
  BY <1>1, <1>2, CompleteConcat DEF Complete
<1> HIDE DEF s, b
<1>6. Open(z, r, b, u, S)
  BY <1>3, <1>4, <1>5 DEF Open, b
<1>7. IsReply(ch) => a # << >> /\ Tail(a) = b
  BY <1>1, HaveCids, ConcatSimplifications
<1> QED BY <1>1, <1>6, <1>7

(* So has one that was dropped. *)
LEMMA CutRead ==
  ASSUME NEW p \in Seq(Written), NEW ch \in Written, NEW z \in Seq(Written), NEW a, NEW u,
         \A i \in DOMAIN p : IsExtended(p[i].field), ~IsExtended(ch.field),
         Cut((p \o <<ch>>) \o z, a, u)
  PROVE  /\ IsReply(ch) => a # << >> /\ Cut(z, Tail(a), u)
         /\ ~IsReply(ch) => Cut(z, a, u)
<1> DEFINE s == p \o <<ch>>  d == Due(z, << >>)
<1>1. PICK rest \in Seq(Cids) : a = Due(s \o z, << >>) \o rest
  BY DEF Cut
<1> DEFINE b == d \o rest
<1>2. /\ s \in Seq(Written) /\ d \in Seq(Cids) /\ b \in Seq(Cids)
      /\ IsReply(ch) => a = <<ch.cid>> \o b
      /\ ~IsReply(ch) => a = b
  <2>1. << >> \in Seq(Requests)
    BY EmptySeq
  <2>2. /\ s \in Seq(Written) /\ d \in Seq(Cids)
        /\ IsReply(ch) => a = (<<ch.cid>> \o d) \o rest
        /\ ~IsReply(ch) => a = d \o rest
    BY <1>1, <2>1, DueRead
  <2>3. (<<ch.cid>> \o d) \o rest = <<ch.cid>> \o b /\ b \in Seq(Cids)
    BY <2>2, HaveCids, ConcatAssociative, ConcatProperties
  <2> QED BY <2>2, <2>3
<1>3. Distinct(a) /\ Chained(s \o z) /\ Explained(s \o z, a, u)
  BY DEF Cut
<1>4. Distinct(b) /\ Explained(z, b, u)
  BY <1>2, <1>3, ExplainedRead
<1>5. Chained(z)
  BY <1>2, <1>3, ChainParts
<1> HIDE DEF s
<1>6. Cut(z, b, u)
  BY <1>4, <1>5 DEF Cut
<1> HIDE DEF b
<1>7. IsReply(ch) => a # << >> /\ Tail(a) = b
  BY <1>2, HaveCids, ConcatSimplifications
<1> QED BY <1>2, <1>6, <1>7

-----------------------------------------------------------------------------
(* Command ids. *)

\* The cids that the counter passes from a to b, b included.
Walk(a, b) == {x \in Cids : IF a <= b THEN a < x /\ x <= b ELSE x > a \/ x <= b}

\* The counter, at b, has not come round to a call that waits: what it has
\* passed since then are later calls and cids of subscriptions.
Walked(a, b, u) ==
    \A i \in DOMAIN a : \A x \in Walk(a[i], b) :
       x \in u \/ \E j \in DOMAIN a : j > i /\ a[j] = x

\* The cids that the counter skips from b to k.
Skipped(b, k) == {x \in Cids : IF b < k THEN b < x /\ x < k ELSE x > b \/ x < k}

(* Cids in use, fewer than there are, leave one. *)
LEMMA CidLeft ==
  ASSUME NEW a \in Seq(Cids), NEW u \in SUBSET Cids, Len(a) + Cardinality(u) < MaxPending
  PROVE  \E x \in Cids : x \notin u /\ x \notin Members(a)
<1>1. MaxCid \in Nat /\ MaxPending < MaxCid /\ MaxPending \in Nat
  BY SessionAssumption
<1>2. IsFiniteSet(Cids) /\ Cardinality(Cids) = MaxCid
  BY <1>1, FS_Interval DEF Cids
<1>3. IsFiniteSet(u) /\ Cardinality(u) \in Nat
  BY <1>2, FS_Subset, FS_CardinalityType
<1>4. IsFiniteSet(Members(a)) /\ Cardinality(Members(a)) <= Len(a) /\ Cardinality(Members(a)) \in Nat
  <2>1. DOMAIN a = 1 .. Len(a) /\ Len(a) \in Nat
    BY LenProperties
  <2>2. IsFiniteSet(DOMAIN a) /\ Cardinality(DOMAIN a) = Len(a)
    BY <2>1, FS_Interval, SMTT(20)
  <2>3. a \in Surjection(DOMAIN a, Members(a))
    BY <2>1 DEF Surjection, Members
  <2>4. IsFiniteSet(Members(a)) /\ Cardinality(Members(a)) <= Cardinality(DOMAIN a)
    BY <2>2, <2>3, FS_Surjection
  <2> QED BY <2>2, <2>4, FS_CardinalityType
<1> SUFFICES ASSUME Cids \subseteq u \cup Members(a) PROVE FALSE
  OBVIOUS
<1>5. IsFiniteSet(u \cup Members(a))
      /\ Cardinality(u \cup Members(a)) <= Cardinality(u) + Cardinality(Members(a))
  <2>1. /\ IsFiniteSet(u \cup Members(a)) /\ IsFiniteSet(u \cap Members(a))
        /\ Cardinality(u \cup Members(a)) =
              Cardinality(u) + Cardinality(Members(a)) - Cardinality(u \cap Members(a))
    BY <1>3, <1>4, FS_Union, FS_Intersection
  <2>2. Cardinality(u \cap Members(a)) \in Nat
    BY <2>1, FS_CardinalityType
  <2> QED BY <1>3, <1>4, <2>1, <2>2
<1>6. MaxCid <= Cardinality(u \cup Members(a)) /\ Cardinality(u \cup Members(a)) \in Nat
  BY <1>2, <1>5, FS_Subset, FS_CardinalityType
<1>7. Len(a) \in Nat
  BY LenProperties
<1> QED BY <1>1, <1>3, <1>4, <1>5, <1>6, <1>7

(* The i-th cid after b. *)
LEMMA After ==
  ASSUME NEW b \in Cids, NEW i \in 1 .. MaxCid
  PROVE  ((b + i - 1) % MaxCid) + 1 = IF b + i <= MaxCid THEN b + i ELSE b + i - MaxCid
<1> DEFINE M == MaxCid  x == b + i - 1
<1>1. M \in Nat \ {0} /\ b \in 1 .. M /\ i \in 1 .. M /\ x \in Nat /\ x = b + i - 1
  BY SessionAssumption DEF Cids
<1> HIDE DEF M, x
<1>2. ASSUME b + i <= M PROVE (x % M) + 1 = b + i
  <2>1. x = 0 * M + x /\ x \in 0 .. M - 1
    BY <1>1, <1>2
  <2>2. x % M = x
    BY <1>1, <2>1, Division
  <2> QED BY <1>1, <2>2
<1>3. ASSUME b + i > M PROVE (x % M) + 1 = b + i - M
  <2>1. x = 1 * M + (x - M) /\ x - M \in 0 .. M - 1
    BY <1>1, <1>3
  <2>2. x % M = x - M
    BY <1>1, <2>1, Division
  <2> QED BY <1>1, <2>2
<1>4. b + i <= M \/ b + i > M
  BY <1>1
<1> QED BY <1>1, <1>2, <1>3, <1>4 DEF M, x

(* _increment_cid takes the next cid that no subscription has. *)
LEMMA IncrementCid ==
  ASSUME NEW c, cid[c] \in Cids, inuse[c] \in SUBSET Cids, \E x \in Cids : x \notin inuse[c]
  PROVE  LET k == _increment_cid(c)
         IN  k \in Cids /\ k \notin inuse[c] /\ Skipped(cid[c], k) \subseteq inuse[c]
<1> DEFINE b == cid[c]  M == MaxCid  u == inuse[c]
           after(i) == ((b + i - 1) % M) + 1
           First(i) == /\ after(i) \notin u
                       /\ \A j \in 1 .. i - 1 : after(j) \in u
<1>1. M \in Nat /\ b \in 1 .. M /\ Cids = 1 .. M
  BY SessionAssumption DEF Cids
<1>2. \A i \in 1 .. M : after(i) = IF b + i <= M THEN b + i ELSE b + i - M
  BY After
<1> DEFINE index(x) == IF x > b THEN x - b ELSE x - b + M
<1>3. \A x \in Cids : index(x) \in 1 .. M /\ after(index(x)) = x
  <2> SUFFICES ASSUME NEW x \in Cids PROVE index(x) \in 1 .. M /\ after(index(x)) = x
    OBVIOUS
  <2> HIDE DEF after, b, M
  <2>1. index(x) \in 1 .. M
    BY <1>1
  <2>2. (IF b + index(x) <= M THEN b + index(x) ELSE b + index(x) - M) = x
    BY <1>1
  <2> HIDE DEF index
  <2> QED BY <1>2, <2>1, <2>2
<1> HIDE DEF after, index
<1>4. \E i \in 1 .. M : First(i)
  <2> DEFINE T == {i \in 1 .. M : after(i) \notin u}
  <2>1. T \in SUBSET Nat /\ T # {}
    BY <1>1, <1>3
  <2>2. PICK i \in T : \A j \in T : ~(j < i)
    BY <2>1, Least
  <2>3. \A j \in 1 .. i - 1 : j \in 1 .. M /\ j < i
    BY <1>1, <2>2
  <2> QED BY <2>2, <2>3
<1> DEFINE i == CHOOSE i \in 1 .. M : First(i)
<1>5. i \in 1 .. M /\ First(i)
  BY <1>4
<1>6. _increment_cid(c) = after(i)
  BY DEF _increment_cid, after
<1> HIDE DEF i
<1> DEFINE k == after(i)
<1>7. k = IF b + i <= M THEN b + i ELSE b + i - M
  BY <1>2, <1>5
<1> HIDE DEF k
<1>8. k \in Cids /\ k \notin u
  <2>1. k \in Cids
    BY <1>1, <1>5, <1>7
  <2> QED BY <1>5, <2>1 DEF k
<1>9. ASSUME NEW x \in Skipped(b, k) PROVE x \in u
  <2>1. x \in Cids /\ IF b < k THEN b < x /\ x < k ELSE x > b \/ x < k
    BY DEF Skipped
  <2>2. index(x) \in 1 .. M /\ after(index(x)) = x
    BY <1>3, <2>1
  <2>3. index(x) \in 1 .. i - 1
    <3>1. index(x) < i
      <4> HIDE DEF b, M
      <4> QED BY <1>1, <1>5, <1>7, <2>1 DEF index
    <3> QED BY <1>1, <1>5, <2>2, <3>1
  <2> QED BY <1>5, <2>2, <2>3
<1> QED BY <1>6, <1>8, <1>9 DEF k

(* Round the circle of cids. *)
LEMMA WalkOn ==
  ASSUME NEW a \in Cids, NEW b \in Cids, NEW k \in Cids
  PROVE  /\ a # k => \A x \in Walk(a, k) : x \in Walk(a, b) \/ x \in Skipped(b, k) \/ x = k
         /\ a = k => \A x \in Cids : x \in Walk(a, b) \/ x \in Skipped(b, k) \/ x = k
         /\ Walk(k, k) = {}
<1>1. Cids \subseteq Nat
  BY DEF Cids
<1>2. a \in Nat /\ b \in Nat /\ k \in Nat
  BY <1>1
<1>3. ASSUME a # k, NEW x \in Walk(a, k) PROVE x \in Walk(a, b) \/ x \in Skipped(b, k) \/ x = k
  BY <1>1, <1>2, <1>3 DEF Walk, Skipped
<1>4. ASSUME a = k, NEW x \in Cids PROVE x \in Walk(a, b) \/ x \in Skipped(b, k) \/ x = k
  BY <1>1, <1>2, <1>4 DEF Walk, Skipped
<1>5. Walk(k, k) = {}
  <2> SUFFICES ASSUME NEW x \in Walk(k, k) PROVE FALSE
    OBVIOUS
  <2>1. x \in Nat /\ (IF k <= k THEN k < x /\ x <= k ELSE x > k \/ x <= k)
    BY <1>1 DEF Walk
  <2> QED BY <1>2, <2>1
<1> QED BY <1>3, <1>4, <1>5

(* The next cid is not that of a call that waits. *)
LEMMA NextCid ==
  ASSUME NEW c, cid[c] \in Cids, inuse[c] \in SUBSET Cids, asked[c] \in Seq(Cids),
         Distinct(asked[c]), Walked(asked[c], cid[c], inuse[c]),
         Len(asked[c]) + Cardinality(inuse[c]) < MaxPending
  PROVE  LET k == _increment_cid(c)
         IN  /\ k \in Cids /\ k \notin inuse[c] /\ k \notin Members(asked[c])
             /\ \A v : inuse[c] \subseteq v => Walked(Append(asked[c], k), k, v)
<1> DEFINE a == asked[c]  b == cid[c]  u == inuse[c]  k == _increment_cid(c)  n == Len(a)
<1>1. \E x \in Cids : x \notin u /\ x \notin Members(a)
  BY CidLeft
<1>2. k \in Cids /\ k \notin u /\ Skipped(b, k) \subseteq u
  BY <1>1, IncrementCid
<1> HIDE DEF k
<1>3. n \in Nat /\ DOMAIN a = 1 .. n /\ \A i \in DOMAIN a : a[i] \in Cids
  BY ElementOfSeq, LenProperties
<1>4. \A i \in DOMAIN a : a[i] # k
  <2> SUFFICES ASSUME NEW i \in DOMAIN a, a[i] = k PROVE FALSE
    OBVIOUS
  <2>1. PICK x \in Cids : x \notin u /\ x \notin Members(a)
    BY <1>1
  <2>2. x # k
    BY <2>1 DEF Members
  <2>3. x \in Walk(a[i], b)
    BY <1>2, <1>3, <2>1, <2>2, WalkOn
  <2>4. x \in u \/ \E j \in DOMAIN a : a[j] = x
    BY <2>3 DEF Walked
  <2> QED BY <2>1, <2>4 DEF Members
<1>5. k \notin Members(a)
  BY <1>4 DEF Members
<1>6. ASSUME NEW v, u \subseteq v PROVE Walked(Append(a, k), k, v)
  <2> DEFINE z == Append(a, k)
  <2>1. /\ DOMAIN z = 1 .. n + 1 /\ \A i \in 1 .. n : z[i] = a[i]
        /\ z[n + 1] = k
    BY <1>2, <1>3, AppendProperties, LenProperties
  <2> HIDE DEF z
  <2> SUFFICES ASSUME NEW i \in DOMAIN z, NEW x \in Walk(z[i], k)
               PROVE  x \in v \/ \E j \in DOMAIN z : j > i /\ z[j] = x
    BY DEF Walked, z
  <2>2. CASE i = n + 1
    BY <1>2, <2>1, <2>2, WalkOn
  <2>3. CASE i # n + 1
    <3>1. i \in DOMAIN a /\ z[i] = a[i] /\ n + 1 \in DOMAIN z /\ n + 1 > i
      BY <1>3, <2>1, <2>3
    <3>2. x \in Walk(a[i], b) \/ x \in u \/ x = k
      BY <1>2, <1>3, <1>4, <3>1, WalkOn
    <3>3. CASE x \in Walk(a[i], b)
      <4>1. x \in u \/ \E j \in DOMAIN a : j > i /\ a[j] = x
        BY <3>1, <3>3 DEF Walked
      <4>2. \A j \in DOMAIN a : j \in DOMAIN z /\ z[j] = a[j]
        BY <1>3, <2>1
      <4> QED BY <1>6, <4>1, <4>2
    <3>4. CASE x = k
      BY <2>1, <3>1, <3>4
    <3> QED BY <1>6, <3>2, <3>3, <3>4
  <2> QED BY <2>2, <2>3
<1> QED BY <1>2, <1>5, <1>6 DEF k

(* Calls that are answered no longer wait. *)
LEMMA WalkedTail ==
  ASSUME NEW a \in Seq(Cids), a # << >>, NEW b, NEW u, Walked(a, b, u)
  PROVE  Tail(a) \in Seq(Cids) /\ Walked(Tail(a), b, u)
<1> DEFINE t == Tail(a)  n == Len(a)
<1>1. t \in Seq(Cids) /\ Len(t) = n - 1 /\ \A i \in 1 .. Len(t) : t[i] = a[i + 1]
  BY HeadTailProperties
<1>2. n \in Nat \ {0} /\ DOMAIN a = 1 .. n /\ DOMAIN t = 1 .. n - 1
  BY <1>1, EmptySeq, LenProperties
<1> HIDE DEF t, n
<1>3. ASSUME NEW i \in DOMAIN t, NEW x \in Walk(t[i], b)
      PROVE  x \in u \/ \E j \in DOMAIN t : j > i /\ t[j] = x
  <2> DEFINE l == i + 1
  <2>1. l \in DOMAIN a /\ t[i] = a[l]
    BY <1>1, <1>2
  <2> HIDE DEF l
  <2>2. x \in u \/ \E j \in DOMAIN a : j > l /\ a[j] = x
    BY <2>1 DEF Walked
  <2>3. ASSUME NEW j \in DOMAIN a, j > l, a[j] = x
        PROVE  \E e \in DOMAIN t : e > i /\ t[e] = x
    <3> DEFINE e == j - 1
    <3>1. e \in 1 .. n - 1 /\ e > i /\ e + 1 = j
      BY <1>2, <2>3 DEF l
    <3> HIDE DEF e
    <3>2. t[e] = a[e + 1]
      BY <1>1, <1>2, <3>1
    <3> QED BY <1>2, <2>3, <3>1, <3>2
  <2> QED BY <2>2, <2>3
<1> QED BY <1>1, <1>3 DEF Walked, t

-----------------------------------------------------------------------------
(* What the server adds to its output. *)

Outputs      == [Clients -> Seq(Written)]
Subscription == [con : Clients, ident : Idents, cid : Cids]

\* The cids of a client's subscriptions.
SubsOf(x) == {subscriptions[i].cid : i \in {j \in DOMAIN subscriptions : subscriptions[j].con = x}}

\* From o to z, x is notified.
Notified(x, o, z) == \E n \in Seq(Notes(SubsOf(x))) : z[x] = o[x] \o n

\* From o to z, clients are notified: all of them, or all but c.
Told(o, z)      == z \in Outputs /\ \A x \in Clients : Notified(x, o, z)
Others(c, o, z) == z \in Outputs /\ \A x \in Clients \ {c} : Notified(x, o, z)

\* And c gets a reply to its request k, with notifications before and after.
OneReply(c, k, o, z) ==
    /\ Others(c, o, z)
    /\ \E n1, n2 \in Seq(Notes(SubsOf(c))), m \in Answers(k) : z[c] = ((o[c] \o n1) \o m) \o n2

(* Notifications are chunks. *)
LEMMA NotesWritten ==
  /\ \A S : \A n \in Seq(Notes(S)) : n \in Seq(Written)
  /\ \A k \in Cids : \A m \in Answers(k) : m \in Seq(Written)
BY NotesNotDue, AnswerIsDue

(* Chunks after each other, and again. *)
LEMMA WrittenConcat ==
  ASSUME NEW s, NEW t, NEW u, s \in Seq(Written), t \in Seq(Written), u \in Seq(Written)
  PROVE  s \o t \in Seq(Written) /\ (s \o t) \o u = s \o (t \o u)
BY ConcatAssociative, ConcatProperties

(* Some notifications and then some more. *)
LEMMA NotifiedMore ==
  ASSUME NEW o \in Outputs, NEW p \in Outputs, NEW z \in Outputs, NEW x \in Clients,
         Notified(x, o, p), Notified(x, p, z)
  PROVE  Notified(x, o, z)
<1> DEFINE N == Notes(SubsOf(x))
<1>1. PICK n1 \in Seq(N) : p[x] = o[x] \o n1
  BY DEF Notified
<1>2. PICK n2 \in Seq(N) : z[x] = p[x] \o n2
  BY DEF Notified
<1> HIDE DEF N
<1>3. n1 \o n2 \in Seq(N)
  BY ConcatProperties
<1>4. o[x] \in Seq(Written) /\ n1 \in Seq(Written) /\ n2 \in Seq(Written)
  BY NotesWritten DEF Outputs, N
<1>5. (o[x] \o n1) \o n2 = o[x] \o (n1 \o n2)
  <2> DEFINE h == o[x]
  <2>1. h \in Seq(Written) /\ n1 \in Seq(Written) /\ n2 \in Seq(Written)
    BY <1>4
  <2> HIDE DEF h
  <2>2. (h \o n1) \o n2 = h \o (n1 \o n2)
    BY ONLY <2>1, WrittenConcat
  <2> QED BY <2>2 DEF h
<1>6. z[x] = o[x] \o (n1 \o n2)
  BY <1>1, <1>2, <1>5
<1> QED BY <1>3, <1>6 DEF Notified, N

(* Nothing is a notification less. *)
LEMMA ToldNothing == ASSUME NEW o \in Outputs PROVE Told(o, o)
<1> SUFFICES ASSUME NEW x \in Clients PROVE Notified(x, o, o)
  BY DEF Told
<1>1. o[x] \o << >> = o[x]
  <2>1. o[x] \in Seq(Written)
    BY DEF Outputs
  <2> QED BY <2>1, ConcatEmptySeq
<1>2. << >> \in Seq(Notes(SubsOf(x)))
  BY EmptySeq
<1> QED BY <1>1, <1>2 DEF Notified

(* Clients are notified, and then all but one. *)
LEMMA ToldOthers ==
  ASSUME NEW o \in Outputs, NEW p, NEW z, NEW c \in Clients
  PROVE  /\ Told(o, p) /\ Told(p, z) => Told(o, z)
         /\ Told(o, p) => Others(c, o, p)
         /\ Others(c, o, p) /\ Others(c, p, z) => Others(c, o, z)
<1>1. ASSUME Told(o, p), Told(p, z) PROVE Told(o, z)
  <2>1. p \in Outputs /\ z \in Outputs /\ \A x \in Clients : Notified(x, o, p) /\ Notified(x, p, z)
    BY <1>1 DEF Told
  <2>2. \A x \in Clients : Notified(x, o, z)
    BY <2>1, NotifiedMore
  <2> QED BY <2>1, <2>2 DEF Told
<1>2. Told(o, p) => Others(c, o, p)
  BY DEF Told, Others
<1>3. ASSUME Others(c, o, p), Others(c, p, z) PROVE Others(c, o, z)
  <2>1. /\ p \in Outputs /\ z \in Outputs
        /\ \A x \in Clients \ {c} : Notified(x, o, p) /\ Notified(x, p, z)
    BY <1>3 DEF Others
  <2>2. \A x \in Clients \ {c} : Notified(x, o, z)
    BY <2>1, NotifiedMore
  <2> QED BY <2>1, <2>2 DEF Others
<1> QED BY <1>1, <1>2, <1>3

(* A reply among notifications. *)
LEMMA ReplyTold ==
  ASSUME NEW o \in Outputs, NEW p, NEW z, NEW c \in Clients, NEW k \in Cids
  PROVE  /\ Told(o, p) /\ OneReply(c, k, p, z) => OneReply(c, k, o, z)
         /\ OneReply(c, k, o, p) /\ Told(p, z) => OneReply(c, k, o, z)
<1> DEFINE N == Notes(SubsOf(c))
<1> HIDE DEF N
<1>0. \A n \in Seq(N) : n \in Seq(Written)
  BY NotesWritten DEF N
<1>1. ASSUME Told(o, p), OneReply(c, k, p, z) PROVE OneReply(c, k, o, z)
  <2>1. Others(c, o, z)
    BY <1>1, ToldOthers DEF OneReply
  <2>2. PICK n \in Seq(N) : p[c] = o[c] \o n
    BY <1>1 DEF Told, Notified, N
  <2>3. PICK n1 \in Seq(N), n2 \in Seq(N), m \in Answers(k) : z[c] = ((p[c] \o n1) \o m) \o n2
    BY <1>1 DEF OneReply, N
  <2>4. o[c] \in Seq(Written) /\ n \in Seq(Written) /\ n1 \in Seq(Written)
    BY <1>0 DEF Outputs
  <2>5. (o[c] \o n) \o n1 = o[c] \o (n \o n1)
    <3> DEFINE h == o[c]
    <3>1. h \in Seq(Written) /\ n \in Seq(Written) /\ n1 \in Seq(Written)
      BY <2>4
    <3> HIDE DEF h
    <3>2. (h \o n) \o n1 = h \o (n \o n1)
      BY ONLY <3>1, WrittenConcat
    <3> QED BY <3>2 DEF h
  <2>6. n \o n1 \in Seq(N)
    BY ConcatProperties
  <2>7. z[c] = ((o[c] \o (n \o n1)) \o m) \o n2
    BY <2>2, <2>3, <2>5
  <2> QED BY <2>1, <2>6, <2>7 DEF OneReply, N
<1>2. ASSUME OneReply(c, k, o, p), Told(p, z) PROVE OneReply(c, k, o, z)
  <2>0. p \in Outputs
    BY <1>2 DEF OneReply, Others
  <2>1. Others(c, o, z)
    BY <1>2, <2>0, ToldOthers DEF OneReply
  <2>2. PICK n \in Seq(N) : z[c] = p[c] \o n
    BY <1>2 DEF Told, Notified, N
  <2>3. PICK n1 \in Seq(N), n2 \in Seq(N), m \in Answers(k) : p[c] = ((o[c] \o n1) \o m) \o n2
    BY <1>2 DEF OneReply, N
  <2>4. o[c] \in Seq(Written) /\ n \in Seq(Written) /\ n1 \in Seq(Written) /\ n2 \in Seq(Written)
        /\ m \in Seq(Written)
    BY <1>0, NotesWritten DEF Outputs
  <2>5. (o[c] \o n1) \o m \in Seq(Written)
    <3>1. o[c] \o n1 \in Seq(Written)
      BY <2>4, ConcatProperties
    <3> QED BY <2>4, <3>1, ConcatProperties
  <2>6. (((o[c] \o n1) \o m) \o n2) \o n = ((o[c] \o n1) \o m) \o (n2 \o n)
    <3> DEFINE h == (o[c] \o n1) \o m
    <3>1. h \in Seq(Written) /\ n2 \in Seq(Written) /\ n \in Seq(Written)
      BY <2>4, <2>5
    <3> HIDE DEF h
    <3>2. (h \o n2) \o n = h \o (n2 \o n)
      BY ONLY <3>1, WrittenConcat
    <3> QED BY <3>2 DEF h
  <2>7. n2 \o n \in Seq(N)
    BY ConcatProperties
  <2>8. z[c] = ((o[c] \o n1) \o m) \o (n2 \o n)
    BY <2>2, <2>3, <2>6
  <2> QED BY <2>1, <2>7, <2>8 DEF OneReply, N
<1> QED BY <1>1, <1>2

(* reply() replies. *)
LEMMA Replies ==
  ASSUME NEW o \in Outputs, NEW c \in Clients, NEW q \in Requests, NEW len \in Nat \ {0}
  PROVE  OneReply(c, q.cid, o, reply(o, c, q, len))
<1> DEFINE k == q.cid  m == send_message(Message("reply", len), k)  z == reply(o, c, q, len)
           N == Notes(SubsOf(c))
<1>1. k \in Cids
  BY DEF Requests
<1>2. m \in Answers(k) /\ m \in Seq(Written)
  <2>1. m \in Answers(k)
    BY <1>1, SendMessage
  <2> QED BY <1>1, <2>1, NotesWritten
<1>3. z = [o EXCEPT ![c] = @ \o m]
  BY DEF reply
<1> HIDE DEF m, z, k, N
<1>4. o[c] \in Seq(Written) /\ \A x \in Clients : o[x] \in Seq(Written)
  BY DEF Outputs
<1>5. o[c] \o m \in Seq(Written)
  BY <1>2, <1>4, ConcatProperties
<1>6. z \in Outputs
  BY <1>3, <1>5 DEF Outputs
<1>7. z[c] = o[c] \o m /\ \A x \in Clients \ {c} : z[x] = o[x]
  BY <1>3 DEF Outputs
<1>8. Others(c, o, z)
  <2> SUFFICES ASSUME NEW x \in Clients \ {c} PROVE Notified(x, o, z)
    BY <1>6 DEF Others
  <2>1. o[x] \o << >> = o[x]
    BY <1>4, ConcatEmptySeq
  <2>2. << >> \in Seq(Notes(SubsOf(x)))
    BY EmptySeq
  <2>3. z[x] = o[x] \o << >>
    BY <1>7, <2>1
  <2> QED BY <2>2, <2>3 DEF Notified
<1>9. z[c] = ((o[c] \o << >>) \o m) \o << >>
  <2>1. o[c] \o << >> = o[c] /\ (o[c] \o m) \o << >> = o[c] \o m
    BY <1>4, <1>5, ConcatEmptySeq
  <2> QED BY <1>7, <2>1
<1>10. << >> \in Seq(N)
  BY EmptySeq
<1>11. \E n1, n2 \in Seq(N), w \in Answers(k) : z[c] = ((o[c] \o n1) \o w) \o n2
  BY <1>2, <1>9, <1>10
<1> QED BY <1>8, <1>11 DEF OneReply, k, z, N

(* send_notification notifies. *)
LEMMA Tells ==
  ASSUME NEW o \in Outputs, subscriptions \in Seq(Subscription), NEW event \in Events,
         NEW len \in Nat \ {0}
  PROVE  Told(o, send_notification(o, event, len))
<1> DEFINE masks == {ident \in Idents : event \in ident}
           wanted(x) == Filter(subscriptions, Subscriptions({x}, masks))
           notes(x) == [i \in 1 .. Len(wanted(x)) |-> notification(Message("event", len), wanted(x)[i].cid)]
           z == send_notification(o, event, len)
<1>1. z = [x \in Clients |-> o[x] \o notes(x)]
  BY DEF send_notification
<1>2. ASSUME NEW x \in Clients
      PROVE  notes(x) \in Seq(Notes(SubsOf(x)))
  <2> DEFINE w == wanted(x)  S == SubsOf(x)
  <2>1. w \in Seq(Subscription \cap Subscriptions({x}, masks))
    BY FilterType
  <2>2. \A i \in DOMAIN w : \E j \in DOMAIN subscriptions : w[i] = subscriptions[j]
    <3> HIDE DEF masks
    <3> QED BY FilterSource
  <2> HIDE DEF w, masks
  <2>3. Len(w) \in Nat /\ DOMAIN w = 1 .. Len(w)
    BY <2>1, LenProperties
  <2>4. ASSUME NEW i \in 1 .. Len(w) PROVE w[i].cid \in S /\ w[i].cid \in Cids
    <3>1. w[i] \in Subscription /\ w[i] \in Subscriptions({x}, masks)
      <4> DEFINE T == Subscription \cap Subscriptions({x}, masks)
      <4>1. w \in Seq(T)
        BY <2>1
      <4> HIDE DEF T
      <4>2. w[i] \in T
        BY <4>1, ElementOfSeq
      <4> QED BY <4>2 DEF T
    <3>2. PICK j \in DOMAIN subscriptions : w[i] = subscriptions[j]
      BY <2>2, <2>3
    <3>3. w[i].con = x /\ w[i].cid \in Cids
      BY <3>1 DEF Subscription, Subscriptions
    <3> QED BY <3>2, <3>3 DEF SubsOf
  <2> HIDE DEF S
  <2>5. \A i \in 1 .. Len(w) : notification(Message("event", len), w[i].cid) \in Notes(S)
    BY <2>4, Notification
  <2>6. [i \in 1 .. Len(w) |-> notification(Message("event", len), w[i].cid)] \in [1 .. Len(w) -> Notes(S)]
    BY <2>5
  <2> QED BY <2>3, <2>6, FunctionIsSeq DEF w, S
<1> HIDE DEF notes, z
<1>3. \A x \in Clients : o[x] \o notes(x) \in Seq(Written)
  <2> SUFFICES ASSUME NEW x \in Clients PROVE o[x] \o notes(x) \in Seq(Written)
    OBVIOUS
  <2>1. o[x] \in Seq(Written) /\ notes(x) \in Seq(Written)
    BY <1>2, NotesWritten DEF Outputs
  <2> QED BY <2>1, ConcatProperties
<1>4. z \in Outputs
  BY <1>1, <1>3 DEF Outputs
<1>5. \A x \in Clients : z[x] = o[x] \o notes(x)
  BY <1>1
<1> QED BY <1>2, <1>4, <1>5 DEF Told, Notified, z

-----------------------------------------------------------------------------
(* The inductive invariant. *)

\* The lengths of the group's texts.
Sizes ==
    /\ cfg \in CfgSizes \cup {0} /\ notice \in NameSizes \cup {0}
    /\ HasGroup => notice \in NameSizes

\* Every variable's type.  A server that has ended has no connections, and no
\* backlog but that of a socket which others hold.
Types ==
    /\ server \in {"up", "exited", "crashed", "aborted"} /\ options \in Options
    /\ connections \in SUBSET Clients
    /\ backlog \in SUBSET Clients /\ connections \cap backlog = {} /\ held \in BOOLEAN
    /\ server # "up" => connections = {}
    /\ held => server # "up"
    /\ server = "up" \/ held \/ backlog = {}
    /\ Sizes
    /\ reqs \in [Clients -> Seq(Requests)]
    /\ out \in Outputs /\ wire \in Outputs /\ part \in Outputs
    /\ subscriptions \in Seq(Subscription)
    /\ st \in [Clients -> {"new", "idle", "busy", "closed", "lost"}]
    /\ cid \in [Clients -> Cids] /\ inuse \in [Clients -> SUBSET Cids]
    /\ asked \in [Clients -> Seq(Cids)]

\* A dropped connection has neither requests nor output, one that was not
\* accepted no output, a client that has not begun nothing at all, and what is
\* put aside is a message that goes on.
Quiet(c) ==
    /\ c \notin connections => out[c] = << >>
    /\ c \notin Attached => reqs[c] = << >>
    /\ st[c] = "new" => /\ c \notin Attached
                        /\ wire[c] = << >> /\ part[c] = << >> /\ asked[c] = << >>
                        /\ inuse[c] = {} /\ cid[c] = 1
    /\ \A i \in DOMAIN part[c] : IsExtended(part[c][i].field)

\* The conversation of a client with the server.
Conversation(c) ==
    Talks(c) /\ c \notin twice =>
       /\ Distinct(asked[c]) /\ Walked(asked[c], cid[c], inuse[c])
       /\ c \in Attached => Open(InTransit(c), reqs[c], asked[c], inuse[c], SubsOf(c))
       /\ c \notin Attached => Cut(InTransit(c), asked[c], inuse[c])

IInv ==
    /\ Types /\ SubscribersConnected
    /\ \A c \in Clients : Quiet(c) /\ Conversation(c)

-----------------------------------------------------------------------------
(* How a command ends, in three ways. *)

\* The connection stays, with the reply; c is in twice' after another one.
Stays(c) ==
    /\ UNCHANGED <<server, held, backlog, connections, options, wire, clientVars>>
    /\ reqs' = [reqs EXCEPT ![c] = Tail(@)]
    /\ Others(c, out, out')
    /\ twice' = twice \cup {c} \/ (twice' = twice /\ OneReply(c, Head(reqs[c]).cid, out, out'))
    /\ Sizes'
    /\ \/ UNCHANGED subscriptions
       \/ /\ Head(reqs[c]).cmd = "SUBS"
          /\ \E ident \in Idents : subscription_insert(c, ident, Head(reqs[c]).cid)

\* The connection is dropped, with its output.
Dropped(c) ==
    /\ UNCHANGED <<server, held, backlog, options, wire, twice, clientVars>>
    /\ connections' = connections \ {c}
    /\ reqs' = [reqs EXCEPT ![c] = << >>]
    /\ Others(c, out, out') /\ out'[c] = << >>
    /\ Sizes'
    /\ subscription_remove_for_client(c)

\* The server ends.
Ended ==
    /\ UNCHANGED <<options, wire, clientVars>>
    /\ \E how \in {"exited", "crashed", "aborted"} : End(how)

(* Fail. *)
LEMMA FailDrops ==
  ASSUME Types, NEW c \in Clients, NEW q \in Requests, NEW o, Told(out, o),
         drop_client_connection(c, o) \/ drop_client_connection(c, send_status_msg(o, c, q)),
         UNCHANGED <<options, wire, cfg, notice, twice, clientVars>>
  PROVE  Dropped(c)
<1>1. out \in Outputs /\ o \in Outputs
  BY DEF Types, Told
<1>2. PICK p : drop_client_connection(c, p) /\ Others(c, out, p)
  <2>1. Others(c, out, o)
    BY <1>1, ToldOthers
  <2>2. CASE drop_client_connection(c, o)
    BY <2>1, <2>2
  <2>3. CASE drop_client_connection(c, send_status_msg(o, c, q))
    <3>1. OneReply(c, q.cid, o, send_status_msg(o, c, q))
      BY <1>1, Replies DEF send_status_msg
    <3>2. Others(c, out, send_status_msg(o, c, q))
      BY <1>1, <2>1, <3>1, ToldOthers DEF OneReply
    <3> QED BY <2>3, <3>2
  <2> QED BY <2>2, <2>3
<1>3. p \in Outputs
  BY <1>2 DEF Others
<1>4. out' = [p EXCEPT ![c] = << >>]
  BY <1>2 DEF drop_client_connection
<1>5. out' \in Outputs /\ out'[c] = << >> /\ \A x \in Clients \ {c} : out'[x] = p[x]
  <2>1. << >> \in Seq(Written)
    BY EmptySeq
  <2> QED BY <1>3, <1>4, <2>1 DEF Outputs
<1>6. Others(c, out, out')
  BY <1>2, <1>5 DEF Others, Notified
<1>7. Sizes'
  BY DEF Types, Sizes, HasGroup
<1> QED BY <1>2, <1>5, <1>6, <1>7 DEF Dropped, drop_client_connection

(* Keep, with one reply. *)
LEMMA KeepKeeps ==
  ASSUME Types, NEW c \in Clients, NEW o, NEW q, q = Head(reqs[c]),
         Keep(c, o), OneReply(c, q.cid, out, o),
         UNCHANGED <<options, wire, twice, clientVars>>, Sizes',
         \/ UNCHANGED subscriptions
         \/ q.cmd = "SUBS" /\ \E ident \in Idents : subscription_insert(c, ident, q.cid)
  PROVE  Stays(c)
BY DEF Stays, Keep, OneReply

(* Keep, with more than one reply. *)
LEMMA KeepTwice ==
  ASSUME Types, NEW c \in Clients, NEW o, Keep(c, o), Others(c, out, o),
         twice' = twice \cup {c}, UNCHANGED <<options, wire, clientVars, subscriptions>>,
         Sizes'
  PROVE  Stays(c)
BY DEF Stays, Keep

(* Refuse and Answer. *)
LEMMA AnswerKeeps ==
  ASSUME Types, NEW c \in Clients, NEW q \in Requests, q = Head(reqs[c]),
         UNCHANGED <<options, wire, clientVars>>,
         NEW o, Told(out, o), NEW len \in Nat \ {0},
         Answer(c, reply(o, c, q, len))
  PROVE  Stays(c)
<1> DEFINE p == reply(o, c, q, len)
<1>1. out \in Outputs /\ o \in Outputs /\ Sizes
  BY DEF Types, Told
<1>2. OneReply(c, q.cid, o, p)
  BY <1>1, Replies
<1>3. OneReply(c, q.cid, out, p)
  BY <1>1, <1>2, ReplyTold DEF Requests
<1>4. Keep(c, p) /\ UNCHANGED <<subscriptions, cfg, notice, twice>>
  BY DEF Answer
<1>5. Sizes'
  BY <1>1, <1>4 DEF Sizes, HasGroup
<1> HIDE DEF p
<1> QED BY <1>1, <1>3, <1>4, <1>5, KeepKeeps

(* What a command replies when it succeeds. *)
LEMMA Successes ==
  ASSUME Types, NEW c \in Clients, NEW q \in Requests, NEW o, Told(out, o),
         NEW d \in DumpOutcomes(o, c, q) \cup Success(o, c, q), d.survives
  PROVE  /\ d.out \in Outputs
         /\ \/ d.twice = {} /\ OneReply(c, q.cid, out, d.out)
            \/ d.twice = {c} /\ Others(c, out, d.out)
<1> DEFINE once == send_status_msg(o, c, q)  more == send_status_msg(once, c, q)
<1>1. out \in Outputs /\ o \in Outputs
  BY DEF Types, Told
<1>2. OneReply(c, q.cid, o, once) /\ once \in Outputs
  <2>1. OneReply(c, q.cid, o, once)
    BY <1>1, Replies DEF send_status_msg
  <2> QED BY <2>1 DEF OneReply, Others
<1>3. OneReply(c, q.cid, out, once)
  BY <1>1, <1>2, ReplyTold DEF Requests
<1>4. OneReply(c, q.cid, once, more)
  BY <1>2, Replies DEF send_status_msg
<1>5. Others(c, out, more) /\ more \in Outputs
  BY <1>1, <1>3, <1>4, ToldOthers, ZenonT(40) DEF OneReply, Others
<1>6. \/ d = [out |-> once, survives |-> TRUE, twice |-> {}]
      \/ d = [out |-> more, survives |-> TRUE, twice |-> {c}]
  <2>1. \A e \in DumpOutcomes(o, c, q) \cup Success(o, c, q) :
           \/ e = [out |-> once, survives |-> TRUE, twice |-> {}]
           \/ e = [out |-> more, survives |-> TRUE, twice |-> {c}]
           \/ ~e.survives
    BY DEF DumpOutcomes, Success
  <2> QED BY <2>1
<1> HIDE DEF once, more
<1>7. CASE d = [out |-> once, survives |-> TRUE, twice |-> {}]
  BY <1>2, <1>3, <1>7
<1>8. CASE d = [out |-> more, survives |-> TRUE, twice |-> {c}]
  BY <1>5, <1>8
<1> QED BY <1>6, <1>7, <1>8

(* A command that succeeds, with notifications after its reply. *)
LEMMA SuccessKeeps ==
  ASSUME Types, NEW c \in Clients, NEW q \in Requests, q = Head(reqs[c]),
         UNCHANGED <<options, wire, clientVars, subscriptions>>, Sizes',
         NEW o, Told(out, o),
         NEW d \in DumpOutcomes(o, c, q) \cup Success(o, c, q), d.survives,
         NEW z, Told(d.out, z), Keep(c, z), twice' = twice \cup d.twice
  PROVE  Stays(c)
<1>1. /\ d.out \in Outputs /\ out \in Outputs
      /\ \/ d.twice = {} /\ OneReply(c, q.cid, out, d.out)
         \/ d.twice = {c} /\ Others(c, out, d.out)
  BY Successes DEF Types
<1>2. CASE d.twice = {} /\ OneReply(c, q.cid, out, d.out)
  <2>1. OneReply(c, q.cid, out, z)
    BY <1>1, <1>2, ReplyTold DEF Requests
  <2>2. twice' = twice
    BY <1>2
  <2> QED BY <2>1, <2>2, KeepKeeps
<1>3. CASE d.twice = {c} /\ Others(c, out, d.out)
  <2>1. Others(c, d.out, z)
    BY <1>1, ToldOthers
  <2>2. Others(c, out, z)
    BY <1>1, <1>3, <2>1, ToldOthers
  <2> QED BY <1>3, <2>2, KeepTwice
<1> QED BY <1>1, <1>2, <1>3

-----------------------------------------------------------------------------
(* The handlers. *)

(* Logging and reporting notify the clients. *)
LEMMA Reports ==
  ASSUME Types, NEW p \in Outputs, NEW o, Told(p, o)
  PROVE  /\ Told(p, slog(o))
         /\ \A len \in NameSizes : Told(p, send_status_update_notification(o, len))
         /\ \A size \in CfgSizes : Told(p, send_group_cfg_update_notification(o, size))
<1>1. subscriptions \in Seq(Subscription) /\ o \in Outputs
  BY DEF Types, Told
<1>2. ASSUME NEW event \in Events, NEW len \in Nat \ {0}
      PROVE  Told(p, send_notification(o, event, len))
  <2>1. Told(o, send_notification(o, event, len))
    BY <1>1, <1>2, Tells
  <2>2. \A z : Told(o, z) => Told(p, z)
    <3> SUFFICES ASSUME NEW z, Told(o, z) PROVE Told(p, z)
      OBVIOUS
    <3>1. z \in Outputs /\ \A x \in Clients : Notified(x, p, o) /\ Notified(x, o, z)
      BY DEF Told
    <3>2. \A x \in Clients : Notified(x, p, z)
      BY <1>1, <3>1, NotifiedMore
    <3> QED BY <3>1, <3>2 DEF Told
  <2> QED BY <2>1, <2>2
<1>3. "log" \in Events /\ "status" \in Events /\ "cfg" \in Events
      /\ 1 \in Nat \ {0} /\ CfgSizes \subseteq Nat \ {0} /\ NameSizes \subseteq Nat \ {0}
  BY ConnectionAssumption DEF Events
<1>4. Told(p, slog(o))
  BY <1>2, <1>3 DEF slog, send_log_notification
<1>5. \A len \in NameSizes : Told(p, send_status_update_notification(o, len))
  BY <1>2, <1>3 DEF send_status_update_notification
<1>6. \A size \in CfgSizes : Told(p, send_group_cfg_update_notification(o, size))
  BY <1>2, <1>3 DEF send_group_cfg_update_notification
<1> QED BY <1>4, <1>5, <1>6

(* Refused, with or without the connection. *)
LEMMA Refusals ==
  ASSUME Types, NEW c \in Clients, NEW q \in Requests, q = Head(reqs[c]),
         UNCHANGED <<options, wire, clientVars>>, Fail(c, q) \/ Refuse(c, q)
  PROVE  Stays(c) \/ Dropped(c)
<1>1. Told(out, out)
  BY ToldNothing DEF Types
<1>2. CASE Fail(c, q)
  BY <1>1, <1>2, FailDrops DEF Fail
<1>3. CASE Refuse(c, q)
  <2>1. Answer(c, reply(out, c, q, 1))
    BY <1>3 DEF Refuse, Answer, send_status_msg
  <2> QED BY <1>1, <2>1, AnswerKeeps
<1> QED BY <1>2, <1>3

(* LIST, HELO, GETC, PIDS, READ, KILL. *)
LEMMA Readers ==
  ASSUME Types, NEW c \in Clients, NEW q \in Requests, q = Head(reqs[c]),
         UNCHANGED <<options, wire, clientVars>>,
         \/ c_list(c, q) \/ c_helo(c, q) \/ c_getc(c, q) \/ c_pids(c, q)
         \/ c_read(c, q) \/ c_kill(c, q)
  PROVE  Stays(c) \/ Dropped(c)
<1>1. out \in Outputs /\ Told(out, out) /\ cfg \in CfgSizes \cup {0}
  BY ToldNothing DEF Types, Sizes
<1>2. Told(out, slog(out))
  BY <1>1, Reports
<1>3. ASSUME ~(Fail(c, q) \/ Refuse(c, q))
      PROVE  \/ \E len \in Nat \ {0} : Answer(c, reply(out, c, q, len))
             \/ Answer(c, reply(slog(out), c, q, 1))
  <2>1. ChunkSiz \in Nat \ {0} /\ ChunkSiz + 1 \in Nat \ {0} /\ 1 \in Nat \ {0}
    BY ChunkSizAssumption
  <2>2. HasGroup => cfg \in Nat \ {0}
    BY <1>1, ConnectionAssumption DEF HasGroup
  <2>3. CASE c_list(c, q)
    BY <2>1, <2>3 DEF c_list
  <2>4. CASE c_helo(c, q)
    BY <2>1, <2>4 DEF c_helo
  <2>5. CASE c_getc(c, q)
    BY <1>3, <2>2, <2>5 DEF c_getc
  <2>6. CASE c_pids(c, q)
    BY <1>3, <2>1, <2>6 DEF c_pids
  <2>7. CASE c_read(c, q)
    BY <1>3, <2>1, <2>7 DEF c_read
  <2>8. CASE c_kill(c, q)
    BY <1>3, <2>8 DEF c_kill
  <2> QED BY <2>3, <2>4, <2>5, <2>6, <2>7, <2>8
<1>4. CASE Fail(c, q) \/ Refuse(c, q)
  BY <1>4, Refusals
<1>5. CASE ~(Fail(c, q) \/ Refuse(c, q))
  <2>1. CASE \E len \in Nat \ {0} : Answer(c, reply(out, c, q, len))
    BY <1>1, <2>1, AnswerKeeps
  <2>2. CASE Answer(c, reply(slog(out), c, q, 1))
    BY <1>2, <2>2, AnswerKeeps
  <2> QED BY <1>3, <1>5, <2>1, <2>2
<1> QED BY <1>4, <1>5

(* SUBS. *)
LEMMA Subscribes ==
  ASSUME Types, NEW c \in Clients, NEW q \in Requests, q = Head(reqs[c]), q.cmd = "SUBS",
         UNCHANGED <<options, wire, clientVars>>, c_subs(c, q)
  PROVE  Stays(c) \/ Dropped(c)
<1>1. out \in Outputs /\ (UNCHANGED <<cfg, notice>> => Sizes')
  BY DEF Types, Sizes, HasGroup
<1>2. CASE Fail(c, q)
  BY <1>2, Refusals
<1>3. CASE ~Fail(c, q)
  <2>1. PICK ident \in Idents : /\ subscription_insert(c, ident, q.cid)
                                /\ Keep(c, send_status_msg(out, c, q))
                                /\ UNCHANGED <<cfg, notice, twice>>
    BY <1>3 DEF c_subs
  <2> DEFINE o == send_status_msg(out, c, q)
  <2>2. OneReply(c, q.cid, out, o)
    BY <1>1, Replies DEF send_status_msg
  <2> HIDE DEF o
  <2>3. Keep(c, o)
    BY <2>1 DEF o
  <2> QED BY <1>1, <2>1, <2>2, <2>3, KeepKeeps
<1> QED BY <1>2, <1>3

(* DUMP and EXIT. *)
LEMMA Dumps ==
  ASSUME Types, NEW c \in Clients, NEW q \in Requests, q = Head(reqs[c]),
         UNCHANGED <<options, wire, clientVars>>, c_dump(c, q) \/ c_exit(c, q)
  PROVE  Stays(c) \/ Dropped(c) \/ Ended
<1>1. out \in Outputs /\ Told(out, out) /\ (UNCHANGED <<cfg, notice>> => Sizes')
  BY ToldNothing DEF Types, Sizes, HasGroup
<1>2. CASE c_dump(c, q)
  <2>1. PICK d \in DumpOutcomes(out, c, q) :
           \/ /\ d.survives /\ Keep(c, d.out) /\ twice' = twice \cup d.twice
              /\ UNCHANGED <<subscriptions, cfg, notice>>
           \/ ~d.survives /\ End("crashed")
    BY <1>2 DEF c_dump
  <2>2. CASE d.survives
    <3>1. Told(d.out, d.out)
      <4>1. d.out \in Outputs
        BY <1>1, <2>2, Successes
      <4> QED BY <4>1, ToldNothing
    <3> QED BY <1>1, <2>1, <2>2, <3>1, SuccessKeeps
  <2>3. CASE ~d.survives
    BY <2>1, <2>3 DEF Ended
  <2> QED BY <2>2, <2>3
<1>3. CASE c_exit(c, q)
  <2>1. CASE Refuse(c, q)
    BY <2>1, Refusals
  <2>2. CASE ~Refuse(c, q)
    <3>1. \E d \in Success(out, c, q) : End(IF d.survives THEN "exited" ELSE "crashed")
      BY <1>3, <2>2 DEF c_exit
    <3>2. \E how \in {"exited", "crashed"} : End(how)
      BY <3>1
    <3> QED BY <3>2 DEF Ended
  <2> QED BY <2>1, <2>2
<1> QED BY <1>2, <1>3

(* SPWN. *)
LEMMA Spawns ==
  ASSUME Types, NEW c \in Clients, NEW q \in Requests, q = Head(reqs[c]),
         UNCHANGED <<options, wire, clientVars>>, c_spwn(c, q)
  PROVE  Stays(c) \/ Dropped(c) \/ Ended
<1>1. out \in Outputs /\ Told(out, out)
  BY ToldNothing DEF Types
<1>2. CASE Fail(c, q) \/ Refuse(c, q)
  BY <1>2, Refusals
<1>3. CASE ~(Fail(c, q) \/ Refuse(c, q))
  <2>1. PICK d \in Success(out, c, q), size \in CfgSizes, len \in NameSizes :
             \/ /\ d.survives /\ Group(size, len) /\ ~Asserts(len)
                /\ LET created == send_status_update_notification(slog(d.out), len)
                       status  == send_status_update_notification(created, len)
                   IN  \E o \in {status, slog(status)} : Keep(c, o)
                /\ cfg' = size /\ notice' = len
                /\ twice' = twice \cup d.twice
                /\ UNCHANGED subscriptions
             \/ d.survives /\ Asserts(len) /\ End("aborted")
             \/ ~d.survives /\ End("crashed")
    BY <1>3 DEF c_spwn
  <2>2. CASE d.survives /\ ~Asserts(len)
    <3> DEFINE created == send_status_update_notification(slog(d.out), len)
               status  == send_status_update_notification(created, len)
    <3>1. d.out \in Outputs /\ Told(d.out, d.out)
      <4>1. d.out \in Outputs
        BY <1>1, <2>2, Successes
      <4> QED BY <4>1, ToldNothing
    <3>2. Told(d.out, slog(d.out))
      BY <3>1, Reports
    <3>3. Told(d.out, created)
      BY <3>1, <3>2, Reports
    <3> HIDE DEF created
    <3>4. Told(d.out, status)
      BY <3>1, <3>3, Reports
    <3> HIDE DEF status
    <3>5. Told(d.out, slog(status))
      BY <3>1, <3>4, Reports
    <3>6. PICK z \in {status, slog(status)} : Keep(c, z)
      BY <2>1, <2>2 DEF status, created
    <3>7. Told(d.out, z)
      BY <3>4, <3>5, <3>6
    <3>8. cfg' = size /\ notice' = len /\ twice' = twice \cup d.twice /\ UNCHANGED subscriptions
      BY <2>1, <2>2
    <3>9. Sizes'
      BY <3>8 DEF Sizes
    <3> QED BY <1>1, <2>2, <3>6, <3>7, <3>8, <3>9, SuccessKeeps
  <2>3. CASE ~(d.survives /\ ~Asserts(len))
    BY <2>1, <2>3 DEF Ended
  <2> QED BY <2>2, <2>3
<1> QED BY <1>2, <1>3

(* UPDT. *)
LEMMA Updates ==
  ASSUME Types, NEW c \in Clients, NEW q \in Requests, q = Head(reqs[c]),
         UNCHANGED <<options, wire, clientVars>>, c_updt(c, q)
  PROVE  Stays(c) \/ Dropped(c) \/ Ended
<1>1. out \in Outputs /\ Told(out, out) /\ Sizes
  BY ToldNothing DEF Types
<1> DEFINE logged == slog(out)
           status == send_status_update_notification(logged, notice)
<1>2. Told(out, logged)
  BY <1>1, Reports
<1> HIDE DEF logged
<1>3. HasGroup => Told(out, status)
  BY <1>1, <1>2, Reports DEF Sizes
<1> HIDE DEF status
<1>4. HasGroup => Told(out, slog(status))
  BY <1>1, <1>3, Reports
<1>5. CASE Fail(c, q) \/ Refuse(c, q)
  BY <1>5, Refusals
<1>6. CASE drop_client_connection(c, send_status_msg(slog(out), c, q)) /\ UNCHANGED <<cfg, notice, twice>>
  BY <1>2, <1>6, FailDrops DEF logged
<1>7. CASE /\ ~(Fail(c, q) \/ Refuse(c, q))
           /\ ~(drop_client_connection(c, send_status_msg(slog(out), c, q)) /\ UNCHANGED <<cfg, notice, twice>>)
  <2>0. HasGroup
    BY <1>7 DEF c_updt
  <2>1. PICK size \in CfgSizes, changed \in BOOLEAN :
             \E told \in {logged, status, slog(status)} :
             \E o \in IF changed
                      THEN {send_group_cfg_update_notification(told, size)}
                      ELSE {out} :
             \E d \in Success(o, c, q) :
                \/ /\ d.survives /\ ~(changed /\ Asserts(size))
                   /\ Keep(c, d.out)
                   /\ cfg' = IF changed THEN size ELSE cfg
                   /\ twice' = twice \cup d.twice
                   /\ UNCHANGED <<subscriptions, notice>>
                \/ changed /\ Asserts(size) /\ End("aborted")
                \/ ~d.survives /\ ~(changed /\ Asserts(size)) /\ End("crashed")
    BY <1>7 DEF c_updt, logged, status
  <2>2. PICK told \in {logged, status, slog(status)} :
             \E o \in IF changed
                      THEN {send_group_cfg_update_notification(told, size)}
                      ELSE {out} :
             \E d \in Success(o, c, q) :
                \/ /\ d.survives /\ ~(changed /\ Asserts(size))
                   /\ Keep(c, d.out)
                   /\ cfg' = IF changed THEN size ELSE cfg
                   /\ twice' = twice \cup d.twice
                   /\ UNCHANGED <<subscriptions, notice>>
                \/ changed /\ Asserts(size) /\ End("aborted")
                \/ ~d.survives /\ ~(changed /\ Asserts(size)) /\ End("crashed")
    BY <2>1
  <2>3. PICK o \in IF changed
                   THEN {send_group_cfg_update_notification(told, size)}
                   ELSE {out} :
             \E d \in Success(o, c, q) :
                \/ /\ d.survives /\ ~(changed /\ Asserts(size))
                   /\ Keep(c, d.out)
                   /\ cfg' = IF changed THEN size ELSE cfg
                   /\ twice' = twice \cup d.twice
                   /\ UNCHANGED <<subscriptions, notice>>
                \/ changed /\ Asserts(size) /\ End("aborted")
                \/ ~d.survives /\ ~(changed /\ Asserts(size)) /\ End("crashed")
    BY <2>2
  <2>4. PICK d \in Success(o, c, q) :
                \/ /\ d.survives /\ ~(changed /\ Asserts(size))
                   /\ Keep(c, d.out)
                   /\ cfg' = IF changed THEN size ELSE cfg
                   /\ twice' = twice \cup d.twice
                   /\ UNCHANGED <<subscriptions, notice>>
                \/ changed /\ Asserts(size) /\ End("aborted")
                \/ ~d.survives /\ ~(changed /\ Asserts(size)) /\ End("crashed")
    BY <2>3
  <2>5. Told(out, told)
    BY <1>2, <1>3, <1>4, <2>0, <2>2
  <2>6. Told(out, o)
    <3>1. Told(out, send_group_cfg_update_notification(told, size))
      BY <1>1, <2>5, Reports
    <3> QED BY <1>1, <2>3, <3>1
  <2>7. CASE \E how \in {"aborted", "crashed"} : End(how)
    BY <2>7 DEF Ended
  <2>8. CASE ~\E how \in {"aborted", "crashed"} : End(how)
    <3>1. /\ d.survives
          /\ Keep(c, d.out)
          /\ cfg' = IF changed THEN size ELSE cfg
          /\ twice' = twice \cup d.twice
          /\ UNCHANGED <<subscriptions, notice>>
      BY <2>4, <2>8
    <3>2. Told(d.out, d.out)
      <4>1. d.out \in Outputs
        BY <2>6, <3>1, Successes
      <4> QED BY <4>1, ToldNothing
    <3>3. Sizes'
      BY <1>1, <2>0, <3>1 DEF Sizes
    <3> QED BY <2>6, <3>1, <3>2, <3>3, SuccessKeeps
  <2> QED BY <2>7, <2>8
<1> QED BY <1>5, <1>6, <1>7

(* DELE. *)
LEMMA Deletes ==
  ASSUME Types, NEW c \in Clients, NEW q \in Requests, q = Head(reqs[c]),
         UNCHANGED <<options, wire, clientVars>>, c_dele(c, q)
  PROVE  Stays(c) \/ Dropped(c) \/ Ended
<1>1. out \in Outputs /\ Told(out, out) /\ Sizes
  BY ToldNothing DEF Types
<1>2. CASE Fail(c, q) \/ Refuse(c, q)
  BY <1>2, Refusals
<1>3. CASE End("aborted")
  BY <1>3 DEF Ended
<1>4. CASE ~(Fail(c, q) \/ Refuse(c, q) \/ End("aborted"))
  <2> DEFINE p == send_status_update_notification(slog(out), notice)
             o == reply(p, c, q, 1)
  <2>1. Told(out, slog(out))
    BY <1>1, Reports
  <2>2. HasGroup
    BY <1>4 DEF c_dele
  <2>3. Told(out, p)
    BY <1>1, <2>1, <2>2, Reports DEF Sizes
  <2>4. Keep(c, o) /\ cfg' = 0 /\ notice' = 0 /\ UNCHANGED <<subscriptions, twice>>
    BY <1>4 DEF c_dele
  <2>5. Sizes'
    BY <2>4 DEF Sizes, HasGroup
  <2> HIDE DEF p
  <2>6. p \in Outputs
    BY <2>3 DEF Told
  <2>7. OneReply(c, q.cid, p, o)
    BY <2>6, Replies
  <2> HIDE DEF o
  <2>8. OneReply(c, q.cid, out, o)
    BY <1>1, <2>3, <2>7, ReplyTold DEF Requests
  <2> QED BY <2>4, <2>5, <2>8, KeepKeeps
<1> QED BY <1>2, <1>3, <1>4

(* Every command ends in one of the three ways. *)
LEMMA ServeOutcomes ==
  ASSUME Types, NEW c \in Clients, Serve(c)
  PROVE  /\ c \in connections /\ reqs[c] # << >>
         /\ Stays(c) \/ Dropped(c) \/ Ended
<1> DEFINE q == Head(reqs[c])
<1>1. /\ c \in connections /\ reqs[c] # << >> /\ Handler(c, q)
      /\ UNCHANGED <<options, wire, clientVars>>
  BY DEF Serve, run_server_command
<1>2. q \in Requests
  BY <1>1, FirstRequest DEF Types
<1>3. CASE q.cmd = "????" /\ drop_client_connection(c, out) /\ UNCHANGED <<cfg, notice, twice>>
  <2>1. Told(out, out)
    BY ToldNothing DEF Types
  <2> QED BY <1>1, <1>2, <1>3, <2>1, FailDrops
<1>4. CASE \/ c_list(c, q) \/ c_helo(c, q) \/ c_getc(c, q) \/ c_pids(c, q)
           \/ c_read(c, q) \/ c_kill(c, q)
  BY <1>1, <1>2, <1>4, Readers
<1>5. CASE c_dump(c, q) \/ c_exit(c, q)
  BY <1>1, <1>2, <1>5, Dumps
<1>6. CASE q.cmd = "SUBS" /\ c_subs(c, q)
  BY <1>1, <1>2, <1>6, Subscribes
<1>7. CASE c_spwn(c, q)
  BY <1>1, <1>2, <1>7, Spawns
<1>8. CASE c_updt(c, q)
  BY <1>1, <1>2, <1>8, Updates
<1>9. CASE c_dele(c, q)
  BY <1>1, <1>2, <1>9, Deletes
<1> QED BY <1>1, <1>3, <1>4, <1>5, <1>6, <1>7, <1>8, <1>9 DEF Handler

-----------------------------------------------------------------------------
(* Subscriptions come and go. *)

(* subscription_insert. *)
LEMMA Inserted ==
  ASSUME subscriptions \in Seq(Subscription), NEW c \in Clients, NEW ident \in Idents, NEW k \in Cids,
         subscription_insert(c, ident, k)
  PROVE  /\ subscriptions' \in Seq(Subscription)
         /\ \A i \in DOMAIN subscriptions' :
               \/ subscriptions'[i].con = c
               \/ \E j \in DOMAIN subscriptions : subscriptions'[i] = subscriptions[j]
         /\ SubsOf(c)' \subseteq SubsOf(c) \cup {k}
         /\ \A x \in Clients \ {c} : SubsOf(x)' \subseteq SubsOf(x)
<1> DEFINE s == [con |-> c, ident |-> ident, cid |-> k]  z == <<s>> \o subscriptions
<1>1. <<s>> \in Seq(Subscription) /\ Len(<<s>>) = 1 /\ <<s>>[1] = s
  BY DEF Subscription
<1>2. subscriptions' = z
  BY DEF subscription_insert
<1>3. /\ z \in Seq(Subscription)
      /\ DOMAIN z = 1 .. 1 + Len(subscriptions) /\ Len(subscriptions) \in Nat
      /\ DOMAIN subscriptions = 1 .. Len(subscriptions)
      /\ \A i \in 1 .. Len(subscriptions) : z[1 + i] = subscriptions[i]
      /\ z[1] = s
  BY <1>1, ConcatElements
<1>4. s.con = c /\ s.cid = k
  OBVIOUS
<1> HIDE DEF z, s
<1>5. ASSUME NEW i \in DOMAIN z
      PROVE  z[i] = s \/ \E j \in DOMAIN subscriptions : z[i] = subscriptions[j]
  <2>1. CASE i = 1
    BY <1>3, <2>1
  <2>2. CASE i # 1
    <3> DEFINE j == i - 1
    <3>1. j \in 1 .. Len(subscriptions) /\ i = 1 + j
      BY <1>3, <2>2
    <3>2. z[i] = subscriptions[j]
      BY <1>3, <3>1
    <3> QED BY <1>3, <3>1, <3>2
  <2> QED BY <2>1, <2>2
<1>6. SubsOf(c)' \subseteq SubsOf(c) \cup {k}
  BY <1>2, <1>4, <1>5 DEF SubsOf
<1>7. \A x \in Clients \ {c} : SubsOf(x)' \subseteq SubsOf(x)
  BY <1>2, <1>4, <1>5 DEF SubsOf
<1> QED BY <1>2, <1>3, <1>4, <1>5, <1>6, <1>7

(* subscription_remove_for_client. *)
LEMMA Removed ==
  ASSUME subscriptions \in Seq(Subscription), NEW c \in Clients, subscription_remove_for_client(c)
  PROVE  /\ subscriptions' \in Seq(Subscription)
         /\ \A i \in DOMAIN subscriptions' :
               /\ subscriptions'[i].con # c
               /\ \E j \in DOMAIN subscriptions : subscriptions'[i] = subscriptions[j]
         /\ \A x \in Clients : SubsOf(x)' \subseteq SubsOf(x)
<1> DEFINE T == Subscriptions(Clients \ {c}, Idents)  z == Filter(subscriptions, T)
<1>1. subscriptions' = z
  BY DEF subscription_remove_for_client
<1> DEFINE U == Subscription \cap T
<1>2. \A s \in U : s \in Subscription /\ s.con # c
  BY DEF Subscriptions
<1>3. z \in Seq(U)
  <2> HIDE DEF T
  <2> QED BY FilterType
<1>4. \A i \in DOMAIN z : \E j \in DOMAIN subscriptions : z[i] = subscriptions[j]
  <2> HIDE DEF T
  <2> QED BY FilterSource
<1> HIDE DEF z, T, U
<1>5. z \in Seq(Subscription)
  BY <1>2, <1>3, SeqMonotonic
<1>6. \A i \in DOMAIN z : z[i].con # c
  <2>1. \A i \in DOMAIN z : z[i] \in U
    BY <1>3, ElementOfSeq, LenProperties
  <2> QED BY <1>2, <2>1
<1>7. \A x \in Clients : SubsOf(x)' \subseteq SubsOf(x)
  BY <1>1, <1>4 DEF SubsOf
<1> QED BY <1>1, <1>4, <1>5, <1>6, <1>7

-----------------------------------------------------------------------------
(* A step as another client sees it: it may be notified. *)
Frame(x) ==
    /\ Notified(x, out, out')
    /\ reqs'[x] = reqs[x] /\ wire'[x] = wire[x] /\ part'[x] = part[x]
    /\ st'[x] = st[x] /\ cid'[x] = cid[x] /\ inuse'[x] = inuse[x] /\ asked'[x] = asked[x]
    /\ x \in connections' <=> x \in connections
    /\ x \in Attached' <=> x \in Attached
    /\ x \in twice' <=> x \in twice
    /\ SubsOf(x)' \subseteq SubsOf(x)

(* A client that is not connected is not notified. *)
LEMMA NobodyThere ==
  ASSUME Types, SubscribersConnected, NEW x \in Clients, x \notin connections,
         NEW o, Notified(x, out, o)
  PROVE  o[x] = out[x]
<1>1. SubsOf(x) = {}
  BY DEF SubsOf, SubscribersConnected
<1>2. PICK n \in Seq(Notes(SubsOf(x))) : o[x] = out[x] \o n
  BY DEF Notified
<1>3. Notes(SubsOf(x)) = {}
  BY <1>1 DEF Notes
<1>4. n = << >>
  <2>1. ASSUME n # << >> PROVE FALSE
    <3>1. n[1] \in Notes(SubsOf(x))
      BY <2>1, EmptySeq, ElementOfSeq
    <3> QED BY <1>3, <3>1
  <2> QED BY <2>1
<1>5. out[x] \in Seq(Written)
  BY DEF Types, Outputs
<1> QED BY <1>2, <1>4, <1>5, ConcatEmptySeq

(* What a client has yet to read, in parts. *)
LEMMA Transit ==
  ASSUME Types, NEW x \in Clients
  PROVE  /\ part[x] \in Seq(Written) /\ wire[x] \in Seq(Written) /\ out[x] \in Seq(Written)
         /\ part[x] \o wire[x] \in Seq(Written)
         /\ InTransit(x) = (part[x] \o wire[x]) \o out[x] /\ InTransit(x) \in Seq(Written)
<1>1. part[x] \in Seq(Written) /\ wire[x] \in Seq(Written) /\ out[x] \in Seq(Written)
  BY DEF Types, Outputs
<1>2. part[x] \o wire[x] \in Seq(Written)
  BY <1>1, ConcatProperties
<1>3. (part[x] \o wire[x]) \o out[x] \in Seq(Written)
  BY <1>1, <1>2, ConcatProperties
<1> QED BY <1>1, <1>2, <1>3 DEF InTransit

(* Such a step changes nothing for the conversation. *)
LEMMA Framed ==
  ASSUME IInv, Types', NEW x \in Clients, Frame(x)
  PROVE  Quiet(x)' /\ Conversation(x)'
<1> DEFINE P == part[x] \o wire[x]  S == SubsOf(x)
<1>1. Types /\ SubscribersConnected /\ Quiet(x) /\ Conversation(x)
  BY DEF IInv
<1>2. /\ P \in Seq(Written) /\ out[x] \in Seq(Written)
      /\ InTransit(x) = P \o out[x] /\ InTransit(x) \in Seq(Written)
  BY <1>1, Transit
<1>3. /\ reqs'[x] = reqs[x] /\ wire'[x] = wire[x] /\ part'[x] = part[x]
      /\ st'[x] = st[x] /\ cid'[x] = cid[x] /\ inuse'[x] = inuse[x] /\ asked'[x] = asked[x]
  BY DEF Frame
<1>4. InTransit(x)' = P \o out'[x]
  BY <1>3 DEF InTransit
<1> HIDE DEF P
<1>5. /\ x \in connections' <=> x \in connections
      /\ x \in Attached' <=> x \in Attached
      /\ x \in twice' <=> x \in twice
  BY DEF Frame
<1>6. x \notin connections => out'[x] = out[x]
  BY <1>1, NobodyThere DEF Frame
<1>7. Quiet(x)'
  BY <1>1, <1>3, <1>5, <1>6 DEF Quiet
<1>8. ASSUME Talks(x)', x \notin twice' PROVE
             /\ Distinct(asked'[x]) /\ Walked(asked'[x], cid'[x], inuse'[x])
             /\ x \in Attached' => Open(InTransit(x)', reqs'[x], asked'[x], inuse'[x], SubsOf(x)')
             /\ x \notin Attached' => Cut(InTransit(x)', asked'[x], inuse'[x])
  <2>1. Talks(x) /\ x \notin twice
    BY <1>3, <1>5, <1>8 DEF Talks
  <2>2. /\ Distinct(asked[x]) /\ Walked(asked[x], cid[x], inuse[x])
        /\ x \in Attached => Open(InTransit(x), reqs[x], asked[x], inuse[x], S)
        /\ x \notin Attached => Cut(InTransit(x), asked[x], inuse[x])
    BY <1>1, <2>1 DEF Conversation
  <2>3. CASE x \in Attached
    <3>1. PICK n \in Seq(Notes(S)) : out'[x] = out[x] \o n
      BY DEF Frame, Notified
    <3>2. reqs[x] \in Seq(Requests)
      BY <1>1 DEF Types
    <3>3. Open(InTransit(x) \o n, reqs[x], asked[x], inuse[x], S)
      BY <1>2, <2>2, <2>3, <3>2, OpenNotes
    <3>4. InTransit(x)' = InTransit(x) \o n
      <4>1. n \in Seq(Written)
        BY NotesWritten
      <4> DEFINE o == out[x]
      <4>2. P \in Seq(Written) /\ o \in Seq(Written)
        BY <1>2
      <4> HIDE DEF o
      <4>3. (P \o o) \o n = P \o (o \o n)
        BY ONLY <4>1, <4>2, WrittenConcat, SMTT(20)
      <4> QED BY <1>2, <1>4, <3>1, <4>3 DEF o
    <3>5. SubsOf(x)' \subseteq S
      BY DEF Frame
    <3> HIDE DEF S
    <3>6. Open(InTransit(x)', reqs[x], asked[x], inuse[x], SubsOf(x)')
      BY <3>3, <3>4, <3>5 DEF Open
    <3> QED BY <1>3, <1>5, <2>2, <2>3, <3>6
  <2>4. CASE x \notin Attached
    <3>1. InTransit(x)' = InTransit(x)
      BY <1>2, <1>4, <1>6, <2>4 DEF Attached
    <3> QED BY <1>3, <1>5, <2>2, <2>4, <3>1
  <2> QED BY <2>3, <2>4
<1>9. Conversation(x)'
  BY <1>8 DEF Conversation
<1> QED BY <1>7, <1>9

-----------------------------------------------------------------------------
(* Steps of the server. *)

(* Output is appended to what the client has yet to read. *)
LEMMA AppendOutput ==
  ASSUME NEW p, NEW o, NEW n, NEW z, NEW q,
         p \in Seq(Written), o \in Seq(Written), n \in Seq(Written), z = o \o n, q = p \o o
  PROVE  z \in Seq(Written) /\ p \o z = q \o n
BY WrittenConcat, SMTT(20)

(* The connection stays. *)
LEMMA StaysIInv ==
  ASSUME IInv, NEW c \in Clients, c \in connections, reqs[c] # << >>, Stays(c)
  PROVE  IInv'
<1> DEFINE q == Head(reqs[c])  k == q.cid
<1>1. Types /\ SubscribersConnected /\ Quiet(c) /\ Conversation(c)
  BY DEF IInv
<1>2. /\ UNCHANGED <<server, held, backlog, connections, options, wire, clientVars>>
      /\ reqs' = [reqs EXCEPT ![c] = Tail(@)]
      /\ Others(c, out, out')
      /\ twice' = twice \cup {c} \/ (twice' = twice /\ OneReply(c, k, out, out'))
      /\ Sizes'
  BY DEF Stays
<1>3. /\ reqs \in [Clients -> Seq(Requests)] /\ reqs[c] \in Seq(Requests)
      /\ q \in Requests /\ k \in Cids /\ Tail(reqs[c]) \in Seq(Requests)
  <2>1. reqs \in [Clients -> Seq(Requests)] /\ reqs[c] \in Seq(Requests)
    BY <1>1 DEF Types
  <2> QED BY <2>1, FirstRequest
<1> HIDE DEF q, k
<1>4. /\ subscriptions' \in Seq(Subscription)
      /\ \A i \in DOMAIN subscriptions' :
            \/ subscriptions'[i].con = c
            \/ \E j \in DOMAIN subscriptions : subscriptions'[i] = subscriptions[j]
      /\ \A x \in Clients \ {c} : SubsOf(x)' \subseteq SubsOf(x)
      /\ \/ SubsOf(c)' \subseteq SubsOf(c)
         \/ q.cmd = "SUBS" /\ SubsOf(c)' \subseteq SubsOf(c) \cup {k}
  <2>1. subscriptions \in Seq(Subscription)
    BY <1>1 DEF Types
  <2>2. CASE subscriptions' = subscriptions
    BY <2>1, <2>2 DEF SubsOf
  <2>3. CASE /\ q.cmd = "SUBS"
             /\ \E ident \in Idents : subscription_insert(c, ident, k)
    BY <1>3, <2>1, <2>3, Inserted
  <2> QED BY <2>2, <2>3 DEF Stays, q, k
<1>5. reqs' \in [Clients -> Seq(Requests)] /\ reqs'[c] = Tail(reqs[c])
      /\ \A x \in Clients \ {c} : reqs'[x] = reqs[x]
  BY <1>2, <1>3
<1>6. Types'
  BY <1>1, <1>2, <1>4, <1>5 DEF Types, Others, clientVars
<1>7. SubscribersConnected'
  BY <1>1, <1>2, <1>4 DEF SubscribersConnected
<1>8. ASSUME NEW x \in Clients \ {c} PROVE Quiet(x)' /\ Conversation(x)'
  <2>1. Frame(x)
    BY <1>2, <1>4, <1>5 DEF Frame, Others, Attached, clientVars
  <2> QED BY <1>6, <2>1, Framed
<1>9. Quiet(c)'
  BY <1>1, <1>2 DEF Quiet, Attached, clientVars
<1>10. Conversation(c)'
  <2> SUFFICES ASSUME Talks(c)', c \notin twice'
               PROVE  /\ Distinct(asked'[c]) /\ Walked(asked'[c], cid'[c], inuse'[c])
                      /\ Open(InTransit(c)', reqs'[c], asked'[c], inuse'[c], SubsOf(c)')
    BY <1>2 DEF Conversation, Attached
  <2>1. Talks(c) /\ c \notin twice /\ OneReply(c, k, out, out')
    BY <1>2 DEF Talks, clientVars
  <2> DEFINE P == part[c] \o wire[c]  a == asked[c]  u == inuse[c]  S == SubsOf(c)  o == out[c]
             t == Tail(reqs[c])  N == Notes(S)
  <2>2. Distinct(a) /\ Walked(a, cid[c], u) /\ Open(InTransit(c), reqs[c], a, u, S)
    BY <1>1, <2>1 DEF Conversation, Attached
  <2>3. /\ P \in Seq(Written) /\ o \in Seq(Written)
        /\ InTransit(c) = P \o o /\ InTransit(c) \in Seq(Written)
    BY <1>1, Transit
  <2>4. InTransit(c)' = P \o out'[c]
    BY <1>2 DEF InTransit, clientVars
  <2>5. PICK n1 \in Seq(N), n2 \in Seq(N), m \in Answers(k) : out'[c] = ((o \o n1) \o m) \o n2
    BY <2>1 DEF OneReply
  <2> HIDE DEF P, a, u, o, N, S, t
  <2>6. n1 \in Seq(Written) /\ n2 \in Seq(Written) /\ m \in Seq(Written)
    BY <1>3, NotesWritten DEF N
  <2> DEFINE q1 == (P \o o) \o n1  q2 == q1 \o m  q3 == q2 \o n2
  <2>7. q1 \in Seq(Written) /\ Open(q1, reqs[c], a, u, S)
    BY <1>3, <2>2, <2>3, OpenNotes DEF N
  <2> HIDE DEF q1
  <2>8. /\ q2 \in Seq(Written) /\ Open(q2, t, a, u, S)
        /\ \A i \in DOMAIN t : t[i].cid # k
        /\ q.cmd = "SUBS" => k \in u
    BY <1>3, <2>7, OpenReply DEF q, k, t
  <2> HIDE DEF q2
  <2>9. Open(q3, t, a, u, S)
    BY <1>3, <2>8, OpenNotes DEF N, t
  <2>10. InTransit(c)' = q3
    <3> DEFINE o1 == o \o n1  o2 == o1 \o m  o3 == o2 \o n2
    <3>1. o1 \in Seq(Written) /\ P \o o1 = q1
      BY <2>3, <2>6, AppendOutput, SMTT(20) DEF q1
    <3> HIDE DEF o1
    <3>2. o2 \in Seq(Written) /\ P \o o2 = q2
      <4>1. P \in Seq(Written) /\ o1 \in Seq(Written) /\ m \in Seq(Written) /\ q1 = P \o o1
        BY <2>3, <2>6, <3>1
      <4> QED BY ONLY <4>1, AppendOutput, SMTT(20) DEF o2, q2
    <3> HIDE DEF o2
    <3>3. P \o o3 = q3
      <4>1. P \in Seq(Written) /\ o2 \in Seq(Written) /\ n2 \in Seq(Written) /\ q2 = P \o o2
        BY <2>3, <2>6, <3>2
      <4> QED BY ONLY <4>1, AppendOutput, SMTT(20) DEF o3, q3
    <3>4. out'[c] = o3
      BY <2>5 DEF o1, o2
    <3> QED BY <2>4, <3>3, <3>4
  <2> HIDE DEF q3
  <2>11. Open(q3, t, a, u, SubsOf(c)')
    <3>1. CASE SubsOf(c)' \subseteq S
      BY <2>9, <3>1 DEF Open
    <3>2. CASE q.cmd = "SUBS" /\ SubsOf(c)' \subseteq S \cup {k}
      <4>1. Open(q3, t, a, u, S \cup {k})
        BY <2>8, <2>9, <3>2, OpenSubscribed
      <4> QED BY <3>2, <4>1 DEF Open
    <3> QED BY <1>4, <3>1, <3>2 DEF S
  <2>12. asked'[c] = a /\ cid'[c] = cid[c] /\ inuse'[c] = u /\ reqs'[c] = t
    BY <1>2, <1>5 DEF clientVars, a, u, t
  <2> QED BY <2>2, <2>10, <2>11, <2>12
<1> QED BY <1>6, <1>7, <1>8, <1>9, <1>10 DEF IInv

(* A client that was connected gets what is in its socket. *)
LEMMA DroppedConversation ==
  ASSUME IInv, NEW x \in Clients, x \notin Attached', out'[x] = << >>, UNCHANGED <<wire, clientVars>>,
         x \in twice' <=> x \in twice
  PROVE  Conversation(x)'
<1>1. Types /\ Quiet(x) /\ Conversation(x)
  BY DEF IInv
<1> SUFFICES ASSUME Talks(x)', x \notin twice'
             PROVE  /\ Distinct(asked'[x]) /\ Walked(asked'[x], cid'[x], inuse'[x])
                    /\ Cut(InTransit(x)', asked'[x], inuse'[x])
  BY DEF Conversation
<1>2. asked'[x] = asked[x] /\ cid'[x] = cid[x] /\ inuse'[x] = inuse[x]
  BY DEF clientVars
<1>3. /\ Distinct(asked[x]) /\ Walked(asked[x], cid[x], inuse[x])
      /\ x \in Attached => Open(InTransit(x), reqs[x], asked[x], inuse[x], SubsOf(x))
      /\ x \notin Attached => Cut(InTransit(x), asked[x], inuse[x])
  BY <1>1 DEF Conversation, Talks, clientVars
<1> DEFINE P == part[x] \o wire[x]
<1>4. /\ P \in Seq(Written) /\ out[x] \in Seq(Written)
      /\ InTransit(x) = P \o out[x]
  BY <1>1, Transit
<1>5. InTransit(x)' = P
  <2>1. InTransit(x)' = P \o << >>
    BY DEF InTransit, clientVars
  <2> QED BY <1>4, <2>1, ConcatEmptySeq
<1>6. CASE x \in Attached
  <2>1. reqs[x] \in Seq(Requests)
    BY <1>1 DEF Types
  <2> HIDE DEF P
  <2>2. Cut(P, asked[x], inuse[x])
    BY <1>3, <1>4, <1>6, <2>1, OpenDropped
  <2> QED BY <1>2, <1>3, <1>5, <2>2
<1>7. CASE x \notin Attached
  <2>1. out[x] = << >>
    BY <1>1, <1>7 DEF Quiet, Attached
  <2>2. InTransit(x) = P
    BY <1>4, <2>1, ConcatEmptySeq
  <2> QED BY <1>2, <1>3, <1>5, <1>7, <2>2
<1> QED BY <1>6, <1>7

(* The connection is dropped. *)
LEMMA DroppedIInv ==
  ASSUME IInv, NEW c \in connections, Dropped(c)
  PROVE  IInv'
<1>0. c \in Clients
  BY DEF IInv, Types
<1>1. Types /\ SubscribersConnected /\ Quiet(c) /\ Conversation(c)
  BY <1>0 DEF IInv
<1>2. /\ UNCHANGED <<server, held, backlog, options, wire, twice, clientVars>>
      /\ connections' = connections \ {c}
      /\ reqs' = [reqs EXCEPT ![c] = << >>]
      /\ Others(c, out, out') /\ out'[c] = << >>
      /\ Sizes'
      /\ subscription_remove_for_client(c)
  BY DEF Dropped
<1>3. /\ subscriptions' \in Seq(Subscription)
      /\ \A i \in DOMAIN subscriptions' :
            /\ subscriptions'[i].con # c
            /\ \E j \in DOMAIN subscriptions : subscriptions'[i] = subscriptions[j]
      /\ \A x \in Clients : SubsOf(x)' \subseteq SubsOf(x)
  BY <1>0, <1>1, <1>2, Removed DEF Types
<1>4. reqs' \in [Clients -> Seq(Requests)] /\ reqs'[c] = << >>
      /\ \A x \in Clients \ {c} : reqs'[x] = reqs[x]
  <2>1. << >> \in Seq(Requests)
    BY EmptySeq
  <2> QED BY <1>1, <1>2, <2>1 DEF Types
<1>5. Types'
  BY <1>1, <1>2, <1>3, <1>4 DEF Types, Others, clientVars
<1>6. SubscribersConnected'
  BY <1>1, <1>2, <1>3 DEF SubscribersConnected
<1>7. ASSUME NEW x \in Clients \ {c} PROVE Quiet(x)' /\ Conversation(x)'
  <2>1. Frame(x)
    BY <1>2, <1>3, <1>4 DEF Frame, Others, Attached, clientVars
  <2> QED BY <1>5, <2>1, Framed
<1>8. c \notin Attached'
  BY <1>1, <1>2 DEF Types, Attached
<1>9. Quiet(c)'
  BY <1>0, <1>1, <1>2, <1>4, <1>8 DEF Quiet, clientVars
<1>10. Conversation(c)'
  BY <1>0, <1>2, <1>8, DroppedConversation
<1> QED BY <1>5, <1>6, <1>7, <1>9, <1>10 DEF IInv

(* The others see nothing of a step that leaves their output. *)
LEMMA Unnoticed ==
  ASSUME Types, NEW x \in Clients, out'[x] = out[x]
  PROVE  Notified(x, out, out')
<1>1. out[x] \o << >> = out[x] /\ << >> \in Seq(Notes(SubsOf(x)))
  BY EmptySeq, ConcatEmptySeq DEF Types, Outputs
<1> QED BY <1>1 DEF Notified

(* The server ends. *)
LEMMA EndedIInv ==
  ASSUME IInv, Ended
  PROVE  IInv'
<1>1. Types
  BY DEF IInv
<1>2. /\ UNCHANGED <<options, wire, twice, clientVars>>
      /\ server' \in {"exited", "crashed", "aborted"}
      /\ held' \in BOOLEAN /\ backlog' = IF held' THEN backlog ELSE {}
      /\ connections' = {} /\ subscriptions' = << >> /\ cfg' = 0 /\ notice' = 0
      /\ reqs' = [x \in Clients |-> IF x \in backlog' THEN reqs[x] ELSE << >>]
      /\ out'  = [x \in Clients |-> << >>]
  BY DEF Ended, End
<1>3. reqs' \in [Clients -> Seq(Requests)] /\ out' \in Outputs /\ subscriptions' \in Seq(Subscription)
  <2>1. << >> \in Seq(Requests) /\ << >> \in Seq(Written) /\ << >> \in Seq(Subscription)
    BY EmptySeq
  <2> QED BY <1>1, <1>2, <2>1 DEF Outputs, Types
<1>4. Sizes'
  BY <1>2 DEF Sizes, HasGroup
<1>5. Types'
  BY <1>1, <1>2, <1>3, <1>4 DEF Types, clientVars
<1>6. SubscribersConnected'
  BY <1>2 DEF SubscribersConnected
<1>7. ASSUME NEW x \in Clients \ backlog' PROVE Quiet(x)' /\ Conversation(x)'
  <2>1. Quiet(x)
    BY DEF IInv
  <2>2. x \notin connections' /\ x \notin Attached' /\ out'[x] = << >> /\ reqs'[x] = << >>
    BY <1>2 DEF Attached
  <2>3. Quiet(x)'
    BY <1>2, <2>1, <2>2 DEF Quiet, clientVars
  <2> QED BY <1>2, <2>2, <2>3, DroppedConversation
<1>8. ASSUME NEW x \in backlog' PROVE Quiet(x)' /\ Conversation(x)'
  <2>1. x \in Clients /\ x \in backlog /\ x \notin connections /\ Quiet(x)
    BY <1>1, <1>2 DEF Types, IInv
  <2>2. out[x] = << >> /\ out'[x] = << >> /\ reqs'[x] = reqs[x]
    BY <1>2, <2>1 DEF Quiet
  <2>3. Notified(x, out, out')
    BY <1>1, <2>1, <2>2, Unnoticed
  <2>4. SubsOf(x)' \subseteq SubsOf(x)
    BY <1>2 DEF SubsOf
  <2>5. Frame(x)
    BY <1>2, <2>1, <2>2, <2>3, <2>4 DEF Frame, Attached, clientVars
  <2> QED BY <1>5, <2>1, <2>5, Framed
<1> QED BY <1>5, <1>6, <1>7, <1>8 DEF IInv

(* The last process that holds the listening socket of a server that has     *)
(* ended is gone, too.                                                       *)
LEMMA HeirsEndIInv == ASSUME IInv, HeirsEnd, UNCHANGED clientVars PROVE IInv'
<1>1. Types /\ SubscribersConnected
  BY DEF IInv
<1>2. /\ held /\ held' = FALSE /\ backlog' = {} /\ reqs' = [x \in Clients |-> << >>]
      /\ UNCHANGED <<server, options, connections, out, wire, subscriptions, cfg, notice, twice>>
  BY DEF HeirsEnd
<1>3. reqs' \in [Clients -> Seq(Requests)]
  <2>1. << >> \in Seq(Requests)
    BY EmptySeq
  <2> QED BY <1>2, <2>1
<1>4. Sizes'
  BY <1>1, <1>2 DEF Types, Sizes, HasGroup
<1>5. Types'
  BY <1>1, <1>2, <1>3, <1>4 DEF Types, clientVars
<1>6. SubscribersConnected'
  BY <1>1, <1>2 DEF SubscribersConnected
<1>7. connections = {} /\ connections' = {} /\ Attached' = {}
  BY <1>1, <1>2 DEF Types, Attached
<1>8. ASSUME NEW x \in Clients PROVE Quiet(x)' /\ Conversation(x)'
  <2>1. Quiet(x)
    BY DEF IInv
  <2>2. x \notin Attached' /\ out'[x] = << >> /\ reqs'[x] = << >>
    BY <1>2, <1>7, <2>1 DEF Quiet
  <2>3. Quiet(x)'
    BY <1>2, <2>1, <2>2 DEF Quiet, clientVars
  <2> QED BY <1>2, <2>2, <2>3, DroppedConversation
<1> QED BY <1>5, <1>6, <1>8 DEF IInv

(* Serve. *)
LEMMA ServeIInv == ASSUME IInv, NEW c \in Clients, Serve(c) PROVE IInv'
<1>1. /\ c \in connections /\ reqs[c] # << >>
      /\ Stays(c) \/ Dropped(c) \/ Ended
  BY ServeOutcomes DEF IInv
<1> QED BY <1>1, StaysIInv, DroppedIInv, EndedIInv

(* error_cb. *)
LEMMA ErrorIInv == ASSUME IInv, NEW c \in Clients, error_cb(c) PROVE IInv'
<1>1. /\ Types /\ c \in connections /\ drop_client_connection(c, out)
      /\ UNCHANGED <<options, wire, cfg, notice, twice, clientVars>>
  BY DEF IInv, error_cb
<1>2. Told(out, out)
  BY <1>1, ToldNothing DEF Types
<1>3. Dropped(c)
  <2>1. [cid |-> 1, cmd |-> "LIST"] \in Requests
    <3>1. 1 \in Cids
      BY SessionAssumption DEF Cids
    <3> QED BY <3>1 DEF Requests, CommandNames
  <2> QED BY <1>1, <1>2, <2>1, FailDrops
<1> QED BY <1>1, <1>3, DroppedIInv

(* A notification. *)
LEMMA NotifyIInv ==
  ASSUME IInv, NEW event \in Events, NEW len \in Nat \ {0}, Notify(event, len), UNCHANGED clientVars
  PROVE  IInv'
<1>1. Types /\ SubscribersConnected
  BY DEF IInv
<1>2. /\ out' = send_notification(out, event, len)
      /\ UNCHANGED <<server, options, held, backlog, connections, reqs, wire, subscriptions,
                     cfg, notice, twice, clientVars>>
  BY DEF Notify
<1>3. Told(out, out')
  <2>1. out \in Outputs /\ subscriptions \in Seq(Subscription)
    BY <1>1 DEF Types
  <2> QED BY <1>2, <2>1, Tells
<1>4. Types'
  BY <1>1, <1>2, <1>3 DEF Types, Sizes, HasGroup, Told, clientVars
<1>5. SubscribersConnected'
  BY <1>1, <1>2 DEF SubscribersConnected
<1>6. ASSUME NEW x \in Clients PROVE Quiet(x)' /\ Conversation(x)'
  <2>1. Frame(x)
    BY <1>2, <1>3 DEF Frame, Told, Attached, clientVars, SubsOf
  <2> QED BY <1>4, <2>1, Framed
<1> QED BY <1>4, <1>5, <1>6 DEF IInv

(* Event. *)
LEMMA EventIInv == ASSUME IInv, Event, UNCHANGED clientVars PROVE IInv'
<1>1. CASE Notify("log", 1)
  BY <1>1, NotifyIInv DEF Events
<1>2. CASE HasGroup /\ Notify("status", notice)
  <2>1. notice \in Nat \ {0}
    BY <1>2, ConnectionAssumption DEF IInv, Types, Sizes
  <2> QED BY <1>2, <2>1, NotifyIInv DEF Events
<1>3. CASE End("aborted") /\ UNCHANGED <<options, wire>>
  <2>1. Ended
    BY <1>3 DEF Ended
  <2> QED BY <2>1, EndedIInv
<1> QED BY <1>1, <1>2, <1>3 DEF Event

(* accept_cb. *)
LEMMA AcceptIInv == ASSUME IInv, NEW c \in Clients, Accept(c) PROVE IInv'
<1>1. Types /\ SubscribersConnected /\ Quiet(c) /\ Conversation(c)
  BY DEF IInv
<1>2. /\ server = "up" /\ c \in backlog
      /\ backlog' = backlog \ {c} /\ connections' = connections \cup {c}
      /\ UNCHANGED <<server, options, held, reqs, out, wire, subscriptions, cfg, notice, twice,
                     clientVars>>
  BY DEF Accept, accept_cb
<1>3. Types'
  BY <1>1, <1>2 DEF Types, Sizes, HasGroup, clientVars
<1>4. SubscribersConnected'
  BY <1>1, <1>2 DEF SubscribersConnected
<1>5. ASSUME NEW x \in Clients \ {c} PROVE Quiet(x)' /\ Conversation(x)'
  <2>1. Notified(x, out, out')
    BY <1>1, <1>2, Unnoticed
  <2>2. Frame(x)
    BY <1>2, <2>1 DEF Frame, Attached, clientVars, SubsOf
  <2> QED BY <1>3, <2>2, Framed
<1>6. c \in Attached /\ c \in Attached' /\ c \in connections'
  BY <1>2 DEF Attached
<1>7. Quiet(c)'
  BY <1>1, <1>2, <1>6 DEF Quiet, clientVars
<1>8. Conversation(c)'
  BY <1>1, <1>2, <1>6 DEF Conversation, Talks, InTransit, clientVars, SubsOf
<1> QED BY <1>3, <1>4, <1>5, <1>7, <1>8 DEF IInv

(* Transmit. *)
LEMMA TransmitIInv == ASSUME IInv, NEW c \in Clients, Transmit(c) PROVE IInv'
<1>1. Types /\ SubscribersConnected /\ Quiet(c) /\ Conversation(c)
  BY DEF IInv
<1> DEFINE h == Head(out[c])  t == Tail(out[c])
<1>2. /\ c \in connections /\ out[c] # << >>
      /\ wire' = [wire EXCEPT ![c] = Append(@, h)]
      /\ out'  = [out EXCEPT ![c] = t]
      /\ UNCHANGED <<server, options, held, backlog, connections, reqs, subscriptions,
                     cfg, notice, twice, clientVars>>
  BY DEF Transmit, Flush
<1>3. /\ part[c] \in Seq(Written) /\ wire[c] \in Seq(Written) /\ out[c] \in Seq(Written)
      /\ InTransit(c) = (part[c] \o wire[c]) \o out[c]
  BY <1>1, Transit
<1>4. h \in Written /\ t \in Seq(Written) /\ out[c] = <<h>> \o t /\ <<h>> \in Seq(Written)
  BY <1>2, <1>3, HeadTailProperties, ConcatSimplifications
<1>5. Append(wire[c], h) \in Seq(Written) /\ Append(wire[c], h) = wire[c] \o <<h>>
  BY <1>3, <1>4, AppendProperties, AppendIsConcat
<1> HIDE DEF h, t
<1>6. /\ wire' \in Outputs /\ out' \in Outputs
      /\ wire'[c] = wire[c] \o <<h>> /\ out'[c] = t
      /\ \A x \in Clients \ {c} : wire'[x] = wire[x] /\ out'[x] = out[x]
  BY <1>1, <1>2, <1>4, <1>5 DEF Types, Outputs
<1>7. Types'
  BY <1>1, <1>2, <1>6 DEF Types, Sizes, HasGroup, clientVars
<1>8. SubscribersConnected'
  BY <1>1, <1>2 DEF SubscribersConnected
<1>9. ASSUME NEW x \in Clients \ {c} PROVE Quiet(x)' /\ Conversation(x)'
  <2>1. Notified(x, out, out')
    BY <1>1, <1>6, Unnoticed
  <2>2. Frame(x)
    BY <1>2, <1>6, <2>1 DEF Frame, Attached, clientVars, SubsOf
  <2> QED BY <1>7, <2>2, Framed
<1>10. Quiet(c)'
  BY <1>1, <1>2 DEF Quiet, Attached, clientVars
<1>11. InTransit(c)' = InTransit(c)
  <2> DEFINE p == part[c]  w == wire[c]
  <2>1. p \in Seq(Written) /\ w \in Seq(Written) /\ <<h>> \in Seq(Written) /\ t \in Seq(Written)
    BY <1>3, <1>4
  <2> HIDE DEF p, w
  <2>2. p \o (w \o <<h>>) = (p \o w) \o <<h>> /\ p \o w \in Seq(Written)
    BY <2>1, WrittenConcat
  <2>3. ((p \o w) \o <<h>>) \o t = (p \o w) \o (<<h>> \o t)
    BY <2>1, <2>2, WrittenConcat
  <2>4. InTransit(c)' = (p \o (w \o <<h>>)) \o t
    BY <1>2, <1>6 DEF InTransit, clientVars, p, w
  <2>5. InTransit(c) = (p \o w) \o (<<h>> \o t)
    BY <1>3, <1>4 DEF p, w
  <2> QED BY <2>2, <2>3, <2>4, <2>5
<1>12. Conversation(c)'
  BY <1>1, <1>2, <1>11 DEF Conversation, Talks, Attached, clientVars, SubsOf
<1> QED BY <1>7, <1>8, <1>9, <1>10, <1>12 DEF IInv

-----------------------------------------------------------------------------
(* Steps of the clients. *)

(* A step of one client that leaves the subscriptions and its own output. *)
LEMMA ClientIInv ==
  ASSUME IInv, NEW c \in Clients, Types', UNCHANGED <<out, subscriptions, connections>>,
         backlog' \cup {c} = backlog \cup {c}, twice' \cup {c} = twice \cup {c},
         \A x \in Clients \ {c} :
            /\ reqs'[x] = reqs[x] /\ wire'[x] = wire[x] /\ part'[x] = part[x]
            /\ st'[x] = st[x] /\ cid'[x] = cid[x] /\ inuse'[x] = inuse[x] /\ asked'[x] = asked[x],
         Quiet(c)', Conversation(c)'
  PROVE  IInv'
<1>1. Types /\ SubscribersConnected
  BY DEF IInv
<1>2. SubscribersConnected'
  BY <1>1 DEF SubscribersConnected
<1>3. ASSUME NEW x \in Clients \ {c} PROVE Quiet(x)' /\ Conversation(x)'
  <2>1. Notified(x, out, out')
    BY <1>1, Unnoticed
  <2>2. /\ x \in Attached' <=> x \in Attached
        /\ x \in twice' <=> x \in twice
    BY DEF Attached
  <2>3. Frame(x)
    BY <2>1, <2>2 DEF Frame, SubsOf
  <2> QED BY <2>3, Framed
<1> QED BY <1>2, <1>3 DEF IInv

(* Nothing has been said yet. *)
LEMMA OpenEmpty == Open(<< >>, << >>, << >>, {}, {})
<1>1. Due(<< >>, << >>) = << >>
  <2>1. Filter(<< >>, LastChunks) = << >>
    BY FilterEmpty
  <2>2. CidsOf(<< >>) = << >>
    BY DEF CidsOf
  <2>3. << >> \o << >> = << >>
    <3>1. << >> \in Seq({})
      BY EmptySeq
    <3> QED BY <3>1, ConcatEmptySeq
  <2> QED BY <2>1, <2>2, <2>3 DEF Due
<1>2. Distinct(<< >>) /\ Explained(<< >>, << >>, {})
  BY DEF Distinct, Explained
<1>3. Chained(<< >>) /\ Complete(<< >>)
  BY DEF Chained, Complete
<1> QED BY <1>1, <1>2, <1>3 DEF Open

(* sock_send_command and connect. *)
LEMMA BeginIInv ==
  ASSUME IInv, NEW c \in Clients, st[c] = "new", Connects(c), NEW k \in Cids, NEW cmd \in CommandNames,
         Send(c, k, cmd), st' = [st EXCEPT ![c] = "busy"],
         inuse' = IF cmd = "SUBS" THEN [inuse EXCEPT ![c] = {k}] ELSE inuse,
         cid' \in [Clients -> Cids], cid'[c] = k, \A x \in Clients \ {c} : cid'[x] = cid[x],
         UNCHANGED part, NoOutput
  PROVE  IInv'
<1> DEFINE h == [cid |-> k, cmd |-> cmd]
<1>1. Types /\ SubscribersConnected /\ Quiet(c)
  BY DEF IInv
<1>2. /\ c \notin Attached /\ reqs[c] = << >> /\ out[c] = << >>
      /\ wire[c] = << >> /\ part[c] = << >> /\ asked[c] = << >> /\ inuse[c] = {}
  BY <1>1 DEF Quiet, Attached
<1>3. /\ server = "up" \/ held
      /\ backlog' = backlog \cup {c} /\ c \in Attached' /\ c \notin connections
      /\ UNCHANGED <<server, options, held, connections, out, wire, subscriptions, cfg, notice,
                     twice, part>>
      /\ asked' = [asked EXCEPT ![c] = Append(@, k)]
      /\ reqs' = [reqs EXCEPT ![c] = Append(@, h)]
  BY <1>2 DEF Connects, NoOutput, Send, Attached
<1>4. h \in Requests /\ h.cid = k
  BY DEF Requests
<1> HIDE DEF h
<1>5. /\ Append(<< >>, h) \in Seq(Requests) /\ Append(<< >>, k) \in Seq(Cids)
      /\ << >> \in Seq(Requests) /\ << >> \in Seq(Cids) /\ << >> \in Seq(Written)
  <2>1. << >> \in Seq(Requests) /\ << >> \in Seq(Cids) /\ << >> \in Seq(Written)
    BY EmptySeq
  <2> QED BY <1>4, <2>1, AppendProperties
<1>6. /\ reqs' \in [Clients -> Seq(Requests)] /\ asked' \in [Clients -> Seq(Cids)]
      /\ reqs'[c] = Append(<< >>, h) /\ asked'[c] = Append(<< >>, k)
      /\ \A x \in Clients \ {c} : reqs'[x] = reqs[x] /\ asked'[x] = asked[x]
  BY <1>1, <1>2, <1>3, <1>5 DEF Types
<1>7. /\ inuse' \in [Clients -> SUBSET Cids] /\ st' \in [Clients -> {"new", "idle", "busy", "closed", "lost"}]
      /\ inuse'[c] = IF cmd = "SUBS" THEN {k} ELSE {}
      /\ st'[c] = "busy"
      /\ \A x \in Clients \ {c} : inuse'[x] = inuse[x] /\ st'[x] = st[x]
  BY <1>1, <1>2 DEF Types
<1>8. Types'
  BY <1>1, <1>3, <1>6, <1>7 DEF Types, Sizes, HasGroup
<1>9. Quiet(c)'
  <2>1. part'[c] = << >>
    BY <1>2, <1>3
  <2> QED BY <1>2, <1>3, <1>7, <2>1 DEF Quiet
<1>10. Open(<< >>, Append(<< >>, h), Append(<< >>, k), inuse'[c], {})
  <2> DEFINE e == << >>
  <2>1. e \in Seq(Written) /\ e \in Seq(Requests) /\ e \in Seq(Cids) /\ k \notin Members(e) /\ Open(e, e, e, {}, {})
    BY <1>5, OpenEmpty DEF Members
  <2> HIDE DEF e
  <2> DEFINE v == inuse'[c]
  <2>2. cmd = "SUBS" => k \in v
    BY <1>7
  <2> HIDE DEF v
  <2>3. Open(e, Append(e, h), Append(e, k), v, {})
    BY <2>1, <2>2, OpenCall DEF h
  <2> QED BY <2>3 DEF e, v
<1>11. Walked(Append(<< >>, k), k, inuse'[c])
  <2> DEFINE a == Append(<< >>, k)
  <2>1. \A i \in DOMAIN a : a[i] = k
    OBVIOUS
  <2> HIDE DEF a
  <2>2. Walked(a, k, inuse'[c])
    BY <2>1, WalkOn DEF Walked
  <2> QED BY <2>2 DEF a
<1>12. InTransit(c)' = << >>
  <2>1. << >> \o << >> = << >>
    BY <1>5, ConcatEmptySeq
  <2> QED BY <1>2, <1>3, <2>1 DEF InTransit
<1>13. SubsOf(c)' = {}
  BY <1>1, <1>2, <1>3 DEF SubsOf, SubscribersConnected
<1>14. Conversation(c)'
  <2>1. Distinct(asked'[c])
    BY <1>6, <1>10 DEF Open
  <2>2. c \in Attached'
    BY <1>3
  <2> QED BY <1>6, <1>10, <1>11, <1>12, <1>13, <2>1, <2>2 DEF Conversation
<1>15. /\ UNCHANGED <<out, subscriptions, connections>>
       /\ backlog' \cup {c} = backlog \cup {c} /\ twice' \cup {c} = twice \cup {c}
       /\ \A x \in Clients \ {c} :
            /\ reqs'[x] = reqs[x] /\ wire'[x] = wire[x] /\ part'[x] = part[x]
            /\ st'[x] = st[x] /\ cid'[x] = cid[x] /\ inuse'[x] = inuse[x] /\ asked'[x] = asked[x]
  BY <1>3, <1>6, <1>7
<1> QED BY <1>8, <1>9, <1>14, <1>15, ClientIInv

(* sock_send_command. *)
LEMMA CommandIInv ==
  ASSUME IInv, NEW c \in Clients, NEW cmd \in CCommands, sock_send_command(c, cmd)
  PROVE  IInv'
<1>1. 1 \in Cids /\ cmd \in CommandNames
  BY SessionAssumption DEF Cids
<1>2. st[c] = "new" /\ cid[c] = 1 /\ cid \in [Clients -> Cids] /\ cid' = cid
  BY DEF sock_send_command, IInv, Quiet, Types
<1> QED BY <1>1, <1>2, BeginIInv DEF sock_send_command

(* connect. *)
LEMMA ConnectIInv == ASSUME IInv, NEW c \in Clients, connect(c) PROVE IInv'
<1> DEFINE k == _increment_cid(c)
<1>1. st[c] = "new" /\ cid \in [Clients -> Cids] /\ inuse[c] = {} /\ cid' = [cid EXCEPT ![c] = k]
  BY DEF connect, IInv, Quiet, Types
<1>2. k \in Cids
  <2>1. 1 \in Cids
    BY SessionAssumption DEF Cids
  <2>2. cid[c] \in Cids /\ inuse[c] \in SUBSET Cids /\ \E x \in Cids : x \notin inuse[c]
    BY <1>1, <2>1
  <2> QED BY <2>2, IncrementCid
<1>3. Connects(c) /\ Send(c, k, "HELO") /\ st' = [st EXCEPT ![c] = "busy"]
      /\ UNCHANGED <<inuse, part>> /\ NoOutput
  BY DEF connect
<1> HIDE DEF k
<1>4. cid' \in [Clients -> Cids] /\ cid'[c] = k /\ \A x \in Clients \ {c} : cid'[x] = cid[x]
  BY <1>1, <1>2
<1>5. "HELO" \in CommandNames /\ inuse' = IF "HELO" = "SUBS" THEN [inuse EXCEPT ![c] = {k}] ELSE inuse
  BY <1>3 DEF CommandNames
<1> QED BY <1>1, <1>2, <1>3, <1>4, <1>5, BeginIInv

(* A call of an application. *)
LEMMA CallIInv ==
  ASSUME IInv, NEW c \in Clients, NEW cmd \in PyCommands, NEW w \in BOOLEAN, Call(c, cmd, w)
  PROVE  IInv'
<1> DEFINE k == _increment_cid(c)  h == [cid |-> k, cmd |-> cmd]  v == inuse'[c]
<1>1. Types /\ SubscribersConnected /\ Quiet(c) /\ Conversation(c)
  BY DEF IInv
<1>2. /\ st[c] = "idle" /\ c \notin twice /\ UNCHANGED <<backlog, part>> /\ NoOutput
      /\ asked' = [asked EXCEPT ![c] = Append(@, k)]
      /\ reqs' = IF c \in Attached THEN [reqs EXCEPT ![c] = Append(@, h)] ELSE reqs
      /\ cid' = [cid EXCEPT ![c] = k]
      /\ inuse' = IF cmd = "SUBS" THEN [inuse EXCEPT ![c] = @ \cup {k}] ELSE inuse
      /\ Len(asked[c]) + Cardinality(inuse[c]) < MaxPending
      /\ st' = [st EXCEPT ![c] = IF w THEN "busy" ELSE "idle"]
  BY DEF Call, Send, Attached
<1>3. /\ Distinct(asked[c]) /\ Walked(asked[c], cid[c], inuse[c])
      /\ c \in Attached => Open(InTransit(c), reqs[c], asked[c], inuse[c], SubsOf(c))
      /\ c \notin Attached => Cut(InTransit(c), asked[c], inuse[c])
  BY <1>1, <1>2 DEF Conversation, Talks
<1>4. /\ asked[c] \in Seq(Cids) /\ cid[c] \in Cids /\ inuse[c] \in SUBSET Cids
      /\ reqs[c] \in Seq(Requests) /\ cmd \in CommandNames
  BY <1>1, SessionAssumption DEF Types
<1>5. /\ k \in Cids /\ k \notin inuse[c] /\ k \notin Members(asked[c])
      /\ \A z : inuse[c] \subseteq z => Walked(Append(asked[c], k), k, z)
  BY <1>2, <1>3, <1>4, NextCid
<1> HIDE DEF k
<1>6. h \in Requests
  BY <1>4, <1>5 DEF Requests
<1> HIDE DEF h
<1>7. Append(asked[c], k) \in Seq(Cids) /\ Append(reqs[c], h) \in Seq(Requests)
  BY <1>4, <1>5, <1>6, AppendProperties
<1>8. /\ asked' \in [Clients -> Seq(Cids)] /\ reqs' \in [Clients -> Seq(Requests)]
      /\ asked'[c] = Append(asked[c], k)
      /\ c \in Attached => reqs'[c] = Append(reqs[c], h)
      /\ c \notin Attached => reqs'[c] = reqs[c]
      /\ \A x \in Clients \ {c} : asked'[x] = asked[x] /\ reqs'[x] = reqs[x]
  BY <1>1, <1>2, <1>7 DEF Types
<1>9. /\ cid' \in [Clients -> Cids] /\ cid'[c] = k /\ \A x \in Clients \ {c} : cid'[x] = cid[x]
  BY <1>1, <1>2, <1>5 DEF Types
<1>10. /\ inuse' \in [Clients -> SUBSET Cids]
       /\ inuse[c] \subseteq v /\ (cmd = "SUBS" => k \in v)
       /\ \A x \in Clients \ {c} : inuse'[x] = inuse[x]
  BY <1>1, <1>2, <1>5 DEF Types
<1>11. /\ st' \in [Clients -> {"new", "idle", "busy", "closed", "lost"}] /\ st'[c] # "new"
       /\ \A x \in Clients \ {c} : st'[x] = st[x]
  BY <1>1, <1>2 DEF Types
<1>12. /\ UNCHANGED <<server, options, held, backlog, connections, out, wire, subscriptions, cfg,
                      notice, twice, part>>
       /\ Attached' = Attached
  BY <1>2 DEF NoOutput, Attached
<1> HIDE DEF v
<1>13. Types'
  BY <1>1, <1>8, <1>9, <1>10, <1>11, <1>12 DEF Types, Sizes, HasGroup
<1>14. Quiet(c)'
  BY <1>1, <1>8, <1>11, <1>12 DEF Quiet
<1>15. InTransit(c)' = InTransit(c) /\ SubsOf(c)' = SubsOf(c) /\ InTransit(c) \in Seq(Written)
  BY <1>1, <1>12, Transit DEF InTransit, SubsOf
<1>16. ASSUME c \in Attached PROVE Open(InTransit(c)', reqs'[c], asked'[c], v, SubsOf(c)')
  <2>1. Open(InTransit(c), Append(reqs[c], h), Append(asked[c], k), v, SubsOf(c))
    BY <1>3, <1>4, <1>5, <1>10, <1>15, <1>16, OpenCall DEF h
  <2> QED BY <1>8, <1>15, <1>16, <2>1
<1>17. ASSUME c \notin Attached PROVE Cut(InTransit(c)', asked'[c], v)
  <2>1. Cut(InTransit(c), Append(asked[c], k), v)
    BY <1>3, <1>4, <1>5, <1>10, <1>15, <1>17, CutCall
  <2> QED BY <1>8, <1>15, <2>1
<1>18. Distinct(asked'[c]) /\ Walked(asked'[c], cid'[c], v)
  <2>1. Distinct(Append(asked[c], k))
    BY <1>3, <1>4, <1>5, OneMore
  <2>2. Walked(Append(asked[c], k), k, v)
    BY <1>5, <1>10
  <2> QED BY <1>8, <1>9, <2>1, <2>2
<1>19. Conversation(c)'
  BY <1>12, <1>16, <1>17, <1>18 DEF Conversation, v
<1>20. /\ UNCHANGED <<out, subscriptions, connections>>
       /\ backlog' \cup {c} = backlog \cup {c} /\ twice' \cup {c} = twice \cup {c}
       /\ \A x \in Clients \ {c} :
            /\ reqs'[x] = reqs[x] /\ wire'[x] = wire[x] /\ part'[x] = part[x]
            /\ st'[x] = st[x] /\ cid'[x] = cid[x] /\ inuse'[x] = inuse[x] /\ asked'[x] = asked[x]
  BY <1>8, <1>9, <1>10, <1>11, <1>12
<1> QED BY <1>13, <1>14, <1>19, <1>20, ClientIInv

(* wait. *)
LEMMA WaitIInv == ASSUME IInv, NEW c \in Clients, wait(c) PROVE IInv'
<1>1. Types /\ Quiet(c) /\ Conversation(c)
  BY DEF IInv
<1>2. /\ st[c] = "idle" /\ st' = [st EXCEPT ![c] = "busy"]
      /\ UNCHANGED <<serverVars, cid, inuse, asked, part>>
  BY DEF wait
<1>3. /\ st' \in [Clients -> {"new", "idle", "busy", "closed", "lost"}] /\ st'[c] = "busy"
      /\ \A x \in Clients \ {c} : st'[x] = st[x]
  BY <1>1, <1>2 DEF Types
<1>4. Types'
  BY <1>1, <1>2, <1>3 DEF Types, Sizes, HasGroup, serverVars
<1>5. Quiet(c)'
  BY <1>1, <1>2, <1>3 DEF Quiet, Attached, serverVars
<1>6. Conversation(c)'
  BY <1>1, <1>2, <1>3 DEF Conversation, Talks, InTransit, Attached, SubsOf, serverVars
<1> QED BY <1>2, <1>3, <1>4, <1>5, <1>6, ClientIInv DEF serverVars

(* A client that has gone, or has lost its way. *)
LEMMA GoneIInv ==
  ASSUME IInv, NEW c \in Clients, NEW how \in {"closed", "lost"}, st' = [st EXCEPT ![c] = how],
         Forgotten(c),
         UNCHANGED <<server, options, held, backlog, connections, reqs, out, subscriptions, cfg, notice>>
  PROVE  IInv'
<1>1. Types /\ Quiet(c)
  BY DEF IInv
<1>2. << >> \in Seq(Cids) /\ << >> \in Seq(Written) /\ 1 \in Cids
  BY EmptySeq, SessionAssumption DEF Cids
<1>3. /\ st' \in [Clients -> {"new", "idle", "busy", "closed", "lost"}] /\ st'[c] = how
      /\ cid' \in [Clients -> Cids] /\ inuse' \in [Clients -> SUBSET Cids]
      /\ asked' \in [Clients -> Seq(Cids)] /\ part' \in Outputs /\ wire' \in Outputs
      /\ part'[c] = << >>
      /\ \A x \in Clients \ {c} :
            /\ st'[x] = st[x] /\ cid'[x] = cid[x] /\ inuse'[x] = inuse[x]
            /\ asked'[x] = asked[x] /\ part'[x] = part[x] /\ wire'[x] = wire[x]
  BY <1>1, <1>2 DEF Types, Forgotten, Outputs
<1>4. Types'
  BY <1>1, <1>3 DEF Types, Sizes, HasGroup
<1>5. Quiet(c)'
  BY <1>1, <1>3 DEF Quiet, Attached
<1>6. Conversation(c)'
  BY <1>3 DEF Conversation, Talks
<1>7. twice' \cup {c} = twice \cup {c}
  BY DEF Forgotten
<1> QED BY <1>3, <1>4, <1>5, <1>6, <1>7, ClientIInv

(* ReadChunk. *)
LEMMA ReadIInv == ASSUME IInv, NEW c \in Clients, ReadChunk(c) PROVE IInv'
<1> DEFINE ch == Head(wire[c])  w == Tail(wire[c])  p == part[c]  a == asked[c]  u == inuse[c]
           b == out[c]
<1>1. Types /\ SubscribersConnected /\ Quiet(c) /\ Conversation(c)
  BY DEF IInv
<1>2. /\ st[c] = "busy" /\ wire[c] # << >>
      /\ UNCHANGED <<server, options, held, backlog, connections, reqs, out, subscriptions, cfg, notice>>
  BY DEF ReadChunk
<1>3. p \in Seq(Written) /\ wire[c] \in Seq(Written) /\ b \in Seq(Written)
      /\ InTransit(c) = (p \o wire[c]) \o b
  BY <1>1, Transit
<1>4. ch \in Written /\ w \in Seq(Written) /\ wire[c] = <<ch>> \o w
  BY <1>2, <1>3, HeadTailProperties, ConcatSimplifications
<1>5. /\ a \in Seq(Cids) /\ reqs[c] \in Seq(Requests)
      /\ \A i \in DOMAIN p : IsExtended(p[i].field)
  BY <1>1 DEF Types, Quiet
<1> HIDE DEF ch, w, p, a, u, b
<1>6. /\ InTransit(c) = (p \o <<ch>>) \o (w \o b)
      /\ InTransit(c) = ((p \o <<ch>>) \o w) \o b
      /\ w \o b \in Seq(Written)
  <2> DEFINE h == <<ch>>  y == h \o w  g == p \o h  x == g \o w  z == w \o b
  <2>1. h \in Seq(Written)
    BY <1>4
  <2>2. wire[c] = y /\ y = h \o w /\ g = p \o h /\ x = g \o w /\ z = w \o b
    BY <1>4
  <2> HIDE DEF h, y, g, x, z
  <2>3. p \in Seq(Written) /\ h \in Seq(Written) /\ w \in Seq(Written)
    BY <1>3, <1>4, <2>1
  <2>4. p \o h \in Seq(Written) /\ (p \o h) \o w = p \o (h \o w)
    BY ONLY <2>3, WrittenConcat
  <2>5. g \in Seq(Written) /\ p \o y = g \o w
    BY ONLY <2>2, <2>4, Zenon
  <2>6. g \in Seq(Written) /\ w \in Seq(Written) /\ b \in Seq(Written)
    BY <1>3, <2>3, <2>5
  <2>7. w \o b \in Seq(Written) /\ (g \o w) \o b = g \o (w \o b)
    BY ONLY <2>6, WrittenConcat
  <2>8. InTransit(c) = (p \o y) \o b
    BY <1>3, <2>2
  <2>9. z \in Seq(Written) /\ InTransit(c) = g \o z /\ InTransit(c) = x \o b
    BY ONLY <2>2, <2>5, <2>7, <2>8, Zenon
  <2> QED BY <2>9 DEF h, g, x, z
<1>7. CASE LengthAsRead(c, ch) # ch.size
  <2>1. st' = [st EXCEPT ![c] = "lost"] /\ Forgotten(c)
    BY <1>7 DEF ReadChunk, ch
  <2> QED BY <1>2, <2>1, GoneIInv
<1>8. CASE LengthAsRead(c, ch) = ch.size /\ IsExtended(ch.field)
  <2>1. /\ part' = [part EXCEPT ![c] = Append(@, ch)]
        /\ wire' = [wire EXCEPT ![c] = w]
        /\ UNCHANGED <<st, cid, inuse, asked, twice>>
    BY <1>8 DEF ReadChunk, ch, w
  <2>2. Append(p, ch) \in Seq(Written) /\ Append(p, ch) = p \o <<ch>>
        /\ \A i \in DOMAIN Append(p, ch) : IsExtended(Append(p, ch)[i].field)
    <3>1. Append(p, ch) \in Seq(Written) /\ Append(p, ch) = p \o <<ch>>
      BY <1>3, <1>4, AppendProperties, AppendIsConcat
    <3>2. ASSUME NEW i \in DOMAIN Append(p, ch) PROVE IsExtended(Append(p, ch)[i].field)
      <4> DEFINE z == Append(p, ch)
      <4>1. /\ DOMAIN z = 1 .. Len(p) + 1 /\ Len(p) \in Nat /\ DOMAIN p = 1 .. Len(p)
            /\ \A j \in 1 .. Len(p) : z[j] = p[j]
            /\ z[Len(p) + 1] = ch
        BY <1>3, <1>4, AppendProperties, LenProperties
      <4> HIDE DEF z
      <4>2. i \in 1 .. Len(p) \/ i = Len(p) + 1
        BY <4>1 DEF z
      <4>3. IsExtended(z[i].field)
        BY <1>5, <1>8, <4>1, <4>2
      <4> QED BY <4>3 DEF z
    <3> QED BY <3>1, <3>2
  <2>3. /\ part' \in Outputs /\ wire' \in Outputs
        /\ part'[c] = Append(p, ch) /\ wire'[c] = w
        /\ \A x \in Clients \ {c} : part'[x] = part[x] /\ wire'[x] = wire[x]
    BY <1>1, <1>4, <2>1, <2>2 DEF Types, Outputs, p
  <2>4. Types'
    BY <1>1, <1>2, <2>1, <2>3 DEF Types, Sizes, HasGroup
  <2>5. Quiet(c)'
    BY <1>1, <1>2, <2>1, <2>2, <2>3 DEF Quiet, Attached
  <2>6. InTransit(c)' = InTransit(c)
    BY <1>2, <1>6, <2>2, <2>3 DEF InTransit, b
  <2>7. Conversation(c)'
    BY <1>1, <1>2, <2>1, <2>6 DEF Conversation, Talks, Attached, SubsOf
  <2> QED BY <1>2, <2>1, <2>3, <2>4, <2>5, <2>7, ClientIInv
<1>9. CASE LengthAsRead(c, ch) = ch.size /\ ~IsExtended(ch.field)
  <2>1. wire' = [wire EXCEPT ![c] = w] /\ Deliver(c, ch)
    BY <1>9 DEF ReadChunk, ch, w
  <2>2. /\ part' = [part EXCEPT ![c] = << >>]
        /\ asked' = IF IsReply(ch) /\ a # << >> THEN [asked EXCEPT ![c] = Tail(a)] ELSE asked
        /\ st' = [st EXCEPT ![c] = IF Forever(c) THEN "busy" ELSE "idle"]
        /\ UNCHANGED <<cid, inuse, twice>>
    BY <2>1 DEF Deliver, a
  <2>3. /\ part' \in Outputs /\ wire' \in Outputs
        /\ part'[c] = << >> /\ wire'[c] = w
        /\ \A x \in Clients \ {c} : part'[x] = part[x] /\ wire'[x] = wire[x]
    <3>1. << >> \in Seq(Written)
      BY EmptySeq
    <3> QED BY <1>1, <1>4, <2>1, <2>2, <3>1 DEF Types, Outputs
  <2>4. a # << >> => Tail(a) \in Seq(Cids)
    BY <1>5, HeadTailProperties
  <2>5. /\ asked' \in [Clients -> Seq(Cids)]
        /\ asked'[c] = IF IsReply(ch) /\ a # << >> THEN Tail(a) ELSE a
        /\ \A x \in Clients \ {c} : asked'[x] = asked[x]
    BY <1>1, <2>2, <2>4 DEF Types, a
  <2>6. /\ st' \in [Clients -> {"new", "idle", "busy", "closed", "lost"}] /\ st'[c] \in {"busy", "idle"}
        /\ \A x \in Clients \ {c} : st'[x] = st[x]
    BY <1>1, <2>2 DEF Types
  <2>7. Types'
    BY <1>1, <1>2, <2>2, <2>3, <2>5, <2>6 DEF Types, Sizes, HasGroup
  <2>8. Quiet(c)'
    BY <1>1, <1>2, <2>3, <2>6 DEF Quiet, Attached
  <2>9. InTransit(c)' = w \o b /\ SubsOf(c)' = SubsOf(c)
    <3>1. << >> \o w = w
      BY <1>4, ConcatEmptySeq
    <3> QED BY <1>2, <2>3, <3>1 DEF InTransit, SubsOf, b
  <2>10. ASSUME c \notin twice PROVE
           /\ Distinct(asked'[c]) /\ Walked(asked'[c], cid[c], u)
           /\ c \in Attached => Open(w \o b, reqs[c], asked'[c], u, SubsOf(c))
           /\ c \notin Attached => Cut(w \o b, asked'[c], u)
    <3>1. /\ Distinct(a) /\ Walked(a, cid[c], u)
          /\ c \in Attached => Open(InTransit(c), reqs[c], a, u, SubsOf(c))
          /\ c \notin Attached => Cut(InTransit(c), a, u)
      BY <1>1, <1>2, <2>10 DEF Conversation, Talks, a, u
    <3>2. a # << >> => Walked(Tail(a), cid[c], u)
      BY <1>5, <3>1, WalkedTail
    <3>3. CASE c \in Attached
      <4> DEFINE z == w \o b
      <4>1. z \in Seq(Written) /\ Open((p \o <<ch>>) \o z, reqs[c], a, u, SubsOf(c))
        BY <1>6, <3>1, <3>3
      <4> HIDE DEF z
      <4>2. /\ IsReply(ch) => a # << >> /\ Open(z, reqs[c], Tail(a), u, SubsOf(c))
            /\ ~IsReply(ch) => Open(z, reqs[c], a, u, SubsOf(c))
        BY <1>3, <1>4, <1>5, <1>9, <4>1, OpenRead
      <4>3. Open(z, reqs[c], asked'[c], u, SubsOf(c)) /\ Walked(asked'[c], cid[c], u)
        BY <2>5, <3>1, <3>2, <4>2
      <4> QED BY <3>3, <4>3 DEF Open, z
    <3>4. CASE c \notin Attached
      <4> DEFINE z == w \o b
      <4>1. z \in Seq(Written) /\ Cut((p \o <<ch>>) \o z, a, u)
        BY <1>6, <3>1, <3>4
      <4> HIDE DEF z
      <4>2. /\ IsReply(ch) => a # << >> /\ Cut(z, Tail(a), u)
            /\ ~IsReply(ch) => Cut(z, a, u)
        BY <1>3, <1>4, <1>5, <1>9, <4>1, CutRead
      <4>3. Cut(z, asked'[c], u) /\ Walked(asked'[c], cid[c], u)
        BY <2>5, <3>1, <3>2, <4>2
      <4> QED BY <3>4, <4>3 DEF Cut, z
    <3> QED BY <3>3, <3>4
  <2>11. Conversation(c)'
    BY <1>2, <2>2, <2>9, <2>10 DEF Conversation, Attached, u
  <2> QED BY <1>2, <2>2, <2>3, <2>5, <2>6, <2>7, <2>8, <2>11, ClientIInv
<1> QED BY <1>7, <1>8, <1>9

-----------------------------------------------------------------------------
(* The invariant. *)

(* It holds at the start. *)
LEMMA InitIInv == Init => IInv
<1> SUFFICES ASSUME Init PROVE IInv
  OBVIOUS
<1>1. /\ server = "up" /\ options \in Options /\ connections = {} /\ backlog = {} /\ held = FALSE
      /\ reqs = [c \in Clients |-> << >>] /\ out = [c \in Clients |-> << >>]
      /\ wire = [c \in Clients |-> << >>] /\ part = [c \in Clients |-> << >>]
      /\ subscriptions = << >> /\ Sizes
      /\ st = [c \in Clients |-> "new"] /\ cid = [c \in Clients |-> 1]
      /\ inuse = [c \in Clients |-> {}] /\ asked = [c \in Clients |-> << >>]
  BY DEF Init, ConnectionInit, Group, Sizes, HasGroup
<1>2. << >> \in Seq(Requests) /\ << >> \in Seq(Written) /\ << >> \in Seq(Cids)
      /\ << >> \in Seq(Subscription) /\ 1 \in Cids
  BY EmptySeq, SessionAssumption DEF Cids
<1>3. Types
  BY <1>1, <1>2 DEF Types, Outputs
<1>4. SubscribersConnected
  BY <1>1 DEF SubscribersConnected
<1>5. \A c \in Clients : Quiet(c) /\ Conversation(c)
  BY <1>1 DEF Quiet, Conversation, Talks, Attached
<1> QED BY <1>3, <1>4, <1>5 DEF IInv

(* A step that does nothing. *)
LEMMA StutterIInv == ASSUME IInv, UNCHANGED vars PROVE IInv'
<1>1. Types /\ SubscribersConnected /\ \A c \in Clients : Quiet(c) /\ Conversation(c)
  BY DEF IInv
<1>2. Types'
  BY <1>1 DEF Types, Sizes, HasGroup, vars
<1>3. SubscribersConnected'
  BY <1>1 DEF SubscribersConnected, vars
<1>4. ASSUME NEW c \in Clients PROVE Quiet(c)' /\ Conversation(c)'
  <2>1. Notified(c, out, out')
    BY <1>1, Unnoticed DEF vars
  <2>2. Frame(c)
    BY <2>1 DEF Frame, Attached, SubsOf, vars
  <2> QED BY <1>2, <2>2, Framed
<1> QED BY <1>2, <1>3, <1>4 DEF IInv

(* Every step keeps it. *)
LEMMA NextIInv == IInv /\ [Next]_vars => IInv'
<1> SUFFICES ASSUME IInv, [Next]_vars PROVE IInv'
  OBVIOUS
<1>1. ASSUME NEW c \in Clients, NEW cmd \in CCommands, sock_send_command(c, cmd) PROVE IInv'
  BY <1>1, CommandIInv
<1>2. ASSUME NEW c \in Clients, NEW cmd \in PyCommands, NEW w \in BOOLEAN, Call(c, cmd, w) PROVE IInv'
  BY <1>2, CallIInv
<1>3. ASSUME NEW c \in Clients, connect(c) PROVE IInv'
  BY <1>3, ConnectIInv
<1>4. ASSUME NEW c \in Clients, wait(c) PROVE IInv'
  BY <1>4, WaitIInv
<1>5. ASSUME NEW c \in Clients, close(c) \/ EndOfFile(c) \/ ShortRead(c) PROVE IInv'
  <2>1. GiveUp(c)
    BY <1>5 DEF close, EndOfFile, ShortRead
  <2> QED BY <2>1, GoneIInv DEF GiveUp
<1>6. ASSUME NEW c \in Clients, ReadChunk(c) PROVE IInv'
  BY <1>6, ReadIInv
<1>7. ASSUME NEW c \in Clients, error_cb(c) PROVE IInv'
  BY <1>7, ErrorIInv
<1>8. ASSUME NEW c \in Clients, Serve(c) PROVE IInv'
  BY <1>8, ServeIInv
<1>9. ASSUME NEW c \in Clients, Transmit(c) PROVE IInv'
  BY <1>9, TransmitIInv
<1>10. ASSUME NEW c \in Clients, Accept(c) PROVE IInv'
  BY <1>10, AcceptIInv
<1>11. CASE Event /\ UNCHANGED clientVars
  BY <1>11, EventIInv
<1>12. CASE HeirsEnd /\ UNCHANGED clientVars
  BY <1>12, HeirsEndIInv
<1>13. CASE UNCHANGED vars
  BY <1>13, StutterIInv
<1> QED BY <1>1, <1>2, <1>3, <1>4, <1>5, <1>6, <1>7, <1>8, <1>9, <1>10, <1>11, <1>12, <1>13
       DEF Next

-----------------------------------------------------------------------------
(* Theorems. *)

(* Elements of a sequence. *)
LEMMA Elements == ASSUME NEW E, NEW s \in Seq(E) PROVE \A i \in DOMAIN s : s[i] \in E
BY ElementOfSeq, LenProperties

(* Every variable of the server's connections and of their clients has its *)
(* type, and a dropped connection has neither requests nor output          *)
(* (cmd_server.c drop_client_connection, client.c, ubervisor.py).          *)
THEOREM SessionTypeCorrect == Spec => []TypeOK
<1>1. IInv => TypeOK
  <2> SUFFICES ASSUME IInv PROVE TypeOK
    OBVIOUS
  <2>1. Types /\ \A c \in Clients : Quiet(c)
    BY DEF IInv
  <2>2. ASSUME NEW c \in Clients
        PROVE  /\ \A i \in DOMAIN asked[c] : asked[c][i] \in Cids
               /\ \A i \in DOMAIN InTransit(c) :
                     InTransit(c)[i].field \in Field /\ InTransit(c)[i].cid \in Cids
    <3>1. \A i \in DOMAIN asked[c] : asked[c][i] \in Cids
      <4>1. asked[c] \in Seq(Cids)
        BY <2>1 DEF Types
      <4> QED BY <4>1, Elements
    <3>2. \A i \in DOMAIN InTransit(c) : InTransit(c)[i] \in Written
      BY <2>1, Transit, Elements
    <3>3. \A ch \in Written : ch.field \in Field /\ ch.cid \in Cids
      BY DEF Written, Chunk
    <3> QED BY <3>1, <3>2, <3>3
  <2>3. ASSUME NEW c \in Clients
        PROVE  /\ st[c] \in {"new", "idle", "busy", "closed", "lost"}
               /\ cid[c] \in Cids /\ inuse[c] \subseteq Cids
               /\ c \notin connections => out[c] = << >>
               /\ c \notin Attached => reqs[c] = << >>
    BY <2>1 DEF Types, Quiet
  <2> QED BY <2>1, <2>2, <2>3 DEF Types, TypeOK
<1> QED BY <1>1, InitIInv, NextIInv, PTL DEF Spec

(* A subscription's connection is in client_con_list: drop_client_connection *)
(* removes them together, whoever calls it (s_client never dangles).        *)
THEOREM SubscriptionsHaveConnections == Spec => []SubscribersConnected
<1>1. IInv => SubscribersConnected
  BY DEF IInv
<1> QED BY <1>1, InitIInv, NextIInv, PTL DEF Spec

(* The beginning of a list, as a list of its own. *)
LEMMA Beginning ==
  ASSUME NEW s \in Seq(Cids), NEW t \in Seq(Cids)
  PROVE  SubSeq(s \o t, 1, Len(s)) = s
<1> DEFINE p == s \o t  m == Len(s)  b == SubSeq(p, 1, m)
<1>1. /\ p \in Seq(Cids) /\ Len(p) = m + Len(t) /\ m \in Nat /\ Len(t) \in Nat
      /\ \A i \in 1 .. m : p[i] = s[i]
  BY ConcatElements
<1> HIDE DEF p, m
<1>2. b \in Seq(Cids) /\ Len(b) = m /\ \A i \in 1 .. m : b[i] = p[i]
  <2>1. 1 \in 1 .. Len(p) + 1 /\ m \in 0 .. Len(p)
    BY <1>1
  <2> QED BY <1>1, <2>1, SubSeqProperties
<1> HIDE DEF b
<1>3. b = s
  BY <1>1, <1>2, SeqEqual, LenProperties DEF m
<1> QED BY <1>3 DEF b, m, p

(* Replies to come and requests to handle are what the client has asked, in *)
(* order; after a dropped connection, a beginning of it (send_message and   *)
(* run_server_command of cmd_server.c, _send and _reply of ubervisor.py).    *)
THEOREM EveryRequestGetsItsReply == Spec => []RepliesConserved
<1>1. IInv => RepliesConserved
  <2> SUFFICES ASSUME IInv, NEW c \in Clients, Talks(c), c \notin twice
               PROVE  /\ c \in Attached => Due(InTransit(c), reqs[c]) = asked[c]
                      /\ c \notin Attached =>
                           Due(InTransit(c), reqs[c]) =
                             SubSeq(asked[c], 1, Len(Due(InTransit(c), reqs[c])))
    BY DEF RepliesConserved, Due, CidsOf
  <2>1. Types /\ Quiet(c) /\ Conversation(c)
    BY DEF IInv
  <2> DEFINE q == InTransit(c)  d == Due(q, reqs[c])
  <2>2. q \in Seq(Written)
    BY <2>1, Transit
  <2>3. CASE c \in Attached
    BY <2>1, <2>3 DEF Conversation, Open
  <2>4. CASE c \notin Attached
    <3>1. reqs[c] = << >> /\ reqs[c] \in Seq(Requests)
      BY <2>1, <2>4 DEF Quiet, Types
    <3>2. d \in Seq(Cids)
      BY <2>2, <3>1, DueType
    <3>3. PICK rest \in Seq(Cids) : asked[c] = d \o rest
      BY <2>1, <2>4, <3>1 DEF Conversation, Cut
    <3> HIDE DEF q, d
    <3>4. SubSeq(asked[c], 1, Len(d)) = d
      BY <3>2, <3>3, Beginning
    <3> QED BY <2>4, <3>4 DEF q, d
  <2> QED BY <2>3, <2>4
<1> QED BY <1>1, InitIInv, NextIInv, PTL DEF Spec

(* As many cids as calls, when they differ. *)
LEMMA DistinctCount ==
  ASSUME NEW a \in Seq(Cids), Distinct(a)
  PROVE  Cardinality(Members(a)) = Len(a)
<1> DEFINE D == 1 .. Len(a)  M == Members(a)
<1>1. Len(a) \in Nat /\ DOMAIN a = D
  BY LenProperties
<1>2. a \in [D -> M] /\ (\A x \in M : \E i \in D : a[i] = x)
  <2>1. a \in [D -> Cids]
    BY <1>1, SeqDef
  <2> QED BY <1>1, <2>1 DEF Members
<1>3. \A i, j \in D : a[i] = a[j] => i = j
  BY <1>1 DEF Distinct
<1>4. IsFiniteSet(D) /\ Cardinality(D) = Len(a)
  BY <1>1, FS_Interval
<1> HIDE DEF D, M
<1>5. a \in Surjection(D, M) /\ a \in Injection(D, M)
  BY <1>2, <1>3 DEF Surjection, Injection, IsInjective
<1>6. Cardinality(M) = Cardinality(D)
  BY <1>4, <1>5, FS_Surjection
<1> QED BY <1>4, <1>6 DEF M

(* The cid says what a message is: calls that wait have different ones, and *)
(* a notification comes under the cid of a subscription, after the reply to *)
(* it (_increment_cid and _inuse_cids of ubervisor.py, s_cid of the server). *)
THEOREM CidsSayWhatAMessageIs == Spec => []CidsTellApart
<1>1. IInv => CidsTellApart
  <2> SUFFICES ASSUME IInv, NEW c \in Clients, Talks(c), c \notin twice
               PROVE  /\ Cardinality(Members(asked[c])) = Len(asked[c])
                      /\ \A i \in DOMAIN InTransit(c) : ~IsReply(InTransit(c)[i]) =>
                           /\ InTransit(c)[i].cid \in inuse[c]
                           /\ \/ InTransit(c)[i].cid \notin Members(asked[c])
                              \/ \E j \in 1 .. i - 1 :
                                    /\ IsReply(InTransit(c)[j])
                                    /\ InTransit(c)[j].cid = InTransit(c)[i].cid
    BY DEF CidsTellApart, Members
  <2>1. Types /\ Conversation(c)
    BY DEF IInv
  <2> DEFINE q == InTransit(c)  a == asked[c]  u == inuse[c]
  <2>2. q \in Seq(Written) /\ a \in Seq(Cids)
    BY <2>1, Transit DEF Types
  <2>3. Distinct(a) /\ Explained(q, a, u)
    BY <2>1 DEF Conversation, Open, Cut
  <2> HIDE DEF q, a, u
  <2>4. Cardinality(Members(a)) = Len(a)
    BY <2>2, <2>3, DistinctCount
  <2>5. ASSUME NEW i \in DOMAIN q, NEW j \in 1 .. i - 1, q[j] \in LastChunks PROVE IsReply(q[j])
    <3>1. j \in DOMAIN q
      BY <2>2, LenProperties
    <3> QED BY <2>2, <2>5, <3>1, Elements, LastChunk
  <2>6. \A i \in DOMAIN q : ~IsReply(q[i]) =>
           /\ q[i].cid \in u
           /\ \/ q[i].cid \notin Members(a)
              \/ \E j \in 1 .. i - 1 : IsReply(q[j]) /\ q[j].cid = q[i].cid
    BY <2>3, <2>5 DEF Explained
  <2> QED BY <2>4, <2>6 DEF q, a, u
<1> QED BY <1>1, InitIInv, NextIInv, PTL DEF Spec

(* Chunks are read as they were written, lengths and flags, except that of a *)
(* notification that is longer than a chunk: of a group's configuration, or  *)
(* of the status of a group with a long name (send_notification, read_reply  *)
(* of client.c, wait of ubervisor.py).                                       *)
THEOREM ChunksReadAsWritten == Spec => []ReadAsWritten
<1>1. IInv => ReadAsWritten
  <2> DEFINE GoesOn(q, i) ==
               i < Len(q) /\ IsReply(q[i]) /\ IsReply(q[i + 1]) /\ q[i + 1].cid = q[i].cid
  <2> SUFFICES ASSUME IInv, NEW c \in connections \ twice, Talks(c), NEW i \in DOMAIN InTransit(c),
                      IsReply(InTransit(c)[i]) \/ InTransit(c)[i].of.len <= ChunkSiz
               PROVE  /\ LengthAsRead(c, InTransit(c)[i]) = InTransit(c)[i].size
                      /\ IsExtended(InTransit(c)[i].field) <=> GoesOn(InTransit(c), i)
    BY DEF ReadAsWritten
  <2>1. c \in Clients /\ Types /\ Conversation(c)
    BY DEF IInv, Types
  <2> DEFINE q == InTransit(c)
  <2>2. q \in Seq(Written)
    BY <2>1, Transit
  <2>3. Chained(q) /\ Complete(q)
    BY <2>1 DEF Conversation, Open, Attached
  <2>4. IsReply(q[i]) \/ q[i].of.len <= ChunkSiz
    OBVIOUS
  <2>5. i \in DOMAIN q
    OBVIOUS
  <2> HIDE DEF q
  <2>6. /\ q[i] \in Written /\ Len(q) \in Nat /\ i \in 1 .. Len(q)
    BY <2>2, <2>5, Elements, LenProperties
  <2>7. /\ LengthAsRead(c, q[i]) = q[i].size
        /\ ~IsReply(q[i]) => ~IsExtended(q[i].field)
    BY <2>4, <2>6, Reading
  <2>8. ASSUME i < Len(q) PROVE IsExtended(q[i].field) <=> GoesOn(q, i)
    <3>1. i \in 1 .. Len(q) - 1
      BY <2>6, <2>8
    <3>2. Link(q[i], q[i + 1])
      BY <2>3, <3>1 DEF Chained
    <3> QED BY <2>7, <2>8, <3>2 DEF Link
  <2>9. ASSUME ~(i < Len(q)) PROVE IsExtended(q[i].field) <=> GoesOn(q, i)
    <3>1. i = Len(q) /\ q # << >>
      BY <2>6, <2>9, EmptySeq
    <3>2. ~(IsReply(q[i]) /\ IsExtended(q[i].field))
      BY <2>3, <3>1 DEF Complete
    <3> QED BY <2>7, <2>9, <3>2
  <2> QED BY <2>7, <2>8, <2>9 DEF q
<1> QED BY <1>1, InitIInv, NextIInv, PTL DEF Spec
=============================================================================
