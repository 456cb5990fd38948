-------------------------- MODULE LifecycleProofs --------------------------
(***************************************************************************)
(* The safety properties of Lifecycle for any number of servers, lives,    *)
(* commands, groups and dumps.                                             *)
(*                                                                         *)
(* Socket: all that the rest of the server does to it is to end the        *)
(* process, so the argument is about Startup: a server that goes on to     *)
(* remove the socket has seen everyone who listened when it looked end.    *)
(*                                                                         *)
(* Hash and list: a bucket is the list of groups filtered by the bucket,   *)
(* entry for entry.                                                        *)
(*                                                                         *)
(* Dumps: a file that was opened once has one writer, who has not named it *)
(* before it is closed.                                                    *)
(***************************************************************************)
EXTENDS Lifecycle, SeqFilterProofs, FiniteSetTheorems

\* What a step of Lifecycle is to Startup.
Loaded(s) == /\ pc[s] \in {"load", "restore"}
             /\ UNCHANGED pc \/ \E phase \in {"restore", "serve"} : Go(s, phase)
             /\ heirs' \in {heirs, heirs \cup {Sock(s)}}
             /\ UNCHANGED <<socket, peer, earlier, starts>>

StartupStep == \/ UNCHANGED startupVars
               \/ \E s \in Servers : Start(s) \/ TakeSocket(s) \/ Loaded(s) \/ Stopped(s)
               \/ \E k \in heirs : HeirsEnd(k)

\* Who listened when a server looked is the one it asked, until it has ended;
\* a server that has been refused knows of nobody who listened.
Asked ==
    /\ pc \in [Servers -> Phases]
    /\ starts \in [Servers -> Nat]
    /\ socket \in Sockets \cup {Nobody} /\ heirs \subseteq Sockets
    /\ peer \in [Servers -> Sockets \cup {Nobody}]
    /\ earlier \in [Servers -> SUBSET Servers]
    /\ \A t, u \in Servers : pc[t] = "helo" /\ u \in earlier[t] => ListensOn(u, peer[t])
    /\ \A t \in Servers : pc[t] \in {"stat", "unlink", "bind"} => earlier[t] = {}

(* Every step is one of these to the socket. *)
LEMMA Projection == [Next]_vars => StartupStep
<1> SUFFICES ASSUME [Next]_vars PROVE StartupStep
  OBVIOUS
<1>1. CASE UNCHANGED vars
  BY <1>1 DEF vars, StartupStep
<1>2. CASE Tick \/ Leave
  BY <1>2 DEF Tick, Leave, StartupStep
<1>3. ASSUME NEW s \in Servers, Ended(s) PROVE StartupStep
  BY <1>3 DEF Ended, StartupStep
<1>4. ASSUME NEW s \in Servers, Crash(s) PROVE StartupStep
  BY <1>3, <1>4 DEF Crash
<1>5. ASSUME NEW s \in Servers, Run(s) PROVE StartupStep
  <2>1. CASE Starting(s)
    BY <2>1 DEF Starting, StartupStep
  <2>2. CASE read_dump(s)
    <3>1. \/ Ended(s)
          \/ \E phase \in {"restore", "serve"} :
                Go(s, phase) /\ UNCHANGED takenVars
      BY <2>2 DEF read_dump
    <3>2. pc[s] = "load"
      BY <2>2 DEF read_dump
    <3> QED BY <1>3, <3>1, <3>2 DEF StartupStep, Loaded, takenVars
  <2>3. CASE restore(s)
    <3>1. /\ pc[s] = "restore"
          /\ Go(s, "serve") \/ UNCHANGED pc
          /\ heirs' \in {heirs, heirs \cup {Sock(s)}}
          /\ UNCHANGED <<socket, peer, earlier, starts>>
      BY <2>3 DEF restore
    <3> QED BY <3>1 DEF StartupStep, Loaded
  <2>4. CASE Command(s)
    <3>1. ASSUME NEW n \in Names, c_spwn(s, n) PROVE StartupStep
      BY <3>1 DEF c_spwn, StartupStep
    <3>2. ASSUME NEW n \in Names, c_dele(s, n) PROVE StartupStep
      BY <3>2 DEF c_dele, StartupStep
    <3>3. CASE c_dump(s)
      BY <3>3 DEF c_dump, StartupStep
    <3>4. CASE c_exit(s)
      BY <1>3, <3>4 DEF c_exit, StartupStep
    <3> QED BY <2>4, <3>1, <3>2, <3>3, <3>4 DEF Command
  <2>5. ASSUME EndDump(s) PROVE StartupStep
    BY <1>3, <2>5 DEF EndDump, StartupStep
  <2>6. ASSUME GoOn(s) PROVE StartupStep
    BY <2>6 DEF GoOn, StartupStep
  <2>7. CASE write(s)
    BY <2>5, <2>6, <2>7 DEF write
  <2>8. CASE link_dump(s)
    BY <2>5, <2>6, <2>8 DEF link_dump
  <2>9. CASE unlink_dump(s)
    BY <2>5, <2>9 DEF unlink_dump
  <2> QED BY <1>5, <2>1, <2>2, <2>3, <2>4, <2>7, <2>8, <2>9 DEF Run
<1> QED BY <1>1, <1>2, <1>4, <1>5 DEF Next

(* It holds at the beginning, and every step keeps it. *)
LEMMA InitAsked == Init => Asked
BY DEF Init, StartupInit, Asked, Phases

LEMMA StepAsked == Asked /\ StartupStep => Asked'
<1> SUFFICES ASSUME Asked, StartupStep PROVE Asked'
  OBVIOUS
<1>0. /\ \A t \in Servers : Sock(t) \in Sockets
      /\ \A k : \A t, u \in Servers : ListensOn(t, k) /\ ListensOn(u, k) => t = u
  BY DEF Asked, Sock, Sockets, ListensOn
<1> USE DEF Asked, Phases, Go
<1>1. CASE UNCHANGED startupVars
  BY <1>1 DEF startupVars, ListensOn, Sock, Listening
<1>2. ASSUME NEW s \in Servers, Stopped(s) PROVE Asked'
  <2>1. PICK left \in SUBSET Servers :
          CutOff(({t \in Servers : peer[t] = Sock(s)} \ left) \cup {s})
    BY <1>2 DEF Stopped
  <2>2. /\ pc' = [pc EXCEPT ![s] = "off"] /\ starts' = starts
        /\ earlier' = [t \in Servers |-> IF t = s THEN {} ELSE earlier[t] \ {s}]
        /\ UNCHANGED <<socket, heirs>>
    BY <1>2 DEF Stopped
  <2>3. peer' \in [Servers -> Sockets \cup {Nobody}]
    BY <2>1 DEF CutOff
  <2>4. ASSUME NEW t \in Servers, NEW u \in Servers, pc'[t] = "helo", u \in earlier'[t]
        PROVE  ListensOn(u, peer[t]) /\ u # s /\ t # s
    BY <2>2, <2>4
  <2>5. ASSUME NEW t \in Servers, NEW u \in Servers, ListensOn(u, peer[t]), u # s, t # s
        PROVE  ListensOn(u, peer[t])'
    <3>1. peer[t] # Sock(s)
      BY <2>5 DEF ListensOn, Sock
    <3>2. peer'[t] = peer[t]
      BY <2>1, <2>5, <3>1 DEF CutOff
    <3> QED BY <2>2, <2>5, <3>2 DEF ListensOn, Sock, Listening
  <2>6. \A t, u \in Servers : pc'[t] = "helo" /\ u \in earlier'[t] => ListensOn(u, peer[t])'
    BY <2>4, <2>5
  <2> QED BY <2>2, <2>3, <2>6
<1>3. ASSUME NEW s \in Servers, Start(s) PROVE Asked'
  <2>1. \A u \in Servers : Listening(u) => u # s /\ Listening(u)' /\ Sock(u)' = Sock(u)
    BY <1>3 DEF Start, Listening, Sock
  <2>2. \A t \in Servers : pc'[t] \in {"helo", "stat", "unlink", "bind"} => pc[t] = pc'[t]
    BY <1>3 DEF Start
  <2>3. starts' \in [Servers -> Nat] /\ pc' \in [Servers -> Phases]
        /\ UNCHANGED <<socket, heirs, peer, earlier>>
    BY <1>3 DEF Start
  <2> QED BY <2>1, <2>2, <2>3 DEF ListensOn
<1>4. ASSUME NEW s \in Servers, Loaded(s) PROVE Asked'
  <2>1. \A u \in Servers : Listening(u) => Listening(u)'
    BY <1>4 DEF Loaded, Listening
  <2>2. \A t \in Servers : pc'[t] \in {"helo", "stat", "unlink", "bind"} => pc[t] = pc'[t]
    BY <1>4 DEF Loaded
  <2>3. /\ pc' \in [Servers -> Phases] /\ UNCHANGED <<socket, starts, peer, earlier>>
        /\ heirs' \subseteq Sockets
    BY <1>0, <1>4 DEF Loaded
  <2> QED BY <2>1, <2>2, <2>3 DEF ListensOn, Sock
<1>5. ASSUME NEW s \in Servers, NEW phase \in {"stat", "unlink", "bind", "listen", "load"},
             Go(s, phase), UNCHANGED <<heirs, starts, peer>>, ~Listening(s),
             socket' \in Sockets \cup {Nobody},
             \/ earlier' = earlier /\ earlier[s] = {}
             \/ earlier' = [earlier EXCEPT ![s] = {}]
             \/ phase = "load" /\ earlier' = earlier
      PROVE  Asked'
  <2>1. \A u \in Servers : Listening(u) => Listening(u)'
    BY <1>5 DEF Listening
  <2>2. \A t \in Servers \ {s} : pc'[t] = pc[t] /\ earlier'[t] = earlier[t]
    BY <1>5
  <2>3. pc'[s] = phase /\ phase # "helo" /\ (phase \in {"stat", "unlink", "bind"} => earlier'[s] = {})
    BY <1>5
  <2>4. pc' \in [Servers -> Phases] /\ earlier' \in [Servers -> SUBSET Servers]
    BY <1>5
  <2> QED BY <1>5, <2>1, <2>2, <2>3, <2>4 DEF ListensOn, Sock
<1>6. ASSUME NEW s \in Servers, TakeSocket(s) PROVE Asked'
  <2>1. CASE sock_connect(s)
    <3> DEFINE here == {t \in Servers : ListensOn(t, socket)}
    <3>1. /\ pc[s] = "connect" /\ UNCHANGED <<socket, heirs, starts>>
          /\ earlier' = [earlier EXCEPT ![s] = here]
          /\ \/ Go(s, "helo") /\ peer' = [peer EXCEPT ![s] = socket]
             \/ Go(s, "stat") /\ peer' = peer /\ here = {}
      BY <2>1 DEF sock_connect
    <3>2. \A u \in Servers : Listening(u) => u # s /\ Listening(u)'
      BY <3>1 DEF Listening
    <3>3. \A t \in Servers \ {s} : pc'[t] = pc[t] /\ earlier'[t] = earlier[t] /\ peer'[t] = peer[t]
      BY <3>1
    <3>4. /\ pc' \in [Servers -> Phases] /\ peer' \in [Servers -> Sockets \cup {Nobody}]
          /\ earlier' \in [Servers -> SUBSET Servers] /\ earlier'[s] = here
      BY <3>1
    <3>5. \A t, u \in Servers : pc'[t] = "helo" /\ u \in earlier'[t] => ListensOn(u, peer[t])'
      <4>1. ASSUME NEW u \in Servers, pc'[s] = "helo", u \in here PROVE ListensOn(u, peer[s])'
        BY <3>1, <3>2, <4>1 DEF ListensOn, Sock
      <4>2. ASSUME NEW t \in Servers \ {s}, NEW u \in Servers, pc'[t] = "helo", u \in earlier'[t]
            PROVE  ListensOn(u, peer[t])'
        BY <3>1, <3>2, <3>3, <4>2 DEF ListensOn, Sock
      <4> QED BY <3>4, <4>1, <4>2
    <3>6. \A t \in Servers : pc'[t] \in {"stat", "unlink", "bind"} => earlier'[t] = {}
      BY <3>1, <3>3, <3>4
    <3> QED BY <3>1, <3>4, <3>5, <3>6
  <2>2. CASE sock_send_helo(s)
    <3>1. CASE Stopped(s)
      BY <1>2, <3>1
    <3>2. CASE HeloRefused(s) /\ Go(s, "stat") /\ UNCHANGED <<socket, heirs, peer, earlier, starts>>
      <4>1. earlier[s] = {}
        BY <2>2, <3>2, <1>0, ServersAssumption DEF sock_send_helo, HeloRefused, ListensOn
      <4>2. ~Listening(s)
        BY <2>2 DEF sock_send_helo, Listening
      <4> QED BY <3>2, <4>1, <4>2, <1>5
    <3> QED BY <2>2, <3>1, <3>2 DEF sock_send_helo
  <2>3. CASE stat(s)
    BY <1>5, <2>3 DEF stat, Listening
  <2>4. CASE unlink(s)
    BY <1>2, <1>5, <2>4 DEF unlink, Listening
  <2>5. CASE bind(s)
    BY <1>0, <1>2, <1>5, <2>5 DEF bind, Listening
  <2>6. CASE listen(s)
    BY <1>5, <2>6 DEF listen, Listening
  <2> QED BY <1>6, <2>1, <2>2, <2>3, <2>4, <2>5, <2>6 DEF TakeSocket
<1>7. ASSUME NEW k \in heirs, HeirsEnd(k) PROVE Asked'
  <2>1. /\ UNCHANGED <<pc, socket, earlier, starts>> /\ heirs' \subseteq Sockets
        /\ peer' \in [Servers -> Sockets \cup {Nobody}]
    BY <1>7 DEF HeirsEnd, CutOff
  <2>2. \A t, u \in Servers : ListensOn(u, peer[t]) => peer'[t] = peer[t]
    BY <1>7 DEF HeirsEnd, CutOff
  <2> QED BY <2>1, <2>2 DEF ListensOn, Sock, Listening
<1> QED BY <1>1, <1>2, <1>3, <1>4, <1>6, <1>7 DEF StartupStep

(* A server that unlinks the socket takes it from nobody who listened when *)
(* it connected, whatever servers start, answer late and crash meanwhile.  *)
(* (It can take it from one that began to listen afterwards.)              *)
THEOREM NeverStolen == Spec => NotStolen
<1>1. Asked /\ [Next]_vars => Asked'
  BY Projection, StepAsked
<1>2. Asked => \A s, t \in Servers :
                  pc[t] = "unlink" /\ pc'[t] = "bind" /\ ListensOn(s, socket)
                     => s \notin earlier[t]
  BY DEF Asked
<1> QED BY <1>1, <1>2, InitAsked, PTL DEF Spec, NotStolen

-----------------------------------------------------------------------------
(* The hash and the list. *)

Group == [id : Groups, name : Names]
Row   == [key : Names, address : Groups, value : Groups]

InBucket(b) == [id : Groups, name : {n \in Names : Bucket(n) = b}]
Named(n)    == [id : Groups, name : {n}]
KeyIs(n)    == [key : {n}, address : Groups, value : Groups]

\* The entries that lead to the groups of a list, and their addresses.
RowOf(g) == Entry(g.name, g.id, g.id)
Rows(l)  == [i \in 1 .. Len(l) |-> RowOf(l[i])]
Ids(l)   == [i \in 1 .. Len(l) |-> l[i].id]

\* The fields of an entry.
LEMMA RowFields == \A g : RowOf(g).key = g.name /\ RowOf(g).address = g.id /\ RowOf(g).value = g.id
BY DEF RowOf, Entry

\* Groups at different addresses.
Distinct(l) == \A i, j \in DOMAIN l : l[i].id = l[j].id => i = j

(* Names have buckets. *)
LEMMA HasBucket == \A n \in Names : Bucket(n) \in Buckets
<1> SUFFICES ASSUME NEW n \in Names PROVE Bucket(n) \in Buckets
  OBVIOUS
<1>1. HashOf[n] \in Nat /\ HashSize \in Nat \ {0}
  BY HashAssumption
<1> QED BY <1>1 DEF Bucket, Buckets

(* Elements of a sequence. *)
LEMMA Elements == ASSUME NEW E, NEW s \in Seq(E) PROVE \A i \in DOMAIN s : s[i] \in E
BY ElementOfSeq, LenProperties

(* Lists and their entries. *)
LEMMA RowsType ==
  ASSUME NEW l \in Seq(Group)
  PROVE  /\ Rows(l) \in Seq(Row) /\ Len(Rows(l)) = Len(l) /\ DOMAIN Rows(l) = 1 .. Len(l)
         /\ Len(l) \in Nat /\ DOMAIN l = 1 .. Len(l)
         /\ \A i \in 1 .. Len(l) : Rows(l)[i] = RowOf(l[i])
         /\ Ids(l) \in Seq(Groups) /\ Len(Ids(l)) = Len(l) /\ DOMAIN Ids(l) = 1 .. Len(l)
         /\ \A i \in 1 .. Len(l) : Ids(l)[i] = l[i].id
<1>1. Len(l) \in Nat /\ DOMAIN l = 1 .. Len(l)
  BY LenProperties
<1>2. \A i \in 1 .. Len(l) : l[i] \in Group
  BY <1>1, Elements
<1>3. Rows(l) \in [1 .. Len(l) -> Row]
  BY <1>2 DEF Rows, RowOf, Entry, Row, Group
<1>4. Ids(l) \in [1 .. Len(l) -> Groups]
  BY <1>2 DEF Ids, Group
<1>5. Rows(l) \in Seq(Row) /\ Len(Rows(l)) = Len(l) /\ DOMAIN Rows(l) = 1 .. Len(l)
  BY <1>1, <1>3, FunctionIsSeq
<1>6. Ids(l) \in Seq(Groups) /\ Len(Ids(l)) = Len(l) /\ DOMAIN Ids(l) = 1 .. Len(l)
  BY <1>1, <1>4, FunctionIsSeq
<1> QED BY <1>1, <1>5, <1>6 DEF Rows, Ids

(* q is s and then t. *)
Cat(E, q, s, t) ==
    /\ q \in Seq(E) /\ s \in Seq(E) /\ t \in Seq(E)
    /\ Len(q) \in Nat /\ Len(s) \in Nat /\ Len(t) \in Nat /\ Len(q) = Len(s) + Len(t)
    /\ \A i \in 1 .. Len(s) : q[i] = s[i]
    /\ \A i \in 1 .. Len(t) : q[Len(s) + i] = t[i]

(* It is the concatenation. *)
LEMMA CatOf ==
  ASSUME NEW E, NEW s \in Seq(E), NEW t \in Seq(E)
  PROVE  Cat(E, s \o t, s, t)
<1>1. s \o t \in Seq(E) /\ Len(s \o t) = Len(s) + Len(t)
  BY ConcatProperties
<1>2. Len(s) \in Nat /\ Len(t) \in Nat /\ Len(s) + Len(t) \in Nat
  BY LenProperties
<1>3. \A i \in 1 .. Len(s) : (s \o t)[i] = s[i]
  BY <1>2, ConcatProperties
<1>4. ASSUME NEW i \in 1 .. Len(t) PROVE (s \o t)[Len(s) + i] = t[i]
  <2> DEFINE k == Len(s) + i
  <2>1. k \in 1 .. Len(s) + Len(t) /\ ~(k <= Len(s)) /\ k - Len(s) = i
    BY <1>2
  <2> HIDE DEF k
  <2>2. (s \o t)[k] = t[k - Len(s)]
    BY <2>1, ConcatProperties
  <2> QED BY <2>1, <2>2 DEF k
<1> QED BY <1>1, <1>2, <1>3, <1>4 DEF Cat

(* There is only one such list. *)
LEMMA CatUnique ==
  ASSUME NEW E, NEW s, NEW t, NEW p, NEW q, Cat(E, p, s, t), Cat(E, q, s, t)
  PROVE  p = q
<1> DEFINE m == Len(s)  n == Len(t)
<1>1. /\ p \in Seq(E) /\ q \in Seq(E) /\ m \in Nat /\ n \in Nat
      /\ Len(p) = m + n /\ Len(q) = m + n
      /\ \A i \in 1 .. m : p[i] = q[i]
      /\ \A i \in 1 .. n : p[m + i] = q[m + i]
  BY DEF Cat
<1> HIDE DEF m, n
<1>2. ASSUME NEW i \in 1 .. m + n PROVE p[i] = q[i]
  <2>1. CASE i <= m
    BY <1>1, <2>1
  <2>2. CASE i > m
    <3> DEFINE j == i - m
    <3>1. j \in 1 .. n /\ i = m + j
      BY <1>1, <2>2
    <3> HIDE DEF j
    <3> QED BY <1>1, <3>1
  <2> QED BY <1>1, <2>1, <2>2
<1> QED BY <1>1, <1>2, SeqEqual

LEMMA CatIs ==
  ASSUME NEW E, NEW s, NEW t, NEW q, Cat(E, q, s, t)
  PROVE  q = s \o t
<1>1. s \in Seq(E) /\ t \in Seq(E)
  BY DEF Cat
<1> QED BY <1>1, CatOf, CatUnique

(* Nothing and t is t. *)
LEMMA CatEmpty ==
  ASSUME NEW E, NEW q, NEW t, Cat(E, q, << >>, t)
  PROVE  q = t
<1>1. t \in Seq(E) /\ q = << >> \o t
  BY CatIs DEF Cat
<1> QED BY <1>1, ConcatEmptySeq

(* Filtering a list is filtering its parts. *)
LEMMA CatFilter ==
  ASSUME NEW E, NEW q, NEW s, NEW t, NEW S, Cat(E, q, s, t)
  PROVE  Cat(E, Filter(q, S), Filter(s, S), Filter(t, S))
<1>1. s \in Seq(E) /\ t \in Seq(E) /\ q = s \o t
  BY CatIs DEF Cat
<1>2. Filter(s \o t, S) = Filter(s, S) \o Filter(t, S)
  BY ONLY <1>1, FilterConcat
<1>3. Filter(s, S) \in Seq(E) /\ Filter(t, S) \in Seq(E)
  <2>1. Filter(s, S) \in Seq(E \cap S) /\ Filter(t, S) \in Seq(E \cap S) /\ E \cap S \subseteq E
    BY <1>1, FilterType
  <2> QED BY <2>1, SeqMonotonic
<1>4. Cat(E, Filter(s, S) \o Filter(t, S), Filter(s, S), Filter(t, S))
  BY <1>3, CatOf
<1> QED BY <1>1, <1>2, <1>4

(* The entries of two lists after each other. *)
LEMMA CatRows ==
  ASSUME NEW q, NEW s, NEW t, Cat(Group, q, s, t)
  PROVE  Cat(Row, Rows(q), Rows(s), Rows(t))
<1> DEFINE m == Len(s)  n == Len(t)
<1>1. /\ q \in Seq(Group) /\ s \in Seq(Group) /\ t \in Seq(Group)
      /\ m \in Nat /\ n \in Nat /\ Len(q) = m + n
      /\ \A i \in 1 .. m : i \in 1 .. Len(q) /\ q[i] = s[i]
      /\ \A i \in 1 .. n : m + i \in 1 .. Len(q) /\ q[m + i] = t[i]
  BY DEF Cat
<1> DEFINE A == Rows(s)  B == Rows(t)  C == Rows(q)
<1>2. /\ A \in Seq(Row) /\ B \in Seq(Row) /\ C \in Seq(Row)
      /\ Len(A) = m /\ Len(B) = n /\ Len(C) = m + n
      /\ \A i \in 1 .. m : A[i] = RowOf(s[i])
      /\ \A i \in 1 .. n : B[i] = RowOf(t[i])
      /\ \A i \in 1 .. Len(q) : C[i] = RowOf(q[i])
  BY <1>1, RowsType
<1> HIDE DEF A, B, C, m, n
<1>3. \A i \in 1 .. m : C[i] = A[i]
  BY <1>1, <1>2
<1>4. ASSUME NEW i \in 1 .. n PROVE C[m + i] = B[i]
  <2> DEFINE k == m + i
  <2>1. k \in 1 .. Len(q) /\ q[k] = t[i]
    BY <1>1
  <2> HIDE DEF k
  <2>2. C[k] = B[i]
    BY <1>2, <2>1
  <2> QED BY <2>2 DEF k
<1>5. Cat(Row, C, A, B)
  BY <1>1, <1>2, <1>3, <1>4 DEF Cat
<1> QED BY <1>5 DEF A, B, C

(* The entries of a longer list. *)
LEMMA RowsAppend ==
  ASSUME NEW s \in Seq(Group), NEW g \in Group
  PROVE  Rows(Append(s, g)) = Append(Rows(s), RowOf(g))
<1> DEFINE h == <<g>>  q == s \o h  x == <<RowOf(g)>>  r == Rows(s)
<1>1. h \in Seq(Group) /\ Append(s, g) = q
  BY AppendIsConcat
<1>2. Rows(h) = x
  BY DEF Rows
<1>3. r \in Seq(Row) /\ RowOf(g) \in Row
  BY RowsType DEF Row, RowOf, Entry, Group
<1>4. Append(r, RowOf(g)) = r \o x
  <2> HIDE DEF r
  <2> QED BY <1>3, AppendIsConcat
<1> HIDE DEF h, x, r
<1>5. Cat(Row, Rows(q), Rows(s), Rows(h))
  BY <1>1, CatOf, CatRows
<1>6. Rows(q) = Rows(s) \o Rows(h)
  BY <1>5, CatIs
<1> QED BY <1>1, <1>2, <1>4, <1>6 DEF r

(* All elements are kept. *)
LEMMA FilterAll ==
  ASSUME NEW E, NEW s \in Seq(E), NEW S, \A i \in DOMAIN s : s[i] \in S
  PROVE  Filter(s, S) = s
<1> DEFINE D == E \cap S
           T == {q \in Seq(D) : Filter(q, S) = q}
<1>1. << >> \in T
  BY FilterEmpty, EmptySeq
<1>2. ASSUME NEW q \in Seq(D), NEW e \in D, q \in T PROVE Append(q, e) \in T
  <2>1. Filter(Append(q, e), S) = AppendIf(Filter(q, S), e, S)
    BY FilterAppend
  <2>2. Append(q, e) \in Seq(D)
    BY AppendProperties
  <2> QED BY <1>2, <2>1, <2>2 DEF AppendIf
<1>3. s \in Seq(D)
  <2>1. \A i \in DOMAIN s : s[i] \in D
    BY Elements
  <2>2. s \in [1 .. Len(s) -> D] /\ Len(s) \in Nat
    BY <2>1, LenProperties
  <2> QED BY <2>2, SeqDef
<1> HIDE DEF T, D
<1>4. \A q \in Seq(D) : q \in T
  BY <1>1, <1>2, SeqInduction
<1> QED BY <1>3, <1>4 DEF T

(* Filtering again, for what is a part of it. *)
LEMMA FilterTwice ==
  ASSUME NEW E, NEW s \in Seq(E), NEW S, NEW R, E \cap R \subseteq S
  PROVE  Filter(Filter(s, S), R) = Filter(s, R)
<1> DEFINE T == {q \in Seq(E) : Filter(Filter(q, S), R) = Filter(q, R)}
<1>1. << >> \in T
  BY FilterEmpty, EmptySeq
<1>2. ASSUME NEW q \in Seq(E), NEW e \in E, q \in T PROVE Append(q, e) \in T
  <2>1. /\ Filter(Append(q, e), S) = AppendIf(Filter(q, S), e, S)
        /\ Filter(Append(q, e), R) = AppendIf(Filter(q, R), e, R)
    BY FilterAppend
  <2>2. Append(q, e) \in Seq(E) /\ Filter(q, S) \in Seq(E)
    <3>1. Filter(q, S) \in Seq(E \cap S) /\ E \cap S \subseteq E
      BY FilterType
    <3> QED BY <3>1, AppendProperties, SeqMonotonic
  <2>3. Filter(Append(Filter(q, S), e), R) = AppendIf(Filter(Filter(q, S), R), e, R)
    BY <2>2, FilterAppend
  <2>4. CASE e \in S
    BY <1>2, <2>1, <2>2, <2>3, <2>4 DEF AppendIf
  <2>5. CASE e \notin S
    BY <1>2, <2>1, <2>2, <2>5 DEF AppendIf
  <2> QED BY <2>4, <2>5
<1> HIDE DEF T
<1>3. \A q \in Seq(E) : q \in T
  BY <1>1, <1>2, SeqInduction
<1> QED BY <1>3 DEF T

(* The entries with a key are those of the groups with the name. *)
LEMMA RowsFilter ==
  ASSUME NEW l \in Seq(Group), NEW n \in Names
  PROVE  Filter(Rows(l), KeyIs(n)) = Rows(Filter(l, Named(n)))
<1> DEFINE T == {q \in Seq(Group) : Filter(Rows(q), KeyIs(n)) = Rows(Filter(q, Named(n)))}
<1>1. << >> \in T
  <2>1. Rows(<< >>) = << >>
    BY DEF Rows
  <2> QED BY <2>1, FilterEmpty, EmptySeq
<1>2. ASSUME NEW q \in Seq(Group), NEW g \in Group, q \in T PROVE Append(q, g) \in T
  <2>1. Append(q, g) \in Seq(Group) /\ Rows(Append(q, g)) = Append(Rows(q), RowOf(g))
    BY AppendProperties, RowsAppend
  <2>2. Rows(q) \in Seq(Row) /\ RowOf(g) \in Row
    BY RowsType DEF Row, RowOf, Entry, Group
  <2>3. Filter(Append(Rows(q), RowOf(g)), KeyIs(n)) = AppendIf(Filter(Rows(q), KeyIs(n)), RowOf(g), KeyIs(n))
    BY <2>2, FilterAppend
  <2>4. Filter(Append(q, g), Named(n)) = AppendIf(Filter(q, Named(n)), g, Named(n))
    BY FilterAppend
  <2>5. RowOf(g) \in KeyIs(n) <=> g \in Named(n)
    BY DEF RowOf, Entry, KeyIs, Named, Group
  <2>6. Filter(q, Named(n)) \in Seq(Group)
    <3>1. Filter(q, Named(n)) \in Seq(Group \cap Named(n)) /\ Group \cap Named(n) \subseteq Group
      BY FilterType
    <3> QED BY <3>1, SeqMonotonic
  <2>7. Rows(Append(Filter(q, Named(n)), g)) = Append(Rows(Filter(q, Named(n))), RowOf(g))
    BY <2>6, RowsAppend
  <2>8. CASE g \in Named(n)
    BY <1>2, <2>1, <2>3, <2>4, <2>5, <2>7, <2>8 DEF AppendIf
  <2>9. CASE g \notin Named(n)
    BY <1>2, <2>1, <2>3, <2>4, <2>5, <2>9 DEF AppendIf
  <2> QED BY <2>8, <2>9
<1> HIDE DEF T
<1>3. \A q \in Seq(Group) : q \in T
  BY <1>1, <1>2, SeqInduction
<1> QED BY <1>3 DEF T

(* l is p, then g, then t, and r is what is left without g. *)
Splits(E, l, p, g, t, r) ==
    /\ g \in E /\ Cat(E, r, p, t)
    /\ \E h, q : h[1] = g /\ Len(h) = 1 /\ Cat(E, q, h, t) /\ Cat(E, l, p, q)

(* What that says of the elements. *)
LEMMA SplitsElements ==
  ASSUME NEW E, NEW l, NEW p, NEW g, NEW t, NEW r, Splits(E, l, p, g, t, r)
  PROVE  /\ l \in Seq(E) /\ p \in Seq(E) /\ t \in Seq(E) /\ r \in Seq(E) /\ g \in E
         /\ Len(l) = Len(p) + 1 + Len(t) /\ Len(r) = Len(p) + Len(t)
         /\ Len(p) \in Nat /\ Len(t) \in Nat
         /\ \A i \in 1 .. Len(p) : l[i] = p[i] /\ r[i] = p[i]
         /\ l[Len(p) + 1] = g
         /\ \A i \in 1 .. Len(t) : l[Len(p) + 1 + i] = t[i] /\ r[Len(p) + i] = t[i]
<1>1. PICK h, q : h[1] = g /\ Len(h) = 1 /\ Cat(E, q, h, t) /\ Cat(E, l, p, q)
  BY DEF Splits
<1> DEFINE m == Len(p)  n == Len(t)
<1>2. /\ l \in Seq(E) /\ p \in Seq(E) /\ t \in Seq(E) /\ r \in Seq(E) /\ g \in E
      /\ m \in Nat /\ n \in Nat /\ Len(l) = m + Len(q) /\ Len(q) = 1 + n /\ Len(r) = m + n
      /\ \A i \in 1 .. m : l[i] = p[i] /\ r[i] = p[i]
      /\ \A i \in 1 .. n : r[m + i] = t[i]
      /\ \A i \in 1 .. 1 + n : l[m + i] = q[i]
      /\ q[1] = g /\ \A i \in 1 .. n : q[1 + i] = t[i]
  BY <1>1 DEF Cat, Splits
<1> HIDE DEF m, n
<1>3. l[m + 1] = g
  BY <1>2
<1>4. ASSUME NEW i \in 1 .. n PROVE l[m + 1 + i] = t[i]
  <2> DEFINE k == 1 + i
  <2>1. k \in 1 .. 1 + n /\ q[k] = t[i] /\ m + 1 + i = m + k
    BY <1>2
  <2> HIDE DEF k
  <2> QED BY <1>2, <2>1
<1>5. Len(l) = m + 1 + n
  BY <1>2
<1> QED BY <1>2, <1>3, <1>4, <1>5 DEF m, n

LEMMA SplitsFrom ==
  ASSUME NEW E, NEW l \in Seq(E), NEW p \in Seq(E), NEW g \in E, NEW t \in Seq(E), NEW r,
         Cat(E, r, p, t), Len(l) = Len(p) + 1 + Len(t),
         \A i \in 1 .. Len(p) : l[i] = p[i], l[Len(p) + 1] = g,
         \A i \in 1 .. Len(t) : l[Len(p) + 1 + i] = t[i]
  PROVE  Splits(E, l, p, g, t, r)
<1> DEFINE h == <<g>>  q == h \o t  m == Len(p)  n == Len(t)
<1>1. h \in Seq(E) /\ h[1] = g /\ Len(h) = 1
  OBVIOUS
<1> HIDE DEF h
<1>2. Cat(E, q, h, t)
  BY <1>1, CatOf
<1> HIDE DEF q
<1>3. /\ q \in Seq(E) /\ Len(q) = 1 + n /\ n \in Nat
      /\ q[1] = g /\ \A i \in 1 .. n : q[1 + i] = t[i]
  BY <1>1, <1>2 DEF Cat
<1>4. m \in Nat /\ Len(l) = m + Len(q) /\ \A i \in 1 .. m : l[i] = p[i]
  BY <1>3, LenProperties
<1>5. l[m + 1] = g /\ \A i \in 1 .. n : l[m + 1 + i] = t[i]
  OBVIOUS
<1> HIDE DEF m, n
<1>6. ASSUME NEW i \in 1 .. Len(q) PROVE l[m + i] = q[i]
  <2>1. CASE i = 1
    BY <1>3, <1>5, <2>1
  <2>2. CASE i # 1
    <3> DEFINE j == i - 1
    <3>1. j \in 1 .. n /\ i = 1 + j /\ m + i = m + 1 + j
      BY <1>3, <1>4, <2>2
    <3> HIDE DEF j
    <3> QED BY <1>3, <1>5, <3>1
  <2> QED BY <2>1, <2>2
<1>7. Cat(E, l, p, q)
  <2>1. Len(q) \in Nat /\ Len(l) \in Nat
    BY <1>3, LenProperties
  <2> QED BY <1>3, <1>4, <1>6, <2>1 DEF Cat, m
<1> QED BY <1>1, <1>2, <1>7 DEF Splits

(* A list can be split at each of its elements. *)
LEMMA SplitAt ==
  ASSUME NEW E, NEW s \in Seq(E), NEW k \in 1 .. Len(s)
  PROVE  \E p, t, r : Splits(E, s, p, s[k], t, r) /\ Len(p) = k - 1 /\ r = RemoveAt(s, k)
<1> DEFINE p == SubSeq(s, 1, k - 1)  t == SubSeq(s, k + 1, Len(s))  n == Len(s)  r == p \o t  g == s[k]
<1>1. /\ n \in Nat /\ k \in Nat /\ DOMAIN s = 1 .. n /\ k - 1 \in Nat /\ k <= n /\ k >= 1
      /\ \A i \in 1 .. n : s[i] \in E
  BY LenProperties, Elements
<1>2. p \in Seq(E) /\ Len(p) = k - 1 /\ \A i \in 1 .. k - 1 : p[i] = s[i]
  <2>1. \A i \in 1 .. k - 1 : s[i] \in E
    BY <1>1
  <2>2. /\ p \in Seq(E) /\ Len(p) = IF 1 <= k - 1 THEN (k - 1) - 1 + 1 ELSE 0
        /\ \A i \in 1 .. (k - 1) - 1 + 1 : p[i] = s[1 + i - 1]
    BY <1>1, <2>1, SubSeqProperties
  <2> HIDE DEF p
  <2>3. Len(p) = k - 1
    BY <1>1, <2>2
  <2>4. ASSUME NEW i \in 1 .. k - 1 PROVE p[i] = s[i]
    <3>1. i \in 1 .. (k - 1) - 1 + 1 /\ 1 + i - 1 = i
      BY <1>1
    <3> QED BY <2>2, <3>1
  <2> QED BY <2>2, <2>3, <2>4
<1>3. t \in Seq(E) /\ Len(t) = n - k /\ \A i \in 1 .. n - k : t[i] = s[k + i]
  <2>1. \A i \in k + 1 .. n : s[i] \in E
    BY <1>1
  <2>2. /\ t \in Seq(E) /\ Len(t) = IF k + 1 <= n THEN n - (k + 1) + 1 ELSE 0
        /\ \A i \in 1 .. n - (k + 1) + 1 : t[i] = s[(k + 1) + i - 1]
    BY <1>1, <2>1, SubSeqProperties
  <2> HIDE DEF t, n
  <2>3. Len(t) = n - k
    BY <1>1, <2>2
  <2>4. ASSUME NEW i \in 1 .. n - k PROVE t[i] = s[k + i]
    <3>1. i \in 1 .. n - (k + 1) + 1 /\ (k + 1) + i - 1 = k + i
      BY <1>1
    <3> QED BY <2>2, <3>1
  <2> QED BY <2>2, <2>3, <2>4
<1>9. r = RemoveAt(s, k)
  BY DEF RemoveAt
<1> HIDE DEF p, t
<1>4. Cat(E, r, p, t)
  BY <1>2, <1>3, CatOf
<1>5. g \in E /\ Len(p) + 1 = k /\ n = Len(p) + 1 + Len(t)
  BY <1>1, <1>2, <1>3
<1> HIDE DEF r, n
<1>6. (\A i \in 1 .. Len(p) : s[i] = p[i]) /\ (\A i \in 1 .. Len(t) : s[Len(p) + 1 + i] = t[i])
  <2>1. Len(p) + 1 = k /\ Len(t) = n - k /\ Len(p) = k - 1
    BY <1>2, <1>3, <1>5
  <2> QED BY <1>2, <1>3, <2>1
<1>7. s[Len(p) + 1] = g
  BY <1>5
<1> HIDE DEF g
<1>8. Splits(E, s, p, g, t, r)
  BY <1>2, <1>3, <1>4, <1>5, <1>6, <1>7, SplitsFrom DEF n
<1> QED BY <1>2, <1>8, <1>9 DEF g

(* The first of the elements that satisfy a test. *)
LEMMA FirstId ==
  ASSUME NEW l \in Seq(Group), NEW a, NEW k \in 1 .. Len(l), l[k].id = a,
         \A j \in 1 .. k - 1 : l[j].id # a
  PROVE  FirstIndex(l, LAMBDA x : x.id = a) = k
<1>1. Len(l) \in Nat
  BY LenProperties
<1> DEFINE P(i) == /\ i <= Len(l) => l[i].id = a
                   /\ \A j \in 1 .. i - 1 : ~(l[j].id = a)
<1>2. k \in 1 .. Len(l) + 1 /\ P(k)
  BY <1>1
<1>3. ASSUME NEW i \in 1 .. Len(l) + 1, P(i) PROVE i = k
  BY <1>1, <1>3
<1>4. FirstIndex(l, LAMBDA x : x.id = a) = CHOOSE i \in 1 .. Len(l) + 1 : P(i)
  BY DEF FirstIndex
<1> HIDE DEF P
<1> QED BY <1>2, <1>3, <1>4

LEMMA FirstAddress ==
  ASSUME NEW l \in Seq(Row), NEW a, NEW k \in 1 .. Len(l), l[k].address = a,
         \A j \in 1 .. k - 1 : l[j].address # a
  PROVE  FirstIndex(l, LAMBDA e : e.address = a) = k
<1>1. Len(l) \in Nat
  BY LenProperties
<1> DEFINE P(i) == /\ i <= Len(l) => l[i].address = a
                   /\ \A j \in 1 .. i - 1 : ~(l[j].address = a)
<1>2. k \in 1 .. Len(l) + 1 /\ P(k)
  BY <1>1
<1>3. ASSUME NEW i \in 1 .. Len(l) + 1, P(i) PROVE i = k
  BY <1>1, <1>3
<1>4. FirstIndex(l, LAMBDA e : e.address = a) = CHOOSE i \in 1 .. Len(l) + 1 : P(i)
  BY DEF FirstIndex
<1> HIDE DEF P
<1> QED BY <1>2, <1>3, <1>4

LEMMA FirstKey ==
  ASSUME NEW l \in Seq(Row), NEW n
  PROVE  LET k == FirstIndex(l, LAMBDA e : e.key = n)
         IN  /\ k \in 1 .. Len(l) + 1 /\ (k <= Len(l) => l[k].key = n)
             /\ \A j \in 1 .. k - 1 : l[j].key # n
<1>1. Len(l) \in Nat
  BY LenProperties
<1> DEFINE P(i) == /\ i <= Len(l) => l[i].key = n
                   /\ \A j \in 1 .. i - 1 : ~(l[j].key = n)
           k == FirstIndex(l, LAMBDA e : e.key = n)
<1>2. k = CHOOSE i \in 1 .. Len(l) + 1 : P(i)
  BY DEF FirstIndex
<1> DEFINE T == {i \in 1 .. Len(l) : l[i].key = n}
<1>3. CASE T = {}
  <2>1. Len(l) + 1 \in 1 .. Len(l) + 1 /\ P(Len(l) + 1)
    BY <1>1, <1>3
  <2>2. k \in 1 .. Len(l) + 1 /\ P(k)
    <3> HIDE DEF P, k
    <3> QED BY <1>2, <2>1
  <2> QED BY <2>2
<1>4. CASE T # {}
  <2>1. T \in SUBSET Nat
    BY <1>1
  <2>2. PICK x \in T : \A y \in T : ~(y < x)
    <3> HIDE DEF T
    <3> QED BY <1>4, <2>1, Least
  <2>3. x \in 1 .. Len(l) + 1 /\ P(x)
    BY <1>1, <2>2
  <2>4. k \in 1 .. Len(l) + 1 /\ P(k)
    <3> HIDE DEF P, k
    <3> QED BY <1>2, <2>3
  <2> QED BY <2>4
<1> QED BY <1>3, <1>4

(* A hash that agrees with a list: the entries of a bucket lead to the groups *)
(* of the list whose names are in the bucket, in the order of the list.    *)
HashOfList(l) == [b \in Buckets |-> Rows(Filter(l, InBucket(b)))]

(* Parts of a list of groups. *)
LEMMA FilterGroups ==
  ASSUME NEW l \in Seq(Group), NEW S
  PROVE  Filter(l, S) \in Seq(Group) /\ Filter(l, S) \in Seq(Group \cap S)
<1>1. Filter(l, S) \in Seq(Group \cap S) /\ Group \cap S \subseteq Group
  BY FilterType
<1> QED BY <1>1, SeqMonotonic

(* What a list of one group leaves. *)
LEMMA FilterOne ==
  ASSUME NEW h \in Seq(Group), Len(h) = 1, NEW S
  PROVE  /\ h[1] \in S => Filter(h, S) = h
         /\ h[1] \notin S => Filter(h, S) = << >>
<1>1. DOMAIN h = 1 .. 1
  BY LenProperties
<1>2. h[1] \in S => Filter(h, S) = h
  BY <1>1, FilterAll
<1>3. h[1] \notin S => Filter(h, S) = << >>
  BY <1>1, FilterNone
<1> QED BY <1>2, <1>3

(* Both parts filtered, with the element in the middle or without it. *)
LEMMA SplitsFilter ==
  ASSUME NEW l, NEW p, NEW g, NEW t, NEW r, NEW S, Splits(Group, l, p, g, t, r), g \in S
  PROVE  Splits(Group, Filter(l, S), Filter(p, S), g, Filter(t, S), Filter(r, S))
<1>1. PICK h, q : h[1] = g /\ Len(h) = 1 /\ Cat(Group, q, h, t) /\ Cat(Group, l, p, q)
  BY DEF Splits
<1>2. Cat(Group, r, p, t) /\ g \in Group
  BY DEF Splits
<1>3. /\ Cat(Group, Filter(q, S), Filter(h, S), Filter(t, S))
      /\ Cat(Group, Filter(l, S), Filter(p, S), Filter(q, S))
      /\ Cat(Group, Filter(r, S), Filter(p, S), Filter(t, S))
  BY <1>1, <1>2, CatFilter
<1>4. Filter(h, S) = h
  <2>1. h \in Seq(Group) /\ Len(h) = 1 /\ h[1] \in S
    BY <1>1 DEF Cat
  <2> QED BY <2>1, FilterOne
<1> QED BY <1>1, <1>2, <1>3, <1>4 DEF Splits

LEMMA SplitsDrop ==
  ASSUME NEW l, NEW p, NEW g, NEW t, NEW r, NEW S, Splits(Group, l, p, g, t, r), g \notin S
  PROVE  Filter(l, S) = Filter(r, S)
<1>1. PICK h, q : h[1] = g /\ Len(h) = 1 /\ Cat(Group, q, h, t) /\ Cat(Group, l, p, q)
  BY DEF Splits
<1>2. Cat(Group, r, p, t)
  BY DEF Splits
<1> DEFINE fl == Filter(l, S)  fp == Filter(p, S)  ft == Filter(t, S)  fr == Filter(r, S)
           fh == Filter(h, S)  fq == Filter(q, S)
<1>3. Cat(Group, fq, fh, ft) /\ Cat(Group, fl, fp, fq) /\ Cat(Group, fr, fp, ft)
  BY <1>1, <1>2, CatFilter
<1>4. fh = << >>
  <2>1. h \in Seq(Group) /\ Len(h) = 1 /\ h[1] \notin S
    BY <1>1 DEF Cat
  <2> QED BY <2>1, FilterOne
<1> HIDE DEF fl, fp, ft, fr, fh, fq
<1>5. fq = ft
  BY <1>3, <1>4, CatEmpty
<1>6. fl = fr
  BY <1>3, <1>5, CatUnique
<1> QED BY <1>6 DEF fl, fr

(* The entries of both parts. *)
LEMMA SplitsRows ==
  ASSUME NEW l, NEW p, NEW g, NEW t, NEW r, Splits(Group, l, p, g, t, r)
  PROVE  Splits(Row, Rows(l), Rows(p), RowOf(g), Rows(t), Rows(r))
<1>1. PICK h, q : h[1] = g /\ Len(h) = 1 /\ Cat(Group, q, h, t) /\ Cat(Group, l, p, q)
  BY DEF Splits
<1>2. Cat(Group, r, p, t) /\ g \in Group
  BY DEF Splits
<1>3. Cat(Row, Rows(q), Rows(h), Rows(t)) /\ Cat(Row, Rows(l), Rows(p), Rows(q)) /\ Cat(Row, Rows(r), Rows(p), Rows(t))
  BY <1>1, <1>2, CatRows
<1>4. Rows(h)[1] = RowOf(g) /\ Len(Rows(h)) = 1
  <2>1. h \in Seq(Group) /\ 1 \in 1 .. Len(h)
    BY <1>1 DEF Cat
  <2> QED BY <1>1, <2>1, RowsType
<1>5. RowOf(g) \in Row
  BY <1>2 DEF RowOf, Entry, Row, Group
<1> QED BY <1>3, <1>4, <1>5 DEF Splits

(* What is left is the list with the element removed. *)
LEMMA SplitsRemove ==
  ASSUME NEW E, NEW l, NEW p, NEW g, NEW t, NEW r, Splits(E, l, p, g, t, r)
  PROVE  RemoveAt(l, Len(p) + 1) = r
<1> DEFINE k == Len(p) + 1
<1>1. /\ l \in Seq(E) /\ k \in 1 .. Len(l) /\ Len(p) = k - 1
      /\ p \in Seq(E) /\ t \in Seq(E)
      /\ Len(p) \in Nat /\ Len(t) \in Nat /\ Len(l) = Len(p) + 1 + Len(t)
      /\ \A i \in 1 .. Len(p) : l[i] = p[i]
      /\ \A i \in 1 .. Len(t) : l[k + i] = t[i]
  BY SplitsElements
<1> HIDE DEF k
<1>2. PICK a, b, c : Splits(E, l, a, l[k], b, c) /\ Len(a) = k - 1 /\ c = RemoveAt(l, k)
  BY <1>1, SplitAt
<1>3. /\ a \in Seq(E) /\ b \in Seq(E)
      /\ Len(a) \in Nat /\ Len(b) \in Nat /\ Len(l) = Len(a) + 1 + Len(b)
      /\ \A i \in 1 .. Len(a) : l[i] = a[i]
      /\ \A i \in 1 .. Len(b) : l[Len(a) + 1 + i] = b[i]
  <2> DEFINE x == l[k]
  <2>1. Splits(E, l, a, x, b, c)
    BY <1>2
  <2> HIDE DEF x
  <2> QED BY ONLY <2>1, SplitsElements
<1>4. Len(a) = Len(p) /\ Len(b) = Len(t) /\ Len(a) + 1 = k
  BY <1>1, <1>2, <1>3 DEF k
<1>5. a = p
  BY <1>1, <1>3, <1>4, SeqEqual
<1>6. b = t
  <2>1. \A i \in 1 .. Len(t) : b[i] = t[i]
    BY <1>1, <1>3, <1>4
  <2> QED BY <1>1, <1>3, <1>4, <2>1, SeqEqual
<1>7. c = r
  <2>1. Cat(E, c, a, b) /\ Cat(E, r, p, t)
    BY <1>2 DEF Splits
  <2> QED BY <1>5, <1>6, <2>1, CatUnique
<1> QED BY <1>2, <1>7 DEF k

(* A list split at its beginning. *)
LEMMA SplitsFirst ==
  ASSUME NEW E, NEW l, NEW g, NEW t, NEW r, Splits(E, l, << >>, g, t, r)
  PROVE  l # << >> /\ Head(l) = g /\ Tail(l) = r /\ r = t
<1>1. Cat(E, r, << >>, t)
  BY DEF Splits
<1>2. r = t
  BY <1>1, CatEmpty
<1>3. /\ l \in Seq(E) /\ t \in Seq(E) /\ g \in E
      /\ Len(l) = Len(<< >>) + 1 + Len(t) /\ Len(t) \in Nat
      /\ l[Len(<< >>) + 1] = g
      /\ \A i \in 1 .. Len(t) : l[Len(<< >>) + 1 + i] = t[i]
  <2> DEFINE p == << >>
  <2>1. Splits(E, l, p, g, t, r)
    OBVIOUS
  <2> HIDE DEF p
  <2>2. /\ l \in Seq(E) /\ t \in Seq(E) /\ g \in E
        /\ Len(l) = Len(p) + 1 + Len(t) /\ Len(t) \in Nat
        /\ l[Len(p) + 1] = g
        /\ \A i \in 1 .. Len(t) : l[Len(p) + 1 + i] = t[i]
    BY <2>1, SplitsElements
  <2> QED BY <2>2 DEF p
<1>4. /\ Len(l) = 1 + Len(t) /\ l[1] = g
      /\ \A i \in 1 .. Len(t) : l[1 + i] = t[i]
  BY <1>3
<1>5. l # << >>
  BY <1>3, <1>4
<1>6. Head(l) = g /\ Tail(l) \in Seq(E) /\ Len(Tail(l)) = Len(t)
      /\ \A i \in 1 .. Len(t) : Tail(l)[i] = l[i + 1]
  BY <1>3, <1>4, <1>5, HeadTailProperties
<1>7. Tail(l) = t
  <2>1. ASSUME NEW i \in 1 .. Len(t) PROVE Tail(l)[i] = t[i]
    <3>1. i + 1 = 1 + i
      OBVIOUS
    <3> QED BY <1>4, <1>6, <3>1
  <2> QED BY <1>3, <1>6, <2>1, SeqEqual
<1> QED BY <1>2, <1>5, <1>6, <1>7

(* An empty list and a new hash. *)
LEMMA EmptyTable == uvstrhash_new = HashOfList(<< >>)
<1>1. Rows(<< >>) = << >>
  BY DEF Rows
<1>2. \A b \in Buckets : Filter(<< >>, InBucket(b)) = << >>
  BY FilterEmpty
<1> QED BY <1>1, <1>2 DEF uvstrhash_new, HashOfList

(* child_config_insert keeps the hash in agreement with the list. *)
LEMMA InsertAgrees ==
  ASSUME NEW l \in Seq(Group), NEW g \in Group
  PROVE  /\ <<g>> \o l \in Seq(Group)
         /\ child_config_insert(l, HashOfList(l), g)
              = [list |-> <<g>> \o l, hash |-> HashOfList(<<g>> \o l)]
<1> DEFINE h == <<g>>
<1>1. h \in Seq(Group) /\ h \o l \in Seq(Group) /\ Len(h) = 1 /\ h[1] = g
  <2>1. h \in Seq(Group) /\ Len(h) = 1 /\ h[1] = g
    OBVIOUS
  <2> HIDE DEF h
  <2> QED BY <2>1, ConcatProperties
<1>2. /\ Bucket(g.name) \in Buckets /\ g.name \in Names /\ g.id \in Groups
      /\ \A b \in Buckets : g \in InBucket(b) <=> b = Bucket(g.name)
  BY HasBucket DEF Group, InBucket
<1> DEFINE H == HashOfList(l)
           r == <<Entry(g.name, g.id, g.id)>>
<1>3. H = [b \in Buckets |-> Rows(Filter(l, InBucket(b)))]
  BY DEF HashOfList
<1>4. r = Rows(h)
  BY DEF Rows, RowOf
<1> HIDE DEF H, h, r
<1>5. ASSUME NEW b \in Buckets
      PROVE  Rows(Filter(h \o l, InBucket(b))) = IF b = Bucket(g.name) THEN r \o H[b] ELSE H[b]
  <2> DEFINE f == Filter(l, InBucket(b))
  <2>1. /\ f \in Seq(Group) /\ Filter(h \o l, InBucket(b)) = Filter(h, InBucket(b)) \o f
        /\ H[b] = Rows(f)
    <3>1. Filter(h \o l, InBucket(b)) = Filter(h, InBucket(b)) \o f
      BY ONLY <1>1, FilterConcat, l \in Seq(Group)
    <3> QED BY <1>3, <3>1, FilterGroups
  <2> HIDE DEF f
  <2>2. CASE b = Bucket(g.name)
    <3>1. Filter(h, InBucket(b)) = h
      BY <1>1, <1>2, <2>2, FilterOne
    <3>2. Rows(h \o f) = Rows(h) \o Rows(f)
      <4>1. Cat(Row, Rows(h \o f), Rows(h), Rows(f))
        BY <1>1, <2>1, CatOf, CatRows
      <4> QED BY <4>1, CatIs
    <3> QED BY <1>4, <2>1, <2>2, <3>1, <3>2
  <2>3. CASE b # Bucket(g.name)
    <3>1. Filter(h, InBucket(b)) = << >>
      BY <1>1, <1>2, <2>3, FilterOne
    <3>2. << >> \o f = f
      BY <2>1, ConcatEmptySeq
    <3> QED BY <2>1, <2>3, <3>1, <3>2
  <2> QED BY <2>2, <2>3
<1>6. HashOfList(h \o l) = [b \in Buckets |-> IF b = Bucket(g.name) THEN r \o H[b] ELSE H[b]]
  BY <1>5 DEF HashOfList
<1>7. [H EXCEPT ![Bucket(g.name)] = r \o @]
        = [b \in Buckets |-> IF b = Bucket(g.name) THEN r \o H[b] ELSE H[b]]
  BY <1>3
<1>8. child_config_insert(l, H, g) = [list |-> h \o l, hash |-> [H EXCEPT ![Bucket(g.name)] = r \o @]]
  BY DEF child_config_insert, uvstrhash_insert, h, r
<1> QED BY <1>1, <1>6, <1>7, <1>8 DEF h, H

(* uvstrhash_find returns the first group of the list that has the name. *)
LEMMA FindAgrees ==
  ASSUME NEW l \in Seq(Group), NEW n \in Names
  PROVE  LET of == Filter(l, Named(n))
         IN  /\ of = << >> => child_config_find_by_name(HashOfList(l), n) = NoGroup
             /\ of # << >> => child_config_find_by_name(HashOfList(l), n) = of[1].id
<1> DEFINE b == Bucket(n)
           f == Filter(l, InBucket(b))
           r == Rows(f)
           k == FirstIndex(r, LAMBDA e : e.key = n)
           of == Filter(l, Named(n))
<1>1. b \in Buckets
  BY HasBucket
<1>2. f \in Seq(Group)
  BY FilterGroups
<1>3. of = Filter(f, Named(n))
  <2>1. Group \cap Named(n) \subseteq InBucket(b)
    BY DEF Named, InBucket, Group
  <2> HIDE DEF b
  <2> QED BY <2>1, FilterTwice
<1>4. child_config_find_by_name(HashOfList(l), n) = IF k <= Len(r) THEN r[k].value ELSE NoGroup
  <2>1. HashOfList(l)[Bucket(n)] = r
    BY <1>1 DEF HashOfList
  <2> HIDE DEF r
  <2> QED BY <2>1 DEF child_config_find_by_name, uvstrhash_find
<1> HIDE DEF f
<1>5. /\ r \in Seq(Row) /\ Len(r) = Len(f) /\ Len(f) \in Nat /\ DOMAIN f = 1 .. Len(f)
      /\ \A i \in 1 .. Len(f) : r[i] = RowOf(f[i])
  BY <1>2, RowsType
<1> HIDE DEF r
<1>6. /\ k \in 1 .. Len(r) + 1 /\ (k <= Len(r) => r[k].key = n)
      /\ \A j \in 1 .. k - 1 : r[j].key # n
  BY <1>5, FirstKey
<1> HIDE DEF k
<1>7. \A i \in 1 .. Len(f) : f[i] \in Group /\ r[i].key = f[i].name /\ r[i].value = f[i].id
  <2>1. \A i \in 1 .. Len(f) : f[i] \in Group
    BY <1>2, <1>5, Elements
  <2>2. \A i \in 1 .. Len(f) : r[i] = RowOf(f[i])
    BY <1>5
  <2> QED BY <2>1, <2>2, RowFields
<1>8. CASE k <= Len(r)
  <2>1. k \in 1 .. Len(f) /\ f[k] \in Group /\ f[k].name = n /\ f[k] \in Named(n)
    BY <1>5, <1>6, <1>7, <1>8 DEF Group, Named
  <2> DEFINE g == f[k]
  <2>2. PICK p, t, x : Splits(Group, f, p, g, t, x) /\ Len(p) = k - 1
    BY <1>2, <2>1, SplitAt
  <2>3. g \in Group /\ g \in Named(n) /\ g = f[k]
    BY <2>1
  <2> HIDE DEF g
  <2>4. Filter(p, Named(n)) = << >>
    <3>1. p \in Seq(Group) /\ DOMAIN p = 1 .. k - 1 /\ \A i \in 1 .. Len(p) : p[i] = f[i]
      <4>1. p \in Seq(Group) /\ \A i \in 1 .. Len(p) : p[i] = f[i]
        BY <2>2, SplitsElements
      <4> QED BY <2>2, <4>1, LenProperties
    <3>2. ASSUME NEW i \in 1 .. k - 1 PROVE p[i] \notin Named(n)
      <4>1. i \in 1 .. Len(f) /\ p[i] = f[i] /\ r[i].key # n
        BY <1>5, <1>6, <2>1, <2>2, <3>1
      <4> QED BY <1>7, <4>1 DEF Named
    <3> QED BY <3>1, <3>2, FilterNone
  <2>5. Splits(Group, of, << >>, g, Filter(t, Named(n)), Filter(x, Named(n)))
    <3>1. Splits(Group, Filter(f, Named(n)), Filter(p, Named(n)), g, Filter(t, Named(n)), Filter(x, Named(n)))
      BY <2>2, <2>3, SplitsFilter
    <3> QED BY <1>3, <2>4, <3>1
  <2>6. of # << >> /\ of[1] = g
    <3> HIDE DEF of
    <3>1. of # << >> /\ Head(of) = g
      BY <2>5, SplitsFirst
    <3> QED BY <3>1
  <2> HIDE DEF of
  <2>7. r[k].value = g.id
    BY <1>7, <2>1, <2>3
  <2> QED BY <1>4, <1>8, <2>6, <2>7 DEF of
<1>9. CASE ~(k <= Len(r))
  <2>1. \A i \in DOMAIN f : f[i] \notin Named(n)
    <3>1. ASSUME NEW i \in 1 .. Len(f) PROVE f[i] \notin Named(n)
      <4>1. i \in 1 .. k - 1
        BY <1>5, <1>6, <1>9
      <4> QED BY <1>6, <1>7, <4>1 DEF Named
    <3> QED BY <1>5, <3>1
  <2>2. of = << >>
    <3>1. Filter(f, Named(n)) = << >>
      BY <1>2, <2>1, FilterNone
    <3> QED BY <1>3, <3>1
  <2> QED BY <1>4, <1>9, <2>2
<1> QED BY <1>8, <1>9

(* The elements that are left. *)
LEMMA SplitsRest ==
  ASSUME NEW l, NEW p, NEW g, NEW t, NEW r, Splits(Group, l, p, g, t, r), Distinct(l)
  PROVE  /\ Distinct(r) /\ r \in Seq(Group) /\ Len(r) + 1 = Len(l) /\ Len(r) \in Nat
         /\ \A i \in DOMAIN r : r[i].id # g.id
         /\ \A i \in DOMAIN p : p[i].id # g.id
<1> DEFINE m == Len(p)  n == Len(t)
<1>1. /\ l \in Seq(Group) /\ p \in Seq(Group) /\ t \in Seq(Group) /\ r \in Seq(Group)
      /\ Len(l) = m + 1 + n /\ Len(r) = m + n
      /\ m \in Nat /\ n \in Nat
      /\ \A i \in 1 .. m : l[i] = p[i] /\ r[i] = p[i]
      /\ l[m + 1] = g
      /\ \A i \in 1 .. n : l[m + 1 + i] = t[i] /\ r[m + i] = t[i]
  BY SplitsElements
<1>2. DOMAIN l = 1 .. m + 1 + n /\ DOMAIN r = 1 .. m + n /\ DOMAIN p = 1 .. m
  BY <1>1, LenProperties
<1>3. \A i, j \in 1 .. m + 1 + n : l[i].id = l[j].id => i = j
  BY <1>2 DEF Distinct
<1> HIDE DEF m, n
<1> DEFINE Place(i) == IF i <= m THEN i ELSE i + 1
<1>4. ASSUME NEW i \in 1 .. m + n PROVE r[i] = l[Place(i)]
  <2>1. CASE i <= m
    BY <1>1, <2>1
  <2>2. CASE i > m
    <3> DEFINE j == i - m
    <3>1. j \in 1 .. n /\ i = m + j /\ Place(i) = m + 1 + j
      BY <1>1, <2>2
    <3> HIDE DEF j, Place
    <3> QED BY <1>1, <3>1
  <2> QED BY <1>1, <2>1, <2>2
<1>5. \A i \in 1 .. m + n : Place(i) \in 1 .. m + 1 + n /\ Place(i) # m + 1
  BY <1>1
<1>6. \A i, j \in 1 .. m + n : Place(i) = Place(j) => i = j
  BY <1>1
<1>7. \A i \in 1 .. m : i \in 1 .. m + 1 + n /\ i # m + 1
  BY <1>1
<1>8. m + 1 \in 1 .. m + 1 + n
  BY <1>1
<1> HIDE DEF Place
<1>9. Distinct(r)
  BY <1>2, <1>3, <1>4, <1>5, <1>6 DEF Distinct
<1>10. \A i \in DOMAIN r : r[i].id # g.id
  BY <1>1, <1>2, <1>3, <1>4, <1>5, <1>8
<1>11. \A i \in DOMAIN p : p[i].id # g.id
  BY <1>1, <1>2, <1>3, <1>7, <1>8
<1>12. Len(r) + 1 = Len(l) /\ Len(r) \in Nat
  BY <1>1
<1> QED BY <1>1, <1>9, <1>10, <1>11, <1>12

(* child_config_remove keeps the hash in agreement with the list. *)
LEMMA RemoveAgrees ==
  ASSUME NEW l, NEW p, NEW g, NEW t, NEW r, Splits(Group, l, p, g, t, r), Distinct(l)
  PROVE  child_config_remove(l, HashOfList(l), g.id) = [list |-> r, hash |-> HashOfList(r)]
<1>1. /\ Distinct(r) /\ r \in Seq(Group)
      /\ \A i \in DOMAIN r : r[i].id # g.id
      /\ \A i \in DOMAIN p : p[i].id # g.id
  BY SplitsRest
<1>2. /\ l \in Seq(Group) /\ p \in Seq(Group) /\ g \in Group
      /\ Len(p) \in Nat /\ Len(t) \in Nat /\ Len(l) = Len(p) + 1 + Len(t)
      /\ l[Len(p) + 1] = g
      /\ \A i \in 1 .. Len(p) : l[i] = p[i]
      /\ DOMAIN p = 1 .. Len(p)
  BY SplitsElements, LenProperties
<1>3. Without(l, g.id) = r
  <2> DEFINE S == [id : Groups \ {g.id}, name : Names]
  <2>1. g \notin S
    OBVIOUS
  <2>2. \A i \in DOMAIN r : r[i] \in S
    <3>1. \A i \in DOMAIN r : r[i] \in Group
      BY <1>1, Elements
    <3> QED BY <1>1, <3>1 DEF Group
  <2> HIDE DEF S
  <2>3. Filter(l, S) = Filter(r, S)
    BY <2>1, SplitsDrop
  <2>4. Filter(r, S) = r
    BY <1>1, <2>2, FilterAll
  <2> QED BY <2>3, <2>4 DEF Without, S
<1>4. l[FirstIndex(l, LAMBDA x : x.id = g.id)] = g
  <2> DEFINE k == Len(p) + 1
  <2>1. k \in 1 .. Len(l) /\ l[k].id = g.id /\ \A j \in 1 .. k - 1 : l[j].id # g.id
    <3>1. k \in 1 .. Len(l) /\ l[k].id = g.id
      BY <1>2
    <3>2. ASSUME NEW j \in 1 .. k - 1 PROVE l[j].id # g.id
      <4>1. j \in DOMAIN p /\ l[j] = p[j]
        BY <1>2
      <4> QED BY <1>1, <4>1
    <3> QED BY <3>1, <3>2
  <2> HIDE DEF k
  <2>2. FirstIndex(l, LAMBDA x : x.id = g.id) = k
    BY <1>2, <2>1, FirstId
  <2> QED BY <1>2, <2>2 DEF k
<1> DEFINE b == Bucket(g.name)
           fl == Filter(l, InBucket(b))  fp == Filter(p, InBucket(b))
           ft == Filter(t, InBucket(b))  fr == Filter(r, InBucket(b))
           H == HashOfList(l)
<1>5. /\ b \in Buckets /\ \A c \in Buckets : g \in InBucket(c) <=> c = b
  BY <1>2, HasBucket DEF Group, InBucket
<1>6. H \in [Buckets -> {Rows(Filter(l, InBucket(c))) : c \in Buckets}]
      /\ \A c \in Buckets : H[c] = Rows(Filter(l, InBucket(c)))
  BY DEF HashOfList
<1> HIDE DEF b, H
<1>7. Splits(Group, fl, fp, g, ft, fr)
  BY <1>5, SplitsFilter
<1>8. \A i \in DOMAIN fp : fp[i].id # g.id
  BY <1>1, <1>2, FilterSource
<1> HIDE DEF fl, fp, ft, fr
<1>9. Splits(Row, Rows(fl), Rows(fp), RowOf(g), Rows(ft), Rows(fr))
  BY <1>7, SplitsRows
<1> DEFINE k == Len(Rows(fp)) + 1
<1>10. k \in 1 .. Len(Rows(fl)) /\ FirstIndex(Rows(fl), LAMBDA e : e.address = g.id) = k
  <2> DEFINE A == Rows(fl)  P == Rows(fp)  G == RowOf(g)
  <2>1. Splits(Row, A, P, G, Rows(ft), Rows(fr)) /\ G.address = g.id
    BY <1>9, RowFields
  <2>2. fp \in Seq(Group)
    BY <1>7, SplitsElements
  <2>3. \A i \in 1 .. Len(P) : P[i].address # g.id
    <3>1. /\ Len(P) = Len(fp) /\ DOMAIN fp = 1 .. Len(fp)
          /\ \A i \in 1 .. Len(fp) : P[i] = RowOf(fp[i])
      BY <2>2, RowsType
    <3> QED BY <1>8, <3>1, RowFields
  <2> HIDE DEF A, P, G
  <2>4. /\ A \in Seq(Row) /\ Len(P) \in Nat /\ Len(Rows(ft)) \in Nat
        /\ Len(A) = Len(P) + 1 + Len(Rows(ft))
        /\ A[Len(P) + 1] = G /\ \A i \in 1 .. Len(P) : A[i] = P[i]
    BY <2>1, SplitsElements
  <2> DEFINE kk == Len(P) + 1
  <2>5. kk \in 1 .. Len(A) /\ A[kk].address = g.id /\ \A j \in 1 .. kk - 1 : A[j].address # g.id
    BY <2>1, <2>3, <2>4
  <2> HIDE DEF kk
  <2>6. FirstIndex(A, LAMBDA e : e.address = g.id) = kk
    BY <2>4, <2>5, FirstAddress
  <2> QED BY <2>5, <2>6 DEF kk, A, P
<1>11. RemoveAt(Rows(fl), k) = Rows(fr)
  BY <1>9, SplitsRemove
<1>12. H[b] = Rows(fl)
  BY <1>5, <1>6 DEF fl
<1>13. uvstrhash_remove(H, g.name, g.id) = [H EXCEPT ![b] = Rows(fr)]
  <2> HIDE DEF k
  <2>1. Len(Rows(fl)) \in Nat
    <3>1. Rows(fl) \in Seq(Row)
      BY <1>9, SplitsElements
    <3> QED BY <3>1, LenProperties
  <2>2. k <= Len(Rows(fl))
    BY <1>10, <2>1
  <2> QED BY <1>10, <1>11, <1>12, <2>2 DEF uvstrhash_remove, b
<1>14. [H EXCEPT ![b] = Rows(fr)] = HashOfList(r)
  <2>1. \A c \in Buckets : IF c = b THEN Rows(fr) = Rows(Filter(r, InBucket(c)))
                                    ELSE Filter(l, InBucket(c)) = Filter(r, InBucket(c))
    <3>1. ASSUME NEW c \in Buckets, c # b PROVE Filter(l, InBucket(c)) = Filter(r, InBucket(c))
      <4> DEFINE S == InBucket(c)
      <4>1. g \notin S
        BY <1>5, <3>1
      <4> HIDE DEF S
      <4>2. Filter(l, S) = Filter(r, S)
        BY <4>1, SplitsDrop
      <4> QED BY <4>2 DEF S
    <3>2. Rows(fr) = Rows(Filter(r, InBucket(b)))
      BY DEF fr
    <3> QED BY <3>1, <3>2
  <2> QED BY <1>5, <1>6, <2>1 DEF HashOfList
<1> QED BY <1>3, <1>4, <1>13, <1>14 DEF child_config_remove, H

(* The group that is found under a name, and what the others are then. *)
LEMMA FoundSplits ==
  ASSUME NEW l \in Seq(Group), Distinct(l), NEW n \in Names, Filter(l, Named(n)) # << >>
  PROVE  \E p, g, t, r :
            /\ Splits(Group, l, p, g, t, r) /\ Filter(l, Named(n))[1] = g
            /\ Filter(r, Named(n)) = Tail(Filter(l, Named(n)))
            /\ \A m \in Names \ {n} : Filter(r, Named(m)) = Filter(l, Named(m))
<1> DEFINE of == Filter(l, Named(n))
<1>1. of \in Seq(Group) /\ of \in Seq(Group \cap Named(n)) /\ of # << >>
  BY FilterGroups
<1>2. \A i \in DOMAIN of : \E j \in DOMAIN l : of[i] = l[j]
  BY FilterSource
<1> HIDE DEF of
<1>3. 1 \in DOMAIN of /\ of[1] \in Named(n)
  <2>1. 1 \in DOMAIN of
    BY <1>1, EmptySeq, LenProperties
  <2> QED BY <1>1, <2>1, Elements
<1>4. PICK k \in DOMAIN l : of[1] = l[k]
  BY <1>2, <1>3
<1>5. k \in 1 .. Len(l) /\ Len(l) \in Nat /\ DOMAIN l = 1 .. Len(l)
  BY LenProperties
<1> DEFINE g == l[k]
<1>6. PICK p, t, r : Splits(Group, l, p, g, t, r) /\ Len(p) = k - 1
  BY <1>5, SplitAt
<1>7. g \in Named(n) /\ g = l[k] /\ of[1] = g
  BY <1>3, <1>4
<1> HIDE DEF g
<1>8. Splits(Group, of, Filter(p, Named(n)), g, Filter(t, Named(n)), Filter(r, Named(n)))
  BY <1>6, <1>7, SplitsFilter DEF of
<1>9. Filter(p, Named(n)) = << >>
  <2> DEFINE fp == Filter(p, Named(n))
  <2>1. p \in Seq(Group) /\ \A i \in 1 .. Len(p) : l[i] = p[i]
    BY <1>6, SplitsElements
  <2>2. \A i \in DOMAIN fp : \E j \in DOMAIN p : fp[i] = p[j]
    BY <2>1, FilterSource
  <2>3. DOMAIN p = 1 .. k - 1
    BY <1>6, <2>1, LenProperties
  <2>4. Splits(Group, of, fp, g, Filter(t, Named(n)), Filter(r, Named(n)))
    BY <1>8
  <2> HIDE DEF fp
  <2>5. fp \in Seq(Group) /\ \A i \in 1 .. Len(fp) : of[i] = fp[i]
    BY <2>4, SplitsElements
  <2>6. SUFFICES ASSUME fp # << >> PROVE FALSE
    BY DEF fp
  <2>7. 1 \in DOMAIN fp /\ 1 \in 1 .. Len(fp)
    BY <2>5, <2>6, EmptySeq, LenProperties
  <2>8. PICK j \in DOMAIN p : fp[1] = p[j]
    BY <2>2, <2>7
  <2>9. j \in DOMAIN l /\ j # k /\ l[j] = l[k]
    BY <1>5, <1>6, <1>7, <2>1, <2>3, <2>5, <2>7, <2>8
  <2> QED BY <2>9 DEF Distinct
<1>10. Filter(r, Named(n)) = Tail(of)
  BY <1>8, <1>9, SplitsFirst
<1>11. ASSUME NEW m \in Names \ {n} PROVE Filter(r, Named(m)) = Filter(l, Named(m))
  <2> DEFINE S == Named(m)
  <2>1. g \notin S
    BY <1>7 DEF Named
  <2>2. Splits(Group, l, p, g, t, r)
    BY <1>6
  <2> HIDE DEF S
  <2>3. Filter(l, S) = Filter(r, S)
    BY <2>1, <2>2, SplitsDrop
  <2> QED BY <2>3 DEF S
<1> QED BY <1>6, <1>7, <1>10, <1>11 DEF of

-----------------------------------------------------------------------------
(* Hashes and lists in all servers. *)

ShortNames == {q \in Seq(Names) : Len(q) <= Cardinality(Groups)}

\* The phases in which a server has groups.
Late == {"restore", "serve"}

\* Hash and list agree; there is an address for each group that is yet to be
\* inserted.
Tables ==
    /\ list \in [Servers -> Seq(Group)] /\ todo \in [Servers -> Seq(Names)]
    /\ hash = [s \in Servers |-> HashOfList(list[s])]
    /\ \A s \in Servers :
          /\ Distinct(list[s])
          /\ Len(list[s]) + Len(todo[s]) <= Cardinality(Groups)
          /\ pc[s] \notin Late => list[s] = << >>
          /\ pc[s] # "restore" => todo[s] = << >>

Others(s) == \A t \in Servers \ {s} : pc'[t] = pc[t]

\* What a step of Lifecycle is to the hashes and lists.
Stays == /\ UNCHANGED <<list, hash, todo>>
         /\ \A t \in Servers : /\ pc[t] \in Late => pc'[t] \in Late \/ list[t] = << >>
                               /\ pc[t] = "restore" => pc'[t] = "restore" \/ todo[t] = << >>

Empties(s) == /\ list' = [list EXCEPT ![s] = << >>]
              /\ hash' = [hash EXCEPT ![s] = uvstrhash_new]
              /\ todo' = [todo EXCEPT ![s] = << >>]
              /\ Others(s)

Loads(s) == /\ UNCHANGED <<list, hash>> /\ list[s] = << >>
            /\ \E q \in ShortNames : todo' = [todo EXCEPT ![s] = q]
            /\ pc'[s] = "restore" /\ Others(s)

Inserts(s) == /\ \E n \in Names : Insert(s, n)
              /\ pc[s] \in Late /\ UNCHANGED pc
              /\ \/ UNCHANGED todo /\ todo[s] = << >> /\ Len(list[s]) < Cardinality(Groups)
                 \/ todo[s] # << >> /\ todo' = [todo EXCEPT ![s] = Tail(@)]

Deletes(s) == /\ pc[s] \in Late /\ UNCHANGED <<pc, todo>>
              /\ \E n \in Names : 
                    LET cc == child_config_find_by_name(hash[s], n)
                        new == child_config_remove(list[s], hash[s], cc)
                    IN  /\ cc # NoGroup
                        /\ list' = [list EXCEPT ![s] = new.list]
                        /\ hash' = [hash EXCEPT ![s] = new.hash]

TableStep == Stays \/ \E s \in Servers : Empties(s) \/ Loads(s) \/ Inserts(s) \/ Deletes(s)

\* The groups l and the names q that a server may have after a step.
Fits(s, l, q) == /\ Distinct(l) /\ Len(l) + Len(q) <= Cardinality(Groups)
                 /\ pc'[s] \notin Late => l = << >>
                 /\ pc'[s] # "restore" => q = << >>

(* One server's table changes. *)
LEMMA OneTable ==
  ASSUME Tables, NEW s \in Servers, NEW l \in Seq(Group), NEW q \in Seq(Names), Others(s),
         Fits(s, l, q),
         list' = [list EXCEPT ![s] = l], todo' = [todo EXCEPT ![s] = q],
         hash' = [hash EXCEPT ![s] = HashOfList(l)]
  PROVE  Tables'
<1>1. list' \in [Servers -> Seq(Group)] /\ todo' \in [Servers -> Seq(Names)]
  BY DEF Tables
<1>2. hash' = [t \in Servers |-> HashOfList(list'[t])]
  <2>1. \A t \in Servers : hash'[t] = HashOfList(list'[t])
    BY DEF Tables
  <2>2. hash' = [t \in Servers |-> hash'[t]]
    BY DEF Tables
  <2> QED BY <2>1, <2>2
<1>3. ASSUME NEW t \in Servers
      PROVE  /\ Distinct(list'[t])
             /\ Len(list'[t]) + Len(todo'[t]) <= Cardinality(Groups)
             /\ pc'[t] \notin Late => list'[t] = << >>
             /\ pc'[t] # "restore" => todo'[t] = << >>
  <2>1. CASE t = s
    BY <2>1 DEF Tables, Fits
  <2>2. CASE t # s
    <3>1. pc'[t] = pc[t] /\ list'[t] = list[t] /\ todo'[t] = todo[t]
      BY <2>2 DEF Tables, Others
    <3> QED BY <3>1 DEF Tables
  <2> QED BY <2>1, <2>2
<1> QED BY <1>1, <1>2, <1>3 DEF Tables

(* Nothing changes but phases. *)
LEMMA SameTables ==
  ASSUME Tables, Stays
  PROVE  Tables'
<1>1. \A t \in Servers : /\ pc'[t] \notin Late => list[t] = << >>
                         /\ pc'[t] # "restore" => todo[t] = << >>
  BY DEF Stays, Tables
<1> QED BY <1>1 DEF Stays, Tables

(* An address that is not used: there are more of them than groups. *)
LEMMA UnusedIs ==
  ASSUME NEW l \in Seq(Group), Len(l) < Cardinality(Groups)
  PROVE  Unused(l) \in Groups \ IdsOf(l)
<1> DEFINE n == Len(l)
<1>1. n \in Nat /\ DOMAIN l = 1 .. n
  BY LenProperties
<1>2. IsFiniteSet(1 .. n) /\ Cardinality(1 .. n) = n
  <2>1. n \in Nat
    BY <1>1
  <2> HIDE DEF n
  <2> QED BY <2>1, FS_Interval
<1>3. IdsOf(l) = {l[i].id : i \in 1 .. n}
  BY <1>1 DEF IdsOf
<1> HIDE DEF n
<1>4. IsFiniteSet(IdsOf(l)) /\ Cardinality(IdsOf(l)) <= n
  <2> DEFINE f == [i \in 1 .. n |-> l[i].id]
  <2>1. f \in Surjection(1 .. n, IdsOf(l))
    BY <1>3 DEF Surjection
  <2> HIDE DEF f
  <2> QED BY <1>2, <2>1, FS_Surjection
<1>5. ~(Groups \subseteq IdsOf(l))
  <2>1. SUFFICES ASSUME Groups \subseteq IdsOf(l) PROVE FALSE
    OBVIOUS
  <2>2. Cardinality(Groups) <= Cardinality(IdsOf(l))
    BY <1>4, <2>1, FS_Subset
  <2>3. IsFiniteSet(Groups)
    BY LifecycleAssumption
  <2>4. Cardinality(Groups) \in Nat /\ Cardinality(IdsOf(l)) \in Nat
    BY <1>4, <2>3, FS_CardinalityType
  <2> QED BY <1>1, <1>4, <2>2, <2>4 DEF n
<1> QED BY <1>5 DEF Unused

(* A group is inserted. *)
LEMMA InsertList ==
  ASSUME Tables, NEW s \in Servers, NEW n \in Names, Insert(s, n), Len(list[s]) < Cardinality(Groups)
  PROVE  \E g \in Group, l \in Seq(Group) :
            /\ g.name = n /\ l = <<g>> \o list[s] /\ Len(l) = Len(list[s]) + 1 /\ Distinct(l)
            /\ list' = [list EXCEPT ![s] = l] /\ hash' = [hash EXCEPT ![s] = HashOfList(l)]
<1> DEFINE L == list[s]  g == [id |-> Unused(L), name |-> n]  h == <<g>>  l == h \o L
<1>1. L \in Seq(Group) /\ Distinct(L) /\ Len(L) \in Nat /\ hash[s] = HashOfList(L)
  BY LenProperties DEF Tables
<1>2. Unused(L) \in Groups \ IdsOf(L)
  BY <1>1, UnusedIs
<1>3. g \in Group /\ g.name = n /\ g.id \notin IdsOf(L)
  BY <1>2 DEF Group
<1>4. /\ l \in Seq(Group)
      /\ child_config_insert(L, HashOfList(L), g) = [list |-> l, hash |-> HashOfList(l)]
  <2> HIDE DEF g, L
  <2> QED BY <1>1, <1>3, InsertAgrees
<1>5. /\ list' = [list EXCEPT ![s] = child_config_insert(L, HashOfList(L), g).list]
      /\ hash' = [hash EXCEPT ![s] = child_config_insert(L, HashOfList(L), g).hash]
  BY <1>1 DEF Insert
<1>6. h \in Seq(Group) /\ Len(h) = 1 /\ h[1] = g
  BY <1>3
<1> HIDE DEF g, h, L
<1>7. Cat(Group, l, h, L)
  BY <1>1, <1>6, CatOf
<1> HIDE DEF l
<1>8. /\ Len(l) = Len(L) + 1 /\ l[1] = g /\ DOMAIN l = 1 .. Len(l) /\ DOMAIN L = 1 .. Len(L)
      /\ \A i \in 1 .. Len(L) : l[1 + i] = L[i]
  <2>1. DOMAIN l = 1 .. Len(l) /\ DOMAIN L = 1 .. Len(L)
    BY <1>1, <1>4, LenProperties
  <2> QED BY <1>1, <1>6, <1>7, <2>1 DEF Cat
<1>9. Distinct(l)
  <2> SUFFICES ASSUME NEW i \in DOMAIN l, NEW j \in DOMAIN l, l[i].id = l[j].id PROVE i = j
    BY DEF Distinct
  <2>1. ASSUME NEW k \in DOMAIN l, k # 1 PROVE k - 1 \in DOMAIN L /\ l[k] = L[k - 1] /\ l[k].id # g.id
    <3> DEFINE x == k - 1
    <3>1. x \in 1 .. Len(L) /\ k = 1 + x
      BY <1>1, <1>8, <2>1
    <3> HIDE DEF x
    <3>2. l[k] = L[x]
      BY <1>8, <3>1
    <3>3. L[x].id \in IdsOf(L)
      BY <1>8, <3>1 DEF IdsOf
    <3> QED BY <1>3, <1>8, <3>1, <3>2, <3>3 DEF x
  <2>2. CASE i = 1 \/ j = 1
    BY <1>8, <2>1, <2>2
  <2>3. CASE i # 1 /\ j # 1
    <3>1. i - 1 = j - 1
      BY <1>1, <2>1, <2>3 DEF Distinct
    <3> QED BY <1>1, <1>8, <3>1
  <2> QED BY <2>2, <2>3
<1>10. list' = [list EXCEPT ![s] = l] /\ hash' = [hash EXCEPT ![s] = HashOfList(l)]
  BY <1>4, <1>5
<1> QED BY <1>3, <1>4, <1>8, <1>9, <1>10 DEF l, h, L

(* A group is deleted: the one that is found under its name. *)
LEMMA DeleteList ==
  ASSUME Tables, NEW s \in Servers, Deletes(s)
  PROVE  \E n \in Names, l \in Seq(Group) :
            /\ Distinct(l) /\ Len(l) + 1 = Len(list[s])
            /\ Filter(list[s], Named(n)) # << >>
            /\ Filter(l, Named(n)) = Tail(Filter(list[s], Named(n)))
            /\ \A m \in Names \ {n} : Filter(l, Named(m)) = Filter(list[s], Named(m))
            /\ list' = [list EXCEPT ![s] = l] /\ hash' = [hash EXCEPT ![s] = HashOfList(l)]
<1>1. PICK n \in Names :
        LET cc == child_config_find_by_name(hash[s], n)
            new == child_config_remove(list[s], hash[s], cc)
        IN  /\ cc # NoGroup
            /\ list' = [list EXCEPT ![s] = new.list]
            /\ hash' = [hash EXCEPT ![s] = new.hash]
  BY DEF Deletes
<1> DEFINE L == list[s]  cc == child_config_find_by_name(HashOfList(L), n)
           new == child_config_remove(L, HashOfList(L), cc)
<1>2. L \in Seq(Group) /\ Distinct(L) /\ hash[s] = HashOfList(L)
  BY DEF Tables
<1>3. cc # NoGroup /\ list' = [list EXCEPT ![s] = new.list] /\ hash' = [hash EXCEPT ![s] = new.hash]
  BY <1>1, <1>2
<1> HIDE DEF L
<1>4. Filter(L, Named(n)) # << >> /\ cc = Filter(L, Named(n))[1].id
  <2> HIDE DEF cc
  <2> QED BY <1>2, <1>3, FindAgrees DEF cc
<1> HIDE DEF cc, new
<1>5. PICK p, g, t, r :
        /\ Splits(Group, L, p, g, t, r) /\ Filter(L, Named(n))[1] = g
        /\ Filter(r, Named(n)) = Tail(Filter(L, Named(n)))
        /\ \A m \in Names \ {n} : Filter(r, Named(m)) = Filter(L, Named(m))
  BY <1>2, <1>4, FoundSplits
<1>6. new = [list |-> r, hash |-> HashOfList(r)]
  <2>1. Splits(Group, L, p, g, t, r) /\ cc = g.id
    BY <1>4, <1>5
  <2> QED BY <1>2, <2>1, RemoveAgrees DEF new
<1>7. Distinct(r) /\ r \in Seq(Group) /\ Len(r) + 1 = Len(L)
  BY <1>2, <1>5, SplitsRest
<1>8. list' = [list EXCEPT ![s] = r] /\ hash' = [hash EXCEPT ![s] = HashOfList(r)]
  BY <1>3, <1>6
<1> QED BY <1>4, <1>5, <1>7, <1>8 DEF L

(* Tables is kept by all of this. *)
LEMMA StepTables ==
  ASSUME Tables, TableStep
  PROVE  Tables'
<1>1. CASE Stays
  BY <1>1, SameTables
<1>2. ASSUME NEW s \in Servers, Empties(s) PROVE Tables'
  <2> DEFINE e == << >>
  <2>1. e \in Seq(Group) /\ e \in Seq(Names) /\ Len(e) = 0 /\ DOMAIN e = {}
    OBVIOUS
  <2>2. /\ list' = [list EXCEPT ![s] = e] /\ todo' = [todo EXCEPT ![s] = e]
        /\ hash' = [hash EXCEPT ![s] = HashOfList(e)] /\ Others(s)
    BY <1>2, EmptyTable DEF Empties
  <2>3. Cardinality(Groups) \in Nat
    BY LifecycleAssumption, FS_CardinalityType
  <2>4. Fits(s, e, e)
    <3>1. Distinct(e)
      BY <2>1 DEF Distinct
    <3> QED BY <2>1, <2>3, <3>1 DEF Fits
  <2> HIDE DEF e
  <2>5. e \in Seq(Group) /\ e \in Seq(Names)
    BY <2>1
  <2> QED BY <2>2, <2>4, <2>5, OneTable
<1>3. ASSUME NEW s \in Servers, Loads(s) PROVE Tables'
  <2>1. PICK q \in ShortNames : todo' = [todo EXCEPT ![s] = q]
    BY <1>3 DEF Loads
  <2> DEFINE l == list[s]
  <2>2. /\ l \in Seq(Group) /\ Distinct(l) /\ Len(l) = 0 /\ l = << >>
        /\ list' = [list EXCEPT ![s] = l] /\ hash' = [hash EXCEPT ![s] = HashOfList(l)]
    <3>1. l = << >> /\ Len(l) = 0
      BY <1>3 DEF Loads
    <3>2. l \in Seq(Group) /\ Distinct(l)
      BY DEF Tables
    <3>3. list' = [list EXCEPT ![s] = l] /\ hash' = [hash EXCEPT ![s] = HashOfList(l)]
      BY <1>3 DEF Tables, Loads
    <3> QED BY <3>1, <3>2, <3>3
  <2> HIDE DEF l
  <2>3. pc'[s] = "restore" /\ Others(s)
    BY <1>3 DEF Loads
  <2>4. q \in Seq(Names) /\ Len(l) + Len(q) <= Cardinality(Groups)
    BY <2>2, LenProperties DEF ShortNames
  <2>5. Fits(s, l, q)
    BY <2>2, <2>3, <2>4 DEF Fits, Late
  <2> QED BY <2>1, <2>2, <2>3, <2>4, <2>5, OneTable
<1>4. ASSUME NEW s \in Servers, Inserts(s) PROVE Tables'
  <2> DEFINE L == list[s]  q == todo'[s]
  <2>1. PICK n \in Names : Insert(s, n)
    BY <1>4 DEF Inserts
  <2>2. /\ L \in Seq(Group) /\ Len(L) \in Nat /\ todo[s] \in Seq(Names) /\ Len(todo[s]) \in Nat
        /\ Len(L) + Len(todo[s]) <= Cardinality(Groups)
    BY LenProperties DEF Tables
  <2>3. Cardinality(Groups) \in Nat
    BY LifecycleAssumption, FS_CardinalityType
  <2>4. /\ Len(L) < Cardinality(Groups) /\ q \in Seq(Names) /\ todo' = [todo EXCEPT ![s] = q]
        /\ Len(L) + 1 + Len(q) <= Cardinality(Groups)
        /\ pc'[s] # "restore" => q = << >>
    <3>1. CASE UNCHANGED todo /\ todo[s] = << >> /\ Len(list[s]) < Cardinality(Groups)
      <4>1. q = << >> /\ Len(q) = 0 /\ q \in Seq(Names) /\ todo' = [todo EXCEPT ![s] = q]
        BY <3>1 DEF Tables
      <4>2. Len(L) < Cardinality(Groups)
        BY <3>1
      <4> HIDE DEF L, q
      <4> QED BY <2>2, <2>3, <4>1, <4>2
    <3>2. CASE todo[s] # << >> /\ todo' = [todo EXCEPT ![s] = Tail(@)]
      <4>1. q = Tail(todo[s]) /\ todo' = [todo EXCEPT ![s] = q]
        BY <3>2 DEF Tables
      <4>2. Tail(todo[s]) \in Seq(Names) /\ Len(Tail(todo[s])) = Len(todo[s]) - 1 /\ Len(todo[s]) > 0
        BY <2>2, <3>2, HeadTailProperties, EmptySeq
      <4>3. pc'[s] = "restore"
        BY <1>4, <3>2 DEF Tables, Inserts
      <4> DEFINE k == Len(todo[s])
      <4>4. Len(q) = k - 1 /\ k > 0 /\ q \in Seq(Names) /\ Len(L) + k <= Cardinality(Groups) /\ k \in Nat
        BY <2>2, <4>1, <4>2
      <4> HIDE DEF L, q, k
      <4>5. Len(L) < Cardinality(Groups) /\ Len(L) + 1 + Len(q) <= Cardinality(Groups)
        BY <2>2, <2>3, <4>4
      <4> QED BY <4>1, <4>3, <4>4, <4>5
    <3> QED BY <1>4, <3>1, <3>2 DEF Inserts
  <2>5. PICK g \in Group, l \in Seq(Group) :
            /\ g.name = n /\ l = <<g>> \o list[s] /\ Len(l) = Len(list[s]) + 1 /\ Distinct(l)
            /\ list' = [list EXCEPT ![s] = l] /\ hash' = [hash EXCEPT ![s] = HashOfList(l)]
    BY <2>1, <2>4, InsertList
  <2>6. Others(s) /\ pc'[s] \in Late
    BY <1>4 DEF Inserts, Others
  <2>7. Fits(s, l, q)
    <3>1. Len(l) = Len(L) + 1 /\ Distinct(l)
      BY <2>5
    <3> HIDE DEF L, q
    <3>2. Len(l) + Len(q) <= Cardinality(Groups)
      BY <2>2, <2>4, <3>1
    <3> QED BY <2>4, <2>6, <3>1, <3>2 DEF Fits
  <2> HIDE DEF L, q
  <2> QED BY <2>4, <2>5, <2>6, <2>7, OneTable
<1>5. ASSUME NEW s \in Servers, Deletes(s) PROVE Tables'
  <2>1. PICK n \in Names, l \in Seq(Group) :
            /\ Distinct(l) /\ Len(l) + 1 = Len(list[s])
            /\ list' = [list EXCEPT ![s] = l] /\ hash' = [hash EXCEPT ![s] = HashOfList(l)]
    BY <1>5, DeleteList
  <2> DEFINE q == todo[s]
  <2>2. /\ q \in Seq(Names) /\ Len(list[s]) + Len(q) <= Cardinality(Groups)
        /\ todo' = [todo EXCEPT ![s] = q]
        /\ pc[s] # "restore" => q = << >>
    BY <1>5 DEF Tables, Deletes
  <2>3. Others(s) /\ pc'[s] = pc[s] /\ pc[s] \in Late
    BY <1>5 DEF Deletes, Others
  <2> DEFINE k == Len(list[s])
  <2>4. Len(l) \in Nat /\ Len(q) \in Nat /\ Cardinality(Groups) \in Nat
    BY <2>2, LenProperties, LifecycleAssumption, FS_CardinalityType
  <2>5. Len(l) + 1 = k /\ k + Len(q) <= Cardinality(Groups)
    BY <2>1, <2>2
  <2> HIDE DEF k, q
  <2>6. Len(l) + Len(q) <= Cardinality(Groups)
    BY <2>4, <2>5
  <2>7. Fits(s, l, q)
    BY <2>1, <2>2, <2>3, <2>6 DEF Fits
  <2> QED BY <2>1, <2>2, <2>3, <2>7, OneTable
<1> QED BY <1>1, <1>2, <1>3, <1>4, <1>5 DEF TableStep

(* What is found under a name is in the list. *)
LEMMA ValuesInHash ==
  ASSUME NEW l \in Seq(Group), NEW n \in Names
  PROVE  LET of == Filter(HashOfList(l)[Bucket(n)], KeyIs(n))
         IN  [i \in DOMAIN of |-> of[i].value] = Ids(Filter(l, Named(n)))
<1> DEFINE f == Filter(l, InBucket(Bucket(n)))  F == Filter(l, Named(n))
<1>1. HashOfList(l)[Bucket(n)] = Rows(f)
  BY HasBucket DEF HashOfList
<1>2. f \in Seq(Group) /\ F \in Seq(Group)
  BY FilterGroups
<1>3. F = Filter(f, Named(n))
  <2>1. Group \cap Named(n) \subseteq InBucket(Bucket(n))
    BY DEF Named, InBucket, Group
  <2> DEFINE S == InBucket(Bucket(n))  R == Named(n)
  <2>2. Group \cap R \subseteq S
    BY <2>1
  <2> HIDE DEF S, R
  <2>3. Filter(Filter(l, S), R) = Filter(l, R)
    BY <2>2, FilterTwice
  <2> QED BY <2>3 DEF S, R
<1> HIDE DEF f, F
<1>4. Filter(Rows(f), KeyIs(n)) = Rows(F)
  BY <1>2, <1>3, RowsFilter
<1> DEFINE of == Filter(HashOfList(l)[Bucket(n)], KeyIs(n))
<1>5. of = Rows(F)
  BY <1>1, <1>4
<1> HIDE DEF of
<1>6. /\ DOMAIN Rows(F) = 1 .. Len(F) /\ \A i \in 1 .. Len(F) : Rows(F)[i].value = F[i].id
  BY <1>2, RowsType, RowFields
<1>7. [i \in DOMAIN of |-> of[i].value] = [i \in 1 .. Len(F) |-> F[i].id]
  BY <1>5, <1>6
<1> QED BY <1>7 DEF Ids, F, of

(* What ValuesOf finds in the hash is in the list. *)
LEMMA ValuesInList ==
  ASSUME Tables, NEW s \in Servers, NEW n \in Names
  PROVE  ValuesOf(s, n) = Ids(Filter(list[s], Named(n)))
<1> DEFINE of == Filter(hash[s][Bucket(n)], KeyIs(n))
<1>1. list[s] \in Seq(Group) /\ hash[s] = HashOfList(list[s])
  BY DEF Tables
<1>2. [i \in DOMAIN of |-> of[i].value] = Ids(Filter(list[s], Named(n)))
  BY <1>1, ValuesInHash
<1> QED BY <1>2 DEF ValuesOf, KeyIs

(* The hash is the list. *)
LEMMA TablesHash == Tables => HashIsList
<1> SUFFICES ASSUME Tables, NEW s \in Servers
             PROVE  /\ \A n \in Names :
                          LET of == Filter(list[s], [id : Groups, name : {n}])
                          IN  ValuesOf(s, n) = [i \in DOMAIN of |-> of[i].id]
                    /\ \A b \in Buckets : \A i \in DOMAIN hash[s][b] :
                          LET e == hash[s][b][i]
                          IN  \E j \in DOMAIN list[s] : e.address = list[s][j].id /\ e.key = list[s][j].name
  BY DEF HashIsList
<1> DEFINE l == list[s]
<1>1. l \in Seq(Group) /\ hash[s] = HashOfList(l)
  BY DEF Tables
<1>2. ASSUME NEW n \in Names
      PROVE  LET of == Filter(list[s], [id : Groups, name : {n}])
             IN  ValuesOf(s, n) = [i \in DOMAIN of |-> of[i].id]
  <2> DEFINE F == Filter(l, Named(n))
  <2>1. F \in Seq(Group)
    BY <1>1, FilterGroups
  <2>2. ValuesOf(s, n) = Ids(F)
    BY ValuesInList
  <2>3. F = Filter(list[s], [id : Groups, name : {n}])
    BY DEF Named
  <2> HIDE DEF F
  <2>4. DOMAIN F = 1 .. Len(F)
    BY <2>1, LenProperties
  <2>5. ValuesOf(s, n) = [i \in DOMAIN F |-> F[i].id]
    BY <2>2, <2>4 DEF Ids
  <2> QED BY <2>3, <2>5
<1>3. ASSUME NEW b \in Buckets, NEW i \in DOMAIN hash[s][b]
      PROVE  \E j \in DOMAIN list[s] : /\ hash[s][b][i].address = list[s][j].id
                                       /\ hash[s][b][i].key = list[s][j].name
  <2> DEFINE S == InBucket(b)  f == Filter(l, S)
  <2>1. f \in Seq(Group) /\ \A k \in DOMAIN f : \E j \in DOMAIN l : f[k] = l[j]
    <3> HIDE DEF S, l
    <3>1. f \in Seq(Group)
      BY <1>1, FilterGroups
    <3>2. \A k \in DOMAIN f : \E j \in DOMAIN l : f[k] = l[j]
      BY <1>1, FilterSource
    <3> QED BY <3>1, <3>2
  <2>2. hash[s][b] = Rows(f)
    BY <1>1 DEF HashOfList
  <2> HIDE DEF f
  <2>3. i \in DOMAIN f /\ Rows(f)[i].address = f[i].id /\ Rows(f)[i].key = f[i].name
    <3>1. DOMAIN Rows(f) = 1 .. Len(f) /\ DOMAIN f = 1 .. Len(f) /\ \A k \in 1 .. Len(f) : Rows(f)[k] = RowOf(f[k])
      BY <2>1, RowsType
    <3>2. i \in 1 .. Len(f) /\ Rows(f)[i] = RowOf(f[i])
      BY <1>3, <2>2, <3>1
    <3> QED BY <3>1, <3>2, RowFields
  <2> QED BY <2>1, <2>2, <2>3
<1> QED BY <1>2, <1>3

-----------------------------------------------------------------------------
(* The disk. *)

FileRec == [kind : Kinds, names : ShortNames, mtime : Nat, times : Nat]
DiskRec == [data : [Inodes -> FileRec],
            tmp  : [Keys -> Inodes \cup {NoFile}],
            name : [Keys -> Inodes \cup {NoFile}]]

(* There are two files for each key. *)
LEMMA InodesForKeys ==
  /\ IsFiniteSet(Keys) /\ IsFiniteSet(Inodes)
  /\ Cardinality(Keys) \in Nat
  /\ Cardinality(Inodes) = 2 * Cardinality(Keys)
<1> DEFINE N == MaxDumps * MaxTime
<1>1. MaxDumps \in Nat /\ MaxTime \in Nat
  BY LifecycleAssumption
<1>2. N \in Nat /\ 2 * MaxDumps * MaxTime = 2 * N
  BY <1>1
<1>3. /\ IsFiniteSet(1 .. MaxDumps) /\ Cardinality(1 .. MaxDumps) = MaxDumps
      /\ IsFiniteSet(Seconds) /\ Cardinality(Seconds) = MaxTime
  BY <1>1, FS_Interval DEF Seconds
<1>4. IsFiniteSet(Keys) /\ Cardinality(Keys) = N
  BY <1>3, FS_Product DEF Keys
<1>5. Inodes = 1 .. 2 * N
  BY <1>2 DEF Inodes
<1> HIDE DEF N
<1>6. IsFiniteSet(Inodes) /\ Cardinality(Inodes) = 2 * N
  BY <1>2, <1>5, FS_Interval
<1> QED BY <1>2, <1>4, <1>6

(* What a function has for the members of a finite set. *)
LEMMA ValuesOfFunction ==
  ASSUME NEW S, IsFiniteSet(S), NEW f, NEW n \in Nat, Cardinality(S) <= n
  PROVE  IsFiniteSet({f[x] : x \in S}) /\ Cardinality({f[x] : x \in S}) <= n
<1> DEFINE T == {f[x] : x \in S}  g == [x \in S |-> f[x]]
<1>1. g \in Surjection(S, T)
  BY DEF Surjection
<1> HIDE DEF g, T
<1>2. IsFiniteSet(T) /\ Cardinality(T) <= Cardinality(S)
  BY <1>1, FS_Surjection
<1>3. Cardinality(T) \in Nat /\ Cardinality(S) \in Nat
  BY <1>2, FS_CardinalityType
<1> QED BY <1>2, <1>3 DEF T

(* fopen finds a file: there are more of them than names. *)
LEMMA OpenedFile ==
  ASSUME NEW d \in DiskRec, NEW k \in Keys
  PROVE  Opened(d, k) \in Inodes
<1>1. CASE d.tmp[k] # NoFile
  BY <1>1 DEF Opened, DiskRec
<1>2. CASE d.tmp[k] = NoFile
  <2> DEFINE n == Cardinality(Keys)  Others1 == Keys \ {k}
             A == {d.tmp[l] : l \in Others1}  B == {d.name[l] : l \in Keys}
  <2>1. n \in Nat /\ IsFiniteSet(Keys)
    BY InodesForKeys
  <2>2. IsFiniteSet(Others1) /\ Cardinality(Others1) = n - 1
    BY <2>1, FS_RemoveElement
  <2>3. n - 1 \in Nat
    BY <2>2, FS_CardinalityType
  <2>4. IsFiniteSet(B) /\ Cardinality(B) <= n
    <3> DEFINE f == d.name
    <3> HIDE DEF f
    <3>1. IsFiniteSet({f[x] : x \in Keys}) /\ Cardinality({f[x] : x \in Keys}) <= n
      BY <2>1, ValuesOfFunction
    <3> QED BY <3>1 DEF f
  <2>5. IsFiniteSet(A) /\ Cardinality(A) <= n - 1
    <3> DEFINE f == d.tmp
    <3> HIDE DEF f, Others1
    <3>1. IsFiniteSet({f[x] : x \in Others1}) /\ Cardinality({f[x] : x \in Others1}) <= n - 1
      BY <2>2, <2>3, ValuesOfFunction
    <3> QED BY <3>1 DEF f
  <2> HIDE DEF A, B, n
  <2>6. IsFiniteSet(A \cup B) /\ Cardinality(A \cup B) <= n + n - 1
    <3>1. /\ IsFiniteSet(A \cup B)
          /\ Cardinality(A \cup B) = Cardinality(A) + Cardinality(B) - Cardinality(A \cap B)
      BY <2>4, <2>5, FS_Union
    <3>2. IsFiniteSet(A \cap B)
      BY <2>4, FS_Subset
    <3>3. Cardinality(A) \in Nat /\ Cardinality(B) \in Nat /\ Cardinality(A \cap B) \in Nat
      BY <2>4, <2>5, <3>2, FS_CardinalityType
    <3> QED BY <2>1, <2>4, <2>5, <3>1, <3>3
  <2>7. ~(Inodes \subseteq A \cup B)
    <3>1. SUFFICES ASSUME Inodes \subseteq A \cup B PROVE FALSE
      OBVIOUS
    <3>2. Cardinality(Inodes) <= Cardinality(A \cup B)
      BY <2>6, <3>1, FS_Subset
    <3>3. Cardinality(Inodes) = 2 * n
      BY InodesForKeys DEF n
    <3>4. Cardinality(A \cup B) \in Nat
      BY <2>6, FS_CardinalityType
    <3> QED BY <2>1, <2>6, <3>2, <3>3, <3>4
  <2> DEFINE Free == Inodes \ (A \cup B)
  <2>8. PICK i \in Free : \A j \in Free : ~(j < i)
    <3>1. Free \in SUBSET Nat /\ Free # {}
      BY <2>7 DEF Inodes
    <3> HIDE DEF Free
    <3> QED BY <3>1, Least
  <2>9. \A l \in Keys : i \notin {d.tmp[l], d.name[l]}
    <3>1. NoFile \notin Inodes
      BY DEF Inodes, NoFile
    <3> QED BY <1>2, <2>8, <3>1 DEF A, B
  <2>10. \A j \in 1 .. i - 1 : \E l \in Keys : j \in {d.tmp[l], d.name[l]}
    <3> SUFFICES ASSUME NEW j \in 1 .. i - 1 PROVE j \in A \cup B
      BY DEF A, B
    <3>1. j \in Inodes /\ j < i
      <4>1. 2 * MaxDumps * MaxTime \in Nat
        BY LifecycleAssumption
      <4> DEFINE N == 2 * MaxDumps * MaxTime
      <4> HIDE DEF N
      <4>2. N \in Nat /\ i \in 1 .. N
        BY <2>8, <4>1 DEF N, Inodes
      <4>3. j \in 1 .. N /\ j < i
        BY <4>2
      <4> QED BY <4>3 DEF N, Inodes
    <3> QED BY <2>8, <3>1
  <2> DEFINE P(x) == /\ \A l \in Keys : x \notin {d.tmp[l], d.name[l]}
                     /\ \A j \in 1 .. x - 1 : \E l \in Keys : j \in {d.tmp[l], d.name[l]}
  <2>11. \E x \in Inodes : P(x)
    BY <2>8, <2>9, <2>10
  <2>12. Opened(d, k) = CHOOSE x \in Inodes : P(x)
    BY <1>2 DEF Opened
  <2> HIDE DEF P
  <2> QED BY <2>11, <2>12
<1> QED BY <1>1, <1>2

(* The fields of a file. *)
LEMMA FileFields ==
  ASSUME NEW kind, NEW names, NEW mtime, NEW times
  PROVE  /\ File(kind, names, mtime, times).kind = kind
         /\ File(kind, names, mtime, times).names = names
         /\ File(kind, names, mtime, times).mtime = mtime
         /\ File(kind, names, mtime, times).times = times
         /\ kind \in Kinds /\ names \in ShortNames /\ mtime \in Nat /\ times \in Nat
               => File(kind, names, mtime, times) \in FileRec
BY DEF File, FileRec

(* A file without names. *)
LEMMA NoNames == << >> \in ShortNames
<1>1. Cardinality(Groups) \in Nat
  BY LifecycleAssumption, FS_CardinalityType
<1> QED BY <1>1 DEF ShortNames

(* What fopen does to the disk. *)
LEMMA FopenIs ==
  ASSUME NEW d \in DiskRec, NEW k \in Keys, NEW t \in Nat
  PROVE  LET e == fopen_w(d, k, t)
             i == Opened(d, k)
         IN  /\ e \in DiskRec /\ i \in Inodes
             /\ e.name = d.name /\ e.tmp = [d.tmp EXCEPT ![k] = i]
             /\ e.data = [d.data EXCEPT ![i] = File("open", << >>, t, d.data[i].times + 1)]
<1> DEFINE i == Opened(d, k)  F == File("open", << >>, t, d.data[i].times + 1)
<1>1. i \in Inodes
  BY OpenedFile
<1>2. fopen_w(d, k, t) = [d EXCEPT !.tmp = [d.tmp EXCEPT ![k] = i], !.data = [d.data EXCEPT ![i] = F]]
  <2> HIDE DEF i
  <2> QED BY <1>1 DEF fopen_w, DiskRec, i
<1>3. d.data[i].times + 1 \in Nat
  BY <1>1 DEF DiskRec, FileRec
<1>4. F \in FileRec
  BY <1>3, FileFields, NoNames DEF Kinds
<1> HIDE DEF F, i
<1>5. fopen_w(d, k, t) = [data |-> [d.data EXCEPT ![i] = F], tmp |-> [d.tmp EXCEPT ![k] = i], name |-> d.name]
  BY <1>2 DEF DiskRec
<1> QED BY <1>1, <1>4, <1>5 DEF DiskRec, F, i

(* What fprintf and fclose do to it. *)
LEMMA WriteIs ==
  ASSUME NEW d \in DiskRec, NEW i \in Inodes, NEW kind \in Kinds, NEW q \in ShortNames, NEW t \in Nat
  PROVE  LET e == Write(d, i, kind, q, t)
         IN  /\ e \in DiskRec /\ e.name = d.name /\ e.tmp = d.tmp
             /\ e.data = [d.data EXCEPT ![i] = File(kind, IF kind = "whole" THEN q ELSE << >>, t, d.data[i].times)]
<1> DEFINE r == IF kind = "whole" THEN q ELSE << >>  F == File(kind, r, t, d.data[i].times)
<1>1. r \in ShortNames
  BY NoNames
<1>2. d.data[i].times \in Nat
  BY DEF DiskRec, FileRec
<1>3. F \in FileRec
  BY <1>1, <1>2, FileFields
<1>4. Write(d, i, kind, q, t) = [d EXCEPT !.data = [d.data EXCEPT ![i] = F]]
  BY DEF Write, DiskRec
<1> HIDE DEF F
<1>5. Write(d, i, kind, q, t) = [data |-> [d.data EXCEPT ![i] = F], tmp |-> d.tmp, name |-> d.name]
  BY <1>4 DEF DiskRec
<1> QED BY <1>3, <1>5 DEF DiskRec, F

(* What link does to it. *)
LEMMA LinkIs ==
  ASSUME NEW d \in DiskRec, NEW k \in Keys
  PROVE  /\ link(d, k) \in DiskRec /\ link(d, k).data = d.data /\ link(d, k).tmp = d.tmp
         /\ link(d, k).name = [d.name EXCEPT ![k] = d.tmp[k]]
<1>1. link(d, k) = [data |-> d.data, tmp |-> d.tmp, name |-> [d.name EXCEPT ![k] = d.tmp[k]]]
  BY DEF link, DiskRec
<1> QED BY <1>1 DEF DiskRec

(* What unlink does to it. *)
LEMMA UnlinkIs ==
  ASSUME NEW d \in DiskRec, NEW k \in Keys
  PROVE  /\ unlink_tmp(d, k) \in DiskRec /\ unlink_tmp(d, k).data = d.data
         /\ unlink_tmp(d, k).name = d.name
         /\ unlink_tmp(d, k).tmp = [d.tmp EXCEPT ![k] = NoFile]
<1>1. unlink_tmp(d, k) = [data |-> d.data, tmp |-> [d.tmp EXCEPT ![k] = NoFile], name |-> d.name]
  BY DEF unlink_tmp, DiskRec
<1> QED BY <1>1 DEF DiskRec

(* What a server starts with. *)
LEMMA OptionTypes ==
  ASSUME NEW o \in Options
  PROVE  /\ o.auto_dump \in BOOLEAN /\ o.load_latest \in BOOLEAN
         /\ o.lives \in [Servers -> Nat]
         /\ o.config \in FileRec
<1>1. /\ o.auto_dump \in BOOLEAN /\ o.load_latest \in BOOLEAN /\ o.lives \in [Servers -> Nat]
      /\ o.config \in [kind : Kinds, names : Seq(Names), mtime : Nat, times : Nat]
      /\ Len(o.config.names) <= Cardinality(Groups)
  BY LifecycleAssumption
<1>2. o.config \in FileRec
  BY <1>1 DEF FileRec, ShortNames
<1> QED BY <1>1, <1>2

Steps   == {"idle", "write", "link", "unlink"}
NoKey == <<1, 1>>
DumpRec == [step : Steps, key : Keys \cup {NoKey}, file : Inodes \cup {NoFile}, exits : BOOLEAN]

Types ==
    /\ options \in Options
    /\ now \in Seconds
    /\ cnt \in [Servers -> 0 .. MaxDumps]
    /\ disk \in DiskRec
    /\ dump \in [Servers -> DumpRec]
    /\ last \in [key : Keys \cup {NoKey}, names : SUBSET Names]

\* A server whose dump goes on keeps its groups.
Steady(t) == /\ dump'[t] = dump[t]
             /\ dump[t].step # "idle" => pc'[t] = pc[t] /\ list'[t] = list[t]
Rest(s)   == \A t \in Servers \ {s} : Steady(t)

\* What a step of Lifecycle is to the dumps.
Quiet == UNCHANGED diskVars /\ dump' = dump /\ \A t \in Servers : Steady(t)

GivesUp(s) == UNCHANGED diskVars /\ dump' = [dump EXCEPT ![s] = NoDump] /\ Rest(s)

Opens(s) == /\ AtCommand(s) /\ \E exits \in BOOLEAN : BeginDump(s, exits)
            /\ pc' = pc /\ last' = last /\ Rest(s)

Writes(s) == /\ dump[s].step = "write"
             /\ \E kind \in {"whole", "part", "empty"} :
                   disk' = Write(disk, dump[s].file, kind, NamesOf(list[s]), now)
             /\ dump' = [dump EXCEPT ![s].step = "link"]
             /\ pc' = pc /\ list' = list /\ last' = last

Links(s) == /\ dump[s].step = "link" /\ CanLink(disk, dump[s].key)
            /\ disk' = link(disk, dump[s].key)
            /\ last' = [key |-> dump[s].key, names |-> ToSet(NamesOf(list[s]))]
            /\ dump' = [dump EXCEPT ![s].step = "unlink"]
            /\ pc' = pc /\ list' = list

Unlinks(s) == /\ dump[s].step = "unlink"
              /\ disk' = unlink_tmp(disk, dump[s].key)
              /\ last' = last /\ dump' = [dump EXCEPT ![s] = NoDump] /\ Rest(s)

DiskStep == \/ Quiet
            \/ \E s \in Servers : GivesUp(s) \/ Opens(s) \/ Writes(s) \/ Links(s) \/ Unlinks(s)

\* The counters and the rest.
Counts == /\ options' = options
          /\ now' \in {now} \cup {x \in Seconds : x = now + 1}
          /\ \/ cnt' = cnt
             \/ \E s \in Servers : \/ cnt' = [cnt EXCEPT ![s] = 0]
                                   \/ cnt[s] < MaxDumps /\ cnt' = [cnt EXCEPT ![s] = @ + 1]

(* A step of Lifecycle counts like this. *)
LEMMA CountsStep ==
  ASSUME Types, [Next]_vars
  PROVE  Counts
<1>1. CASE UNCHANGED vars \/ Leave
  BY <1>1 DEF vars, Leave, Counts
<1>2. CASE Tick
  BY <1>2, LifecycleAssumption DEF Tick, Counts, Types, Seconds
<1>3. ASSUME NEW s \in Servers, Crash(s) \/ Run(s) PROVE Counts
  <2>1. now' = now /\ options' = options
    BY <1>3 DEF Crash, Run, Starting, read_dump, restore, Command, write, link_dump, unlink_dump,
                c_spwn, c_dele, c_dump, c_exit
  <2>2. \/ cnt' = cnt \/ cnt' = [cnt EXCEPT ![s] = 0]
        \/ cnt[s] < MaxDumps /\ cnt' = [cnt EXCEPT ![s] = @ + 1]
    <3>1. CASE Crash(s)
      BY <3>1 DEF Crash, Ended
    <3>2. CASE Starting(s)
      BY <3>2 DEF Starting
    <3>3. CASE read_dump(s)
      BY <3>3 DEF read_dump, Ended
    <3>4. CASE restore(s)
      BY <3>4 DEF restore
    <3>5. CASE Command(s)
      BY <3>5 DEF Command, c_spwn, c_dele, c_dump, c_exit, BeginDump, NoBeginDump, CanDump, Ended
    <3>6. CASE write(s) \/ link_dump(s) \/ unlink_dump(s)
      BY <3>6 DEF write, link_dump, unlink_dump, GoOn, EndDump, Ended
    <3> QED BY <1>3, <3>1, <3>2, <3>3, <3>4, <3>5, <3>6 DEF Run
  <2> QED BY <2>1, <2>2 DEF Counts
<1> QED BY <1>1, <1>2, <1>3 DEF Next

\* Only a server that serves dumps.
Busy == \A s \in Servers : dump[s].step # "idle" => pc[s] = "serve"

(* What a server that ends leaves. *)
LEMMA EndedIs ==
  ASSUME Asked, Tables, Types, NEW s \in Servers, Ended(s)
  PROVE  /\ dump' = [dump EXCEPT ![s] = NoDump] /\ Rest(s)
         /\ Empties(s)
BY DEF Ended, Stopped, Go, Asked, Tables, Types, Rest, Steady, Empties, Others

(* Every step is one of these to the dumps. *)
LEMMA DiskProjection ==
  ASSUME Asked, Tables, Types, Busy, [Next]_vars
  PROVE  DiskStep
<1>1. CASE UNCHANGED vars
  BY <1>1 DEF vars, startupVars, tableVars, DiskStep, Quiet, Steady
<1>2. CASE Tick \/ Leave
  BY <1>2 DEF Tick, Leave, HeirsEnd, startupVars, tableVars, DiskStep, Quiet, Steady
<1>3. ASSUME NEW s \in Servers, Ended(s), UNCHANGED diskVars PROVE DiskStep
  BY <1>3, EndedIs DEF DiskStep, GivesUp
<1>4. ASSUME NEW s \in Servers, dump' = dump, dump[s].step = "idle", UNCHANGED diskVars,
             \A t \in Servers \ {s} : pc'[t] = pc[t] /\ list'[t] = list[t]
      PROVE  DiskStep
  BY <1>4 DEF DiskStep, Quiet, Steady
<1>5. ASSUME NEW s \in Servers, Crash(s) PROVE DiskStep
  BY <1>3, <1>5 DEF Crash
<1>6. ASSUME NEW s \in Servers, Starting(s) PROVE DiskStep
  <2>1. CASE Start(s)
    <3>1. pc[s] = "off" /\ pc' = [pc EXCEPT ![s] = "connect"]
      BY <2>1 DEF Start, Go
    <3>2. dump' = dump /\ list' = list /\ UNCHANGED diskVars
      BY <1>6 DEF Starting, tableVars
    <3> QED BY <1>4, <3>1, <3>2 DEF Busy, Asked
  <2>2. CASE TakeSocket(s)
    <3>1. pc[s] # "serve" /\ \E phase \in Phases : pc' = [pc EXCEPT ![s] = phase]
      BY <2>2 DEF TakeSocket, sock_connect, sock_send_helo, stat, unlink, bind, listen, Stopped, Go, Phases
    <3>2. dump' = dump /\ list' = list /\ UNCHANGED diskVars
      BY <1>6 DEF Starting, tableVars
    <3> QED BY <1>4, <3>1, <3>2 DEF Busy, Asked
  <2> QED BY <1>6, <2>1, <2>2 DEF Starting
<1>7. ASSUME NEW s \in Servers, read_dump(s) PROVE DiskStep
  <2>1. CASE Ended(s)
    BY <1>3, <1>7, <2>1 DEF read_dump
  <2>2. CASE ~Ended(s)
    <3>1. /\ pc[s] = "load" /\ dump' = dump /\ list' = list /\ UNCHANGED diskVars
          /\ \E phase \in {"restore", "serve"} : pc' = [pc EXCEPT ![s] = phase]
      BY <1>7, <2>2 DEF read_dump, Go, tableVars
    <3> QED BY <1>4, <3>1 DEF Busy, Asked
  <2> QED BY <2>1, <2>2
<1>8. ASSUME NEW s \in Servers, restore(s) PROVE DiskStep
  <2>1. pc[s] = "restore" /\ dump' = dump /\ UNCHANGED diskVars
    BY <1>8 DEF restore
  <2>2. \A t \in Servers \ {s} : pc'[t] = pc[t] /\ list'[t] = list[t]
    BY <1>8 DEF restore, Go, Insert, tableVars, Asked, Tables
  <2> QED BY <1>4, <2>1, <2>2 DEF Busy
<1>9. ASSUME NEW s \in Servers, NEW n \in Names, c_spwn(s, n) PROVE DiskStep
  <2>1. /\ AtCommand(s) /\ pc' = pc /\ last' = last /\ Insert(s, n)
        /\ (\E exits \in BOOLEAN : BeginDump(s, exits)) \/ UNCHANGED <<dump, disk>>
    BY <1>9 DEF c_spwn, startupVars, NoBeginDump
  <2>2. \A t \in Servers \ {s} : pc'[t] = pc[t] /\ list'[t] = list[t]
    BY <2>1 DEF Insert, Tables
  <2>3. CASE UNCHANGED <<dump, disk>>
    BY <1>4, <2>1, <2>2, <2>3 DEF AtCommand, diskVars
  <2>4. CASE \E exits \in BOOLEAN : BeginDump(s, exits)
    <3>1. Rest(s)
      BY <2>2, <2>4 DEF Rest, Steady, BeginDump, Types
    <3> QED BY <2>1, <2>4, <3>1 DEF DiskStep, Opens
  <2> QED BY <2>1, <2>3, <2>4
<1>10. ASSUME NEW s \in Servers, NEW n \in Names, c_dele(s, n) PROVE DiskStep
  <2>1. AtCommand(s) /\ pc' = pc /\ dump' = dump /\ UNCHANGED diskVars
    BY <1>10 DEF c_dele, startupVars
  <2>2. \A t \in Servers \ {s} : list'[t] = list[t]
    BY <1>10 DEF c_dele, Tables
  <2> QED BY <1>4, <2>1, <2>2 DEF AtCommand
<1>11. ASSUME NEW s \in Servers, c_dump(s) \/ c_exit(s), ~(Ended(s) /\ UNCHANGED disk) PROVE DiskStep
  <2>1. /\ AtCommand(s) /\ pc' = pc /\ list' = list /\ last' = last
        /\ (\E exits \in BOOLEAN : BeginDump(s, exits)) \/ UNCHANGED <<dump, disk>>
    BY <1>11 DEF c_dump, c_exit, startupVars, tableVars, NoBeginDump
  <2>2. CASE UNCHANGED <<dump, disk>>
    BY <1>4, <2>1, <2>2 DEF AtCommand, diskVars
  <2>3. CASE \E exits \in BOOLEAN : BeginDump(s, exits)
    <3>1. Rest(s)
      BY <2>1, <2>3 DEF Rest, Steady, BeginDump, Types
    <3> QED BY <2>1, <2>3, <3>1 DEF DiskStep, Opens
  <2> QED BY <2>1, <2>2, <2>3
<1>12. ASSUME NEW s \in Servers, Command(s) PROVE DiskStep
  <2>1. CASE c_exit(s) /\ Ended(s) /\ UNCHANGED disk
    BY <1>3, <2>1 DEF c_exit, diskVars
  <2>2. CASE c_dump(s)
    <3>1. ~Ended(s) \/ ~UNCHANGED disk \/ DiskStep
      BY <1>3, <2>2 DEF c_dump, diskVars
    <3> QED BY <1>11, <2>2, <3>1
  <2> QED BY <1>9, <1>10, <1>11, <1>12, <2>1, <2>2 DEF Command
<1>13. ASSUME NEW s \in Servers, EndDump(s), UNCHANGED diskVars PROVE DiskStep
  <2>1. CASE dump[s].exits
    BY <1>3, <1>13, <2>1 DEF EndDump
  <2>2. CASE ~dump[s].exits
    BY <1>13, <2>2 DEF EndDump, startupVars, tableVars, DiskStep, GivesUp, Rest, Steady, Types
  <2> QED BY <2>1, <2>2
<1>14. ASSUME NEW s \in Servers, write(s) PROVE DiskStep
  <2>1. CASE EndDump(s) /\ UNCHANGED disk
    BY <1>13, <1>14, <2>1 DEF write, diskVars
  <2>2. CASE ~(EndDump(s) /\ UNCHANGED disk)
    <3>1. Writes(s)
      BY <1>14, <2>2 DEF write, Writes, GoOn, StepAfter, startupVars, tableVars
    <3> QED BY <3>1 DEF DiskStep
  <2> QED BY <2>1, <2>2
<1>15. ASSUME NEW s \in Servers, link_dump(s) PROVE DiskStep
  <2>1. CASE CanLink(disk, dump[s].key)
    <3>1. Links(s)
      BY <1>15, <2>1 DEF link_dump, Links, GoOn, StepAfter, startupVars, tableVars
    <3> QED BY <3>1 DEF DiskStep
  <2>2. CASE ~CanLink(disk, dump[s].key)
    BY <1>13, <1>15, <2>2 DEF link_dump
  <2> QED BY <2>1, <2>2
<1>16. ASSUME NEW s \in Servers, unlink_dump(s) PROVE DiskStep
  <2>1. dump' = [dump EXCEPT ![s] = NoDump] /\ Rest(s)
    <3>1. CASE dump[s].exits
      BY <1>16, <3>1, EndedIs DEF unlink_dump, EndDump
    <3>2. CASE ~dump[s].exits
      BY <1>16, <3>2 DEF unlink_dump, EndDump, startupVars, tableVars, Rest, Steady, Types
    <3> QED BY <3>1, <3>2
  <2> QED BY <1>16, <2>1 DEF unlink_dump, DiskStep, Unlinks
<1> QED BY <1>1, <1>2, <1>5, <1>6, <1>7, <1>8, <1>12, <1>14, <1>15, <1>16 DEF Next, Run

(* What can be loaded are files of groups that there are addresses for. *)
LEMMA CandidateFiles ==
  ASSUME Types
  PROVE  Candidates \subseteq FileRec
<1>1. options.config \in FileRec
  BY OptionTypes DEF Types
<1>2. \A k \in Dumps(disk) : Dumped(disk, k) \in FileRec
  BY DEF Types, DiskRec, Dumps, Dumped
<1>3. NewestDumps(disk, options.config) \subseteq {options.config} \cup {Dumped(disk, k) : k \in Dumps(disk)}
  BY DEF NewestDumps
<1> QED BY <1>1, <1>2, <1>3 DEF Candidates

(* Every step is one of these to the hashes and lists. *)
LEMMA TableProjection ==
  ASSUME Asked, Tables, Types, [Next]_vars
  PROVE  TableStep
<1>1. CASE UNCHANGED vars
  BY <1>1 DEF vars, startupVars, tableVars, TableStep, Stays
<1>2. CASE Tick \/ Leave
  BY <1>2 DEF Tick, Leave, HeirsEnd, startupVars, tableVars, TableStep, Stays
<1>3. ASSUME NEW s \in Servers, Ended(s) PROVE TableStep
  BY <1>3, EndedIs DEF TableStep
<1>4. ASSUME UNCHANGED <<list, hash, todo, pc>> PROVE TableStep
  BY <1>4 DEF TableStep, Stays
<1>5. ASSUME NEW s \in Servers, UNCHANGED <<list, hash, todo>>, NEW phase, Go(s, phase),
             pc[s] \notin Late \/ (phase = "serve" /\ todo[s] = << >>)
      PROVE  TableStep
  <2>1. /\ pc' = [pc EXCEPT ![s] = phase] /\ todo \in [Servers -> Seq(Names)]
        /\ \A t \in Servers \ {s} : pc'[t] = pc[t]
        /\ pc'[s] = phase
    BY <1>5 DEF Go, Asked, Tables
  <2>2. Stays
    BY <1>5, <2>1 DEF Stays, Late
  <2> QED BY <2>2 DEF TableStep
<1>6. ASSUME NEW s \in Servers, Starting(s) PROVE TableStep
  <2>1. UNCHANGED <<list, hash, todo>>
    BY <1>6 DEF Starting, tableVars
  <2>2. pc[s] \notin Late /\ \E phase \in Phases : Go(s, phase)
    <3>1. CASE Start(s)
      BY <3>1 DEF Start, Phases, Late
    <3>2. CASE TakeSocket(s)
      BY <3>2 DEF TakeSocket, sock_connect, sock_send_helo, stat, unlink, bind, listen, Stopped, Phases, Late, Go
    <3> QED BY <1>6, <3>1, <3>2 DEF Starting
  <2> QED BY <1>5, <2>1, <2>2
<1>7. ASSUME NEW s \in Servers, read_dump(s) PROVE TableStep
  <2>1. pc[s] = "load" /\ pc[s] \notin Late
    BY <1>7 DEF read_dump, Late
  <2>2. PICK file \in Candidates :
          IF file = NoConfig
          THEN Go(s, "serve") /\ UNCHANGED <<takenVars, tableVars, todo, cnt, dump>>
          ELSE \/ /\ load_dump_Succeeds(file)
                  /\ Go(s, "restore")
                  /\ todo' = [todo EXCEPT ![s] = load_dump(file)]
                  /\ UNCHANGED <<takenVars, tableVars, cnt, dump>>
               \/ /\ ~load_dump_Succeeds(file) /\ options.load_latest
                  /\ Go(s, "serve")
                  /\ UNCHANGED <<takenVars, tableVars, todo, cnt, dump>>
               \/ ~load_dump_Succeeds(file) /\ ~options.load_latest /\ Ended(s)
    BY <1>7 DEF read_dump
  <2>3. CASE Ended(s)
    BY <1>3, <2>3
  <2>4. CASE Go(s, "serve") /\ UNCHANGED <<tableVars, todo>>
    BY <1>5, <2>1, <2>4 DEF tableVars
  <2>5. CASE Go(s, "restore") /\ UNCHANGED tableVars /\ todo' = [todo EXCEPT ![s] = load_dump(file)]
    <3>1. load_dump(file) \in ShortNames
      BY CandidateFiles DEF load_dump, FileRec
    <3>2. list[s] = << >>
      BY <2>1 DEF Tables
    <3>3. pc'[s] = "restore" /\ Others(s)
      BY <2>5 DEF Go, Asked, Others
    <3>4. UNCHANGED <<list, hash>>
      BY <2>5 DEF tableVars
    <3>5. \E q \in ShortNames : todo' = [todo EXCEPT ![s] = q]
      BY <2>5, <3>1
    <3>6. Loads(s)
      BY <3>2, <3>3, <3>4, <3>5 DEF Loads
    <3> QED BY <3>6 DEF TableStep
  <2> QED BY <2>2, <2>3, <2>4, <2>5
<1>8. ASSUME NEW s \in Servers, restore(s) PROVE TableStep
  <2>1. pc[s] = "restore" /\ todo \in [Servers -> Seq(Names)]
    BY <1>8 DEF restore, Tables
  <2>2. CASE todo[s] = << >>
    BY <1>5, <1>8, <2>2 DEF restore, tableVars
  <2>3. CASE todo[s] # << >>
    <3>1. Insert(s, Head(todo[s])) /\ todo' = [todo EXCEPT ![s] = Tail(@)] /\ UNCHANGED pc
      BY <1>8, <2>3 DEF restore
    <3>2. Head(todo[s]) \in Names
      BY <2>1, <2>3, HeadTailProperties
    <3>3. Inserts(s)
      BY <2>1, <2>3, <3>1, <3>2 DEF Inserts, Late
    <3> QED BY <3>3 DEF TableStep
  <2> QED BY <2>2, <2>3
<1>9. ASSUME NEW s \in Servers, NEW n \in Names, c_spwn(s, n) PROVE TableStep
  <2>1. pc[s] = "serve" /\ UNCHANGED <<pc, todo>> /\ Insert(s, n) /\ Len(list[s]) < Cardinality(Groups)
    BY <1>9 DEF c_spwn, AtCommand, startupVars
  <2>2. todo[s] = << >>
    BY <2>1 DEF Tables
  <2>3. Inserts(s)
    BY <2>1, <2>2 DEF Inserts, Late
  <2> QED BY <2>3 DEF TableStep
<1>10. ASSUME NEW s \in Servers, NEW n \in Names, c_dele(s, n) PROVE TableStep
  <2>1. Deletes(s)
    BY <1>10 DEF c_dele, AtCommand, startupVars, Deletes, Late
  <2> QED BY <2>1 DEF TableStep
<1>11. ASSUME NEW s \in Servers, Command(s) PROVE TableStep
  <2>1. CASE c_dump(s) \/ c_exit(s)
    BY <1>3, <1>4, <2>1 DEF c_dump, c_exit, startupVars, tableVars
  <2> QED BY <1>9, <1>10, <1>11, <2>1 DEF Command
<1>12. ASSUME NEW s \in Servers, write(s) \/ link_dump(s) \/ unlink_dump(s) PROVE TableStep
  <2>1. GoOn(s) \/ EndDump(s)
    BY <1>12 DEF write, link_dump, unlink_dump
  <2> QED BY <1>3, <1>4, <2>1 DEF GoOn, EndDump, startupVars, tableVars
<1>13. ASSUME NEW s \in Servers, Crash(s) PROVE TableStep
  BY <1>3, <1>13 DEF Crash
<1> QED BY <1>1, <1>2, <1>6, <1>7, <1>8, <1>11, <1>12, <1>13 DEF Next, Run

\* What a server knows of the file it writes.  A file that has been opened once
\* is written by one server, under one name.
Writer(s) ==
    LET d == dump[s]
        f == disk.data[d.file]
    IN  d.step # "idle" =>
          /\ pc[s] = "serve" /\ d.key \in Keys /\ d.file \in Inodes
          /\ f.times >= 1
          /\ d.step \in {"write", "link"} /\ disk.name[d.key] = NoFile => disk.tmp[d.key] = d.file
          /\ d.step = "unlink" => disk.name[d.key] # NoFile
          /\ d.step = "write" /\ f.times = 1 => \A k \in Keys : disk.name[k] # d.file
          /\ d.step = "link" /\ f.times = 1 =>
                f.kind # "open" /\ (f.kind = "whole" => f.names = NamesOf(list[s]))

Writers == \A s \in Servers : Writer(s)

Apart == \A s, t \in Servers :
            s # t /\ dump[s].step # "idle" /\ dump[t].step # "idle" /\ dump[s].file = dump[t].file
               => disk.data[dump[s].file].times >= 2

\* A name leads to a file that was opened and, if only once, closed.
NamesAreClosed == \A k \in Keys :
    disk.name[k] # NoFile => /\ Dumped(disk, k).times >= 1
                             /\ Dumped(disk, k).times = 1 => Dumped(disk, k).kind # "open"

\* The dump that was reported last stays what it was, until it is opened again.
LastKept ==
    last.key \in Dumps(disk) =>
      LET f == Dumped(disk, last.key)
      IN  f.kind = "whole" /\ f.times = 1 => ToSet(f.names) = last.names

Files == Writers /\ Apart /\ NamesAreClosed /\ LastKept

(* The writers serve. *)
LEMMA WritersBusy == Writers => Busy
BY DEF Writers, Writer, Busy

(* Nothing happens to the files. *)
LEMMA QuietFiles ==
  ASSUME Files, Quiet
  PROVE  Files'
<1>1. disk' = disk /\ last' = last /\ \A t \in Servers : Steady(t)
  BY DEF Quiet, diskVars
<1>2. Writers'
  BY <1>1 DEF Files, Writers, Writer, Steady
<1>3. Apart'
  BY <1>1 DEF Files, Apart, Steady
<1>4. NamesAreClosed' /\ LastKept'
  BY <1>1 DEF Files, NamesAreClosed, LastKept, Dumps, Dumped
<1> QED BY <1>2, <1>3, <1>4 DEF Files

(* A dump is left as it is. *)
LEMMA GivesUpFiles ==
  ASSUME Types, Files, NEW s \in Servers, GivesUp(s)
  PROVE  Files'
<1>1. /\ disk' = disk /\ last' = last /\ dump'[s].step = "idle"
      /\ \A t \in Servers \ {s} : Steady(t)
  BY DEF GivesUp, diskVars, Rest, Types, NoDump
<1>2. Writers'
  BY <1>1 DEF Files, Writers, Writer, Steady
<1>3. Apart'
  BY <1>1 DEF Files, Apart, Steady
<1>4. NamesAreClosed' /\ LastKept'
  BY <1>1 DEF Files, NamesAreClosed, LastKept, Dumps, Dumped
<1> QED BY <1>2, <1>3, <1>4 DEF Files

(* The last step of a dump. *)
LEMMA UnlinksFiles ==
  ASSUME Types, Files, NEW s \in Servers, Unlinks(s)
  PROVE  Files'
<1>1. /\ dump[s].step = "unlink" /\ last' = last /\ dump'[s].step = "idle"
      /\ \A t \in Servers \ {s} : Steady(t)
  BY DEF Unlinks, Rest, Types, NoDump
<1> DEFINE k == dump[s].key
<1>2. k \in Keys /\ disk.name[k] # NoFile
  BY <1>1 DEF Files, Writers, Writer
<1>3. /\ disk'.data = disk.data /\ disk'.name = disk.name
      /\ disk'.tmp = [disk.tmp EXCEPT ![k] = NoFile]
  BY <1>2, UnlinkIs DEF Unlinks, Types
<1>4. \A l \in Keys : disk'.name[l] = NoFile => disk'.tmp[l] = disk.tmp[l]
  BY <1>2, <1>3 DEF Types, DiskRec
<1>5. Writers'
  <2> SUFFICES ASSUME NEW t \in Servers, dump'[t].step # "idle" PROVE Writer(t)'
    BY DEF Writers, Writer
  <2>1. t # s /\ dump'[t] = dump[t] /\ pc'[t] = pc[t] /\ list'[t] = list[t]
    BY <1>1 DEF Steady
  <2>2. Writer(t)
    BY DEF Files, Writers
  <2> QED BY <1>3, <1>4, <2>1, <2>2 DEF Writer
<1>6. Apart'
  BY <1>1, <1>3 DEF Files, Apart, Steady
<1>7. NamesAreClosed' /\ LastKept'
  BY <1>3, <1>1 DEF Files, NamesAreClosed, LastKept, Dumps, Dumped
<1> QED BY <1>5, <1>6, <1>7 DEF Files

(* A file gets its name. *)
LEMMA LinksFiles ==
  ASSUME Types, Files, NEW s \in Servers, Links(s)
  PROVE  Files'
<1> DEFINE k == dump[s].key  i == dump[s].file
<1>1. /\ dump[s].step = "link" /\ pc' = pc /\ list' = list
      /\ dump' = [dump EXCEPT ![s].step = "unlink"]
      /\ last' = [key |-> k, names |-> ToSet(NamesOf(list[s]))]
      /\ disk.tmp[k] # NoFile /\ disk.name[k] = NoFile
  BY DEF Links, CanLink
<1>2. /\ k \in Keys /\ i \in Inodes /\ disk.tmp[k] = i /\ disk.data[i].times >= 1
      /\ disk.data[i].times = 1 => /\ disk.data[i].kind # "open"
                                   /\ disk.data[i].kind = "whole" => disk.data[i].names = NamesOf(list[s])
  BY <1>1 DEF Files, Writers, Writer
<1>3. /\ disk'.data = disk.data /\ disk'.tmp = disk.tmp
      /\ disk'.name = [disk.name EXCEPT ![k] = i]
  <2>1. disk' = link(disk, k) /\ disk \in DiskRec /\ k \in Keys
    BY <1>2 DEF Links, Types
  <2> HIDE DEF k
  <2>2. /\ disk'.data = disk.data /\ disk'.tmp = disk.tmp
        /\ disk'.name = [disk.name EXCEPT ![k] = disk.tmp[k]]
    BY <2>1, LinkIs
  <2> QED BY <1>2, <2>2
<1>4. /\ disk'.name[k] = i /\ i # NoFile
      /\ \A l \in Keys \ {k} : disk'.name[l] = disk.name[l]
  BY <1>2, <1>3 DEF Types, DiskRec, Inodes, NoFile
<1>5. /\ dump'[s].step = "unlink" /\ dump'[s].key = k /\ dump'[s].file = i
      /\ \A t \in Servers \ {s} : dump'[t] = dump[t]
  BY <1>1 DEF Types, DumpRec
<1> HIDE DEF k, i
<1>6. Writers'
  <2> SUFFICES ASSUME NEW t \in Servers, dump'[t].step # "idle" PROVE Writer(t)'
    BY DEF Writers, Writer
  <2>1. CASE t = s
    <3>1. dump[s].key = k /\ dump[s].file = i /\ pc[s] = "serve"
      BY <1>1 DEF Files, Writers, Writer, k, i
    <3> QED BY <1>1, <1>2, <1>3, <1>4, <1>5, <2>1, <3>1 DEF Writer
  <2>2. CASE t # s
    <3>1. dump'[t] = dump[t] /\ Writer(t) /\ dump[t].step # "idle"
      BY <1>5, <2>2 DEF Files, Writers
    <3>2. dump[t].file = i => disk.data[i].times >= 2
      BY <1>1, <2>2, <3>1 DEF Files, Apart, i
    <3> DEFINE d == dump[t]  f == disk.data[d.file]
    <3>3. pc'[t] = pc[t] /\ list'[t] = list[t] /\ dump'[t] = d /\ disk'.data[d.file] = f
      BY <1>1, <1>3, <3>1
    <3>4. d.step \in {"write", "link"} /\ disk'.name[d.key] = NoFile => disk'.tmp[d.key] = d.file
      BY <1>3, <1>4, <3>1 DEF Writer
    <3>5. d.step = "unlink" => disk'.name[d.key] # NoFile
      BY <1>4, <3>1 DEF Writer
    <3>6. ASSUME d.step = "write", f.times = 1, NEW l \in Keys PROVE disk'.name[l] # d.file
      <4>1. disk.name[l] # d.file /\ d.file # i
        BY <3>1, <3>2, <3>6 DEF Writer
      <4> QED BY <1>4, <4>1
    <3>7. /\ pc[t] = "serve" /\ d.key \in Keys /\ d.file \in Inodes /\ f.times >= 1
          /\ d.step = "link" /\ f.times = 1 =>
                f.kind # "open" /\ (f.kind = "whole" => f.names = NamesOf(list[t]))
      BY <3>1 DEF Writer
    <3> HIDE DEF d, f
    <3> QED BY <3>3, <3>4, <3>5, <3>6, <3>7 DEF Writer
  <2> QED BY <2>1, <2>2
<1>7. Apart'
  <2>1. \A t \in Servers : dump'[t].file = dump[t].file /\ (dump'[t].step # "idle" <=> dump[t].step # "idle")
    BY <1>1, <1>5 DEF i
  <2> QED BY <1>3, <2>1 DEF Files, Apart
<1>8. NamesAreClosed'
  BY <1>2, <1>3, <1>4 DEF Files, NamesAreClosed, Dumped
<1>9. LastKept'
  <2>1. last'.key = k /\ last'.names = ToSet(NamesOf(list[s]))
    BY <1>1
  <2> QED BY <1>2, <1>3, <1>4, <2>1 DEF LastKept, Dumped, Dumps
<1> QED BY <1>6, <1>7, <1>8, <1>9 DEF Files

(* The names of a server's groups can be dumped. *)
LEMMA NamesOfList ==
  ASSUME Tables, NEW s \in Servers
  PROVE  NamesOf(list[s]) \in ShortNames /\ ToSet(NamesOf(list[s])) \subseteq Names
<1> DEFINE l == list[s]  q == [i \in 1 .. Len(l) |-> l[i].name]
<1>1. /\ l \in Seq(Group) /\ Len(l) \in Nat /\ DOMAIN l = 1 .. Len(l)
      /\ Len(l) + Len(todo[s]) <= Cardinality(Groups) /\ todo[s] \in Seq(Names)
  BY LenProperties DEF Tables
<1>2. Len(todo[s]) \in Nat /\ Cardinality(Groups) \in Nat
  BY <1>1, LenProperties, LifecycleAssumption, FS_CardinalityType
<1>3. NamesOf(l) = q
  BY <1>1 DEF NamesOf
<1> DEFINE n == Len(l)  m == Len(todo[s])
<1>4. n <= Cardinality(Groups)
  <2>1. n + m <= Cardinality(Groups) /\ n \in Nat /\ m \in Nat
    BY <1>1, <1>2
  <2> HIDE DEF n, m
  <2> QED BY <1>2, <2>1
<1> HIDE DEF l
<1>5. \A i \in 1 .. Len(l) : l[i].name \in Names
  <2>1. \A i \in DOMAIN l : l[i] \in Group
    BY <1>1, Elements
  <2> QED BY <1>1, <2>1 DEF Group
<1>6. q \in Seq(Names) /\ Len(q) = Len(l)
  BY <1>1, <1>5, FunctionIsSeq
<1> HIDE DEF q, n
<1>7. q \in ShortNames
  BY <1>4, <1>6 DEF ShortNames, n
<1>8. ToSet(q) \subseteq Names
  BY <1>6, Elements DEF ToSet
<1> QED BY <1>3, <1>7, <1>8 DEF l

(* A file is written and closed. *)
LEMMA WritesFiles ==
  ASSUME Tables, Types, Files, NEW s \in Servers, Writes(s)
  PROVE  Files' /\ disk' \in DiskRec
<1> DEFINE i == dump[s].file  q == NamesOf(list[s])
<1>1. PICK kind \in {"whole", "part", "empty"} : disk' = Write(disk, i, kind, q, now)
  BY DEF Writes
<1> DEFINE F == File(kind, IF kind = "whole" THEN q ELSE << >>, now, disk.data[i].times)
<1>2. /\ dump[s].step = "write" /\ pc' = pc /\ list' = list /\ last' = last
      /\ dump' = [dump EXCEPT ![s].step = "link"]
  BY DEF Writes
<1>3. /\ i \in Inodes /\ disk.data[i].times >= 1
      /\ disk.data[i].times = 1 => \A k \in Keys : disk.name[k] # i
  BY <1>2 DEF Files, Writers, Writer
<1>4. /\ disk' \in DiskRec /\ disk'.name = disk.name /\ disk'.tmp = disk.tmp
      /\ disk'.data = [disk.data EXCEPT ![i] = F]
  <2>1. q \in ShortNames /\ kind \in Kinds /\ now \in Nat /\ disk \in DiskRec
    BY NamesOfList DEF Kinds, Types, Seconds
  <2>2. i \in Inodes /\ disk' = Write(disk, i, kind, q, now)
    BY <1>1, <1>3
  <2> HIDE DEF i, q, F
  <2>3. LET e == Write(disk, i, kind, q, now)
        IN  /\ e \in DiskRec /\ e.name = disk.name /\ e.tmp = disk.tmp
            /\ e.data = [disk.data EXCEPT ![i] = File(kind, IF kind = "whole" THEN q ELSE << >>, now, disk.data[i].times)]
    BY ONLY <2>1, <2>2, WriteIs
  <2> QED BY <2>2, <2>3 DEF F
<1>5. /\ F.times = disk.data[i].times /\ F.kind # "open" /\ (F.kind = "whole" => F.names = q)
  BY FileFields
<1>6. /\ dump'[s].step = "link" /\ dump'[s].key = dump[s].key /\ dump'[s].file = i
      /\ \A t \in Servers \ {s} : dump'[t] = dump[t]
  BY <1>2 DEF Types, DumpRec
<1>7. /\ disk'.data[i] = F /\ \A j \in Inodes : j # i => disk'.data[j] = disk.data[j]
      /\ \A j \in Inodes : disk'.data[j].times = disk.data[j].times
  BY <1>3, <1>4, <1>5 DEF Types, DiskRec
<1>8. \A k \in Keys : disk.name[k] # NoFile => disk.name[k] \in Inodes
  BY DEF Types, DiskRec
<1> HIDE DEF F, i, q
<1>9. Writers'
  <2> SUFFICES ASSUME NEW t \in Servers, dump'[t].step # "idle" PROVE Writer(t)'
    BY DEF Writers, Writer
  <2>1. CASE t = s
    <3>1. /\ pc[s] = "serve" /\ dump[s].key \in Keys
          /\ disk.name[dump[s].key] = NoFile => disk.tmp[dump[s].key] = i
      BY <1>2 DEF Files, Writers, Writer, i
    <3>2. q = NamesOf(list'[s])
      BY <1>2 DEF q
    <3> QED BY <1>2, <1>3, <1>4, <1>5, <1>6, <1>7, <2>1, <3>1, <3>2 DEF Writer
  <2>2. CASE t # s
    <3> DEFINE d == dump[t]  f == disk.data[d.file]
    <3>1. dump'[t] = d /\ Writer(t) /\ d.step # "idle"
      BY <1>6, <2>2 DEF Files, Writers
    <3>2. d.file = i => f.times >= 2
      BY <1>2, <2>2, <3>1 DEF Files, Apart, i
    <3>3. pc'[t] = pc[t] /\ list'[t] = list[t] /\ disk'.tmp = disk.tmp /\ disk'.name = disk.name
      BY <1>2, <1>4
    <3>4. /\ pc[t] = "serve" /\ d.key \in Keys /\ d.file \in Inodes /\ f.times >= 1
          /\ disk'.data[d.file].times = f.times
      BY <1>7, <3>1 DEF Writer
    <3>5. f.times = 1 => disk'.data[d.file] = f
      BY <1>7, <3>2, <3>4
    <3>6. /\ d.step \in {"write", "link"} /\ disk.name[d.key] = NoFile => disk.tmp[d.key] = d.file
          /\ d.step = "unlink" => disk.name[d.key] # NoFile
          /\ d.step = "write" /\ f.times = 1 => \A k \in Keys : disk.name[k] # d.file
          /\ d.step = "link" /\ f.times = 1 =>
                f.kind # "open" /\ (f.kind = "whole" => f.names = NamesOf(list[t]))
      BY <3>1 DEF Writer
    <3> HIDE DEF d, f
    <3> QED BY <3>1, <3>3, <3>4, <3>5, <3>6 DEF Writer
  <2> QED BY <2>1, <2>2
<1>10. Apart'
  <2>1. \A t \in Servers : dump'[t].file = dump[t].file /\ (dump'[t].step # "idle" <=> dump[t].step # "idle")
    BY <1>2, <1>6 DEF i
  <2>2. \A t \in Servers : dump[t].step # "idle" => dump[t].file \in Inodes
    BY DEF Files, Writers, Writer
  <2> QED BY <1>7, <2>1, <2>2 DEF Files, Apart
<1>11. NamesAreClosed'
  <2> SUFFICES ASSUME NEW k \in Keys, disk'.name[k] # NoFile
               PROVE  /\ disk'.data[disk'.name[k]].times >= 1
                      /\ disk'.data[disk'.name[k]].times = 1 => disk'.data[disk'.name[k]].kind # "open"
    BY DEF NamesAreClosed, Dumped
  <2>1. CASE disk.name[k] = i
    BY <1>3, <1>4, <1>5, <1>7, <2>1
  <2>2. CASE disk.name[k] # i
    BY <1>4, <1>7, <1>8, <2>2 DEF Files, NamesAreClosed, Dumped
  <2> QED BY <2>1, <2>2
<1>12. LastKept'
  <2> SUFFICES ASSUME last.key \in Keys, disk.name[last.key] # NoFile,
                      disk'.data[disk.name[last.key]].kind = "whole",
                      disk'.data[disk.name[last.key]].times = 1
               PROVE  ToSet(disk'.data[disk.name[last.key]].names) = last.names
    BY <1>2, <1>4 DEF LastKept, Dumps, Dumped
  <2>1. disk.name[last.key] # i
    BY <1>3, <1>7
  <2>2. disk'.data[disk.name[last.key]] = disk.data[disk.name[last.key]]
    BY <1>7, <1>8, <2>1
  <2> QED BY <2>2 DEF Files, LastKept, Dumps, Dumped
<1> QED BY <1>4, <1>9, <1>10, <1>11, <1>12 DEF Files

(* A file is opened: a new one, or one that is in use, which is then in its *)
(* second life. *)
LEMMA OpensFiles ==
  ASSUME Types, Files, NEW s \in Servers, Opens(s)
  PROVE  Files' /\ disk' \in DiskRec /\ dump' \in [Servers -> DumpRec]
<1> DEFINE k == <<cnt[s] + 1, now>>  i == Opened(disk, k)
<1>1. k \in Keys /\ now \in Nat
  BY LifecycleAssumption DEF Opens, BeginDump, CanDump, Types, Keys, Seconds
<1>2. PICK exits \in BOOLEAN : BeginDump(s, exits)
  BY DEF Opens
<1>3. /\ disk' = fopen_w(disk, k, now)
      /\ dump' = [dump EXCEPT ![s] = [step |-> "write", key |-> k, file |-> i, exits |-> exits]]
  BY <1>2 DEF BeginDump, StepAfter
<1>4. /\ dump[s].step = "idle" /\ pc[s] = "serve" /\ pc' = pc /\ last' = last
      /\ \A t \in Servers \ {s} : Steady(t)
  BY DEF Opens, AtCommand, Rest
<1> HIDE DEF k
<1> DEFINE F == File("open", << >>, now, disk.data[i].times + 1)
<1>5. /\ disk' \in DiskRec /\ i \in Inodes /\ disk'.name = disk.name
      /\ disk'.tmp = [disk.tmp EXCEPT ![k] = i] /\ disk'.data = [disk.data EXCEPT ![i] = F]
  <2>1. disk \in DiskRec
    BY DEF Types
  <2>2. LET e == fopen_w(disk, k, now)
        IN  /\ e \in DiskRec /\ i \in Inodes /\ e.name = disk.name
            /\ e.tmp = [disk.tmp EXCEPT ![k] = i] /\ e.data = [disk.data EXCEPT ![i] = F]
    BY <1>1, <2>1, FopenIs
  <2> HIDE DEF i, F
  <2> QED BY <1>3, <2>2
<1>6. F.kind = "open" /\ F.times = disk.data[i].times + 1
  BY FileFields
<1>7. /\ dump'[s] = [step |-> "write", key |-> k, file |-> i, exits |-> exits]
      /\ dump' \in [Servers -> DumpRec]
  BY <1>1, <1>3, <1>5 DEF Types, DumpRec, Steps
<1>8. disk.tmp[k] # NoFile => i = disk.tmp[k]
  BY DEF Opened
<1>9. \A j \in Inodes : disk.data[j].times \in Nat
  BY DEF Types, DiskRec, FileRec
<1> HIDE DEF i
<1>10. /\ disk'.data[i] = F /\ \A j \in Inodes : j # i => disk'.data[j] = disk.data[j]
       /\ disk'.data[i].times = disk.data[i].times + 1 /\ disk'.data[i].kind = "open"
       /\ disk'.tmp[k] = i /\ \A l \in Keys : l # k => disk'.tmp[l] = disk.tmp[l]
  BY <1>1, <1>5, <1>6 DEF Types, DiskRec
<1>11. \A l \in Keys : disk.name[l] # NoFile => disk.name[l] \in Inodes /\ disk.data[disk.name[l]].times >= 1
  BY DEF Types, DiskRec, Files, NamesAreClosed, Dumped
<1>12. i # NoFile
  BY <1>5 DEF Inodes, NoFile
<1> HIDE DEF F
<1>13. \A l \in Keys : disk.name[l] = i => disk'.data[i].times >= 2
  BY <1>5, <1>9, <1>10, <1>11, <1>12
<1>14. \A t \in Servers \ {s} : dump[t].step # "idle" /\ dump[t].file = i => disk'.data[i].times >= 2
  BY <1>5, <1>9, <1>10 DEF Files, Writers, Writer
<1>15. Writers'
  <2> SUFFICES ASSUME NEW t \in Servers, dump'[t].step # "idle" PROVE Writer(t)'
    BY DEF Writers, Writer
  <2>1. CASE t = s
    <3>1. dump'[t].step = "write" /\ dump'[t].key = k /\ dump'[t].file = i
      BY <1>7, <2>1
    <3>2. pc'[t] = "serve" /\ k \in Keys /\ i \in Inodes /\ disk'.tmp[k] = i
      BY <1>1, <1>4, <1>5, <1>10, <2>1
    <3>3. disk'.data[i].times >= 1 /\ (disk'.data[i].times = 1 => \A l \in Keys : disk'.name[l] # i)
      BY <1>5, <1>9, <1>10, <1>13
    <3> QED BY <3>1, <3>2, <3>3 DEF Writer
  <2>2. CASE t # s
    <3> DEFINE d == dump[t]  f == disk.data[d.file]  g == disk'.data[d.file]
    <3>1. dump'[t] = d /\ Writer(t) /\ d.step # "idle" /\ pc'[t] = pc[t] /\ list'[t] = list[t]
      BY <1>4, <2>2 DEF Files, Writers, Steady
    <3>2. /\ pc[t] = "serve" /\ d.key \in Keys /\ d.file \in Inodes /\ f.times >= 1
      BY <3>1 DEF Writer
    <3>3. g.times >= 1 /\ (g.times = 1 => g = f)
      <4>1. CASE d.file = i
        BY <1>9, <1>10, <3>2, <4>1
      <4>2. CASE d.file # i
        BY <1>10, <3>2, <4>2
      <4> QED BY <4>1, <4>2
    <3>4. d.step \in {"write", "link"} /\ disk.name[d.key] = NoFile => disk'.tmp[d.key] = d.file
      <4>1. SUFFICES ASSUME d.step \in {"write", "link"}, disk.name[d.key] = NoFile
                     PROVE  disk'.tmp[d.key] = d.file
        OBVIOUS
      <4>2. disk.tmp[d.key] = d.file /\ d.file # NoFile
        BY <3>1, <3>2, <4>1 DEF Writer, Inodes, NoFile
      <4> QED BY <1>8, <1>10, <3>2, <4>2
    <3>5. /\ d.step = "unlink" => disk.name[d.key] # NoFile
          /\ d.step = "write" /\ f.times = 1 => \A l \in Keys : disk.name[l] # d.file
          /\ d.step = "link" /\ f.times = 1 =>
                f.kind # "open" /\ (f.kind = "whole" => f.names = NamesOf(list[t]))
      BY <3>1 DEF Writer
    <3>6. disk'.name = disk.name /\ disk'.data[dump'[t].file] = g
      BY <1>5, <3>1
    <3> HIDE DEF d, f, g
    <3> QED BY <3>1, <3>2, <3>3, <3>4, <3>5, <3>6 DEF Writer
  <2> QED BY <2>1, <2>2
<1>16. Apart'
  <2> SUFFICES ASSUME NEW t \in Servers, NEW u \in Servers, t # u, dump'[t].step # "idle",
                      dump'[u].step # "idle", dump'[t].file = dump'[u].file
               PROVE  disk'.data[dump'[t].file].times >= 2
    BY DEF Apart
  <2>1. CASE t = s \/ u = s
    <3>1. dump'[t].file = i /\ \E v \in Servers \ {s} : dump'[v].file = i /\ dump'[v].step # "idle"
      BY <1>7, <2>1
    <3> QED BY <1>4, <1>14, <3>1 DEF Steady
  <2>2. CASE t # s /\ u # s
    <3>1. /\ dump'[t] = dump[t] /\ dump'[u] = dump[u]
          /\ disk.data[dump[t].file].times >= 2 /\ dump[t].file \in Inodes
      BY <1>4, <2>2 DEF Files, Apart, Steady, Writers, Writer
    <3> QED BY <1>9, <1>10, <3>1
  <2> QED BY <2>1, <2>2
<1>17. NamesAreClosed'
  <2> SUFFICES ASSUME NEW l \in Keys, disk.name[l] # NoFile
               PROVE  /\ disk'.data[disk.name[l]].times >= 1
                      /\ disk'.data[disk.name[l]].times = 1 => disk'.data[disk.name[l]].kind # "open"
    BY <1>5 DEF NamesAreClosed, Dumped
  <2>1. CASE disk.name[l] = i
    BY <1>5, <1>9, <1>10, <1>13, <2>1
  <2>2. CASE disk.name[l] # i
    BY <1>10, <1>11, <2>2 DEF Files, NamesAreClosed, Dumped
  <2> QED BY <2>1, <2>2
<1>18. LastKept'
  <2> SUFFICES ASSUME last.key \in Keys, disk.name[last.key] # NoFile,
                      disk'.data[disk.name[last.key]].kind = "whole",
                      disk'.data[disk.name[last.key]].times = 1
               PROVE  ToSet(disk'.data[disk.name[last.key]].names) = last.names
    BY <1>4, <1>5 DEF LastKept, Dumps, Dumped
  <2>1. disk.name[last.key] # i
    BY <1>10
  <2>2. disk'.data[disk.name[last.key]] = disk.data[disk.name[last.key]]
    BY <1>10, <1>11, <2>1
  <2> QED BY <2>2 DEF Files, LastKept, Dumps, Dumped
<1> QED BY <1>5, <1>7, <1>15, <1>16, <1>17, <1>18 DEF Files

(* Whatever happens to the files, it is one of these. *)
LEMMA FilesStep ==
  ASSUME Tables, Types, Files, DiskStep, Counts
  PROVE  Files' /\ Types'
<1>1. options' \in Options /\ now' \in Seconds
  BY DEF Types, Counts
<1>2. cnt' \in [Servers -> 0 .. MaxDumps]
  <2>1. MaxDumps \in Nat /\ cnt \in [Servers -> 0 .. MaxDumps]
    BY LifecycleAssumption DEF Types
  <2>2. CASE cnt' = cnt
    BY <2>1, <2>2
  <2>3. ASSUME NEW s \in Servers, cnt' = [cnt EXCEPT ![s] = 0] PROVE cnt' \in [Servers -> 0 .. MaxDumps]
    BY <2>1, <2>3
  <2>4. ASSUME NEW s \in Servers, cnt[s] < MaxDumps, cnt' = [cnt EXCEPT ![s] = @ + 1]
        PROVE  cnt' \in [Servers -> 0 .. MaxDumps]
    <3>1. cnt[s] \in 0 .. MaxDumps
      BY <2>1
    <3>2. cnt[s] + 1 \in 0 .. MaxDumps
      BY <2>1, <2>4, <3>1
    <3> QED BY <2>1, <2>4, <3>2
  <2> QED BY <2>2, <2>3, <2>4 DEF Counts
<1>3. ASSUME Files', disk' \in DiskRec, dump' \in [Servers -> DumpRec],
             last' \in [key : Keys \cup {NoKey}, names : SUBSET Names]
      PROVE  Files' /\ Types'
  BY <1>1, <1>2, <1>3 DEF Types
<1>4. NoDump \in DumpRec
  BY DEF NoDump, DumpRec, Steps, NoKey
<1>5. ASSUME NEW s \in Servers, NEW step \in Steps
      PROVE  [dump EXCEPT ![s].step = step] \in [Servers -> DumpRec]
  <2>1. [dump[s] EXCEPT !.step = step] \in DumpRec
    BY DEF Types, DumpRec
  <2> QED BY <2>1 DEF Types
<1>6. CASE Quiet
  <2>1. /\ disk' = disk /\ last' = last /\ Files'
    BY <1>6, QuietFiles DEF Quiet, diskVars
  <2>2. dump' = dump
    BY <1>6 DEF Quiet
  <2> QED BY <1>1, <1>2, <1>3, <2>1, <2>2 DEF Types
<1>7. ASSUME NEW s \in Servers, GivesUp(s) PROVE Files' /\ Types'
  <2>1. disk' = disk /\ last' = last /\ Files'
    BY <1>7, GivesUpFiles DEF GivesUp, diskVars
  <2>2. dump' \in [Servers -> DumpRec]
    BY <1>4, <1>7 DEF GivesUp, Types
  <2> QED BY <1>3, <2>1, <2>2 DEF Types
<1>8. ASSUME NEW s \in Servers, Opens(s) PROVE Files' /\ Types'
  <2>1. last' = last
    BY <1>8 DEF Opens
  <2> QED BY <1>3, <1>8, <2>1, OpensFiles DEF Types
<1>9. ASSUME NEW s \in Servers, Writes(s) PROVE Files' /\ Types'
  <2>1. last' = last /\ dump' \in [Servers -> DumpRec]
    BY <1>5, <1>9 DEF Writes, Steps
  <2> QED BY <1>3, <1>9, <2>1, WritesFiles DEF Types
<1>10. ASSUME NEW s \in Servers, Links(s) PROVE Files' /\ Types'
  <2>1. dump[s].key \in Keys
    BY <1>10 DEF Links, Files, Writers, Writer
  <2>2. disk' \in DiskRec
    BY <1>10, <2>1, LinkIs DEF Links, Types
  <2>3. dump' \in [Servers -> DumpRec]
    BY <1>5, <1>10 DEF Links, Steps
  <2>4. last' \in [key : Keys \cup {NoKey}, names : SUBSET Names]
    BY <1>10, <2>1, NamesOfList DEF Links
  <2> QED BY <1>3, <1>10, <2>2, <2>3, <2>4, LinksFiles
<1>11. ASSUME NEW s \in Servers, Unlinks(s) PROVE Files' /\ Types'
  <2>1. dump[s].key \in Keys
    BY <1>11 DEF Unlinks, Files, Writers, Writer
  <2>2. disk' \in DiskRec
    BY <1>11, <2>1, UnlinkIs DEF Unlinks, Types
  <2>3. dump' \in [Servers -> DumpRec] /\ last' = last
    BY <1>4, <1>11 DEF Unlinks, Types
  <2> QED BY <1>3, <1>11, <2>2, <2>3, UnlinksFiles DEF Types
<1> QED BY <1>6, <1>7, <1>8, <1>9, <1>10, <1>11 DEF DiskStep

-----------------------------------------------------------------------------
(* The invariant. *)

Lives == \A s \in Servers : starts[s] <= options.lives[s]

IInv == Asked /\ Lives /\ Types /\ Tables /\ Files

(* No server is started too often. *)
LEMMA LivesStep ==
  ASSUME Asked, Lives, Types, [Next]_vars
  PROVE  Lives'
<1>1. options' = options
  BY CountsStep DEF Counts
<1>2. ASSUME \/ starts' = starts
             \/ \E s \in Servers : /\ starts[s] < options.lives[s]
                                   /\ starts' = [starts EXCEPT ![s] = @ + 1]
      PROVE  Lives'
  <2>1. options.lives \in [Servers -> Nat]
    BY OptionTypes DEF Types
  <2> DEFINE lives == options.lives
  <2>2. lives \in [Servers -> Nat] /\ starts \in [Servers -> Nat] /\ \A s \in Servers : starts[s] <= lives[s]
    BY <2>1 DEF Asked, Lives
  <2> HIDE DEF lives
  <2>3. \A s \in Servers : starts'[s] <= lives[s]
    BY <1>2, <2>2 DEF lives
  <2> QED BY <1>1, <2>3 DEF Lives, lives
<1>3. ASSUME NEW s \in Servers, Stopped(s) PROVE starts' = starts
  BY <1>3 DEF Stopped
<1>4. ASSUME NEW s \in Servers, Starting(s) PROVE Lives'
  <2>1. CASE starts[s] < options.lives[s] /\ Start(s)
    BY <1>2, <2>1 DEF Start
  <2>2. CASE TakeSocket(s)
    BY <1>2, <1>3, <2>2 DEF TakeSocket, sock_connect, sock_send_helo, stat, unlink, bind, listen
  <2> QED BY <1>4, <2>1, <2>2 DEF Starting
<1>5. ASSUME NEW s \in Servers, ~Starting(s), Run(s) \/ Crash(s) PROVE starts' = starts
  BY <1>3, <1>5 DEF Run, Crash, read_dump, restore, Command, c_spwn, c_dele, c_dump, c_exit, write,
                    link_dump, unlink_dump, GoOn, EndDump, Ended, startupVars, takenVars
<1>6. ASSUME UNCHANGED vars \/ Tick \/ Leave PROVE starts' = starts
  BY <1>6 DEF vars, Tick, Leave, HeirsEnd, startupVars
<1> QED BY <1>2, <1>4, <1>5, <1>6 DEF Next

(* It holds at the beginning. *)
LEMMA InitIInv == Init => IInv
<1> SUFFICES ASSUME Init PROVE IInv
  OBVIOUS
<1> USE DEF Init
<1>1. Asked
  BY InitAsked
<1>2. Types
  <2>1. NoData \in FileRec
    BY FileFields, NoNames DEF NoData, Kinds
  <2>2. disk \in DiskRec
    BY <2>1 DEF EmptyDisk, DiskRec
  <2>3. dump \in [Servers -> DumpRec]
    BY DEF NoDump, DumpRec, Steps, NoKey
  <2>4. now \in Seconds /\ cnt \in [Servers -> 0 .. MaxDumps]
    BY LifecycleAssumption DEF Seconds
  <2> QED BY <2>2, <2>3, <2>4 DEF Types, NoKey
<1>3. Lives
  <2>1. options.lives \in [Servers -> Nat]
    BY <1>2, OptionTypes DEF Types
  <2>2. starts = [s \in Servers |-> 0]
    BY DEF StartupInit
  <2>3. ASSUME NEW s \in Servers, NEW n \in Nat PROVE starts[s] <= n
    BY <2>2
  <2> QED BY <2>1, <2>3 DEF Lives
<1>4. Tables
  <2> DEFINE e == << >>
  <2>1. /\ e \in Seq(Group) /\ e \in Seq(Names) /\ Len(e) = 0 /\ DOMAIN e = {} /\ uvstrhash_new = HashOfList(e)
    BY EmptyTable
  <2>2. Distinct(e)
    BY <2>1 DEF Distinct
  <2>3. list = [s \in Servers |-> e] /\ todo = [s \in Servers |-> e] /\ e = << >>
    BY DEF e
  <2>4. hash = [s \in Servers |-> HashOfList(e)]
    BY <2>1
  <2>5. Cardinality(Groups) \in Nat
    BY LifecycleAssumption, FS_CardinalityType
  <2> HIDE DEF e, Init
  <2> QED BY <2>1, <2>2, <2>3, <2>4, <2>5 DEF Tables
<1>5. Files
  <2>1. \A s \in Servers : dump[s].step = "idle"
    BY DEF NoDump
  <2>2. \A k \in Keys : disk.name[k] = NoFile
    BY DEF EmptyDisk
  <2> QED BY <2>1, <2>2 DEF Files, Writers, Writer, Apart, NamesAreClosed, LastKept, Dumps
<1> QED BY <1>1, <1>2, <1>3, <1>4, <1>5 DEF IInv

(* Every step keeps it. *)
LEMMA NextIInv == IInv /\ [Next]_vars => IInv'
<1> SUFFICES ASSUME IInv, [Next]_vars PROVE IInv'
  OBVIOUS
<1> USE DEF IInv
<1>1. Asked'
  BY Projection, StepAsked
<1>2. Lives'
  BY LivesStep
<1>3. Tables'
  BY TableProjection, StepTables
<1>4. Files' /\ Types'
  <2>1. Busy
    BY WritersBusy DEF Files
  <2>2. DiskStep
    BY <2>1, DiskProjection
  <2>3. Counts
    BY CountsStep
  <2> QED BY <2>2, <2>3, FilesStep
<1> QED BY <1>1, <1>2, <1>3, <1>4

(* Names, addresses, files and lives are what they should be: in no dump a  *)
(* server writes without a file. *)
THEOREM Typing == Spec => []TypeOK
<1>1. IInv => TypeOK
  <2> SUFFICES ASSUME IInv PROVE TypeOK
    OBVIOUS
  <2>1. Asked /\ Lives /\ Types /\ Tables /\ Files
    BY DEF IInv
  <2>2. \A s \in Servers : starts[s] \in 0 .. options.lives[s]
    <3>1. options.lives \in [Servers -> Nat]
      BY <2>1, OptionTypes DEF Types
    <3> SUFFICES ASSUME NEW s \in Servers PROVE starts[s] \in 0 .. options.lives[s]
      OBVIOUS
    <3> DEFINE m == starts[s]  n == options.lives[s]
    <3>2. m \in Nat /\ n \in Nat /\ m <= n
      BY <2>1, <3>1 DEF Asked, Lives
    <3> HIDE DEF m, n
    <3>3. m \in 0 .. n
      BY <3>2
    <3> QED BY <3>3 DEF m, n
  <2>3. ASSUME NEW s \in Servers
        PROVE  /\ \A i \in DOMAIN list[s] : list[s][i] \in [id : Groups, name : Names]
               /\ \A i \in DOMAIN todo[s] : todo[s][i] \in Names
               /\ cnt[s] \in 0 .. MaxDumps
               /\ dump[s].step # "idle" => dump[s].file # NoFile
    <3>1. list[s] \in Seq(Group) /\ todo[s] \in Seq(Names)
      BY <2>1 DEF Tables
    <3>2. \A i \in DOMAIN list[s] : list[s][i] \in Group
      BY <3>1, Elements
    <3>3. \A i \in DOMAIN todo[s] : todo[s][i] \in Names
      BY <3>1, Elements
    <3>4. cnt[s] \in 0 .. MaxDumps
      BY <2>1 DEF Types
    <3>5. dump[s].step # "idle" => dump[s].file # NoFile
      BY <2>1 DEF Files, Writers, Writer, Inodes, NoFile
    <3> QED BY <3>2, <3>3, <3>4, <3>5 DEF Group
  <2>4. \A k \in Keys : disk.tmp[k] \in Inodes \cup {NoFile} /\ disk.name[k] \in Inodes \cup {NoFile}
    BY <2>1 DEF Types, DiskRec
  <2>5. now \in Seconds /\ last.names \subseteq Names
    BY <2>1 DEF Types
  <2> QED BY <2>1, <2>2, <2>3, <2>4, <2>5 DEF TypeOK, Asked, Lives
<1> QED BY <1>1, InitIInv, NextIInv, PTL DEF Spec

(* After any commands, loads and ends: the hash is the list. *)
THEOREM HashOfEveryList == Spec => []HashIsList
<1>1. IInv => HashIsList
  BY TablesHash DEF IInv
<1> QED BY <1>1, InitIInv, NextIInv, PTL DEF Spec

(* Whenever servers crash: a dump that was opened once has been written. *)
THEOREM NamedWhenClosed == Spec => []DumpsAreClosed
<1>1. IInv => DumpsAreClosed
  BY DEF IInv, Files, NamesAreClosed, DumpsAreClosed, Dumps
<1> QED BY <1>1, InitIInv, NextIInv, PTL DEF Spec

(* Only load_newest_dump and load_dump lead on from there. *)
LEMMA LoadsByReading ==
  ASSUME Asked, [Next]_vars, NEW s \in Servers, pc[s] = "load", pc'[s] \in {"restore", "serve"}
  PROVE  read_dump(s)
<1>1. ~UNCHANGED pc
  OBVIOUS
<1>2. PICK t \in Servers : Run(t) \/ Crash(t)
  BY <1>1 DEF Next, Tick, Leave, HeirsEnd, vars, startupVars
<1>3. ~Stopped(t)
  BY DEF Stopped, Go, Asked
<1>4. ~Ended(t)
  BY <1>3 DEF Ended
<1>5. ~Crash(t) /\ ~Command(t) /\ ~write(t) /\ ~link_dump(t) /\ ~unlink_dump(t)
  BY <1>1, <1>4 DEF Crash, Command, c_spwn, c_dele, c_dump, c_exit, write, link_dump, unlink_dump,
                    GoOn, EndDump, startupVars
<1>6. ~Starting(t)
  BY <1>3 DEF Starting, Start, TakeSocket, sock_connect, sock_send_helo, stat, unlink, bind, listen, Go, Asked
<1>7. ~restore(t)
  BY DEF restore, Go, Asked
<1>8. read_dump(t)
  BY <1>2, <1>5, <1>6, <1>7 DEF Run
<1>9. t = s
  BY <1>4, <1>8 DEF read_dump, Go, Asked
<1> QED BY <1>8, <1>9

(* The loop over the directory ends with the dump that was reported last. *)
LEMMA LastIsNewest ==
  ASSUME Types, LastStands, options.load_latest
  PROVE  Candidates = {Dumped(disk, last.key)}
<1> DEFINE D == Dumps(disk)  f == Dumped(disk, last.key)  t == options.config.mtime
           newer == {k \in D : Newer(Dumped(disk, k).mtime, t)}
<1>1. last.key \in D /\ f.mtime > t /\ \A k \in D \ {last.key} : Dumped(disk, k).mtime < f.mtime
  BY DEF LastStands
<1>2. t \in Nat /\ \A k \in D : Dumped(disk, k).mtime \in Nat
  <2>1. options.config \in FileRec
    BY OptionTypes DEF Types
  <2>2. \A k \in D : Dumped(disk, k) \in FileRec
    BY DEF Types, DiskRec, Dumps, Dumped
  <2> QED BY <2>1, <2>2 DEF FileRec
<1>3. last.key \in newer
  BY <1>1 DEF Newer
<1>4. \A l \in newer : ~Newer(Dumped(disk, l).mtime, f.mtime)
  BY <1>1, <1>2 DEF Newer
<1>5. \A k \in newer : (\A l \in newer : ~Newer(Dumped(disk, l).mtime, Dumped(disk, k).mtime)) => k = last.key
  BY <1>1, <1>2, <1>3 DEF Newer
<1>6. NewestDumps(disk, options.config) =
        {Dumped(disk, k) : k \in {k \in newer : \A l \in newer : ~Newer(Dumped(disk, l).mtime, Dumped(disk, k).mtime)}}
  BY <1>3 DEF NewestDumps
<1> DEFINE best == {k \in newer : \A l \in newer : ~Newer(Dumped(disk, l).mtime, Dumped(disk, k).mtime)}
<1>7. best = {last.key}
  BY <1>3, <1>4, <1>5
<1>8. NewestDumps(disk, options.config) = {Dumped(disk, k) : k \in best}
  BY <1>6
<1> HIDE DEF best, newer
<1> QED BY <1>7, <1>8 DEF Candidates

(* Whatever ended the servers before, read_dump loads the groups of the    *)
(* last dump that was reported, while its file is good and the newest.     *)
THEOREM RestoresLast == Spec => Restores
<1>1. ASSUME IInv, [Next]_vars, NEW s \in Servers, pc[s] = "load", pc'[s] \in {"restore", "serve"},
             options.load_latest, LastStands
      PROVE  ToSet(todo'[s]) = last.names
  <2> DEFINE f == Dumped(disk, last.key)
  <2>1. Asked /\ Types /\ Tables /\ Files
    BY <1>1 DEF IInv
  <2>2. f.kind = "whole" /\ f.times = 1 /\ last.key \in Dumps(disk)
    BY <1>1 DEF LastStands
  <2>3. ToSet(f.names) = last.names
    BY <2>1, <2>2 DEF Files, LastKept
  <2>4. Candidates = {f}
    BY <1>1, <2>1, LastIsNewest
  <2>5. f # NoConfig /\ load_dump_Succeeds(f)
    <3>1. NoConfig.kind = "empty"
      BY FileFields DEF NoConfig, NoData
    <3> QED BY <2>2, <3>1 DEF load_dump_Succeeds
  <2>6. read_dump(s)
    BY <1>1, <2>1, LoadsByReading
  <2> HIDE DEF f
  <2>7. todo' = [todo EXCEPT ![s] = load_dump(f)]
    BY <2>4, <2>5, <2>6 DEF read_dump
  <2>8. todo'[s] = f.names
    BY <2>1, <2>7 DEF Tables, load_dump
  <2> QED BY <2>3, <2>8
<1>2. IInv /\ [Next]_vars =>
        \A s \in Servers :
          pc[s] = "load" /\ pc'[s] \in {"restore", "serve"} /\ options.load_latest /\ LastStands
             => ToSet(todo'[s]) = last.names
  BY <1>1
<1> QED BY <1>2, InitIInv, NextIInv, PTL DEF Spec, Restores

-----------------------------------------------------------------------------
(* The hash is a table. *)

\* The table that a list is.
TableOf(l) == [n \in Names |-> Ids(Filter(l, Named(n)))]

(* What the hashes are as tables. *)
LEMMA TablesOfLists ==
  Tables => [s \in Servers |-> [n \in Names |-> ValuesOf(s, n)]] = [s \in Servers |-> TableOf(list[s])]
BY ValuesInList DEF TableOf

(* The addresses of no group, of a group and others, and of the others. *)
LEMMA IdsNone == ASSUME NEW f \in Seq(Group), Len(f) = 0 PROVE Ids(f) = << >>
<1>1. Ids(f) \in Seq(Groups) /\ Len(Ids(f)) = 0
  BY RowsType
<1> QED BY <1>1, EmptySeq

LEMMA IdsFirst ==
  ASSUME NEW F \in Seq(Group), NEW f \in Seq(Group), NEW g \in Group,
         Len(F) = Len(f) + 1, F[1] = g, \A i \in 1 .. Len(f) : F[i + 1] = f[i]
  PROVE  Ids(F) = <<g.id>> \o Ids(f)
<1> DEFINE x == <<g.id>>  A == Ids(F)  B == Ids(f)  n == Len(f)
<1>1. x \in Seq(Groups) /\ Len(x) = 1 /\ x[1] = g.id
  BY DEF Group
<1>2. /\ A \in Seq(Groups) /\ Len(A) = Len(F) /\ \A i \in 1 .. Len(F) : A[i] = F[i].id
      /\ B \in Seq(Groups) /\ Len(B) = n /\ \A i \in 1 .. n : B[i] = f[i].id
      /\ n \in Nat /\ Len(F) = n + 1 /\ \A i \in 1 .. n : F[i + 1] = f[i]
  BY RowsType
<1> HIDE DEF x, A, B, n
<1>3. A[1] = x[1]
  BY <1>1, <1>2
<1>4. ASSUME NEW i \in 1 .. n PROVE A[1 + i] = B[i]
  <2> DEFINE k == i + 1
  <2>1. k \in 1 .. Len(F) /\ F[k] = f[i] /\ 1 + i = k
    BY <1>2
  <2> HIDE DEF k
  <2> QED BY <1>2, <2>1
<1>5. Cat(Groups, A, x, B)
  BY <1>1, <1>2, <1>3, <1>4 DEF Cat
<1> QED BY <1>5, CatIs DEF x, A, B

LEMMA IdsRest ==
  ASSUME NEW F \in Seq(Group), F # << >>
  PROVE  Ids(F) # << >> /\ Ids(Tail(F)) = Tail(Ids(F))
<1> DEFINE f == Tail(F)  A == Ids(F)  B == Ids(f)  n == Len(f)
<1>1. f \in Seq(Group) /\ Len(F) = n + 1 /\ n \in Nat /\ \A i \in 1 .. n : f[i] = F[i + 1]
  BY HeadTailProperties, EmptySeq, LenProperties
<1>2. /\ A \in Seq(Groups) /\ Len(A) = n + 1 /\ \A i \in 1 .. n + 1 : A[i] = F[i].id
      /\ B \in Seq(Groups) /\ Len(B) = n /\ \A i \in 1 .. n : B[i] = f[i].id
  BY <1>1, RowsType
<1> HIDE DEF f, A, B, n
<1>3. A # << >>
  BY <1>1, <1>2
<1>4. Tail(A) \in Seq(Groups) /\ Len(Tail(A)) = n /\ \A i \in 1 .. n : Tail(A)[i] = A[i + 1]
  BY <1>1, <1>2, <1>3, HeadTailProperties
<1>5. ASSUME NEW i \in 1 .. n PROVE Tail(A)[i] = B[i]
  <2> DEFINE k == i + 1
  <2>1. k \in 1 .. n + 1 /\ f[i] = F[k] /\ Tail(A)[i] = A[k]
    BY <1>1, <1>4
  <2> HIDE DEF k
  <2> QED BY <1>2, <2>1
<1>6. Tail(A) = B
  BY <1>2, <1>4, <1>5, SeqEqual
<1> QED BY <1>3, <1>6 DEF A, B, f

(* No group, no value. *)
LEMMA TableOfNone == TableOf(<< >>) = Table!Empty
<1>1. \A n \in Names : Ids(Filter(<< >>, Named(n))) = << >>
  <2> SUFFICES ASSUME NEW n \in Names PROVE Ids(Filter(<< >>, Named(n))) = << >>
    OBVIOUS
  <2> DEFINE f == Filter(<< >>, Named(n))
  <2>1. f = << >>
    BY FilterEmpty
  <2> HIDE DEF f
  <2>2. f \in Seq(Group) /\ Len(f) = 0
    BY <2>1
  <2>3. Ids(f) = << >>
    BY <2>2, IdsNone
  <2> QED BY <2>3 DEF f
<1> QED BY <1>1 DEF TableOf, Table!Empty

(* A group more is a value more, the first one. *)
LEMMA TableOfInsert ==
  ASSUME NEW l \in Seq(Group), NEW g \in Group
  PROVE  TableOf(<<g>> \o l) = [TableOf(l) EXCEPT ![g.name] = <<g.id>> \o @]
<1> DEFINE h == <<g>>  m == h \o l
<1>1. h \in Seq(Group) /\ Len(h) = 1 /\ h[1] = g
  OBVIOUS
<1> HIDE DEF h
<1>2. Cat(Group, m, h, l)
  BY <1>1, CatOf
<1>3. ASSUME NEW n \in Names
      PROVE  Ids(Filter(m, Named(n))) = IF n = g.name THEN <<g.id>> \o Ids(Filter(l, Named(n)))
                                        ELSE Ids(Filter(l, Named(n)))
  <2> DEFINE S == Named(n)  f == Filter(l, S)  F == Filter(m, S)
  <2>1. f \in Seq(Group)
    BY FilterGroups
  <2>2. g \in S <=> n = g.name
    BY DEF Named, Group
  <2> HIDE DEF S
  <2>3. Filter(h, S) = IF g \in S THEN h ELSE << >>
    BY <1>1, FilterOne
  <2>4. Cat(Group, F, Filter(h, S), f)
    BY <1>2, CatFilter
  <2> HIDE DEF f, F, m
  <2>5. CASE n = g.name
    <3>1. Cat(Group, F, h, f)
      BY <2>2, <2>3, <2>4, <2>5
    <3>2. /\ F \in Seq(Group) /\ Len(f) \in Nat /\ Len(F) = Len(f) + 1 /\ F[1] = g
          /\ \A i \in 1 .. Len(f) : F[1 + i] = f[i]
      BY <1>1, <3>1 DEF Cat
    <3>3. \A i \in 1 .. Len(f) : F[i + 1] = f[i]
      <4> SUFFICES ASSUME NEW i \in 1 .. Len(f) PROVE F[i + 1] = f[i]
        OBVIOUS
      <4>1. 1 + i = i + 1
        OBVIOUS
      <4> QED BY <3>2, <4>1
    <3>4. Ids(F) = <<g.id>> \o Ids(f)
      BY <2>1, <3>2, <3>3, IdsFirst
    <3> QED BY <2>5, <3>4 DEF f, F, S
  <2>6. CASE n # g.name
    <3>1. Filter(h, S) = << >>
      BY <2>2, <2>3, <2>6
    <3>2. F = f
      BY <2>4, <3>1, CatEmpty
    <3> QED BY <2>6, <3>2 DEF f, F, S
  <2> QED BY <2>5, <2>6
<1> QED BY <1>3 DEF TableOf, m, h, Group

\* A step of the table from T to U, or none.
TableMove(T, U) ==
    \/ U = T
    \/ \E s \in Servers :
          \/ \E k \in Names, v \in Groups : U = [T EXCEPT ![s][k] = <<v>> \o @]
          \/ \E k \in Names : T[s][k] # << >> /\ U = [T EXCEPT ![s][k] = Tail(@)]
          \/ U = [T EXCEPT ![s] = Table!Empty]

(* A step of Lifecycle is one of the table, or none. *)
LEMMA TableNext ==
  ASSUME Tables, Tables', TableStep
  PROVE  TableMove([s \in Servers |-> TableOf(list[s])], [s \in Servers |-> TableOf(list'[s])])
<1> DEFINE T == [s \in Servers |-> TableOf(list[s])]
           U == [s \in Servers |-> TableOf(list'[s])]
<1>1. ASSUME NEW s \in Servers, NEW l, list' = [list EXCEPT ![s] = l] PROVE U = [T EXCEPT ![s] = TableOf(l)]
  <2>1. list'[s] = l /\ \A t \in Servers \ {s} : list'[t] = list[t]
    BY <1>1 DEF Tables
  <2> QED BY <2>1
<1>2. ASSUME list' = list PROVE U = T
  BY <1>2
<1>3. ASSUME NEW s \in Servers, Empties(s) PROVE U = [T EXCEPT ![s] = Table!Empty]
  BY <1>1, <1>3, TableOfNone DEF Empties
<1>4. ASSUME NEW s \in Servers, Inserts(s)
      PROVE  \E k \in Names, v \in Groups : U = [T EXCEPT ![s][k] = <<v>> \o @]
  <2>1. PICK n \in Names : Insert(s, n)
    BY <1>4 DEF Inserts
  <2>2. Len(list[s]) < Cardinality(Groups)
    <3> DEFINE m == Len(list[s])  k == Len(todo[s])
    <3>1. CASE todo[s] # << >>
      <4>1. m \in Nat /\ k \in Nat \ {0} /\ m + k <= Cardinality(Groups)
        BY <3>1, LenProperties, EmptySeq DEF Tables
      <4>2. Cardinality(Groups) \in Nat
        BY LifecycleAssumption, FS_CardinalityType
      <4> HIDE DEF m, k
      <4>3. m < Cardinality(Groups)
        BY <4>1, <4>2
      <4> QED BY <4>3 DEF m
    <3> QED BY <1>4, <3>1 DEF Inserts
  <2>3. PICK g \in Group, l \in Seq(Group) :
          /\ g.name = n /\ l = <<g>> \o list[s] /\ Len(l) = Len(list[s]) + 1 /\ Distinct(l)
          /\ list' = [list EXCEPT ![s] = l] /\ hash' = [hash EXCEPT ![s] = HashOfList(l)]
    BY <2>1, <2>2, InsertList
  <2>4. TableOf(l) = [TableOf(list[s]) EXCEPT ![n] = <<g.id>> \o @]
    BY <2>3, TableOfInsert DEF Tables
  <2>5. U = [T EXCEPT ![s] = [TableOf(list[s]) EXCEPT ![n] = <<g.id>> \o @]]
    <3>1. list' = [list EXCEPT ![s] = l]
      BY <2>3
    <3> HIDE DEF T, U
    <3>2. U = [T EXCEPT ![s] = TableOf(l)]
      BY <1>1, <3>1
    <3> QED BY <2>4, <3>2
  <2>6. T[s] = TableOf(list[s]) /\ g.id \in Groups
    BY DEF Group
  <2> HIDE DEF T, U
  <2>7. U = [T EXCEPT ![s][n] = <<g.id>> \o @]
    BY <2>5, <2>6
  <2> QED BY <2>6, <2>7
<1>5. ASSUME NEW s \in Servers, Deletes(s)
      PROVE  \E k \in Names : T[s][k] # << >> /\ U = [T EXCEPT ![s][k] = Tail(@)]
  <2> DEFINE L == list[s]
  <2>1. PICK n \in Names, l \in Seq(Group) :
            /\ Filter(L, Named(n)) # << >>
            /\ Filter(l, Named(n)) = Tail(Filter(L, Named(n)))
            /\ \A m \in Names \ {n} : Filter(l, Named(m)) = Filter(L, Named(m))
            /\ list' = [list EXCEPT ![s] = l]
    BY <1>5, DeleteList
  <2>2. L \in Seq(Group)
    BY DEF Tables
  <2> DEFINE F == Filter(L, Named(n))
  <2>3. F \in Seq(Group) /\ F # << >> /\ Filter(l, Named(n)) = Tail(F)
    BY <2>1, <2>2, FilterGroups
  <2> HIDE DEF F
  <2>4. Ids(F) # << >> /\ Ids(Tail(F)) = Tail(Ids(F))
    BY <2>3, IdsRest
  <2>5. TableOf(L)[n] = Ids(F)
    BY DEF TableOf, F
  <2>6. TableOf(l) = [TableOf(L) EXCEPT ![n] = Tail(@)]
    <3>1. \A m \in Names : TableOf(l)[m] = IF m = n THEN Tail(TableOf(L)[n]) ELSE TableOf(L)[m]
      BY <2>1, <2>3, <2>4, <2>5 DEF TableOf
    <3> QED BY <3>1 DEF TableOf
  <2>7. U = [T EXCEPT ![s] = [TableOf(L) EXCEPT ![n] = Tail(@)]]
    <3>1. list' = [list EXCEPT ![s] = l]
      BY <2>1
    <3> HIDE DEF T, U, L
    <3>2. U = [T EXCEPT ![s] = TableOf(l)]
      BY <1>1, <3>1
    <3> QED BY <2>6, <3>2
  <2>8. T[s] = TableOf(L)
    OBVIOUS
  <2> HIDE DEF T, U
  <2>9. U = [T EXCEPT ![s][n] = Tail(@)] /\ T[s][n] # << >>
    BY <2>4, <2>5, <2>7, <2>8
  <2> QED BY <2>9
<1>6. ASSUME Stays \/ \E s \in Servers : Loads(s) PROVE list' = list
  BY <1>6 DEF Stays, Loads
<1> HIDE DEF T, U
<1>7. CASE Stays
  BY <1>2, <1>6, <1>7 DEF TableMove, T, U
<1>8. ASSUME NEW s \in Servers, Loads(s) PROVE TableMove(T, U)
  BY <1>2, <1>6, <1>8 DEF TableMove, T, U
<1>9. ASSUME NEW s \in Servers, Empties(s) \/ Inserts(s) \/ Deletes(s) PROVE TableMove(T, U)
  BY <1>3, <1>4, <1>5, <1>9 DEF TableMove
<1>10. TableMove(T, U)
  BY <1>7, <1>8, <1>9 DEF TableStep, T, U
<1> QED BY <1>10 DEF T, U

(* uvstrhash, used as child_config uses it, is the table NameTable promises, *)
(* in every server: groups of one name hide each other, the newest first.  *)
THEOREM HashImplementsTable == Spec => HashIsTable
<1>1. Init => Table!Init
  <2> SUFFICES ASSUME Init PROVE Table!Init
    OBVIOUS
  <2>1. Tables
    BY InitIInv DEF IInv
  <2>2. [s \in Servers |-> TableOf(list[s])] = [s \in Servers |-> Table!Empty]
    BY TableOfNone DEF Init
  <2> QED BY <2>1, <2>2, TablesOfLists DEF Table!Init
<1>2. ASSUME IInv, IInv', [Next]_vars
      PROVE  \/ Table!Next
             \/ UNCHANGED [s \in Servers |-> [n \in Names |-> ValuesOf(s, n)]]
  <2> DEFINE V == [s \in Servers |-> [n \in Names |-> ValuesOf(s, n)]]
             T == [s \in Servers |-> TableOf(list[s])]
             U == [s \in Servers |-> TableOf(list'[s])]
  <2>1. Tables /\ Tables' /\ Asked /\ Types
    BY <1>2 DEF IInv
  <2>2. TableStep
    BY <1>2, <2>1, TableProjection
  <2>3. V = T
    BY <2>1, TablesOfLists
  <2>4. V' = U
    <3> SUFFICES ASSUME NEW s \in Servers, NEW n \in Names
                 PROVE  V'[s][n] = Ids(Filter(list'[s], Named(n)))
      BY DEF TableOf
    <3> DEFINE of == Filter(hash'[s][Bucket(n)], KeyIs(n))
    <3>1. list'[s] \in Seq(Group) /\ hash'[s] = HashOfList(list'[s])
      BY <2>1 DEF Tables
    <3>2. [i \in DOMAIN of |-> of[i].value] = Ids(Filter(list'[s], Named(n)))
      BY <3>1, ValuesInHash
    <3> QED BY <3>2 DEF ValuesOf, KeyIs
  <2> HIDE DEF T, U
  <2>5. TableMove(V, V')
    <3>1. TableMove(T, U)
      BY <2>1, <2>2, TableNext DEF T, U
    <3> QED BY <2>3, <2>4, <3>1
  <2> QED BY <2>5 DEF TableMove, Table!Next, Table!Insert, Table!Remove, Table!Discard
<1>3. IInv /\ IInv' /\ [Next]_vars => [Table!Next]_([s \in Servers |-> [n \in Names |-> ValuesOf(s, n)]])
  BY <1>2
<1> QED BY <1>1, <1>3, InitIInv, NextIInv, PTL DEF Spec, HashIsTable, Table!Spec
=============================================================================
