-------------------------- MODULE SeqFilterProofs --------------------------
(***************************************************************************)
(* What Filter does.  It is defined by recursion over the list, and the    *)
(* induction that takes comes from the well-foundedness of the natural     *)
(* numbers, stated for sets: the theorems of the library that take a       *)
(* predicate are out of the provers' reach.                                *)
(***************************************************************************)
EXTENDS SeqFilter, SequenceTheorems, WellFoundedInduction, TLAPS

(* A set of natural numbers that is not empty has a least element. *)
LEMMA Least == ASSUME NEW T \in SUBSET Nat, T # {} PROVE \E x \in T: \A y \in T: ~(y < x)
<1>1. IsWellFoundedOn({ss \in Nat \X Nat : ss[1] < ss[2]}, Nat)
   BY NatLessThanWellFounded DEF OpToRel
<1> DEFINE R == {ss \in Nat \X Nat : ss[1] < ss[2]}
<1> HIDE DEF R
<1>2. \E x \in T: \A y \in T: ~(<<y,x>> \in R)
  BY <1>1, WFMin DEF R
<1> QED BY <1>2 DEF R

(* Induction over the natural numbers, for a set in place of a predicate. *)
LEMMA SetInduction == ASSUME NEW T, 0 \in T, \A n \in Nat : n \in T => n + 1 \in T
  PROVE \A n \in Nat : n \in T
<1> DEFINE B == Nat \ T
<1>1. SUFFICES ASSUME B # {} PROVE FALSE OBVIOUS
<1>2. PICK x \in B : \A y \in B : ~(y < x) BY <1>1, Least
<1>3. x # 0 /\ x - 1 \in Nat OBVIOUS
<1>4. x - 1 \in T  BY <1>2, <1>3
<1> QED BY <1>3, <1>4

(* Induction over sequences, which grow at their end. *)
LEMMA SeqInduction ==
  ASSUME NEW E, NEW T, << >> \in T, \A s \in Seq(E), e \in E : s \in T => Append(s, e) \in T
  PROVE  \A s \in Seq(E) : s \in T
<1> DEFINE N == {n \in Nat : \A s \in Seq(E) : Len(s) = n => s \in T}
<1>1. 0 \in N
  BY EmptySeq
<1>2. ASSUME NEW n \in Nat, n \in N PROVE n + 1 \in N
  <2> SUFFICES ASSUME NEW s \in Seq(E), Len(s) = n + 1 PROVE s \in T
    OBVIOUS
  <2>1. s # << >>
    BY EmptySeq
  <2>2. PICK t \in Seq(E), e \in E : s = Append(t, e)
    BY <2>1, SequenceEmptyOrAppend
  <2>3. Len(t) = n
    BY <2>2, AppendProperties
  <2> QED BY <1>2, <2>2, <2>3
<1> HIDE DEF N
<1>3. \A n \in Nat : n \in N
  BY <1>1, <1>2, SetInduction
<1> QED BY <1>3, LenProperties DEF N

(* A function on 1 .. n is a sequence. *)
LEMMA FunctionIsSeq ==
  ASSUME NEW S, NEW n \in Nat, NEW f \in [1 .. n -> S]
  PROVE  f \in Seq(S) /\ Len(f) = n /\ DOMAIN f = 1 .. n
BY SeqDef, LenProperties

\* f is the function that Filter defines by recursion, for the first n elements.
Kept(s, S, f, n) == f = [i \in 0 .. n |-> IF i = 0 THEN << >> ELSE AppendIf(f[i - 1], s[i], S)]

(* The recursion, as two facts. *)
LEMMA KeptStep ==
  ASSUME NEW s, NEW S, NEW n \in Nat, NEW f, Kept(s, S, f, n)
  PROVE  /\ f[0] = << >>
         /\ \A i \in 1 .. n : f[i] = AppendIf(f[i - 1], s[i], S)
<1>1. \A i \in 0 .. n : f[i] = IF i = 0 THEN << >> ELSE AppendIf(f[i - 1], s[i], S)
  BY DEF Kept
<1>2. f[0] = << >>
  <2>1. 0 \in 0 .. n
    OBVIOUS
  <2> QED BY <1>1, <2>1
<1>3. ASSUME NEW i \in 1 .. n PROVE f[i] = AppendIf(f[i - 1], s[i], S)
  BY <1>1
<1> QED BY <1>2, <1>3

(* What has been kept of m elements does not depend on those that follow. *)
LEMMA KeptUnique ==
  ASSUME NEW s, NEW t, NEW S, NEW m \in Nat, NEW n \in Nat, m <= n, NEW f, NEW g,
         \A i \in 1 .. m : s[i] = t[i], Kept(s, S, f, m), Kept(t, S, g, n)
  PROVE  f[m] = g[m]
<1> DEFINE N == {k \in Nat : k <= m => f[k] = g[k]}
<1>1. 0 \in N
  BY KeptStep
<1>2. ASSUME NEW k \in Nat, k \in N PROVE k + 1 \in N
  <2> DEFINE i == k + 1
  <2> SUFFICES ASSUME i <= m PROVE f[i] = g[i]
    OBVIOUS
  <2>1. f[i - 1] = g[i - 1] /\ i \in 1 .. m /\ i \in 1 .. n
    BY <1>2
  <2> HIDE DEF i, N
  <2>2. f[i] = AppendIf(f[i - 1], s[i], S)
    BY <2>1, KeptStep
  <2>3. g[i] = AppendIf(g[i - 1], t[i], S)
    BY <2>1, KeptStep
  <2> QED BY <2>1, <2>2, <2>3
<1> HIDE DEF N
<1>3. m \in N
  BY <1>1, <1>2, SetInduction
<1> QED BY <1>3 DEF N

(* The recursion has a solution. *)
LEMMA KeptExists ==
  ASSUME NEW s, NEW S, NEW n \in Nat
  PROVE  \E f : Kept(s, S, f, n)
<1> DEFINE N == {k \in Nat : \E f : Kept(s, S, f, k)}
<1>1. 0 \in N
  <2>1. Kept(s, S, [i \in 0 .. 0 |-> << >>], 0)
    BY DEF Kept
  <2> QED BY <2>1
<1>2. ASSUME NEW k \in Nat, k \in N PROVE k + 1 \in N
  <2>1. PICK f : Kept(s, S, f, k)
    BY <1>2
  <2> DEFINE g == [i \in 0 .. k + 1 |-> IF i <= k THEN f[i] ELSE AppendIf(f[k], s[i], S)]
             h == [i \in 0 .. k + 1 |-> IF i = 0 THEN << >> ELSE AppendIf(g[i - 1], s[i], S)]
  <2>2. ASSUME NEW i \in 0 .. k + 1 PROVE g[i] = h[i]
    <3>1. f[0] = << >> /\ \A j \in 1 .. k : f[j] = AppendIf(f[j - 1], s[j], S)
      BY <2>1, KeptStep
    <3>2. CASE i = 0
      BY <3>1, <3>2
    <3>3. CASE i \in 1 .. k
      <4>1. f[i] = AppendIf(f[i - 1], s[i], S)
        BY <3>1, <3>3
      <4>2. g[i] = f[i] /\ g[i - 1] = f[i - 1]
        BY <3>3
      <4> QED BY <3>3, <4>1, <4>2
    <3>4. CASE i = k + 1
      <4>1. g[i] = AppendIf(f[k], s[i], S) /\ g[i - 1] = f[k]
        BY <3>4
      <4> QED BY <3>4, <4>1
    <3> QED BY <3>2, <3>3, <3>4
  <2>3. g = h
    BY <2>2
  <2>4. Kept(s, S, g, k + 1)
    BY <2>3 DEF Kept
  <2> HIDE DEF g
  <2> QED BY <2>4
<1> HIDE DEF N
<1>3. n \in N
  BY <1>1, <1>2, SetInduction
<1> QED BY <1>3 DEF N

(* Filter is the last value of its recursion. *)
LEMMA FilterIsKept ==
  ASSUME NEW s, NEW S, Len(s) \in Nat
  PROVE  \E f : Kept(s, S, f, Len(s)) /\ Filter(s, S) = f[Len(s)]
<1> DEFINE F == CHOOSE f : Kept(s, S, f, Len(s))
<1>1. Kept(s, S, F, Len(s))
  <2>1. \E f : Kept(s, S, f, Len(s))
    BY KeptExists
  <2> QED BY <2>1, Zenon
<1>2. Filter(s, S) = F[Len(s)]
  BY DEF Filter, Kept
<1> HIDE DEF F
<1> QED BY <1>1, <1>2

(* Nothing is picked from an empty list. *)
LEMMA FilterEmpty == ASSUME NEW S PROVE Filter(<< >>, S) = << >>
<1> DEFINE n == Len(<< >>)
<1>1. n \in Nat /\ n = 0
  OBVIOUS
<1> HIDE DEF n
<1>2. PICK f : Kept(<< >>, S, f, n) /\ Filter(<< >>, S) = f[n]
  BY <1>1, FilterIsKept DEF n
<1>3. n \in Nat
  BY <1>1
<1>4. f[0] = << >>
  BY <1>2, <1>3, KeptStep
<1> QED BY <1>1, <1>2, <1>4

(* An element at the end of the list comes last, if it is picked. *)
LEMMA FilterAppend ==
  ASSUME NEW E, NEW s \in Seq(E), NEW e \in E, NEW S
  PROVE  Filter(Append(s, e), S) = AppendIf(Filter(s, S), e, S)
<1> DEFINE t == Append(s, e)  n == Len(s)
<1>1. /\ n \in Nat /\ Len(t) = n + 1 
      /\ \A i \in 1 .. n : s[i] = t[i]
      /\ t[n + 1] = e
  BY AppendProperties, LenProperties
<1> HIDE DEF t
<1>2. PICK f : Kept(s, S, f, n) /\ Filter(s, S) = f[n]
  BY <1>1, FilterIsKept
<1>3. PICK g : Kept(t, S, g, n + 1) /\ Filter(t, S) = g[n + 1]
  BY <1>1, FilterIsKept
<1> DEFINE m == n + 1
<1> HIDE DEF n
<1>4. f[n] = g[n]
  BY <1>1, <1>2, <1>3, KeptUnique
<1>6. m \in Nat /\ m \in 1 .. m /\ m - 1 = n
  BY <1>1
<1>5. g[m] = AppendIf(g[m - 1], t[m], S)
  <2> HIDE DEF m
  <2> QED BY <1>6, <1>3, KeptStep, ZenonT(40) DEF m
<1> QED BY <1>1, <1>2, <1>3, <1>4, <1>5, <1>6 DEF t

(* What is picked are elements of the list, and they are in the set. *)
LEMMA FilterType ==
  ASSUME NEW E, NEW s \in Seq(E), NEW S
  PROVE  Filter(s, S) \in Seq(E \cap S)
<1> DEFINE T == {q \in Seq(E) : Filter(q, S) \in Seq(E \cap S)}
<1>1. << >> \in T
  BY FilterEmpty, EmptySeq
<1>2. ASSUME NEW q \in Seq(E), NEW e \in E, q \in T PROVE Append(q, e) \in T
  <2>1. Filter(Append(q, e), S) = AppendIf(Filter(q, S), e, S)
    BY FilterAppend
  <2>2. Append(q, e) \in Seq(E)
    BY AppendProperties
  <2>3. AppendIf(Filter(q, S), e, S) \in Seq(E \cap S)
    <3> DEFINE p == Filter(q, S)
    <3>1. p \in Seq(E \cap S)
      BY <1>2
    <3> HIDE DEF p
    <3>2. CASE e \in S
      <4>1. e \in E \cap S 
        BY <3>2
      <4>2. Append(p, e) \in Seq(E \cap S)
        BY <3>1, <4>1, AppendProperties
      <4> QED BY <3>2, <4>2 DEF AppendIf, p
    <3>3. CASE e \notin S
      BY <3>1, <3>3 DEF AppendIf, p
    <3> QED BY <3>2, <3>3
  <2> QED BY <2>1, <2>2, <2>3
<1> HIDE DEF T
<1>3. s \in T
  BY <1>1, <1>2, SeqInduction
<1> QED BY <1>3 DEF T

(* Of two lists after each other, first what is picked from the first one. *)
LEMMA FilterConcat ==
  ASSUME NEW E, NEW s \in Seq(E), NEW t \in Seq(E), NEW S
  PROVE  Filter(s \o t, S) = Filter(s, S) \o Filter(t, S)
<1> DEFINE T == {q \in Seq(E) : Filter(s \o q, S) = Filter(s, S) \o Filter(q, S)}
<1>0. Filter(s, S) \in Seq(E \cap S)
  BY FilterType
<1>1. << >> \in T
  <2>1. s \o << >> = s /\ Filter(s, S) \o << >> = Filter(s, S)
    BY <1>0, ConcatEmptySeq
  <2> QED BY <2>1, FilterEmpty, EmptySeq
<1>2. ASSUME NEW q \in Seq(E), NEW e \in E, q \in T PROVE Append(q, e) \in T
  <2>1. Append(q, e) \in Seq(E) /\ s \o q \in Seq(E)
    BY AppendProperties, ConcatProperties
  <2>2. s \o Append(q, e) = Append(s \o q, e)
    OBVIOUS
  <2>3. Filter(Append(s \o q, e), S) = AppendIf(Filter(s, S) \o Filter(q, S), e, S)
    BY <1>2, <2>1, FilterAppend
  <2>4. Filter(Append(q, e), S) = AppendIf(Filter(q, S), e, S)
    BY FilterAppend
  <2>5. AppendIf(Filter(s, S) \o Filter(q, S), e, S) = Filter(s, S) \o AppendIf(Filter(q, S), e, S)
    <3>1. Filter(q, S) \in Seq(E \cap S)
      BY FilterType
    <3> DEFINE a == Filter(s, S)  b == Filter(q, S)
    <3>2. a \in Seq(E) /\ b \in Seq(E)
      BY <1>0, <3>1, SeqMonotonic
    <3> HIDE DEF a, b
    <3>3. a \o Append(b, e) = Append(a \o b, e)
      BY <3>2
    <3> QED BY <3>3 DEF AppendIf, a, b
  <2> QED BY <2>1, <2>2, <2>3, <2>4, <2>5
<1> HIDE DEF T
<1>3. t \in T
  BY <1>1, <1>2, SeqInduction
<1> QED BY <1>3 DEF T

(* What is picked is in the list. *)
LEMMA FilterSource ==
  ASSUME NEW E, NEW s \in Seq(E), NEW S
  PROVE  \A i \in DOMAIN Filter(s, S) : \E j \in DOMAIN s : Filter(s, S)[i] = s[j]
<1> DEFINE R == {s[j] : j \in DOMAIN s}
<1>1. s \in Seq(R)
  BY LenProperties, SeqDef
<1>2. Filter(s, S) \in Seq(R \cap S)
  BY <1>1, FilterType
<1> HIDE DEF R
<1>3. \A i \in DOMAIN Filter(s, S) : Filter(s, S)[i] \in R
  BY <1>2, ElementOfSeq, LenProperties
<1> QED BY <1>3 DEF R

(* What is in the list and in the set is picked. *)
LEMMA FilterKeeps ==
  ASSUME NEW E, NEW s \in Seq(E), NEW S, NEW i \in DOMAIN s, s[i] \in S
  PROVE  \E j \in DOMAIN Filter(s, S) : Filter(s, S)[j] = s[i]
<1> DEFINE T == {q \in Seq(E) : \A k \in DOMAIN q : q[k] \in S =>
                                  \E j \in DOMAIN Filter(q, S) : Filter(q, S)[j] = q[k]}
<1>1. << >> \in T
  BY EmptySeq
<1>2. ASSUME NEW q \in Seq(E), NEW e \in E, q \in T PROVE Append(q, e) \in T
  <2> DEFINE p == Append(q, e)  f == Filter(q, S)  g == Filter(p, S)
  <2>1. p \in Seq(E) /\ f \in Seq(E) /\ g = AppendIf(f, e, S)
    <3>1. f \in Seq(E \cap S)
      BY FilterType
    <3>2. f \in Seq(E)
      BY <3>1, SeqMonotonic
    <3> QED BY <3>2, AppendProperties, FilterAppend
  <2>2. \A k \in DOMAIN q : q[k] \in S => \E j \in DOMAIN f : f[j] = q[k]
    BY <1>2
  <2> HIDE DEF f, g
  <2>3. ASSUME NEW k \in DOMAIN p, p[k] \in S PROVE \E j \in DOMAIN g : g[j] = p[k]
    <3>1. CASE k \in DOMAIN q
      <4>1. p[k] = q[k]
        BY <3>1, AppendProperties, LenProperties
      <4>2. PICK j \in DOMAIN f : f[j] = q[k]
        BY <2>2, <2>3, <3>1, <4>1
      <4>3. j \in DOMAIN g /\ g[j] = f[j]
        BY <2>1, <4>2, AppendProperties, LenProperties DEF AppendIf
      <4> QED BY <4>1, <4>2, <4>3
    <3>2. CASE k \notin DOMAIN q
      <4>1. k = Len(q) + 1 /\ p[k] = e
        BY <3>2, AppendProperties, LenProperties
      <4>2. g = Append(f, e)
        BY <2>1, <2>3, <4>1 DEF AppendIf
      <4>3. Len(f) + 1 \in DOMAIN g /\ g[Len(f) + 1] = e
        BY <2>1, <4>2, AppendProperties, LenProperties
      <4> QED BY <4>1, <4>3
    <3> QED BY <3>1, <3>2
  <2> HIDE DEF p
  <2>4. \A k \in DOMAIN p : p[k] \in S => \E j \in DOMAIN g : g[j] = p[k]
    BY <2>3
  <2> QED BY <2>1, <2>4 DEF g, p
<1> HIDE DEF T
<1>3. s \in T
  BY <1>1, <1>2, SeqInduction
<1> QED BY <1>3 DEF T

(* From a list without an element of the set nothing is picked. *)
LEMMA FilterNone ==
  ASSUME NEW E, NEW s \in Seq(E), NEW S, \A i \in DOMAIN s : s[i] \notin S
  PROVE  Filter(s, S) = << >>
<1> DEFINE f == Filter(s, S)
<1>1. f \in Seq(E \cap S)
  BY FilterType
<1> HIDE DEF f
<1>2. ASSUME f # << >> PROVE FALSE
  <2>1. 1 \in DOMAIN f /\ f[1] \in S
    BY <1>1, <1>2, EmptySeq, LenProperties, ElementOfSeq
  <2> QED BY <2>1, FilterSource DEF f
<1> QED BY <1>2 DEF f
=============================================================================
