---------------------------- MODULE SequenceFacts ----------------------------
(***************************************************************************)
(* Facts about numbers and sequences that the proofs of several components *)
(* need: induction, and what FlattenSeq() of SequencesExt computes for     *)
(* every sequence.  The induction theorems of the library have the         *)
(* predicate as a parameter; here it is given as a set.                    *)
(***************************************************************************)
EXTENDS Integers, Sequences, SequencesExt, SequenceTheorems, WellFoundedInduction, TLAPS

\* Induction over the natural numbers.
LEMMA SetInduction ==
  ASSUME NEW S \in SUBSET Nat, 0 \in S, \A n \in S : n + 1 \in S
  PROVE  S = Nat
<1> DEFINE T == Nat \ S
           R == OpToRel(<, Nat)
<1>1. SUFFICES ASSUME T # {} PROVE FALSE
  OBVIOUS
<1>2. IsWellFoundedOn(R, Nat)
  BY NatLessThanWellFounded, Zenon
<1>3. T \subseteq Nat
  OBVIOUS
<1>4. PICK x \in T : \A y \in T : ~(<<y, x>> \in R)
  <2> HIDE DEF T, R
  <2> QED BY <1>1, <1>2, <1>3, WFMin, Zenon
<1>5. ASSUME NEW y \in Nat, NEW z \in Nat, y < z PROVE <<y, z>> \in R
  BY <1>5 DEF OpToRel
<1>6. x \in Nat /\ x # 0
  OBVIOUS
<1>7. x - 1 \in Nat /\ x - 1 < x
  BY <1>6
<1>8. x - 1 \notin T
  BY <1>4, <1>5, <1>6, <1>7
<1>9. x - 1 \in S /\ x = (x - 1) + 1
  BY <1>6, <1>7, <1>8
<1> QED BY <1>9

-----------------------------------------------------------------------------
\* The function that FlattenSeq(s) chooses: joined[i] is s[1] \o ... \o s[i].
Joins(s, joined) ==
  joined = [i \in 1..Len(s) |-> IF i = 1 THEN s[i] ELSE joined[i - 1] \o s[i]]

LEMMA FlattenChooses ==
  ASSUME NEW s, Len(s) # 0
  PROVE  FlattenSeq(s) = (CHOOSE g : Joins(s, g))[Len(s)]
BY Zenon DEF FlattenSeq, Joins

\* How it goes on from the front of a sequence.
LEMMA JoinsAppend ==
  ASSUME NEW S, NEW s \in Seq(Seq(S)), NEW x \in Seq(S), NEW g, Joins(s, g),
         s # <<>> => g[Len(s)] \in Seq(S)
  PROVE  \E h : /\ Joins(Append(s, x), h)
                /\ h[Len(s) + 1] = IF s = <<>> THEN x ELSE g[Len(s)] \o x
<1> DEFINE n == Len(s)
           u == Append(s, x)
           last == IF s = <<>> THEN x ELSE g[n] \o x
           h == [i \in 1..(n + 1) |-> IF i = n + 1 THEN last ELSE g[i]]
<1>1. n \in Nat /\ (s = <<>> => n = 0) /\ (s # <<>> => n # 0)
  BY EmptySeq, LenProperties
<1>2. Len(u) = n + 1 /\ u[n + 1] = x /\ \A i \in 1..n : u[i] = s[i]
  BY AppendProperties
<1>3. g = [i \in 1..n |-> IF i = 1 THEN s[i] ELSE g[i - 1] \o s[i]]
  BY DEF Joins
<1> HIDE DEF n, u
<1>4. \A i \in 1..n : g[i] = IF i = 1 THEN s[i] ELSE g[i - 1] \o s[i]
  BY <1>3, Zenon
<1>5. ASSUME NEW i \in 1..(n + 1)
      PROVE  h[i] = IF i = 1 THEN u[i] ELSE h[i - 1] \o u[i]
  <2>1. CASE i = n + 1 /\ n = 0
    <3>1. h[i] = x /\ u[i] = x /\ i = 1
      BY <1>1, <1>2, <2>1
    <3> QED BY <3>1
  <2>2. CASE i = n + 1 /\ n # 0
    <3>1. i - 1 = n /\ n \in 1..(n + 1) /\ i # 1 /\ n # n + 1
      BY <1>1, <2>2
    <3>2. h[i - 1] = g[n] /\ h[i] = g[n] \o x /\ u[i] = x
      BY <1>1, <1>2, <2>2, <3>1
    <3> QED BY <3>1, <3>2
  <2>3. CASE i \in 1..n
    <3>1. i # n + 1 /\ h[i] = g[i] /\ u[i] = s[i]
      BY <1>1, <1>2, <2>3
    <3>2. CASE i = 1
      BY <1>4, <2>3, <3>1, <3>2
    <3>3. CASE i # 1
      <4>1. i - 1 \in 1..(n + 1) /\ i - 1 # n + 1
        BY <1>1, <2>3, <3>3
      <4>2. h[i - 1] = g[i - 1]
        BY <4>1
      <4> QED BY <1>4, <2>3, <3>1, <3>3, <4>2
    <3> QED BY <3>2, <3>3
  <2>4. i = n + 1 \/ i \in 1..n
    BY <1>1
  <2> QED BY <2>1, <2>2, <2>3, <2>4
<1>6. n + 1 \in 1..(n + 1)
  BY <1>1
<1>7. h[n + 1] = last
  BY <1>6
<1>8. h = [i \in 1..(n + 1) |-> h[i]]
  OBVIOUS
<1> HIDE DEF h
<1>9. h = [i \in 1..(n + 1) |-> IF i = 1 THEN u[i] ELSE h[i - 1] \o u[i]]
  BY <1>5, <1>8
<1>10. Joins(u, h)
  BY <1>2, <1>9 DEF Joins
<1> QED BY <1>7, <1>10 DEF n, u

LEMMA JoinsUnique ==
  ASSUME NEW s, Len(s) \in Nat, NEW g, NEW h, Joins(s, g), Joins(s, h)
  PROVE  \A i \in 1..Len(s) : g[i] = h[i]
<1> DEFINE n == Len(s)
           N == {i \in Nat : i \in 1..n => g[i] = h[i]}
<1>1. /\ g = [i \in 1..n |-> IF i = 1 THEN s[i] ELSE g[i - 1] \o s[i]]
      /\ h = [i \in 1..n |-> IF i = 1 THEN s[i] ELSE h[i - 1] \o s[i]]
  BY DEF Joins
<1>2. n \in Nat
  OBVIOUS
<1> HIDE DEF n
<1>3. /\ \A i \in 1..n : g[i] = IF i = 1 THEN s[i] ELSE g[i - 1] \o s[i]
      /\ \A i \in 1..n : h[i] = IF i = 1 THEN s[i] ELSE h[i - 1] \o s[i]
  BY <1>1, Zenon
<1>4. 0 \in N
  OBVIOUS
<1>5. ASSUME NEW i \in N PROVE i + 1 \in N
  <2>1. i \in Nat /\ i + 1 \in Nat /\ (i + 1) - 1 = i
    OBVIOUS
  <2>2. ASSUME i + 1 \in 1..n PROVE g[i + 1] = h[i + 1]
    <3>1. CASE i = 0
      BY <1>3, <2>2, <3>1
    <3>2. CASE i # 0
      <4>1. g[i] = h[i] /\ i + 1 # 1
        BY <1>2, <2>1, <2>2, <3>2
      <4> QED BY <1>3, <2>1, <2>2, <4>1
    <3> QED BY <3>1, <3>2
  <2> QED BY <2>1, <2>2
<1>6. N = Nat
  <2>1. N \in SUBSET Nat
    OBVIOUS
  <2> HIDE DEF N
  <2> QED BY <1>4, <1>5, <2>1, SetInduction
<1> QED BY <1>2, <1>6 DEF n

LEMMA JoinsExists ==
  ASSUME NEW S, NEW s \in Seq(Seq(S))
  PROVE  \E g : Joins(s, g) /\ (s # <<>> => g[Len(s)] \in Seq(S))
<1> DEFINE P(r) == \E g : Joins(r, g) /\ (r # <<>> => g[Len(r)] \in Seq(S))
           N == {n \in Nat : \A r \in Seq(Seq(S)) : Len(r) = n => P(r)}
<1>1. 0 \in N
  <2>1. ASSUME NEW r \in Seq(Seq(S)), Len(r) = 0 PROVE P(r)
    <3>1. r = <<>>
      BY <2>1, EmptySeq
    <3>2. Joins(r, <<>>)
      <4>1. <<>> = [i \in 1..0 |-> IF i = 1 THEN r[i] ELSE <<>>[i - 1] \o r[i]]
        OBVIOUS
      <4> QED BY <2>1, <4>1 DEF Joins
    <3> QED BY <3>1, <3>2
  <2> QED BY <2>1
<1>2. ASSUME NEW n \in N PROVE n + 1 \in N
  <2>1. n \in Nat /\ n + 1 \in Nat
    OBVIOUS
  <2>2. ASSUME NEW r \in Seq(Seq(S)), Len(r) = n + 1 PROVE P(r)
    <3>1. r # <<>>
      BY <2>1, <2>2, EmptySeq
    <3>2. PICK t \in Seq(Seq(S)), x \in Seq(S) : r = Append(t, x)
      BY <3>1, SequenceEmptyOrAppend
    <3>3. Len(t) = n
      <4>1. Len(r) = Len(t) + 1 /\ Len(t) \in Nat
        BY <3>2, AppendProperties, LenProperties
      <4> QED BY <2>1, <2>2, <4>1
    <3>4. P(t)
      BY <3>3
    <3>5. PICK g : Joins(t, g) /\ (t # <<>> => g[Len(t)] \in Seq(S))
      BY <3>4
    <3>6. PICK h : /\ Joins(Append(t, x), h)
                   /\ h[Len(t) + 1] = IF t = <<>> THEN x ELSE g[Len(t)] \o x
      BY <3>5, JoinsAppend
    <3>7. h[Len(r)] \in Seq(S)
      <4>1. h[Len(r)] = IF t = <<>> THEN x ELSE g[Len(t)] \o x
        BY <2>2, <3>3, <3>6
      <4>2. CASE t = <<>>
        BY <4>1, <4>2
      <4>3. CASE t # <<>>
        <5> DEFINE y == g[Len(t)]
        <5>1. y \in Seq(S)
          BY <3>5, <4>3
        <5>2. h[Len(r)] = y \o x
          BY <4>1, <4>3
        <5> HIDE DEF y
        <5> QED BY <5>1, <5>2, ConcatProperties
      <4> QED BY <4>2, <4>3
    <3> QED BY <3>2, <3>6, <3>7
  <2> HIDE DEF P
  <2> QED BY <2>1, <2>2
<1>3. N = Nat
  <2>1. N \in SUBSET Nat
    OBVIOUS
  <2> HIDE DEF N
  <2> QED BY <1>1, <1>2, <2>1, SetInduction
<1>4. Len(s) \in Nat
  BY LenProperties
<1>5. P(s)
  <2> HIDE DEF P
  <2> QED BY <1>3, <1>4
<1> QED BY <1>5

LEMMA FlattenEmpty == FlattenSeq(<<>>) = <<>>
BY EmptySeq DEF FlattenSeq

\* What FlattenSeq() makes of a sequence whose last element is x.
LEMMA FlattenAppend ==
  ASSUME NEW S, NEW s \in Seq(Seq(S)), NEW x \in Seq(S)
  PROVE  /\ FlattenSeq(s) \in Seq(S)
         /\ FlattenSeq(Append(s, x)) = FlattenSeq(s) \o x
         /\ FlattenSeq(Append(s, x)) \in Seq(S)
<1> DEFINE u == Append(s, x)
           f == CHOOSE g : Joins(s, g)
           h == CHOOSE g : Joins(u, g)
<1>1. PICK g : Joins(s, g) /\ (s # <<>> => g[Len(s)] \in Seq(S))
  BY JoinsExists
<1>2. PICK k : /\ Joins(u, k)
               /\ k[Len(s) + 1] = IF s = <<>> THEN x ELSE g[Len(s)] \o x
  BY <1>1, JoinsAppend
<1>3. Joins(s, f) /\ Joins(u, h)
  BY <1>1, <1>2, Zenon
<1>4. /\ Len(s) \in Nat /\ Len(u) = Len(s) + 1 /\ u \in Seq(Seq(S))
      /\ s # <<>> => Len(s) # 0
  BY EmptySeq, LenProperties, AppendProperties
<1>5. FlattenSeq(u) = h[Len(u)]
  <2>1. Len(u) # 0
    BY <1>4
  <2> HIDE DEF u
  <2> QED BY <2>1, FlattenChooses
<1>6. s # <<>> => FlattenSeq(s) = f[Len(s)]
  BY <1>4, FlattenChooses
<1> HIDE DEF f, h, u
<1>7. h[Len(u)] = k[Len(u)]
  <2>1. Len(u) \in Nat /\ Len(u) \in 1..Len(u)
    BY <1>4
  <2> QED BY <1>2, <1>3, <2>1, JoinsUnique
<1>8. s # <<>> => f[Len(s)] = g[Len(s)]
  <2>1. s # <<>> => Len(s) \in 1..Len(s)
    BY <1>4
  <2> QED BY <1>1, <1>3, <1>4, <2>1, JoinsUnique
<1>9. FlattenSeq(u) = IF s = <<>> THEN x ELSE g[Len(s)] \o x
  BY <1>2, <1>4, <1>5, <1>7
<1>10. CASE s = <<>>
  <2>1. FlattenSeq(s) = <<>>
    BY <1>10, FlattenEmpty
  <2>2. <<>> \o x = x
    BY ConcatEmptySeq
  <2> QED BY <1>9, <1>10, <2>1, <2>2, EmptySeq DEF u
<1>11. CASE s # <<>>
  <2> DEFINE y == FlattenSeq(s)
  <2>1. y \in Seq(S) /\ FlattenSeq(u) = y \o x
    BY <1>1, <1>6, <1>8, <1>9, <1>11
  <2> HIDE DEF y
  <2>2. y \o x \in Seq(S)
    BY <2>1, ConcatProperties
  <2> QED BY <2>1, <2>2 DEF y, u
<1> QED BY <1>10, <1>11

LEMMA FlattenOne ==
  ASSUME NEW S, NEW x \in Seq(S)
  PROVE  FlattenSeq(<<x>>) = x
<1>1. <<>> \in Seq(Seq(S)) /\ Append(<<>>, x) = <<x>> /\ <<>> \o x = x
  BY EmptySeq, ConcatEmptySeq
<1> QED BY <1>1, FlattenAppend, FlattenEmpty

LEMMA FlattenConcat ==
  ASSUME NEW S, NEW s \in Seq(Seq(S)), NEW t \in Seq(Seq(S))
  PROVE  FlattenSeq(s \o t) = FlattenSeq(s) \o FlattenSeq(t)
<1> DEFINE P(r) == FlattenSeq(s \o r) = FlattenSeq(s) \o FlattenSeq(r)
           N == {n \in Nat : \A r \in Seq(Seq(S)) : Len(r) = n => P(r)}
<1>0. FlattenSeq(s) \in Seq(S)
  BY EmptySeq, FlattenAppend
<1>1. 0 \in N
  <2>1. ASSUME NEW r \in Seq(Seq(S)), Len(r) = 0 PROVE P(r)
    <3>1. r = <<>>
      BY <2>1, EmptySeq
    <3>2. s \o r = s
      BY <3>1, ConcatEmptySeq
    <3>3. FlattenSeq(s) \o <<>> = FlattenSeq(s)
      BY <1>0, ConcatEmptySeq
    <3> QED BY <3>1, <3>2, <3>3, FlattenEmpty
  <2> HIDE DEF P
  <2> QED BY <2>1
<1>2. ASSUME NEW n \in N PROVE n + 1 \in N
  <2>1. n \in Nat /\ n + 1 \in Nat
    OBVIOUS
  <2>2. ASSUME NEW r \in Seq(Seq(S)), Len(r) = n + 1 PROVE P(r)
    <3>1. r # <<>>
      BY <2>1, <2>2, EmptySeq
    <3>2. PICK u \in Seq(Seq(S)), x \in Seq(S) : r = Append(u, x)
      BY <3>1, SequenceEmptyOrAppend
    <3>3. Len(u) = n
      <4>1. Len(r) = Len(u) + 1 /\ Len(u) \in Nat
        BY <3>2, AppendProperties, LenProperties
      <4> QED BY <2>1, <2>2, <4>1
    <3>4. FlattenSeq(s \o u) = FlattenSeq(s) \o FlattenSeq(u)
      BY <3>3
    <3> HIDE DEF N, P
    <3> DEFINE fs == FlattenSeq(s)
               fu == FlattenSeq(u)
    <3>5. s \o r = Append(s \o u, x) /\ s \o u \in Seq(Seq(S))
      <4>1. r = u \o <<x>> /\ <<x>> \in Seq(Seq(S))
        BY <3>2, AppendIsConcat
      <4>2. (s \o u) \o <<x>> = s \o (u \o <<x>>)
        BY <4>1, ConcatAssociative, SMTT(30)
      <4>3. s \o u \in Seq(Seq(S))
        BY ConcatProperties
      <4>4. Append(s \o u, x) = (s \o u) \o <<x>>
        BY <4>3, AppendIsConcat
      <4> QED BY <4>1, <4>2, <4>3, <4>4
    <3>6. FlattenSeq(s \o r) = FlattenSeq(s \o u) \o x
      BY <3>5, FlattenAppend
    <3>7. FlattenSeq(r) = FlattenSeq(u) \o x /\ FlattenSeq(u) \in Seq(S)
      BY <3>2, FlattenAppend
    <3>8. (fs \o fu) \o x = fs \o (fu \o x)
      <4>1. fs \in Seq(S) /\ fu \in Seq(S)
        BY <1>0, <3>7
      <4> HIDE DEF fs, fu
      <4> QED BY <4>1, ConcatAssociative, SMTT(30)
    <3> QED BY <3>4, <3>6, <3>7, <3>8 DEF P
  <2> HIDE DEF P
  <2> QED BY <2>1, <2>2
<1>3. N = Nat
  <2>1. N \in SUBSET Nat
    OBVIOUS
  <2> HIDE DEF N
  <2> QED BY <1>1, <1>2, <2>1, SetInduction
<1>4. Len(t) \in Nat
  BY LenProperties
<1>5. P(t)
  <2> HIDE DEF P
  <2> QED BY <1>3, <1>4
<1> QED BY <1>5

\* The first element of what is left of a sequence.
LEMMA FlattenFirst ==
  ASSUME NEW S, NEW s \in Seq(Seq(S)), NEW k \in 1..Len(s)
  PROVE  /\ FlattenSeq(SubSeq(s, k + 1, Len(s))) \in Seq(S)
         /\ FlattenSeq(SubSeq(s, k, Len(s))) = s[k] \o FlattenSeq(SubSeq(s, k + 1, Len(s)))
<1> DEFINE n == Len(s)
           t == SubSeq(s, k + 1, n)
<1>1. n \in Nat /\ k \in 1..n /\ \A i \in 1..n : s[i] \in Seq(S)
  BY LenProperties, ElementOfSeq
<1>2. t \in Seq(Seq(S))
  <2>1. \A i \in (k + 1)..n : s[i] \in Seq(S)
    BY <1>1
  <2> QED BY <1>1, <2>1, SubSeqProperties
<1>3. SubSeq(s, k, n) = <<s[k]>> \o t
  BY <1>1, SubSeqRecursiveFirst
<1>4. s[k] \in Seq(S) /\ <<s[k]>> \in Seq(Seq(S))
  BY <1>1
<1> HIDE DEF t, n
<1>5. FlattenSeq(<<s[k]>> \o t) = FlattenSeq(<<s[k]>>) \o FlattenSeq(t)
  BY <1>2, <1>4, FlattenConcat
<1>6. FlattenSeq(<<s[k]>>) = s[k]
  BY <1>4, FlattenOne
<1>7. FlattenSeq(t) \in Seq(S)
  BY <1>2, EmptySeq, FlattenAppend
<1> QED BY <1>3, <1>5, <1>6, <1>7 DEF t, n

\* The first n elements of s as sequences of their own, and nothing of the
\* others.
Ones(s, n, m) == [i \in 1..m |-> IF i <= n THEN <<s[i]>> ELSE <<>>]

LEMMA FlattenOnes ==
  ASSUME NEW S, NEW s \in Seq(S), NEW n \in 0..Len(s)
  PROVE  /\ Ones(s, n, Len(s)) \in Seq(Seq(S))
         /\ FlattenSeq(Ones(s, n, Len(s))) = SubSeq(s, 1, n)
<1> DEFINE k == Len(s)
           c(m) == SubSeq(s, 1, IF m <= n THEN m ELSE n)
           P(m) == Ones(s, n, m) \in Seq(Seq(S)) /\ FlattenSeq(Ones(s, n, m)) = c(m)
           N == {m \in Nat : m <= k => P(m)}
<1>1. k \in Nat /\ n \in Nat /\ n <= k /\ \A i \in 1..k : s[i] \in S
  BY LenProperties, ElementOfSeq
<1> HIDE DEF k
<1>2. 0 \in N
  <2>1. Ones(s, n, 0) = <<>>
    BY DEF Ones
  <2>2. c(0) = <<>>
    <3>1. SubSeq(s, 1, 0) = <<>>
      BY SubSeqEmpty
    <3> QED BY <1>1, <3>1
  <2>3. P(0)
    BY <2>1, <2>2, FlattenEmpty, EmptySeq
  <2> QED BY <2>3
<1>3. ASSUME NEW m \in N PROVE m + 1 \in N
  <2>1. m \in Nat /\ m + 1 \in Nat
    OBVIOUS
  <2>2. ASSUME m + 1 <= k PROVE P(m + 1)
    <3>1. P(m) /\ m + 1 \in 1..k
      BY <1>1, <2>1, <2>2
    <3> DEFINE e == IF m + 1 <= n THEN <<s[m + 1]>> ELSE <<>>
    <3>2. e \in Seq(S)
      BY <1>1, <3>1
    <3>3. Ones(s, n, m + 1) = Append(Ones(s, n, m), e)
      <4> DEFINE a == Ones(s, n, m)
                 b == Ones(s, n, m + 1)
      <4>1. a \in Seq(Seq(S)) /\ Len(a) = m
        BY <2>1, <3>1 DEF Ones
      <4>2. \A i \in 1..(m + 1) : b[i] = IF i <= n THEN <<s[i]>> ELSE <<>>
        BY DEF Ones
      <4>3. \A i \in 1..m : a[i] = IF i <= n THEN <<s[i]>> ELSE <<>>
        BY DEF Ones
      <4>4. b = [i \in 1..(m + 1) |-> b[i]]
        BY DEF Ones
      <4> HIDE DEF a, b
      <4>0. b[m + 1] = e
        BY <2>1, <4>2
      <4> HIDE DEF e
      <4>5. /\ Append(a, e) \in Seq(Seq(S)) /\ Len(Append(a, e)) = m + 1
            /\ Append(a, e)[m + 1] = e /\ \A i \in 1..m : Append(a, e)[i] = a[i]
        BY <3>2, <4>1, AppendProperties
      <4>6. Append(a, e) = [i \in 1..(m + 1) |-> Append(a, e)[i]]
        BY <4>5, LenProperties
      <4>7. ASSUME NEW i \in 1..(m + 1) PROVE Append(a, e)[i] = b[i]
        <5>1. i = m + 1 \/ i \in 1..m
          BY <2>1
        <5>2. CASE i = m + 1
          BY <4>0, <4>5, <5>2
        <5>3. CASE i \in 1..m
          BY <4>2, <4>3, <4>5, <5>3
        <5> QED BY <5>1, <5>2, <5>3
      <4>8. [i \in 1..(m + 1) |-> Append(a, e)[i]] = [i \in 1..(m + 1) |-> b[i]]
        BY <4>7
      <4>9. Append(a, e) = b
        BY <4>4, <4>6, <4>8, Zenon
      <4> QED BY <4>9 DEF a, b
    <3>4. c(m + 1) = c(m) \o e
      <4>1. CASE m + 1 <= n
        <5>1. /\ c(m + 1) = SubSeq(s, 1, m + 1) /\ c(m) = SubSeq(s, 1, m)
              /\ e = <<s[m + 1]>> /\ (m + 1) - 1 = m
          BY <1>1, <2>1, <4>1
        <5>2. 1 \in 1..Len(s) /\ m + 1 \in 1..Len(s)
          BY <1>1, <2>1, <2>2 DEF k
        <5>3. SubSeq(s, 1, m + 1) = SubSeq(s, 1, (m + 1) - 1) \o <<s[m + 1]>>
          BY <5>2, SubSeqRecursiveSecond
        <5> QED BY <5>1, <5>3
      <4>2. CASE ~(m + 1 <= n)
        <5>1. c(m + 1) = SubSeq(s, 1, n) /\ c(m) = SubSeq(s, 1, n) /\ e = <<>>
          <6>1. m <= n => m = n
            BY <1>1, <2>1, <4>2
          <6> QED BY <4>2, <6>1
        <5>2. SubSeq(s, 1, n) \in Seq(S)
          <6>1. \A i \in 1..n : s[i] \in S
            BY <1>1
          <6> QED BY <1>1, <6>1, SubSeqProperties
        <5>3. SubSeq(s, 1, n) \o <<>> = SubSeq(s, 1, n)
          BY <5>2, ConcatEmptySeq
        <5> QED BY <5>1, <5>3
      <4> QED BY <4>1, <4>2
    <3> DEFINE a == Ones(s, n, m)
    <3>5. a \in Seq(Seq(S)) /\ FlattenSeq(a) = c(m) /\ Ones(s, n, m + 1) = Append(a, e)
      BY <3>1, <3>3
    <3> HIDE DEF a, e, c
    <3>6. Append(a, e) \in Seq(Seq(S)) /\ FlattenSeq(Append(a, e)) = FlattenSeq(a) \o e
      BY <3>2, <3>5, FlattenAppend, AppendProperties
    <3> QED BY <3>4, <3>5, <3>6
  <2> HIDE DEF P
  <2> QED BY <2>1, <2>2
<1>4. N = Nat
  <2>1. N \in SUBSET Nat
    OBVIOUS
  <2> HIDE DEF N
  <2> QED BY <1>2, <1>3, <2>1, SetInduction
<1>5. P(k)
  <2>1. k \in N
    BY <1>1, <1>4
  <2> HIDE DEF P
  <2> QED BY <1>1, <2>1
<1>6. (IF k <= n THEN k ELSE n) = n
  BY <1>1
<1> QED BY <1>5, <1>6 DEF k

\* A sequence that agrees with another up to its last element.
LEMMA ExtendSeq ==
  ASSUME NEW S, NEW s \in Seq(S), NEW t \in Seq(S), NEW x \in S,
         Len(t) = Len(s) + 1, \A i \in 1..Len(s) : t[i] = s[i], t[Len(s) + 1] = x
  PROVE  t = Append(s, x)
<1> DEFINE u == Append(s, x)
           n == Len(s)
<1>1. u \in Seq(S) /\ Len(u) = n + 1 /\ u[n + 1] = x /\ \A i \in 1..n : u[i] = s[i]
  BY AppendProperties
<1>2. n \in Nat
  BY LenProperties
<1> HIDE DEF u
<1>3. ASSUME NEW i \in 1..(n + 1) PROVE t[i] = u[i]
  <2>1. i = n + 1 \/ i \in 1..n
    BY <1>2
  <2> QED BY <1>1, <2>1
<1>4. t = u
  BY <1>1, <1>3, SeqEqual
<1> QED BY <1>4 DEF u
=============================================================================
