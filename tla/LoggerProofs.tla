----------------------------- MODULE LoggerProofs -----------------------------
(***************************************************************************)
(* Proofs about a log statement: what formatInteger() writes for every     *)
(* integer, and that the records of any number of threads, with fields of  *)
(* any size, stay in their buffers, are complete when they fit and end     *)
(* with a newline.                                                         *)
(***************************************************************************)
EXTENDS Logger, SequenceFacts

\* The digit that one round of formatInteger() writes.
Digit(n) == IF Remainder(n) < 0 THEN -Remainder(n) ELSE Remainder(n)

\* A digit before others.
LEMMA ConsFacts ==
  ASSUME NEW S, NEW d \in S, NEW s \in Seq(S)
  PROVE  /\ Cons(d, s) \in Seq(S) /\ Len(Cons(d, s)) = Len(s) + 1
         /\ Cons(d, s)[1] = d /\ \A i \in 1..Len(s) : Cons(d, s)[i + 1] = s[i]
<1> DEFINE e == <<d>>
<1>1. e \in Seq(S) /\ Len(e) = 1 /\ e[1] = d
  OBVIOUS
<1> HIDE DEF e
<1>2. /\ e \o s \in Seq(S) /\ Len(e \o s) = Len(e) + Len(s)
      /\ \A i \in 1..(Len(e) + Len(s)) : (e \o s)[i] = IF i <= Len(e) THEN e[i] ELSE s[i - Len(e)]
  BY <1>1, ConcatProperties
<1> DEFINE r == e \o s
           n == Len(s)
<1>3. n \in Nat
  BY LenProperties
<1> HIDE DEF r, n
<1>4. /\ r \in Seq(S) /\ Len(r) = 1 + n
      /\ \A i \in 1..(1 + n) : r[i] = IF i <= 1 THEN e[i] ELSE s[i - 1]
  BY <1>1, <1>2 DEF r, n
<1>5. r[1] = d
  BY <1>1, <1>3, <1>4
<1>6. ASSUME NEW i \in 1..n PROVE r[i + 1] = s[i]
  <2>1. i + 1 \in 1..(1 + n) /\ ~(i + 1 <= 1) /\ (i + 1) - 1 = i
    BY <1>3
  <2> QED BY <1>4, <2>1
<1>7. r = Cons(d, s)
  BY DEF Cons, r, e
<1> QED BY <1>3, <1>4, <1>5, <1>6, <1>7 DEF n

\* C's division makes every number but 0 smaller.
LEMMA QuotientFacts ==
  ASSUME NEW n \in Int
  PROVE  /\ Quotient(n) \in Int /\ n = 10 * Quotient(n) + Remainder(n)
         /\ n >= 0 => Quotient(n) >= 0 /\ Remainder(n) \in 0..9
         /\ n < 0 => Quotient(n) <= 0 /\ Remainder(n) \in (-9)..0
         /\ Digit(n) \in 0..9
<1> DEFINE q == n \div 10
           r == n % 10
<1>1. q \in Int /\ r \in 0..9 /\ n = 10 * q + r
  OBVIOUS
<1>2. Quotient(n) = IF n >= 0 \/ r = 0 THEN q ELSE q + 1
  BY DEF Quotient
<1> HIDE DEF q, r
<1>3. Remainder(n) = n - 10 * Quotient(n)
  BY DEF Remainder
<1> DEFINE p == Quotient(n)
           m == Remainder(n)
<1>4. p \in Int /\ m = n - 10 * p
  BY <1>1, <1>2, <1>3
<1> HIDE DEF p, m
<1>5. n = 10 * p + m /\ m \in Int
  BY <1>4
<1>6. n >= 0 => p >= 0 /\ m \in 0..9
  BY <1>1, <1>2, <1>4 DEF p
<1>7. n < 0 => p <= 0 /\ m \in (-9)..0
  BY <1>1, <1>2, <1>4 DEF p
<1>8. (IF m < 0 THEN -m ELSE m) \in 0..9
  BY <1>5, <1>6, <1>7
<1> QED BY <1>4, <1>5, <1>6, <1>7, <1>8 DEF p, m, Digit

LEMMA QuotientSmaller ==
  ASSUME NEW k \in Nat, NEW n \in Int, n \in (-(k + 1))..(k + 1)
  PROVE  Quotient(n) \in Int /\ Quotient(n) \in (-k)..k
<1> DEFINE q == Quotient(n)
           r == Remainder(n)
<1>1. /\ q \in Int /\ n = 10 * q + r
      /\ n >= 0 => q >= 0 /\ r \in 0..9
      /\ n < 0 => q <= 0 /\ r \in (-9)..0
  BY QuotientFacts
<1> HIDE DEF q, r
<1>2. CASE n >= 0
  <2>1. q >= 0 /\ 10 * q <= k + 1
    BY <1>1, <1>2
  <2> QED BY <1>1, <2>1 DEF q
<1>3. CASE n < 0
  <2>1. q <= 0 /\ 10 * q >= -(k + 1)
    BY <1>1, <1>3
  <2> QED BY <1>1, <2>1 DEF q
<1> QED BY <1>2, <1>3

\* Induction along the loop of formatInteger().
LEMMA QuotientInduction ==
  ASSUME NEW S \in SUBSET Int, 0 \in S, \A n \in Int \ {0} : Quotient(n) \in S => n \in S
  PROVE  S = Int
<1> DEFINE N == {k \in Nat : (-k)..k \subseteq S}
<1>1. 0 \in N
  OBVIOUS
<1>2. ASSUME NEW k \in N PROVE k + 1 \in N
  <2>1. ASSUME NEW n \in (-(k + 1))..(k + 1) PROVE n \in S
    <3>1. CASE n = 0
      BY <3>1
    <3>2. CASE n # 0
      <4>1. Quotient(n) \in (-k)..k
        BY QuotientSmaller
      <4> QED BY <3>2, <4>1
    <3> QED BY <3>1, <3>2
  <2> QED BY <2>1
<1> HIDE DEF N
<1>3. N = Nat
  <2>1. N \in SUBSET Nat
    BY DEF N
  <2> QED BY <1>1, <1>2, <2>1, SetInduction
<1>4. ASSUME NEW n \in Int PROVE n \in S
  <2>1. PICK k \in Nat : n \in (-k)..k
    <3>1. CASE n >= 0
      BY <3>1
    <3>2. CASE n < 0
      <4>1. -n \in Nat /\ n \in (-(-n))..(-n)
        BY <3>2
      <4> QED BY <4>1
    <3> QED BY <3>1, <3>2
  <2> QED BY <1>3, <2>1 DEF N
<1> QED BY <1>4

\* What defines the function of the digits, on the numbers of D.
Lows(g, D) == g = [n \in D |-> IF n = 0 THEN <<>> ELSE Cons(Digit(n), g[Quotient(n)])]

LEMMA LowsUnique ==
  ASSUME NEW k \in Nat, NEW m \in Nat, NEW g, NEW h, Lows(g, (-k)..k), Lows(h, (-m)..m)
  PROVE  \A n \in Int : n \in (-k)..k /\ n \in (-m)..m => g[n] = h[n]
<1> DEFINE S == {n \in Int : n \in (-k)..k /\ n \in (-m)..m => g[n] = h[n]}
<1>1. \A n \in (-k)..k : g[n] = IF n = 0 THEN <<>> ELSE Cons(Digit(n), g[Quotient(n)])
  BY Zenon DEF Lows
<1>2. \A n \in (-m)..m : h[n] = IF n = 0 THEN <<>> ELSE Cons(Digit(n), h[Quotient(n)])
  BY Zenon DEF Lows
<1>3. 0 \in S
  BY <1>1, <1>2
<1>4. ASSUME NEW n \in Int \ {0}, Quotient(n) \in S PROVE n \in S
  <2> SUFFICES ASSUME n \in (-k)..k, n \in (-m)..m PROVE g[n] = h[n]
    OBVIOUS
  <2>1. n \in (-(k + 1))..(k + 1) /\ n \in (-(m + 1))..(m + 1)
    OBVIOUS
  <2>2. Quotient(n) \in (-k)..k /\ Quotient(n) \in (-m)..m
    BY <2>1, QuotientSmaller
  <2>3. g[Quotient(n)] = h[Quotient(n)]
    BY <1>4, <2>2
  <2>4. n # 0
    BY <1>4
  <2>5. g[n] = Cons(Digit(n), g[Quotient(n)]) /\ h[n] = Cons(Digit(n), h[Quotient(n)])
    BY <1>1, <1>2, <2>4
  <2> QED BY <2>3, <2>5
<1> HIDE DEF S
<1>5. S = Int
  <2>1. S \in SUBSET Int
    BY DEF S
  <2> QED BY <1>3, <1>4, <2>1, QuotientInduction
<1> QED BY <1>5 DEF S

LEMMA LowsExist ==
  ASSUME NEW k \in Nat
  PROVE  \E g : Lows(g, (-k)..k)
<1> DEFINE N == {m \in Nat : \E g : Lows(g, (-m)..m)}
<1>1. 0 \in N
  <2> DEFINE g == [n \in {0} |-> <<>>]
  <2>1. (-0)..0 = {0}
    OBVIOUS
  <2>2. Lows(g, {0})
    BY DEF Lows
  <2> HIDE DEF g
  <2> QED BY <2>1, <2>2
<1>2. ASSUME NEW m \in N PROVE m + 1 \in N
  <2>1. PICK g : Lows(g, (-m)..m)
    OBVIOUS
  <2> DEFINE D == (-(m + 1))..(m + 1)
             h == [n \in D |-> IF n \in (-m)..m THEN g[n] ELSE Cons(Digit(n), g[Quotient(n)])]
             v(n) == IF n = 0 THEN <<>> ELSE Cons(Digit(n), h[Quotient(n)])
  <2>2. \A n \in (-m)..m : g[n] = IF n = 0 THEN <<>> ELSE Cons(Digit(n), g[Quotient(n)])
    BY <2>1, Zenon DEF Lows
  <2>3. ASSUME NEW n \in D PROVE h[n] = v(n)
    <3>1. n # 0 => Quotient(n) \in (-m)..m /\ Quotient(n) \in D
      <4>1. Quotient(n) \in (-m)..m
        BY QuotientSmaller
      <4> QED BY <4>1
    <3>2. n # 0 => h[Quotient(n)] = g[Quotient(n)]
      BY <3>1
    <3>3. h[n] = IF n \in (-m)..m THEN g[n] ELSE Cons(Digit(n), g[Quotient(n)])
      OBVIOUS
    <3>4. n = 0 => n \in (-m)..m
      OBVIOUS
    <3> HIDE DEF h, D
    <3> QED BY <2>2, <3>2, <3>3, <3>4
  <2>4. h = [n \in D |-> h[n]]
    OBVIOUS
  <2> HIDE DEF h, D
  <2>5. h = [n \in D |-> v(n)]
    BY <2>3, <2>4, Zenon
  <2>6. Lows(h, D)
    BY <2>5, Zenon DEF Lows
  <2> QED BY <2>6 DEF D
<1> HIDE DEF N
<1>3. N = Nat
  <2>1. N \in SUBSET Nat
    BY DEF N
  <2> QED BY <1>1, <1>2, <2>1, SetInduction
<1> QED BY <1>3 DEF N

LEMMA LowsOfAll == \E g : Lows(g, Int)
<1> DEFINE G(k) == CHOOSE g : Lows(g, (-k)..k)
           A(n) == IF n < 0 THEN -n ELSE n
           f == [n \in Int |-> G(A(n))[n]]
           v(n) == IF n = 0 THEN <<>> ELSE Cons(Digit(n), f[Quotient(n)])
<1>1. \A k \in Nat : Lows(G(k), (-k)..k)
  BY LowsExist, Zenon
<1>2. ASSUME NEW n \in Int PROVE A(n) \in Nat /\ n \in (-A(n))..A(n)
  OBVIOUS
<1>3. ASSUME NEW n \in Int PROVE f[n] = v(n)
  <2> DEFINE k == A(n)
             q == Quotient(n)
             g == G(k)
  <2>1. k \in Nat /\ n \in (-k)..k
    BY <1>2
  <2>2. Lows(g, (-k)..k)
    BY <1>1, <2>1, Zenon
  <2>3. f[n] = g[n]
    OBVIOUS
  <2>4. g[n] = IF n = 0 THEN <<>> ELSE Cons(Digit(n), g[q])
    <3> HIDE DEF g
    <3> QED BY <2>1, <2>2, Zenon DEF Lows
  <2>5. n # 0 => q \in Int /\ q \in (-k)..k
    <3> HIDE DEF k
    <3>1. n \in (-(k + 1))..(k + 1)
      BY <2>1
    <3> QED BY <2>1, <3>1, QuotientSmaller DEF q
  <2>6. ASSUME n # 0 PROVE f[q] = g[q]
    <3> DEFINE m == A(q)
               h == G(m)
    <3>1. q \in Int /\ q \in (-k)..k
      BY <2>5, <2>6
    <3>2. m \in Nat /\ q \in (-m)..m
      BY <1>2, <3>1
    <3>3. Lows(h, (-m)..m)
      BY <1>1, <3>2, Zenon
    <3>4. f[q] = h[q]
      BY <3>1
    <3> HIDE DEF k, g, h, m, q, f
    <3>5. g[q] = h[q]
      BY <2>1, <2>2, <3>1, <3>2, <3>3, LowsUnique
    <3> QED BY <3>4, <3>5
  <2> HIDE DEF f, g
  <2> QED BY <2>3, <2>4, <2>6
<1>4. f = [n \in Int |-> f[n]]
  OBVIOUS
<1> HIDE DEF f
<1>5. f = [n \in Int |-> v(n)]
  BY <1>3, <1>4, Zenon
<1>6. Lows(f, Int)
  BY <1>5, Zenon DEF Lows
<1> QED BY <1>6

\* The loop, one round at a time.
LEMMA LowDigitsRound ==
  ASSUME NEW n \in Int
  PROVE  LowDigitsFirst[n] = IF n = 0 THEN <<>> ELSE Cons(Digit(n), LowDigitsFirst[Quotient(n)])
<1>1. LowDigitsFirst = CHOOSE g : Lows(g, Int)
  BY Zenon DEF LowDigitsFirst, Lows, Cons, Digit
<1>2. Lows(LowDigitsFirst, Int)
  BY <1>1, LowsOfAll, Zenon
<1> QED BY <1>2, Zenon DEF Lows

LEMMA LowDigitsTyped ==
  ASSUME NEW n \in Int
  PROVE  /\ LowDigitsFirst[n] \in Seq(0..9) /\ Len(LowDigitsFirst[n]) \in Nat
         /\ n = 0 <=> LowDigitsFirst[n] = <<>>
<1> DEFINE S == {m \in Int : LowDigitsFirst[m] \in Seq(0..9)}
<1>1. 0 \in S
  <2>1. LowDigitsFirst[0] = <<>>
    BY LowDigitsRound
  <2>2. <<>> \in Seq(0..9)
    BY EmptySeq
  <2>3. LowDigitsFirst[0] \in Seq(0..9)
    BY <2>1, <2>2, Zenon
  <2> QED BY <2>3
<1>2. ASSUME NEW m \in Int \ {0}, Quotient(m) \in S PROVE m \in S
  <2>1. LowDigitsFirst[m] = Cons(Digit(m), LowDigitsFirst[Quotient(m)])
    BY LowDigitsRound
  <2>2. Digit(m) \in 0..9
    BY QuotientFacts
  <2>3. Cons(Digit(m), LowDigitsFirst[Quotient(m)]) \in Seq(0..9)
    BY <1>2, <2>2, ConsFacts
  <2> QED BY <2>1, <2>3
<1> HIDE DEF S
<1>3. S = Int
  <2>1. S \in SUBSET Int
    BY DEF S
  <2> QED BY <1>1, <1>2, <2>1, QuotientInduction
<1>4. \A m \in Int : LowDigitsFirst[m] \in Seq(0..9)
  BY <1>3 DEF S
<1>5. ASSUME n # 0 PROVE LowDigitsFirst[n] # <<>>
  <2>1. LowDigitsFirst[n] = Cons(Digit(n), LowDigitsFirst[Quotient(n)])
    BY <1>5, LowDigitsRound
  <2>2. Digit(n) \in 0..9 /\ Quotient(n) \in Int
    BY QuotientFacts
  <2>3. LowDigitsFirst[Quotient(n)] \in Seq(0..9)
    BY <1>4, <2>2
  <2> DEFINE ds == LowDigitsFirst[Quotient(n)]
             d == Digit(n)
  <2>4. /\ Len(Cons(d, ds)) = Len(ds) + 1
        /\ Len(ds) \in Nat
    <3>1. ds \in Seq(0..9) /\ d \in 0..9
      BY <2>2, <2>3
    <3> HIDE DEF ds, d
    <3> QED BY <3>1, ConsFacts, LenProperties
  <2> QED BY <2>1, <2>4, EmptySeq
<1>6. n = 0 => LowDigitsFirst[n] = <<>>
  BY LowDigitsRound
<1>7. LowDigitsFirst[n] \in Seq(0..9) /\ Len(LowDigitsFirst[n]) \in Nat
  BY <1>4, LenProperties
<1> QED BY <1>5, <1>6, <1>7

\* The numbers below b have at most k digits.
Below(b, k) == \A n \in Int : -b < n /\ n < b => Len(LowDigitsFirst[n]) <= k

LEMMA OneDigitMore ==
  ASSUME NEW b \in Nat \ {0}, NEW k \in Nat, Below(b, k)
  PROVE  Below(10 * b, k + 1)
<1> SUFFICES ASSUME NEW n \in Int, -(10 * b) < n, n < 10 * b
             PROVE  Len(LowDigitsFirst[n]) <= k + 1
  BY DEF Below
<1>1. CASE n = 0
  <2>1. LowDigitsFirst[n] = <<>>
    BY <1>1, LowDigitsRound
  <2>2. Len(LowDigitsFirst[n]) = 0
    BY <2>1, EmptySeq
  <2> QED BY <2>2
<1>2. CASE n # 0
  <2> DEFINE q == Quotient(n)
             r == Remainder(n)
  <2>1. /\ q \in Int /\ n = 10 * q + r
        /\ n >= 0 => q >= 0 /\ r \in 0..9
        /\ n < 0 => q <= 0 /\ r \in (-9)..0
    BY QuotientFacts
  <2>2. LowDigitsFirst[n] = Cons(Digit(n), LowDigitsFirst[q]) /\ Digit(n) \in 0..9
    BY <1>2, LowDigitsRound, QuotientFacts
  <2> HIDE DEF q, r
  <2>3. -b < q /\ q < b
    BY <2>1
  <2>4. Len(LowDigitsFirst[q]) <= k
    BY <2>1, <2>3 DEF Below
  <2>5. LowDigitsFirst[q] \in Seq(0..9) /\ Len(LowDigitsFirst[q]) \in Nat
    BY <2>1, LowDigitsTyped
  <2>6. Len(Cons(Digit(n), LowDigitsFirst[q])) = Len(LowDigitsFirst[q]) + 1
    <3> DEFINE d == Digit(n)
               low == LowDigitsFirst[q]
               D == 0..9
    <3>1. d \in D /\ low \in Seq(D)
      BY <2>2, <2>5
    <3> HIDE DEF d, low, D
    <3>2. Len(Cons(d, low)) = Len(low) + 1
      BY <3>1, ConsFacts
    <3> QED BY <3>2 DEF d, low
  <2> QED BY <2>2, <2>4, <2>5, <2>6
<1> QED BY <1>1, <1>2

\* An int has at most ten digits.
LEMMA AtMostTenDigits ==
  ASSUME NEW n \in Ints
  PROVE  Len(LowDigitsFirst[n]) <= 10
<1>0. Below(1, 0)
  <2> SUFFICES ASSUME NEW m \in Int, -1 < m, m < 1 PROVE Len(LowDigitsFirst[m]) <= 0
    BY DEF Below
  <2>1. m = 0
    OBVIOUS
  <2>2. LowDigitsFirst[m] = <<>> /\ Len(<<>>) = 0
    BY <2>1, LowDigitsRound, EmptySeq
  <2> QED BY <2>2
<1>1. Below(10, 1)
  BY <1>0, OneDigitMore
<1>2. Below(100, 2)
  BY <1>1, OneDigitMore
<1>3. Below(1000, 3)
  BY <1>2, OneDigitMore
<1>4. Below(10000, 4)
  BY <1>3, OneDigitMore
<1>5. Below(100000, 5)
  BY <1>4, OneDigitMore
<1>6. Below(1000000, 6)
  BY <1>5, OneDigitMore
<1>7. Below(10000000, 7)
  BY <1>6, OneDigitMore
<1>8. Below(100000000, 8)
  BY <1>7, OneDigitMore
<1>9. Below(1000000000, 9)
  BY <1>8, OneDigitMore
<1>10. Below(10000000000, 10)
  BY <1>9, OneDigitMore
<1>11. n \in Int /\ -10000000000 < n /\ n < 10000000000
  BY DEF Ints
<1> QED BY <1>10, <1>11 DEF Below

-----------------------------------------------------------------------------
\* What Positional() chooses.
Values(v, c, ds) == v = [i \in 0..Len(ds) |-> IF i = 0 THEN 0 ELSE c * v[i - 1] + ds[i]]

LEMMA ValuesUnique ==
  ASSUME NEW ds, NEW es, NEW m \in Nat, Len(ds) \in Nat, Len(es) \in Nat,
         m <= Len(ds), m <= Len(es), \A i \in 1..m : ds[i] = es[i],
         NEW c, NEW v, NEW w, Values(v, c, ds), Values(w, c, es)
  PROVE  \A i \in 0..m : v[i] = w[i]
<1> DEFINE N == {i \in Nat : i <= m => v[i] = w[i]}
<1>1. \A i \in 0..Len(ds) : v[i] = IF i = 0 THEN 0 ELSE c * v[i - 1] + ds[i]
  BY Zenon DEF Values
<1>2. \A i \in 0..Len(es) : w[i] = IF i = 0 THEN 0 ELSE c * w[i - 1] + es[i]
  BY Zenon DEF Values
<1>3. 0 \in N
  BY <1>1, <1>2
<1>4. ASSUME NEW i \in N PROVE i + 1 \in N
  <2> SUFFICES ASSUME i + 1 <= m PROVE v[i + 1] = w[i + 1]
    OBVIOUS
  <2>1. v[i] = w[i] /\ ds[i + 1] = es[i + 1]
    OBVIOUS
  <2>2. i + 1 \in 0..Len(ds) /\ i + 1 \in 0..Len(es) /\ i + 1 # 0 /\ (i + 1) - 1 = i
    OBVIOUS
  <2>3. v[i + 1] = c * v[i] + ds[i + 1]
    BY <1>1, <2>2
  <2>4. w[i + 1] = c * w[i] + es[i + 1]
    BY <1>2, <2>2
  <2> QED BY <2>1, <2>3, <2>4, Zenon
<1> HIDE DEF N
<1>5. N = Nat
  <2>1. N \in SUBSET Nat
    BY DEF N
  <2> QED BY <1>3, <1>4, <2>1, SetInduction
<1> QED BY <1>5 DEF N

LEMMA ValuesExist ==
  ASSUME NEW c \in Int, NEW ds \in Seq(Int)
  PROVE  \E v : Values(v, c, ds) /\ v[Len(ds)] \in Int
<1> DEFINE n == Len(ds)
           P(v, m) == v = [i \in 0..m |-> IF i = 0 THEN 0 ELSE c * v[i - 1] + ds[i]]
           N == {m \in Nat : m <= n => \E v : P(v, m) /\ v[m] \in Int}
<1>1. n \in Nat /\ \A i \in 1..n : ds[i] \in Int
  BY LenProperties, ElementOfSeq
<1> HIDE DEF n
<1>2. 0 \in N
  <2> DEFINE v == [i \in 0..0 |-> 0]
  <2>1. P(v, 0) /\ v[0] \in Int
    OBVIOUS
  <2> HIDE DEF v, P
  <2> QED BY <2>1
<1>3. ASSUME NEW m \in N PROVE m + 1 \in N
  <2> SUFFICES ASSUME m + 1 <= n PROVE \E v : P(v, m + 1) /\ v[m + 1] \in Int
    OBVIOUS
  <2>1. PICK v : P(v, m) /\ v[m] \in Int
    <3> HIDE DEF P
    <3> QED BY <1>1
  <2> DEFINE x == c * v[m] + ds[m + 1]
             w == [i \in 0..(m + 1) |-> IF i = m + 1 THEN x ELSE v[i]]
             u(i) == IF i = 0 THEN 0 ELSE c * w[i - 1] + ds[i]
  <2>2. \A i \in 0..m : v[i] = IF i = 0 THEN 0 ELSE c * v[i - 1] + ds[i]
    BY <2>1, Zenon
  <2>3. \A i \in 0..m : w[i] = v[i]
    OBVIOUS
  <2>4. w[m + 1] = x /\ w = [i \in 0..(m + 1) |-> w[i]]
    OBVIOUS
  <2> HIDE DEF P, w
  <2>0. m \in 0..m
    OBVIOUS
  <2>5. ASSUME NEW i \in 0..(m + 1) PROVE w[i] = u(i)
    <3>1. CASE i = m + 1
      <4>1. w[m + 1] = c * v[m] + ds[m + 1] /\ w[m] = v[m]
        BY <2>0, <2>3, <2>4, Zenon
      <4>2. i - 1 = m /\ i # 0
        BY <3>1
      <4> QED BY <3>1, <4>1, <4>2
    <3>2. CASE i = 0
      BY <2>2, <2>3, <3>2
    <3>3. CASE i \in 1..m
      <4>1. i \in 0..m /\ i - 1 \in 0..m /\ i # 0
        BY <3>3
      <4>2. w[i] = v[i] /\ w[i - 1] = v[i - 1]
        BY <2>3, <4>1
      <4> QED BY <2>2, <4>1, <4>2
    <3>4. i = m + 1 \/ i = 0 \/ i \in 1..m
      OBVIOUS
    <3> QED BY <3>1, <3>2, <3>3, <3>4
  <2>6. w = [i \in 0..(m + 1) |-> u(i)]
    BY <2>4, <2>5, Zenon
  <2>7. P(w, m + 1)
    BY <2>6, Zenon DEF P
  <2>8. w[m + 1] \in Int
    <3>1. ds[m + 1] \in Int /\ v[m] \in Int
      BY <1>1, <2>1
    <3> QED BY <2>4, <3>1
  <2> QED BY <2>7, <2>8
<1> HIDE DEF N
<1>4. N = Nat
  <2>1. N \in SUBSET Nat
    BY DEF N
  <2> QED BY <1>2, <1>3, <2>1, SetInduction
<1>5. PICK v : P(v, n) /\ v[n] \in Int
  <2> HIDE DEF P
  <2>1. n \in N /\ n <= n
    BY <1>1, <1>4
  <2> QED BY <2>1 DEF N
<1> QED BY <1>5, Zenon DEF Values, n

\* The value of one digit more.
LEMMA PositionalAppend ==
  ASSUME NEW c \in Int, NEW ds \in Seq(Int), NEW d \in Int
  PROVE  /\ Positional(c, ds) \in Int
         /\ Positional(c, Append(ds, d)) = c * Positional(c, ds) + d
<1> DEFINE es == Append(ds, d)
           n == Len(ds)
           v == CHOOSE u : Values(u, c, ds)
           w == CHOOSE u : Values(u, c, es)
<1>1. n \in Nat /\ es \in Seq(Int) /\ Len(es) = n + 1 /\ es[n + 1] = d
      /\ \A i \in 1..n : es[i] = ds[i]
  BY AppendProperties, LenProperties
<1>2. PICK u : Values(u, c, ds) /\ u[Len(ds)] \in Int
  BY ValuesExist, Zenon
<1>3. Values(v, c, ds)
  BY <1>2, Zenon
<1>4. Values(w, c, es)
  BY <1>1, ValuesExist, Zenon
<1>5. Positional(c, ds) = v[n] /\ Positional(c, es) = w[Len(es)]
  BY Zenon DEF Positional, Values
<1> HIDE DEF v, w, n, es
<1>6. v[n] = u[n]
  BY <1>1, <1>2, <1>3, ValuesUnique, SMTT(30) DEF n
<1>7. v[n] = w[n]
  BY <1>1, <1>3, <1>4, ValuesUnique, SMTT(30) DEF n
<1>8. \A i \in 0..Len(es) : w[i] = IF i = 0 THEN 0 ELSE c * w[i - 1] + es[i]
  BY <1>4, Zenon DEF Values
<1>9. w[n + 1] = c * w[n] + d
  <2>1. n + 1 \in 0..Len(es) /\ n + 1 # 0 /\ (n + 1) - 1 = n
    BY <1>1
  <2> QED BY <1>1, <1>8, <2>1
<1>10. Positional(c, ds) \in Int
  BY <1>2, <1>5, <1>6 DEF n
<1>11. Positional(c, es) = c * Positional(c, ds) + d
  BY <1>1, <1>5, <1>7, <1>9
<1> QED BY <1>10, <1>11 DEF es

LEMMA PositionalEmpty == ASSUME NEW c \in Int PROVE Positional(c, <<>>) = 0
<1> DEFINE v == CHOOSE u : Values(u, c, <<>>)
<1>1. <<>> \in Seq(Int) /\ Len(<<>>) = 0
  BY EmptySeq
<1>2. Values(v, c, <<>>)
  BY <1>1, ValuesExist, Zenon
<1>3. Positional(c, <<>>) = v[0]
  BY <1>1, Zenon DEF Positional, Values
<1> HIDE DEF v
<1>4. \A i \in 0..0 : v[i] = IF i = 0 THEN 0 ELSE c * v[i - 1] + <<>>[i]
  BY <1>1, <1>2, Zenon DEF Values
<1> QED BY <1>3, <1>4

-----------------------------------------------------------------------------
LEMMA ReverseTyped ==
  ASSUME NEW S, NEW s \in Seq(S)
  PROVE  /\ Reverse(s) \in Seq(S) /\ Len(Reverse(s)) = Len(s)
         /\ \A i \in 1..Len(s) : Reverse(s)[i] = s[(Len(s) - i) + 1]
<1> DEFINE n == Len(s)
           v(i) == s[(n - i) + 1]
<1>1. n \in Nat /\ \A i \in 1..n : s[i] \in S
  BY LenProperties, ElementOfSeq
<1>2. Reverse(s) = [i \in 1..n |-> v(i)]
  BY DEF Reverse
<1> HIDE DEF n
<1>3. \A i \in 1..n : v(i) \in S
  <2>1. ASSUME NEW i \in 1..n PROVE s[(n - i) + 1] \in S
    <3>1. (n - i) + 1 \in 1..n
      BY <1>1
    <3> QED BY <1>1, <3>1
  <2> QED BY <2>1
<1>4. \A i \in 1..n : Reverse(s)[i] = v(i)
  BY <1>2
<1>5. Reverse(s) \in Seq(S) /\ Len(Reverse(s)) = n
  <2> HIDE DEF v
  <2> QED BY <1>1, <1>2, <1>3
<1> QED BY <1>4, <1>5 DEF n

LEMMA ReverseCons ==
  ASSUME NEW S, NEW d \in S, NEW s \in Seq(S)
  PROVE  Reverse(Cons(d, s)) = Append(Reverse(s), d)
<1> DEFINE n == Len(s)
           c == Cons(d, s)
           r == Reverse(s)
           t == Reverse(c)
<1>1. n \in Nat
  BY LenProperties
<1>2. /\ c \in Seq(S) /\ Len(c) = n + 1 /\ c[1] = d
      /\ \A i \in 1..n : c[i + 1] = s[i]
  BY ConsFacts
<1>3. r \in Seq(S) /\ Len(r) = n /\ \A i \in 1..n : r[i] = s[(n - i) + 1]
  BY ReverseTyped
<1>4. t \in Seq(S) /\ Len(t) = n + 1 /\ \A i \in 1..(n + 1) : t[i] = c[((n + 1) - i) + 1]
  BY <1>2, ReverseTyped
<1> HIDE DEF n, c, r, t
<1>5. t[n + 1] = d
  <2>1. n + 1 \in 1..(n + 1) /\ ((n + 1) - (n + 1)) + 1 = 1
    BY <1>1
  <2> QED BY <1>2, <1>4, <2>1
<1>6. ASSUME NEW i \in 1..n PROVE t[i] = r[i]
  <2> DEFINE j == (n - i) + 1
  <2>1. i \in 1..(n + 1) /\ j \in 1..n /\ ((n + 1) - i) + 1 = j + 1
    BY <1>1
  <2> HIDE DEF j
  <2>2. t[i] = c[j + 1] /\ c[j + 1] = s[j]
    BY <1>2, <1>4, <2>1
  <2>3. r[i] = s[j]
    BY <1>3 DEF j
  <2> QED BY <2>2, <2>3
<1>7. t = Append(r, d)
  BY <1>3, <1>4, <1>5, <1>6, ExtendSeq
<1> QED BY <1>7 DEF t, r, c

LEMMA ReverseAppend ==
  ASSUME NEW S, NEW d \in S, NEW s \in Seq(S)
  PROVE  Reverse(Append(s, d)) = Cons(d, Reverse(s))
<1> DEFINE n == Len(s)
           a == Append(s, d)
           r == Reverse(s)
           t == Reverse(a)
           c == Cons(d, r)
<1>1. n \in Nat
  BY LenProperties
<1>2. a \in Seq(S) /\ Len(a) = n + 1 /\ a[n + 1] = d /\ \A i \in 1..n : a[i] = s[i]
  BY AppendProperties
<1>3. r \in Seq(S) /\ Len(r) = n /\ \A i \in 1..n : r[i] = s[(n - i) + 1]
  BY ReverseTyped
<1>4. t \in Seq(S) /\ Len(t) = n + 1 /\ \A i \in 1..(n + 1) : t[i] = a[((n + 1) - i) + 1]
  <2> HIDE DEF a
  <2>1. t \in Seq(S) /\ Len(t) = Len(a) /\ \A i \in 1..Len(a) : t[i] = a[(Len(a) - i) + 1]
    BY <1>2, ReverseTyped
  <2> QED BY <1>2, <2>1, Zenon
<1>5. c \in Seq(S) /\ Len(c) = n + 1 /\ c[1] = d /\ \A i \in 1..n : c[i + 1] = r[i]
  BY <1>3, ConsFacts
<1> HIDE DEF n, a, r, t, c
<1>6. ASSUME NEW i \in 1..(n + 1) PROVE t[i] = c[i]
  <2>1. CASE i = 1
    <3>1. 1 \in 1..(n + 1) /\ ((n + 1) - 1) + 1 = n + 1
      BY <1>1
    <3>2. t[1] = d
      BY <1>2, <1>4, <3>1
    <3> QED BY <1>5, <2>1, <3>2
  <2>2. CASE i # 1
    <3> DEFINE k == i - 1
               j == (n - k) + 1
    <3>1. k \in 1..n /\ i = k + 1 /\ j \in 1..n /\ ((n + 1) - i) + 1 = j
      BY <1>1, <2>2
    <3>2. r[k] = s[j]
      BY <1>3, <3>1
    <3> HIDE DEF k, j
    <3>3. t[i] = a[j] /\ a[j] = s[j]
      BY <1>2, <1>4, <3>1
    <3>4. c[i] = r[k]
      BY <1>5, <3>1
    <3> QED BY <3>2, <3>3, <3>4
  <2> QED BY <2>1, <2>2
<1>7. t = c
  BY <1>4, <1>5, <1>6, SeqEqual
<1> QED BY <1>7 DEF t, a, c, r

\* The digits below zero.
Negated(ds) == [i \in DOMAIN ds |-> -ds[i]]

LEMMA NegatedAppend ==
  ASSUME NEW ds \in Seq(0..9), NEW d \in 0..9
  PROVE  /\ Negated(ds) \in Seq(Int)
         /\ Negated(Append(ds, d)) = Append(Negated(ds), -d)
<1> DEFINE n == Len(ds)
           a == Append(ds, d)
           s == Negated(ds)
           t == Negated(a)
<1>1. n \in Nat /\ DOMAIN ds = 1..n /\ \A i \in 1..n : ds[i] \in 0..9
  BY LenProperties, ElementOfSeq
<1>2. a \in Seq(0..9) /\ Len(a) = n + 1 /\ a[n + 1] = d /\ \A i \in 1..n : a[i] = ds[i]
  BY AppendProperties
<1>3. DOMAIN a = 1..(n + 1) /\ \A i \in 1..(n + 1) : a[i] \in 0..9
  BY <1>2, LenProperties, ElementOfSeq
<1> HIDE DEF n, a
<1>4. s \in Seq(Int) /\ Len(s) = n /\ \A i \in 1..n : s[i] = -ds[i]
  <2>1. s = [i \in 1..n |-> -ds[i]]
    BY <1>1 DEF Negated
  <2> QED BY <1>1, <2>1
<1>5. t \in Seq(Int) /\ Len(t) = n + 1 /\ \A i \in 1..(n + 1) : t[i] = -a[i]
  <2>1. t = [i \in 1..(n + 1) |-> -a[i]]
    BY <1>3 DEF Negated
  <2> QED BY <1>1, <1>3, <2>1
<1> HIDE DEF s, t
<1>6. t[n + 1] = -d /\ -d \in Int
  <2>1. n + 1 \in 1..(n + 1)
    BY <1>1
  <2> QED BY <1>2, <1>5, <2>1
<1>7. ASSUME NEW i \in 1..n PROVE t[i] = s[i]
  <2>1. i \in 1..(n + 1)
    BY <1>1
  <2> QED BY <1>2, <1>4, <1>5, <2>1
<1>8. t = Append(s, -d)
  BY <1>4, <1>5, <1>6, <1>7, ExtendSeq
<1> QED BY <1>4, <1>8 DEF s, t, a

\* The value of the digits, below zero.
LEMMA DigitsValue ==
  ASSUME NEW n \in Int
  PROVE  Positional(10, Negated(Reverse(LowDigitsFirst[n]))) = IF n < 0 THEN n ELSE -n
<1> DEFINE V(m) == Positional(10, Negated(Reverse(LowDigitsFirst[m])))
           S == {m \in Int : V(m) = IF m < 0 THEN m ELSE -m}
<1>1. 0 \in S
  <2>1. LowDigitsFirst[0] = <<>>
    BY LowDigitsRound
  <2>2. Reverse(<<>>) = <<>>
    BY DEF Reverse
  <2>3. Negated(<<>>) = <<>>
    BY DEF Negated
  <2>4. V(0) = 0
    BY <2>1, <2>2, <2>3, PositionalEmpty
  <2> HIDE DEF V
  <2> QED BY <2>4
<1>2. ASSUME NEW m \in Int \ {0}, Quotient(m) \in S PROVE m \in S
  <2> DEFINE q == Quotient(m)
             r == Remainder(m)
             d == Digit(m)
             rest == Reverse(LowDigitsFirst[q])
  <2>1. /\ q \in Int /\ m = 10 * q + r
        /\ m >= 0 => q >= 0 /\ r \in 0..9
        /\ m < 0 => q <= 0 /\ r \in (-9)..0
        /\ d \in 0..9
    BY QuotientFacts
  <2>2. d = IF r < 0 THEN -r ELSE r
    BY DEF Digit
  <2>3. LowDigitsFirst[m] = Cons(d, LowDigitsFirst[q])
    BY LowDigitsRound
  <2>4. LowDigitsFirst[q] \in Seq(0..9)
    BY <2>1, LowDigitsTyped
  <2>5. rest \in Seq(0..9)
    BY <2>4, ReverseTyped
  <2>6. V(q) = IF q < 0 THEN q ELSE -q
    BY <1>2
  <2> HIDE DEF q, r, d
  <2>7. Reverse(LowDigitsFirst[m]) = Append(rest, d)
    BY <2>1, <2>3, <2>4, ReverseCons
  <2>8. V(q) = Positional(10, Negated(rest)) /\ V(m) = Positional(10, Negated(Append(rest, d)))
    BY <2>7
  <2> HIDE DEF rest, V
  <2>9. Negated(rest) \in Seq(Int) /\ Negated(Append(rest, d)) = Append(Negated(rest), -d)
    BY <2>1, <2>5, NegatedAppend
  <2>10. -d \in Int
    BY <2>1
  <2>11. Positional(10, Append(Negated(rest), -d)) = 10 * Positional(10, Negated(rest)) + (-d)
    BY <2>9, <2>10, PositionalAppend
  <2>12. V(m) = 10 * V(q) - d
    BY <2>1, <2>6, <2>8, <2>9, <2>11
  <2>13. V(m) = IF m < 0 THEN m ELSE -m
    <3>1. CASE m < 0
      BY <2>1, <2>2, <2>6, <2>12, <3>1
    <3>2. CASE ~(m < 0)
      BY <2>1, <2>2, <2>6, <2>12, <3>2
    <3> QED BY <3>1, <3>2
  <2> QED BY <2>13
<1> HIDE DEF S
<1>3. S = Int
  <2>1. S \in SUBSET Int
    BY DEF S
  <2> QED BY <1>1, <1>2, <2>1, QuotientInduction
<1> QED BY <1>3 DEF S

LEMMA ConsTail ==
  ASSUME NEW S, NEW d \in S, NEW s \in Seq(S)
  PROVE  Tail(Cons(d, s)) = s
<1> DEFINE c == Cons(d, s)
           t == Tail(c)
           n == Len(s)
<1>1. c \in Seq(S) /\ Len(c) = n + 1 /\ c[1] = d /\ \A i \in 1..n : c[i + 1] = s[i]
  BY ConsFacts
<1>2. n \in Nat
  BY LenProperties
<1> HIDE DEF c, n
<1>3. c # <<>>
  BY <1>1, <1>2, EmptySeq
<1>4. t \in Seq(S) /\ Len(t) = Len(c) - 1 /\ \A i \in 1..Len(t) : t[i] = c[i + 1]
  BY <1>1, <1>3, HeadTailProperties
<1> HIDE DEF t
<1>5. Len(t) = n /\ \A i \in 1..n : t[i] = s[i]
  BY <1>1, <1>2, <1>4
<1>6. t = s
  BY <1>4, <1>5, SeqEqual DEF n
<1> QED BY <1>6 DEF t, c

\* What formatInteger() writes for n reads back as n.
LEMMA CharsReadBack ==
  ASSUME NEW n \in Int
  PROVE  /\ Chars(n) \in Seq(0..Minus) /\ ReadBack(Chars(n)) = n
         /\ (Chars(n) = <<>>) = (n = 0)
         /\ Len(Chars(n)) = IF n < 0 THEN Len(LowDigitsFirst[n]) + 1 ELSE Len(LowDigitsFirst[n])
<1> DEFINE low == LowDigitsFirst[n]
           r == Reverse(low)
           D == 0..Minus
<1>1. low \in Seq(0..9) /\ Len(low) \in Nat /\ (n = 0 <=> low = <<>>)
  BY LowDigitsTyped
<1>2. low \in Seq(D) /\ Minus \in D
  BY <1>1, SeqMonotonic DEF Minus
<1>3. r \in Seq(D) /\ Len(r) = Len(low) /\ r \in Seq(0..9)
  BY <1>1, <1>2, ReverseTyped
<1>4. Positional(10, [i \in DOMAIN r |-> -r[i]]) = IF n < 0 THEN n ELSE -n
  BY DigitsValue, Zenon DEF Negated
<1>5. Chars(n) = Reverse(IF n < 0 THEN Append(low, Minus) ELSE low)
  BY DEF Chars
<1> HIDE DEF low, D
<1>6. CASE n < 0
  <2> DEFINE c == Cons(Minus, r)
  <2>1. Chars(n) = c
    BY <1>2, <1>5, <1>6, ReverseAppend
  <2>2. c \in Seq(D) /\ Len(c) = Len(low) + 1 /\ c[1] = Minus
    BY <1>2, <1>3, ConsFacts
  <2>3. Tail(c) = r
    BY <1>2, <1>3, ConsTail
  <2> HIDE DEF c, r
  <2>4. c # <<>>
    BY <1>1, <2>2, EmptySeq
  <2>5. ReadBack(c) = Positional(10, [i \in DOMAIN r |-> -r[i]])
    BY <2>2, <2>3, <2>4, Zenon DEF ReadBack
  <2>6. ReadBack(c) = n
    BY <1>4, <1>6, <2>5
  <2> QED BY <1>6, <2>1, <2>2, <2>4, <2>6 DEF low, D
<1>7. CASE ~(n < 0)
  <2>1. Chars(n) = r
    BY <1>5, <1>7
  <2> HIDE DEF r
  <2>2. ~(r # <<>> /\ r[1] = Minus)
    <3> SUFFICES ASSUME r # <<>> PROVE r[1] # Minus
      OBVIOUS
    <3>1. Len(r) # 0 /\ Len(r) \in Nat
      BY <1>1, <1>3, EmptySeq
    <3>2. r[1] \in 0..9
      BY <1>3, <3>1, ElementOfSeq
    <3> QED BY <3>2 DEF Minus
  <2>3. ReadBack(r) = -Positional(10, [i \in DOMAIN r |-> -r[i]])
    BY <2>2, Zenon DEF ReadBack
  <2>4. ReadBack(r) = n
    BY <1>4, <1>7, <2>3
  <2>5. r = <<>> <=> low = <<>>
    BY <1>1, <1>3, EmptySeq
  <2> QED BY <1>1, <1>3, <1>7, <2>1, <2>4, <2>5 DEF low, D
<1> QED BY <1>6, <1>7

-----------------------------------------------------------------------------
\* What StreamAll() chooses: the buffer after each field.
Stages(v, b, fs) == v = [i \in 0..Len(fs) |-> IF i = 0 THEN b ELSE Stream(v[i - 1], fs[i])]

LEMMA StagesUnique ==
  ASSUME NEW fs, NEW gs, NEW m \in Nat, Len(fs) \in Nat, Len(gs) \in Nat,
         m <= Len(fs), m <= Len(gs), \A i \in 1..m : fs[i] = gs[i],
         NEW b, NEW v, NEW w, Stages(v, b, fs), Stages(w, b, gs)
  PROVE  \A i \in 0..m : v[i] = w[i]
<1> DEFINE N == {i \in Nat : i <= m => v[i] = w[i]}
<1>1. \A i \in 0..Len(fs) : v[i] = IF i = 0 THEN b ELSE Stream(v[i - 1], fs[i])
  BY Zenon DEF Stages
<1>2. \A i \in 0..Len(gs) : w[i] = IF i = 0 THEN b ELSE Stream(w[i - 1], gs[i])
  BY Zenon DEF Stages
<1>3. 0 \in N
  BY <1>1, <1>2
<1>4. ASSUME NEW i \in N PROVE i + 1 \in N
  <2> SUFFICES ASSUME i + 1 <= m PROVE v[i + 1] = w[i + 1]
    OBVIOUS
  <2>1. v[i] = w[i] /\ fs[i + 1] = gs[i + 1]
    OBVIOUS
  <2>2. i + 1 \in 0..Len(fs) /\ i + 1 \in 0..Len(gs) /\ i + 1 # 0 /\ (i + 1) - 1 = i
    OBVIOUS
  <2>3. v[i + 1] = Stream(v[i], fs[i + 1])
    BY <1>1, <2>2
  <2>4. w[i + 1] = Stream(w[i], gs[i + 1])
    BY <1>2, <2>2
  <2> QED BY <2>1, <2>3, <2>4, Zenon
<1> HIDE DEF N
<1>5. N = Nat
  <2>1. N \in SUBSET Nat
    BY DEF N
  <2> QED BY <1>3, <1>4, <2>1, SetInduction
<1> QED BY <1>5 DEF N

LEMMA StagesExist ==
  ASSUME NEW b, NEW fs, Len(fs) \in Nat
  PROVE  \E v : Stages(v, b, fs)
<1> DEFINE P(v, m) == v = [i \in 0..m |-> IF i = 0 THEN b ELSE Stream(v[i - 1], fs[i])]
           N == {m \in Nat : \E v : P(v, m)}
<1>1. 0 \in N
  <2> DEFINE v == [i \in 0..0 |-> b]
  <2>1. P(v, 0)
    OBVIOUS
  <2> HIDE DEF v, P
  <2> QED BY <2>1
<1>2. ASSUME NEW m \in N PROVE m + 1 \in N
  <2>1. PICK v : P(v, m)
    <3> HIDE DEF P
    <3> QED OBVIOUS
  <2> DEFINE x == Stream(v[m], fs[m + 1])
             w == [i \in 0..(m + 1) |-> IF i = m + 1 THEN x ELSE v[i]]
             u(i) == IF i = 0 THEN b ELSE Stream(w[i - 1], fs[i])
  <2>2. \A i \in 0..m : v[i] = IF i = 0 THEN b ELSE Stream(v[i - 1], fs[i])
    BY <2>1, Zenon
  <2>3. \A i \in 0..m : w[i] = v[i]
    OBVIOUS
  <2>4. w[m + 1] = x /\ w = [i \in 0..(m + 1) |-> w[i]]
    OBVIOUS
  <2>5. m \in 0..m /\ 0 \in 0..m
    OBVIOUS
  <2> HIDE DEF P, w
  <2>6. ASSUME NEW i \in 0..(m + 1) PROVE w[i] = u(i)
    <3>1. CASE i = m + 1
      <4>1. w[m + 1] = Stream(v[m], fs[m + 1]) /\ w[m] = v[m]
        BY <2>3, <2>4, <2>5, Zenon
      <4>2. i - 1 = m /\ i # 0
        BY <3>1
      <4> QED BY <3>1, <4>1, <4>2
    <3>2. CASE i = 0
      BY <2>2, <2>3, <2>5, <3>2
    <3>3. CASE i \in 1..m
      <4>1. i \in 0..m /\ i - 1 \in 0..m /\ i # 0
        BY <3>3
      <4>2. w[i] = v[i] /\ w[i - 1] = v[i - 1]
        BY <2>3, <4>1
      <4> QED BY <2>2, <4>1, <4>2
    <3>4. i = m + 1 \/ i = 0 \/ i \in 1..m
      OBVIOUS
    <3> QED BY <3>1, <3>2, <3>3, <3>4
  <2>7. w = [i \in 0..(m + 1) |-> u(i)]
    BY <2>4, <2>6, Zenon
  <2>8. P(w, m + 1)
    BY <2>7, Zenon DEF P
  <2> QED BY <2>8
<1> HIDE DEF N
<1>3. N = Nat
  <2>1. N \in SUBSET Nat
    BY DEF N
  <2> QED BY <1>1, <1>2, <2>1, SetInduction
<1>4. Len(fs) \in N
  BY <1>3
<1>5. PICK v : P(v, Len(fs))
  <2> HIDE DEF P
  <2> QED BY <1>4 DEF N
<1> QED BY <1>5, Zenon DEF Stages

\* Field after field.
LEMMA StreamAllAppend ==
  ASSUME NEW b, NEW S, NEW fs \in Seq(S), NEW f \in S
  PROVE  StreamAll(b, Append(fs, f)) = Stream(StreamAll(b, fs), f)
<1> DEFINE gs == Append(fs, f)
           n == Len(fs)
           v == CHOOSE u : Stages(u, b, fs)
           w == CHOOSE u : Stages(u, b, gs)
<1>1. /\ n \in Nat /\ Len(gs) = n + 1 /\ gs[n + 1] = f
      /\ \A i \in 1..n : gs[i] = fs[i]
  BY AppendProperties, LenProperties
<1>2. Len(gs) \in Nat
  BY <1>1
<1>3. Stages(v, b, fs)
  BY <1>1, StagesExist, Zenon
<1>4. Stages(w, b, gs)
  BY <1>2, StagesExist, Zenon
<1>5. StreamAll(b, fs) = v[n] /\ StreamAll(b, gs) = w[Len(gs)]
  BY Zenon DEF StreamAll, Stages
<1> HIDE DEF v, w, gs
<1>6. v[n] = w[n]
  <2>1. n <= Len(fs) /\ n <= Len(gs) /\ \A i \in 1..n : fs[i] = gs[i]
    BY <1>1
  <2>2. \A i \in 0..n : v[i] = w[i]
    BY <1>1, <1>2, <1>3, <1>4, <2>1, StagesUnique
  <2> QED BY <1>1, <2>2
<1>7. \A i \in 0..Len(gs) : w[i] = IF i = 0 THEN b ELSE Stream(w[i - 1], gs[i])
  BY <1>4, Zenon DEF Stages
<1>8. w[n + 1] = Stream(w[n], f)
  <2>1. n + 1 \in 0..Len(gs) /\ n + 1 # 0 /\ (n + 1) - 1 = n
    BY <1>1
  <2>2. w[n + 1] = Stream(w[n], gs[n + 1])
    BY <1>7, <2>1
  <2> QED BY <1>1, <2>2
<1> QED BY <1>1, <1>5, <1>6, <1>8 DEF gs

LEMMA StreamNothing == ASSUME NEW b PROVE StreamAll(b, <<>>) = b
<1> DEFINE v == CHOOSE u : Stages(u, b, <<>>)
<1>1. Len(<<>>) = 0
  BY EmptySeq
<1>2. Stages(v, b, <<>>)
  BY <1>1, StagesExist, Zenon
<1>3. StreamAll(b, <<>>) = v[0]
  BY <1>1, Zenon DEF StreamAll, Stages
<1> HIDE DEF v
<1>4. \A i \in 0..0 : v[i] = IF i = 0 THEN b ELSE Stream(v[i - 1], <<>>[i])
  BY <1>1, <1>2, Zenon DEF Stages
<1> QED BY <1>3, <1>4

-----------------------------------------------------------------------------
FieldSet == {f \in [kind : {"text", "number", "newline"}, size : Nat, value : Int] :
               f.kind = "number" => f.value \in Ints}

EntrySet == {e \in [field : FieldSet, chars : Seq(0..Minus)] :
               e.field.kind = "number" => e.chars = Chars(e.field.value)}

BufferSet == [length : 0..(SmallBufferSize - 1), data : Seq(EntrySet),
              touched : 0..SmallBufferSize]

LEMMA SizeFacts ==
  ASSUME NEW f \in FieldSet
  PROVE  /\ SizeOf(f) \in Nat
         /\ f.kind = "number" => /\ f.value \in Int /\ Chars(f.value) \in Seq(0..Minus)
                                 /\ SizeOf(f) = Len(Chars(f.value)) /\ SizeOf(f) <= 11
         /\ f.kind # "number" => f.size \in Nat /\ SizeOf(f) = f.size
<1>1. CASE f.kind = "number"
  <2> DEFINE n == f.value
             k == Len(LowDigitsFirst[n])
  <2>1. n \in Int /\ n \in Ints
    BY <1>1 DEF FieldSet
  <2>2. SizeOf(f) = Len(Chars(n))
    BY <1>1 DEF SizeOf
  <2> HIDE DEF n
  <2>3. k \in Nat /\ k <= 10
    BY <2>1, LowDigitsTyped, AtMostTenDigits
  <2>4. Len(Chars(n)) = (IF n < 0 THEN k + 1 ELSE k) /\ Chars(n) \in Seq(0..Minus)
    BY <2>1, CharsReadBack
  <2> HIDE DEF k
  <2>5. Len(Chars(n)) \in Nat /\ Len(Chars(n)) <= 11
    BY <2>3, <2>4
  <2> QED BY <1>1, <2>1, <2>2, <2>4, <2>5 DEF n
<1>2. CASE f.kind # "number"
  BY <1>2 DEF FieldSet, SizeOf
<1> QED BY <1>1, <1>2

\* What a field needs.
Fits(b, f) == Valid(b, IF f.kind = "number" THEN MaxNumSize ELSE f.size)

\* The buffer c is b with the field f behind the others.
Added(b, c, f) ==
  /\ c.length = b.length + SizeOf(f)
  /\ \E e \in EntrySet : e.field = f /\ c.data = Append(b.data, e)

LEMMA StreamStep ==
  ASSUME NEW b \in BufferSet, NEW f \in FieldSet
  PROVE  /\ Stream(b, f) \in BufferSet
         /\ IF Fits(b, f) THEN Added(b, Stream(b, f), f) ELSE Stream(b, f) = b
<1> DEFINE c == Stream(b, f)
           len == b.length
           x == SizeOf(f)
<1>0. SmallBufferSize \in Nat
  BY DEF SmallBufferSize
<1>1. /\ len \in Nat /\ len < SmallBufferSize /\ b.data \in Seq(EntrySet)
      /\ b.touched \in Nat /\ b.touched <= SmallBufferSize
  BY <1>0 DEF BufferSet
<1>2. x \in Nat
  BY SizeFacts
<1> HIDE DEF len, x
<1>3. CASE f.kind = "number" /\ Fits(b, f)
  <2> DEFINE e == [field |-> f, chars |-> Chars(f.value)]
             y == Larger(b.touched, len + x + 1)
  <2>1. e \in EntrySet /\ e.field = f
    BY <1>3, SizeFacts DEF EntrySet
  <2>2. x <= 11 /\ x = Len(Chars(f.value))
    BY <1>3, SizeFacts DEF x
  <2>3. SmallBufferSize - len > 32 /\ SmallBufferSize \in Nat
    BY <1>3 DEF Fits, Valid, MaxNumSize, len, SmallBufferSize
  <2>4. len + x \in 0..(SmallBufferSize - 1) /\ y \in 0..SmallBufferSize
    <3> HIDE DEF e
    <3> QED BY <1>1, <1>2, <2>2, <2>3 DEF Larger
  <2>5. c = [length |-> len + x, data |-> Append(b.data, e), touched |-> y]
    BY <1>3, <2>2 DEF Stream, FormatInteger, Fits, len
  <2> HIDE DEF e, y, c
  <2>6. Append(b.data, e) \in Seq(EntrySet)
    BY <1>1, <2>1, AppendProperties
  <2>7. c \in BufferSet
    BY <2>4, <2>5, <2>6 DEF BufferSet
  <2>8. Added(b, c, f)
    BY <2>1, <2>5 DEF Added, len, x
  <2> QED BY <1>3, <2>7, <2>8 DEF c
<1>4. CASE f.kind # "number" /\ Fits(b, f)
  <2> DEFINE e == [field |-> f, chars |-> <<>>]
             y == Larger(b.touched, len + x)
  <2>1. e \in EntrySet /\ e.field = f
    BY <1>4, EmptySeq DEF EntrySet
  <2>2. x = f.size
    BY <1>4, SizeFacts DEF x
  <2>3. SmallBufferSize - len > x /\ SmallBufferSize \in Nat
    BY <1>4, <2>2 DEF Fits, Valid, len, SmallBufferSize
  <2>4. len + x \in 0..(SmallBufferSize - 1) /\ y \in 0..SmallBufferSize
    <3> HIDE DEF e
    <3> QED BY <1>1, <1>2, <2>3 DEF Larger
  <2>5. c = [length |-> len + x, data |-> Append(b.data, e), touched |-> y]
    BY <1>4, <2>2 DEF Stream, AppendField, Fits, len
  <2> HIDE DEF e, y, c
  <2>6. Append(b.data, e) \in Seq(EntrySet)
    BY <1>1, <2>1, AppendProperties
  <2>7. c \in BufferSet
    BY <2>4, <2>5, <2>6 DEF BufferSet
  <2>8. Added(b, c, f)
    BY <2>1, <2>5 DEF Added, len, x
  <2> QED BY <1>4, <2>7, <2>8 DEF c
<1>5. CASE ~Fits(b, f)
  <2>1. c = b
    BY <1>5 DEF Stream, FormatInteger, AppendField, Fits
  <2> HIDE DEF c
  <2> QED BY <1>5, <2>1 DEF c
<1> QED BY <1>3, <1>4, <1>5

\* The fields in the buffer.
Received(b) == [i \in DOMAIN b.data |-> b.data[i].field]

\* All of fs is in the buffer if there was room for it.
Complete(b, fs) ==
  TotalSize(fs) + MaxNumSize < SmallBufferSize =>
    b.length = TotalSize(fs) /\ Received(b) = fs

LEMMA TotalSizeAppend ==
  ASSUME NEW fs \in Seq(FieldSet), NEW f \in FieldSet
  PROVE  /\ TotalSize(fs) \in Int /\ SizeOf(f) \in Nat
         /\ TotalSize(Append(fs, f)) = TotalSize(fs) + SizeOf(f)
<1> DEFINE n == Len(fs)
           gs == Append(fs, f)
           x == SizeOf(f)
           ds == [i \in DOMAIN fs |-> SizeOf(fs[i])]
           es == [i \in DOMAIN gs |-> SizeOf(gs[i])]
<1>1. x \in Nat
  BY SizeFacts
<1>2. n \in Nat /\ DOMAIN fs = 1..n /\ \A i \in 1..n : fs[i] \in FieldSet
  BY LenProperties, ElementOfSeq
<1>3. gs \in Seq(FieldSet) /\ Len(gs) = n + 1 /\ gs[n + 1] = f /\ \A i \in 1..n : gs[i] = fs[i]
  BY AppendProperties
<1>4. DOMAIN gs = 1..(n + 1) /\ \A i \in 1..(n + 1) : gs[i] \in FieldSet
  BY <1>3, LenProperties, ElementOfSeq
<1>5. \A i \in 1..n : SizeOf(fs[i]) \in Int
  BY <1>2, SizeFacts
<1>6. \A i \in 1..(n + 1) : SizeOf(gs[i]) \in Int
  BY <1>4, SizeFacts
<1> HIDE DEF n, gs, x
<1>7. ds \in Seq(Int) /\ Len(ds) = n /\ \A i \in 1..n : ds[i] = SizeOf(fs[i])
  BY <1>2, <1>5
<1>8. es \in Seq(Int) /\ Len(es) = n + 1 /\ \A i \in 1..(n + 1) : es[i] = SizeOf(gs[i])
  <2>1. n + 1 \in Nat
    BY <1>2
  <2> QED BY <1>4, <1>6, <2>1
<1>9. TotalSize(fs) = Positional(1, ds) /\ TotalSize(gs) = Positional(1, es)
  BY Zenon DEF TotalSize
<1> HIDE DEF ds, es
<1>10. es = Append(ds, x)
  <2>1. n + 1 \in 1..(n + 1) /\ \A i \in 1..n : i \in 1..(n + 1)
    BY <1>2
  <2>2. es[n + 1] = x
    BY <1>3, <1>8, <2>1 DEF x
  <2>3. ASSUME NEW i \in 1..n PROVE es[i] = ds[i]
    BY <1>3, <1>7, <1>8, <2>1
  <2>4. x \in Int
    BY <1>1
  <2> QED BY <1>7, <1>8, <2>2, <2>3, <2>4, ExtendSeq
<1>11. Positional(1, ds) \in Int /\ Positional(1, Append(ds, x)) = 1 * Positional(1, ds) + x
  <2>1. x \in Int
    BY <1>1
  <2> QED BY <1>7, <2>1, PositionalAppend
<1> QED BY <1>1, <1>9, <1>10, <1>11 DEF gs, x

LEMMA ReceivedTyped ==
  ASSUME NEW b \in BufferSet
  PROVE  /\ b.data \in Seq(EntrySet) /\ Received(b) \in Seq(FieldSet)
         /\ Len(Received(b)) = Len(b.data)
         /\ \A i \in 1..Len(b.data) : Received(b)[i] = b.data[i].field
<1> DEFINE n == Len(b.data)
<1>1. b.data \in Seq(EntrySet)
  BY DEF BufferSet
<1>2. n \in Nat /\ DOMAIN b.data = 1..n /\ \A i \in 1..n : b.data[i] \in EntrySet
  BY <1>1, LenProperties, ElementOfSeq
<1>3. \A i \in 1..n : b.data[i].field \in FieldSet
  BY <1>2 DEF EntrySet
<1>4. Received(b) = [i \in 1..n |-> b.data[i].field]
  BY <1>2 DEF Received
<1> HIDE DEF n
<1>5. /\ Received(b) \in Seq(FieldSet) /\ Len(Received(b)) = n
      /\ \A i \in 1..n : Received(b)[i] = b.data[i].field
  BY <1>2, <1>3, <1>4
<1> QED BY <1>1, <1>5 DEF n

LEMMA ReceivedAppend ==
  ASSUME NEW b \in BufferSet, NEW c \in BufferSet, NEW e \in EntrySet,
         c.data = Append(b.data, e)
  PROVE  Received(c) = Append(Received(b), e.field)
<1> DEFINE n == Len(b.data)
           r == Received(b)
           s == Received(c)
           f == e.field
<1>1. b.data \in Seq(EntrySet) /\ r \in Seq(FieldSet) /\ Len(r) = n
      /\ \A i \in 1..n : r[i] = b.data[i].field
  BY ReceivedTyped
<1>2. n \in Nat
  BY <1>1, LenProperties
<1>3. /\ Len(c.data) = n + 1 /\ c.data[n + 1] = e
      /\ \A i \in 1..n : c.data[i] = b.data[i]
  BY <1>1, AppendProperties
<1>4. s \in Seq(FieldSet) /\ Len(s) = n + 1 /\ \A i \in 1..(n + 1) : s[i] = c.data[i].field
  BY <1>3, ReceivedTyped
<1>5. f \in FieldSet
  BY DEF EntrySet
<1> HIDE DEF n, r, s
<1>6. n + 1 \in 1..(n + 1) /\ \A i \in 1..n : i \in 1..(n + 1)
  BY <1>2
<1>7. s[n + 1] = f
  BY <1>3, <1>4, <1>6
<1>8. ASSUME NEW i \in 1..n PROVE s[i] = r[i]
  <2>1. s[i] = c.data[i].field
    BY <1>4, <1>6
  <2>2. r[i] = b.data[i].field /\ c.data[i] = b.data[i]
    BY <1>1, <1>3
  <2> QED BY <2>1, <2>2
<1> HIDE DEF f
<1>9. s = Append(r, f)
  BY <1>1, <1>4, <1>5, <1>7, <1>8, ExtendSeq
<1> QED BY <1>9 DEF s, r, f

LEMMA CompleteStep ==
  ASSUME NEW b \in BufferSet, NEW fs \in Seq(FieldSet), NEW f \in FieldSet, Complete(b, fs)
  PROVE  Complete(Stream(b, f), Append(fs, f))
<1> DEFINE c == Stream(b, f)
           old == TotalSize(fs)
           new == TotalSize(Append(fs, f))
           x == SizeOf(f)
           len == b.length
<1>1. old \in Int /\ x \in Nat /\ new = old + x
  BY TotalSizeAppend
<1>2. SmallBufferSize \in Nat /\ MaxNumSize \in Nat
  BY DEF SmallBufferSize, MaxNumSize
<1>3. len \in Nat
  BY <1>2 DEF BufferSet
<1>4. c \in BufferSet /\ IF Fits(b, f) THEN Added(b, c, f) ELSE c = b
  BY StreamStep
<1>5. f.kind # "number" => x = f.size
  BY SizeFacts
<1> HIDE DEF c, old, new, x, len
<1> SUFFICES ASSUME new + MaxNumSize < SmallBufferSize
             PROVE  c.length = new /\ Received(c) = Append(fs, f)
  BY DEF Complete, c, new
<1>6. len = old /\ Received(b) = fs
  <2>1. old + MaxNumSize < SmallBufferSize
    BY <1>1, <1>2
  <2> QED BY <2>1 DEF Complete, old, len
<1>7. Fits(b, f)
  <2>1. SmallBufferSize - len > MaxNumSize /\ SmallBufferSize - len > x
    BY <1>1, <1>2, <1>3, <1>6
  <2> QED BY <1>5, <2>1 DEF Fits, Valid, len
<1>8. c.length = len + x
  BY <1>4, <1>7 DEF Added, len, x
<1>9. PICK e \in EntrySet : e.field = f /\ c.data = Append(b.data, e)
  BY <1>4, <1>7 DEF Added
<1>10. Received(c) = Append(Received(b), f)
  BY <1>4, <1>9, ReceivedAppend
<1> QED BY <1>1, <1>6, <1>8, <1>10

\* One field more on the right.
LEMMA ConcatAppend ==
  ASSUME NEW S, NEW s \in Seq(S), NEW t \in Seq(S), NEW x \in S
  PROVE  /\ s \o t \in Seq(S) /\ s \o <<>> = s
         /\ s \o Append(t, x) = Append(s \o t, x)
<1> DEFINE e == <<x>>
           u == s \o t
<1>1. e \in Seq(S)
  OBVIOUS
<1>2. Append(t, x) = t \o e
  BY AppendIsConcat
<1>3. u \in Seq(S)
  BY ConcatProperties
<1>4. Append(u, x) = u \o e
  <2> HIDE DEF u
  <2> QED BY <1>3, AppendIsConcat
<1> HIDE DEF e
<1>5. s \o (t \o e) = (s \o t) \o e
  BY <1>1, ConcatAssociative
<1>6. s \o <<>> = s
  BY ConcatEmptySeq
<1> QED BY <1>2, <1>3, <1>4, <1>5, <1>6

\* Any number of fields.
LEMMA CompleteStream ==
  ASSUME NEW b \in BufferSet, NEW fs \in Seq(FieldSet), NEW gs \in Seq(FieldSet), Complete(b, fs)
  PROVE  StreamAll(b, gs) \in BufferSet /\ Complete(StreamAll(b, gs), fs \o gs)
<1> DEFINE P(hs) == StreamAll(b, hs) \in BufferSet /\ Complete(StreamAll(b, hs), fs \o hs)
           N == {n \in Nat : \A hs \in Seq(FieldSet) : Len(hs) = n => P(hs)}
<1>1. 0 \in N
  <2>1. ASSUME NEW hs \in Seq(FieldSet), Len(hs) = 0 PROVE P(hs)
    <3>1. hs = <<>>
      BY <2>1, EmptySeq
    <3>2. StreamAll(b, hs) = b
      BY <3>1, StreamNothing
    <3>3. fs \o hs = fs
      BY <3>1, ConcatEmptySeq
    <3> QED BY <3>2, <3>3
  <2> HIDE DEF P
  <2> QED BY <2>1
<1>2. ASSUME NEW n \in N PROVE n + 1 \in N
  <2>1. ASSUME NEW hs \in Seq(FieldSet), Len(hs) = n + 1 PROVE P(hs)
    <3>0. n \in Nat
      OBVIOUS
    <3>1. PICK rest \in Seq(FieldSet), f \in FieldSet : hs = Append(rest, f)
      <4>1. hs # <<>>
        BY <2>1, <3>0, EmptySeq
      <4> QED BY <4>1, SequenceEmptyOrAppend
    <3>2. Len(rest) = n
      <4>1. Len(hs) = Len(rest) + 1 /\ Len(rest) \in Nat
        BY <3>1, AppendProperties, LenProperties
      <4> QED BY <2>1, <3>0, <4>1
    <3>3. P(rest)
      <4> HIDE DEF P
      <4> QED BY <3>2
    <3> DEFINE c == StreamAll(b, rest)
               d == StreamAll(b, hs)
               gone == fs \o rest
               all == fs \o hs
    <3>4. c \in BufferSet /\ Complete(c, gone)
      BY <3>3
    <3>5. d = Stream(c, f)
      BY <3>1, StreamAllAppend
    <3>6. gone \in Seq(FieldSet) /\ all = Append(gone, f)
      BY <3>1, ConcatAppend
    <3> HIDE DEF c, d, gone, all
    <3>7. d \in BufferSet
      BY <3>4, <3>5, StreamStep
    <3>8. Complete(d, all)
      BY <3>4, <3>5, <3>6, CompleteStep
    <3> QED BY <3>7, <3>8 DEF d, all
  <2> HIDE DEF P
  <2> QED BY <2>1
<1> HIDE DEF N, P
<1>3. N = Nat
  <2>1. N \in SUBSET Nat
    BY DEF N
  <2> QED BY <1>1, <1>2, <2>1, SetInduction
<1>4. Len(gs) \in N
  BY <1>3, LenProperties
<1>5. P(gs)
  BY <1>4 DEF N
<1> QED BY <1>5 DEF P

-----------------------------------------------------------------------------
\* The end of a record is a newline, or there was no room for it.
EndsWell(b) == Last(b.data).field.kind = "newline" \/ b.length = SmallBufferSize - 1

LEMMA FixedFields ==
  /\ EmptyBuffer \in BufferSet /\ Complete(EmptyBuffer, <<>>)
  /\ Prefix \in Seq(FieldSet) /\ Suffix \in Seq(FieldSet) /\ Newline \in FieldSet
  /\ \E front \in Seq(FieldSet) : Suffix = Append(front, Newline)
<1>1. \A n \in Nat : Text(n) \in FieldSet
  BY DEF Text, FieldSet
<1>2. Newline \in FieldSet
  BY DEF Newline, FieldSet
<1>3. Number(Line) \in FieldSet
  <2>1. Line \in Int /\ Line \in Ints
    BY LoggerAssumption
  <2> QED BY <2>1 DEF Number, FieldSet
<1>4. Basename \in FieldSet /\ Text(1) \in FieldSet /\ Text(3) \in FieldSet
  BY <1>1, LoggerAssumption DEF Basename
<1>5. Prefix \in Seq(FieldSet)
  BY <1>1 DEF Prefix
<1> DEFINE front == <<Text(3), Basename, Text(1), Number(Line)>>
<1>6. front \in Seq(FieldSet)
  BY <1>3, <1>4
<1>7. Suffix = Append(front, Newline)
  BY DEF Suffix
<1> HIDE DEF front
<1>8. Suffix \in Seq(FieldSet)
  BY <1>2, <1>6, <1>7, AppendProperties
<1>9. EmptyBuffer \in BufferSet
  <2>1. SmallBufferSize \in Nat /\ SmallBufferSize > 0
    BY DEF SmallBufferSize
  <2>2. 0 \in 0..(SmallBufferSize - 1) /\ 0 \in 0..SmallBufferSize
    BY <2>1
  <2>3. <<>> \in Seq(EntrySet)
    BY EmptySeq
  <2> QED BY <2>2, <2>3 DEF EmptyBuffer, BufferSet
<1>10. Complete(EmptyBuffer, <<>>)
  <2> DEFINE ds == [i \in DOMAIN <<>> |-> SizeOf(<<>>[i])]
  <2>1. ds = <<>>
    OBVIOUS
  <2>2. TotalSize(<<>>) = 0
    <3>1. TotalSize(<<>>) = Positional(1, ds)
      BY Zenon DEF TotalSize
    <3> HIDE DEF ds
    <3> QED BY <2>1, <3>1, PositionalEmpty
  <2>3. EmptyBuffer.length = 0 /\ EmptyBuffer.data = <<>>
    BY DEF EmptyBuffer
  <2>4. Received(EmptyBuffer) = <<>>
    BY <2>3 DEF Received
  <2> QED BY <2>2, <2>3, <2>4 DEF Complete
<1> QED BY <1>2, <1>5, <1>6, <1>7, <1>8, <1>9, <1>10

\* finish() ends every buffer well.
LEMMA FinishEndsWell ==
  ASSUME NEW b \in BufferSet, NEW fs \in Seq(FieldSet), Complete(b, fs)
  PROVE  EndsWell(Finish(b))
<1>1. PICK front \in Seq(FieldSet) : Suffix = Append(front, Newline)
  BY FixedFields
<1> DEFINE c == StreamAll(b, front)
           d == Finish(b)
<1>2. d = Stream(c, Newline) /\ Newline \in FieldSet
  BY <1>1, StreamAllAppend, FixedFields DEF Finish
<1>3. c \in BufferSet
  BY CompleteStream
<1> HIDE DEF c, d
<1>4. c.length \in Nat /\ c.length < SmallBufferSize /\ SmallBufferSize \in Nat
  <2>1. SmallBufferSize \in Nat
    BY DEF SmallBufferSize
  <2> QED BY <1>3, <2>1 DEF BufferSet
<1>5. CASE Fits(c, Newline)
  <2>1. PICK e \in EntrySet : e.field = Newline /\ d.data = Append(c.data, e)
    BY <1>2, <1>3, <1>5, StreamStep DEF Added
  <2>2. c.data \in Seq(EntrySet)
    BY <1>3 DEF BufferSet
  <2>3. Len(d.data) = Len(c.data) + 1 /\ d.data[Len(c.data) + 1] = e
    BY <2>1, <2>2, AppendProperties
  <2>4. Last(d.data) = e
    BY <2>3 DEF Last
  <2>5. Newline.kind = "newline"
    BY DEF Newline
  <2> QED BY <2>1, <2>4, <2>5 DEF EndsWell, d
<1>6. CASE ~Fits(c, Newline)
  <2>1. d = c
    BY <1>2, <1>3, <1>6, StreamStep
  <2>2. Newline.kind # "number" /\ Newline.size = 1
    BY DEF Newline
  <2>3. ~(SmallBufferSize - c.length > 1)
    BY <1>6, <2>2 DEF Fits, Valid
  <2>4. c.length = SmallBufferSize - 1
    BY <1>4, <2>3
  <2> QED BY <2>1, <2>4 DEF EndsWell, d
<1> QED BY <1>5, <1>6

-----------------------------------------------------------------------------
LogSet == [at : {"none", "streams", "flushes", "aborts", "done"},
           level : {"none", "INFO", "FATAL"}, fields : Seq(FieldSet), buffer : BufferSet]

\* A record under way holds what was streamed so far, an ended one all.
LogOK(l) ==
  /\ l.at = "streams" => Complete(l.buffer, Prefix \o l.fields)
  /\ l.at \in {"flushes", "aborts", "done"} =>
       Complete(l.buffer, Prefix \o l.fields \o Suffix) /\ EndsWell(l.buffer)

\* How far the record of a thread that is about to abort has come.
FatalOK(t) ==
  /\ log[t].at \in {"flushes", "aborts"} => log[t].level = "FATAL" /\ sink[t] # "nothing"
  /\ log[t].at = "aborts" /\ g_output = "defaultOutput" => sink[t] = "written"

LoggerInv ==
  /\ log \in [Threads -> LogSet]
  /\ sink \in [Threads -> {"nothing", "buffered", "written"}]
  /\ \A t \in Threads : LogOK(log[t]) /\ FatalOK(t)
  /\ aborted => \E t \in Threads : log[t].at = "aborts"

LEMMA InputFields == \A f \in Fields : f \in FieldSet
<1>1. ASSUME NEW n \in Texts PROVE Text(n) \in FieldSet
  <2>1. n \in Nat
    BY LoggerAssumption
  <2> QED BY <2>1 DEF Text, FieldSet
<1>2. ASSUME NEW v \in Numbers PROVE Number(v) \in FieldSet
  <2>1. v \in Ints /\ v \in Int
    BY LoggerAssumption DEF Ints
  <2> QED BY <2>1 DEF Number, FieldSet
<1> QED BY <1>1, <1>2 DEF Fields

\* What the steps of one thread do to its record.
LEMMA NewLog ==
  ASSUME NEW level \in {"INFO", "FATAL"}, NEW l,
         l = [at |-> "streams", level |-> level, fields |-> <<>>,
              buffer |-> StreamAll(EmptyBuffer, Prefix)]
  PROVE  l \in LogSet /\ LogOK(l)
<1> DEFINE b == StreamAll(EmptyBuffer, Prefix)
<1>1. <<>> \in Seq(FieldSet) /\ <<>> \o Prefix = Prefix /\ Prefix \o <<>> = Prefix
  BY FixedFields, EmptySeq, ConcatEmptySeq
<1>2. b \in BufferSet /\ Complete(b, <<>> \o Prefix)
  BY <1>1, FixedFields, CompleteStream
<1> HIDE DEF b
<1>3. l = [at |-> "streams", level |-> level, fields |-> <<>>, buffer |-> b]
  BY DEF b
<1> QED BY <1>1, <1>2, <1>3 DEF LogSet, LogOK

LEMMA StreamedLog ==
  ASSUME NEW l \in LogSet, LogOK(l), l.at = "streams", NEW f \in FieldSet, NEW k,
         k = [l EXCEPT !.fields = Append(@, f), !.buffer = Stream(@, f)]
  PROVE  k \in LogSet /\ LogOK(k)
<1> DEFINE c == Stream(l.buffer, f)
           fs == Prefix \o l.fields
           gs == Append(l.fields, f)
<1>1. l.fields \in Seq(FieldSet) /\ l.buffer \in BufferSet
  BY DEF LogSet
<1>2. Complete(l.buffer, fs)
  BY DEF LogOK
<1>3. fs \in Seq(FieldSet) /\ Prefix \o gs = Append(fs, f)
  BY <1>1, FixedFields, ConcatAppend
<1>4. gs \in Seq(FieldSet)
  BY <1>1, AppendProperties
<1> HIDE DEF fs
<1>5. Complete(c, Append(fs, f)) /\ c \in BufferSet
  BY <1>1, <1>2, <1>3, CompleteStep, StreamStep
<1> HIDE DEF c, gs
<1>6. /\ k = [l EXCEPT !.fields = gs, !.buffer = c]
      /\ k.at = "streams" /\ k.fields = gs /\ k.buffer = c
  BY DEF c, gs, LogSet
<1>7. k \in LogSet
  BY <1>4, <1>5, <1>6 DEF LogSet
<1> QED BY <1>3, <1>5, <1>6, <1>7 DEF LogOK

LEMMA FinishedLog ==
  ASSUME NEW l \in LogSet, LogOK(l), l.at = "streams", NEW k,
         k = [l EXCEPT !.buffer = Finish(@),
                       !.at = IF l.level = "FATAL" THEN "flushes" ELSE "done"]
  PROVE  k \in LogSet /\ LogOK(k)
<1> DEFINE c == Finish(l.buffer)
           fs == Prefix \o l.fields
           place == IF l.level = "FATAL" THEN "flushes" ELSE "done"
<1>1. l.fields \in Seq(FieldSet) /\ l.buffer \in BufferSet
  BY DEF LogSet
<1>2. Complete(l.buffer, fs)
  BY DEF LogOK
<1>3. fs \in Seq(FieldSet)
  BY <1>1, FixedFields, ConcatAppend
<1> HIDE DEF fs
<1>4. c \in BufferSet /\ Complete(c, fs \o Suffix) /\ EndsWell(c)
  BY <1>1, <1>2, <1>3, FixedFields, CompleteStream, FinishEndsWell DEF Finish
<1>5. place \in {"flushes", "done"}
  OBVIOUS
<1> HIDE DEF c, place
<1>6. /\ k = [l EXCEPT !.buffer = c, !.at = place]
      /\ k.at = place /\ k.fields = l.fields /\ k.buffer = c /\ k.level = l.level
  BY DEF c, place, LogSet
<1>7. k \in LogSet
  BY <1>4, <1>5, <1>6 DEF LogSet
<1> QED BY <1>4, <1>5, <1>6, <1>7 DEF LogOK, fs

LEMMA LoggerInitially == Init => LoggerInv
<1> SUFFICES ASSUME Init PROVE LoggerInv
  OBVIOUS
<1>1. NoLog \in LogSet
  <2>1. <<>> \in Seq(FieldSet) /\ EmptyBuffer \in BufferSet
    BY EmptySeq, FixedFields
  <2> QED BY <2>1 DEF NoLog, LogSet
<1>2. LogOK(NoLog)
  BY DEF NoLog, LogOK
<1>3. \A t \in Threads : log[t] = NoLog /\ sink[t] = "nothing"
  BY DEF Init
<1>4. \A t \in Threads : FatalOK(t)
  BY <1>3 DEF NoLog, FatalOK
<1>5. log \in [Threads -> LogSet]
  BY <1>1 DEF Init
<1> QED BY <1>2, <1>3, <1>4, <1>5 DEF Init, LoggerInv

\* A step of thread t that makes k of its record.
LEMMA RecordStep ==
  ASSUME LoggerInv, NEW t \in Threads, NEW k \in LogSet, LogOK(k), ~aborted, UNCHANGED aborted,
         log' = [log EXCEPT ![t] = k]
  PROVE  /\ log' \in [Threads -> LogSet] /\ \A u \in Threads : LogOK(log'[u])
         /\ aborted' => \E u \in Threads : log'[u].at = "aborts"
<1>1. log \in [Threads -> LogSet] /\ \A u \in Threads : LogOK(log[u])
  BY DEF LoggerInv
<1>2. \A u \in Threads : log'[u] = IF u = t THEN k ELSE log[u]
  BY <1>1
<1> QED BY <1>1, <1>2

LEMMA WrittenFacts ==
  ASSUME sink \in [Threads -> {"nothing", "buffered", "written"}]
  PROVE  /\ Written \in [Threads -> {"nothing", "buffered", "written"}]
         /\ \A t \in Threads : /\ sink[t] # "nothing" => Written[t] = "written"
                               /\ sink[t] = "nothing" => Written[t] = "nothing"
BY DEF Written

LEMMA ConstructStep ==
  ASSUME LoggerInv, NEW t \in Threads, NEW level \in {"INFO", "FATAL"}, Construct(t, level)
  PROVE  LoggerInv'
<1> DEFINE k == [at |-> "streams", level |-> level, fields |-> <<>>,
                 buffer |-> StreamAll(EmptyBuffer, Prefix)]
<1>1. k \in LogSet /\ LogOK(k) /\ k.at = "streams"
  BY NewLog
<1>2. /\ log' = [log EXCEPT ![t] = k] /\ ~aborted
      /\ UNCHANGED <<sink, g_output, aborted>>
  BY DEF Construct, ThreadAt
<1> HIDE DEF k
<1>3. /\ log' \in [Threads -> LogSet] /\ \A u \in Threads : LogOK(log'[u])
      /\ aborted' => \E u \in Threads : log'[u].at = "aborts"
  BY <1>1, <1>2, RecordStep
<1>4. \A u \in Threads : FatalOK(u)'
  BY <1>1, <1>2 DEF LoggerInv, FatalOK
<1> QED BY <1>2, <1>3, <1>4 DEF LoggerInv

LEMMA StreamFieldStep ==
  ASSUME LoggerInv, NEW t \in Threads, NEW f \in Fields, StreamField(t, f)
  PROVE  LoggerInv'
<1> DEFINE l == log[t]
           k == [l EXCEPT !.fields = Append(@, f), !.buffer = Stream(@, f)]
<1>1. l \in LogSet /\ LogOK(l) /\ l.at = "streams" /\ f \in FieldSet
  BY InputFields DEF LoggerInv, StreamField, ThreadAt
<1>2. k \in LogSet /\ LogOK(k)
  <2> HIDE DEF l
  <2> QED BY <1>1, StreamedLog, Zenon
<1>3. k.at = "streams"
  <2> HIDE DEF l
  <2> QED BY <1>1 DEF LogSet
<1>4. /\ log' = [log EXCEPT ![t] = k] /\ ~aborted
      /\ UNCHANGED <<sink, g_output, aborted>>
  BY DEF StreamField, ThreadAt, LoggerInv
<1> HIDE DEF k
<1>5. /\ log' \in [Threads -> LogSet] /\ \A u \in Threads : LogOK(log'[u])
      /\ aborted' => \E u \in Threads : log'[u].at = "aborts"
  BY <1>2, <1>4, RecordStep
<1>6. \A u \in Threads : FatalOK(u)'
  BY <1>3, <1>4 DEF LoggerInv, FatalOK
<1> QED BY <1>4, <1>5, <1>6 DEF LoggerInv

LEMMA LogOutputStep ==
  ASSUME LoggerInv, NEW t \in Threads, Output(t)
  PROVE  LoggerInv'
<1> DEFINE l == log[t]
           k == [l EXCEPT !.buffer = Finish(@),
                          !.at = IF l.level = "FATAL" THEN "flushes" ELSE "done"]
<1>1. l \in LogSet /\ LogOK(l) /\ l.at = "streams"
  BY DEF LoggerInv, Output, ThreadAt
<1>2. k \in LogSet /\ LogOK(k)
  <2> HIDE DEF l
  <2> QED BY <1>1, FinishedLog, Zenon
<1>3. k.level = l.level /\ k.at = IF l.level = "FATAL" THEN "flushes" ELSE "done"
  <2> HIDE DEF l
  <2> QED BY <1>1 DEF LogSet
<1>4. /\ log' = [log EXCEPT ![t] = k] /\ ~aborted
      /\ sink' = [sink EXCEPT ![t] = "buffered"]
      /\ UNCHANGED <<g_output, aborted>>
  BY DEF Output, ThreadAt, LoggerInv
<1> HIDE DEF k, l
<1>5. /\ log' \in [Threads -> LogSet] /\ \A u \in Threads : LogOK(log'[u])
      /\ aborted' => \E u \in Threads : log'[u].at = "aborts"
  BY <1>2, <1>4, RecordStep
<1>6. ASSUME NEW u \in Threads PROVE FatalOK(u)'
  <2>1. CASE u = t
    <3>1. log'[t] = k /\ sink'[t] = "buffered"
      BY <1>4 DEF LoggerInv
    <3> QED BY <1>3, <2>1, <3>1 DEF FatalOK
  <2>2. CASE u # t
    <3>1. log'[u] = log[u] /\ sink'[u] = sink[u]
      BY <1>4, <2>2 DEF LoggerInv
    <3> QED BY <1>4, <3>1 DEF LoggerInv, FatalOK
  <2> QED BY <2>1, <2>2
<1>7. sink' \in [Threads -> {"nothing", "buffered", "written"}]
  BY <1>4 DEF LoggerInv
<1> QED BY <1>5, <1>6, <1>7 DEF LoggerInv

LEMMA FlushRecordStep ==
  ASSUME LoggerInv, NEW t \in Threads, Flush(t)
  PROVE  LoggerInv'
<1> DEFINE l == log[t]
           k == [l EXCEPT !.at = "aborts"]
<1>1. l \in LogSet /\ LogOK(l) /\ l.at = "flushes" /\ l.level = "FATAL" /\ sink[t] # "nothing"
  BY DEF LoggerInv, Flush, ThreadAt, FatalOK
<1>2. /\ k \in LogSet /\ k.at = "aborts" /\ k.level = l.level
      /\ k.fields = l.fields /\ k.buffer = l.buffer
  <2> HIDE DEF l
  <2> QED BY <1>1 DEF LogSet
<1>3. LogOK(k)
  <2> HIDE DEF l, k
  <2> QED BY <1>1, <1>2 DEF LogOK
<1>4. /\ log' = [log EXCEPT ![t] = k] /\ ~aborted
      /\ sink' = IF g_output = "defaultOutput" THEN Written ELSE sink
      /\ UNCHANGED <<g_output, aborted>>
  BY DEF Flush, ThreadAt, LoggerInv
<1> HIDE DEF k, l
<1>5. /\ log' \in [Threads -> LogSet] /\ \A u \in Threads : LogOK(log'[u])
      /\ aborted' => \E u \in Threads : log'[u].at = "aborts"
  BY <1>2, <1>3, <1>4, RecordStep
<1>6. /\ sink' \in [Threads -> {"nothing", "buffered", "written"}]
      /\ \A u \in Threads : /\ sink[u] # "nothing" => sink'[u] # "nothing"
                            /\ sink[u] # "nothing" /\ g_output = "defaultOutput"
                                 => sink'[u] = "written"
                            /\ sink[u] = "written" => sink'[u] = "written"
  BY <1>4, WrittenFacts DEF LoggerInv
<1>7. ASSUME NEW u \in Threads PROVE FatalOK(u)'
  <2>1. CASE u = t
    <3>1. log'[t] = k
      BY <1>4 DEF LoggerInv
    <3> QED BY <1>1, <1>2, <1>4, <1>6, <2>1, <3>1 DEF FatalOK
  <2>2. CASE u # t
    <3>1. log'[u] = log[u]
      BY <1>4, <2>2 DEF LoggerInv
    <3> QED BY <1>4, <1>6, <3>1 DEF LoggerInv, FatalOK
  <2> QED BY <2>1, <2>2
<1> QED BY <1>5, <1>6, <1>7 DEF LoggerInv

LEMMA SinkStep ==
  ASSUME LoggerInv, SinkWrites
  PROVE  LoggerInv'
<1>1. sink' = Written /\ ~aborted /\ UNCHANGED <<log, g_output, aborted>>
  BY DEF SinkWrites
<1>2. /\ sink' \in [Threads -> {"nothing", "buffered", "written"}]
      /\ \A u \in Threads : /\ sink[u] # "nothing" => sink'[u] # "nothing"
                            /\ sink[u] = "written" => sink'[u] = "written"
  BY <1>1, WrittenFacts DEF LoggerInv
<1> QED BY <1>1, <1>2 DEF LoggerInv, FatalOK

LEMMA LoggerStep == LoggerInv /\ [Next]_vars => LoggerInv'
<1> SUFFICES ASSUME LoggerInv, [Next]_vars PROVE LoggerInv'
  OBVIOUS
<1>1. ASSUME NEW t \in Threads, NEW level \in {"INFO", "FATAL"}, Construct(t, level)
      PROVE  LoggerInv'
  BY <1>1, ConstructStep
<1>2. ASSUME NEW t \in Threads, NEW f \in Fields, StreamField(t, f) PROVE LoggerInv'
  BY <1>2, StreamFieldStep
<1>3. ASSUME NEW t \in Threads, Output(t) PROVE LoggerInv'
  BY <1>3, LogOutputStep
<1>4. ASSUME NEW t \in Threads, Flush(t) PROVE LoggerInv'
  BY <1>4, FlushRecordStep
<1>5. ASSUME NEW t \in Threads, Abort(t) PROVE LoggerInv'
  <2>1. log[t].at = "aborts" /\ UNCHANGED <<log, sink, g_output>>
    BY <1>5 DEF Abort, ThreadAt
  <2> QED BY <2>1 DEF LoggerInv, FatalOK
<1>6. CASE SinkWrites
  BY <1>6, SinkStep
<1>7. CASE UNCHANGED vars
  BY <1>7 DEF vars, LoggerInv, FatalOK
<1> QED BY <1>1, <1>2, <1>3, <1>4, <1>5, <1>6, <1>7 DEF Next

LEMMA LoggerAlways == Spec => []LoggerInv
BY LoggerInitially, LoggerStep, PTL DEF Spec

-----------------------------------------------------------------------------
\* No record is written behind the end of its buffer.
THEOREM NeverOverrun == Spec => []NoOverrun
<1>1. ASSUME LoggerInv PROVE NoOverrun
  <2>1. ASSUME NEW t \in Threads PROVE log[t].buffer.touched <= SmallBufferSize
    <3>1. log[t].buffer \in BufferSet /\ SmallBufferSize \in Nat
      BY <1>1 DEF LoggerInv, LogSet, SmallBufferSize
    <3> QED BY <3>1 DEF BufferSet
  <2> QED BY <2>1 DEF NoOverrun
<1> QED BY <1>1, LoggerAlways, PTL

\* Every number in a record reads back, and only 0 leaves no character.
THEOREM NumbersAlwaysReadBack == Spec => []NumbersReadBack
<1>1. ASSUME LoggerInv PROVE NumbersReadBack
  <2>1. ASSUME NEW t \in Threads, NEW e \in Range(log[t].buffer.data), e.field.kind = "number"
        PROVE  ReadBack(e.chars) = e.field.value /\ (e.chars = <<>>) = (e.field.value = 0)
    <3> DEFINE data == log[t].buffer.data
    <3>1. data \in Seq(EntrySet)
      BY <1>1 DEF LoggerInv, LogSet, BufferSet
    <3>2. e \in EntrySet
      <4> HIDE DEF data
      <4>1. PICK i \in DOMAIN data : e = data[i]
        BY DEF Range, data
      <4>2. DOMAIN data = 1..Len(data)
        BY <3>1, LenProperties
      <4> QED BY <3>1, <4>1, <4>2, ElementOfSeq
    <3>3. e.field.value \in Int /\ e.chars = Chars(e.field.value)
      BY <2>1, <3>2 DEF EntrySet, FieldSet
    <3> QED BY <3>3, CharsReadBack
  <2> QED BY <2>1 DEF NumbersReadBack
<1> QED BY <1>1, LoggerAlways, PTL

\* A record that leaves formatInteger() its room is complete.
THEOREM AlwaysCompleteWhenItFits == Spec => []CompleteWhenItFits
<1>1. ASSUME LoggerInv PROVE CompleteWhenItFits
  <2>1. ASSUME NEW t \in Threads, Ended(t)
        PROVE  LET wanted == Prefix \o log[t].fields \o Suffix
                   size   == TotalSize(wanted)
               IN  size + MaxNumSize < SmallBufferSize =>
                     /\ log[t].buffer.length = size
                     /\ [i \in DOMAIN log[t].buffer.data |-> log[t].buffer.data[i].field] = wanted
    <3>1. Complete(log[t].buffer, Prefix \o log[t].fields \o Suffix)
      BY <1>1, <2>1 DEF LoggerInv, LogOK, Ended
    <3> QED BY <3>1, Zenon DEF Complete, Received
  <2> QED BY <2>1, Zenon DEF CompleteWhenItFits
<1> QED BY <1>1, LoggerAlways, PTL

\* Every record ends with a newline or fills its buffer.
THEOREM AlwaysNewlineOrFull == Spec => []NewlineOrFull
<1>1. LoggerInv => NewlineOrFull
  BY DEF LoggerInv, LogOK, EndsWell, Ended, NewlineOrFull
<1> QED BY <1>1, LoggerAlways, PTL

\* With the default output the record that ends the process is written.
THEOREM FatalAlwaysWritten == Spec => []FatalIsWritten
<1>1. LoggerInv => FatalIsWritten
  BY DEF LoggerInv, FatalOK, FatalIsWritten
<1> QED BY <1>1, LoggerAlways, PTL
=============================================================================
