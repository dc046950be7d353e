---------------------------- MODULE SequenceLemmas ----------------------------
(***************************************************************************)
(* Facts on numbers and sequences that the proofs of several components    *)
(* rest on.                                                                *)
(***************************************************************************)
EXTENDS Integers, SequencesExt, SequenceTheorems, FiniteSetTheorems, TLAPS

\* A set of numbers has a least element: its initial intervals are finite.
LEMMA LeastNumber ==
  ASSUME NEW S \in SUBSET Nat, S # {}
  PROVE  \E m \in S : \A k \in S : m <= k
<1> DEFINE F == {0 .. n : n \in S}
<1>1. F \subseteq FiniteSubsetsOf(Nat) /\ F # {}
  <2>1. \A n \in S : 0 .. n \in SUBSET Nat /\ IsFiniteSet(0 .. n)
    BY FS_Interval
  <2> QED BY <2>1 DEF FiniteSubsetsOf
<1>2. \E x \in F : \A y \in F : ~(<<y, x>> \in StrictSubsetOrdering(Nat))
  <2> HIDE DEF F
  <2> QED BY <1>1, FS_StrictSubsetOrderingWellFounded, WFMin
<1>3. PICK m \in S : \A k \in S : ~(<<0 .. k, 0 .. m>> \in StrictSubsetOrdering(Nat))
  BY <1>2
<1>4. ASSUME NEW k \in S, k < m PROVE FALSE
  <2>1. 0 .. k \in SUBSET Nat /\ 0 .. m \in SUBSET Nat /\ 0 .. k \subseteq 0 .. m
    BY <1>4
  <2>2. m \in 0 .. m /\ m \notin 0 .. k
    BY <1>4
  <2> QED BY <2>1, <2>2, <1>3 DEF StrictSubsetOrdering
<1> QED BY <1>4

LEMMA MaxIs ==
  ASSUME NEW n \in Nat, NEW S \in SUBSET (1 .. n), S # {}
  PROVE  Max(S) \in S /\ \A k \in S : k <= Max(S)
<1> DEFINE Rest == {n - k : k \in S}
<1>0. \A k \in S : k \in 1 .. n /\ n - k \in Nat /\ n - (n - k) = k
  OBVIOUS
<1>1. Rest \in SUBSET Nat /\ Rest # {}
  BY <1>0
<1>2. PICK m \in Rest : \A k \in Rest : m <= k
  <2> HIDE DEF Rest
  <2> QED BY <1>1, LeastNumber
<1>3. n - m \in S /\ \A k \in S : n - m >= k
  <2>1. PICK j \in S : m = n - j
    BY <1>2
  <2>2. n - m = j
    BY <1>0, <2>1
  <2>3. ASSUME NEW k \in S PROVE j >= k
    <3>1. n - k \in Rest /\ k \in Int /\ j \in Int
      BY <1>0
    <3>2. n - j <= n - k
      BY <1>2, <2>1, <3>1
    <3> QED BY <3>1, <3>2
  <2> QED BY <2>2, <2>3
<1> HIDE DEF Rest
<1>4. \A k \in S : Max(S) >= k
  BY <1>3 DEF Max
<1>5. Max(S) \in S
  BY <1>3 DEF Max
<1> QED BY <1>4, <1>5

LEMMA MinIs ==
  ASSUME NEW S \in SUBSET Nat, S # {}
  PROVE  Min(S) \in S /\ \A k \in S : Min(S) <= k
<1>1. \E m \in S : \A k \in S : m <= k
  BY LeastNumber
<1> QED BY <1>1 DEF Min

\* The only multiple of W strictly between -W and W is zero.
LEMMA OnlyMultiple ==
  ASSUME NEW W \in Nat \ {0}, NEW k \in Int, -W < k * W, k * W < W
  PROVE  k = 0
<1>1. ~(k >= 1)
  <2> SUFFICES ASSUME k >= 1 PROVE FALSE
    OBVIOUS
  <2>1. k * W >= W
    OBVIOUS
  <2> QED
    BY <2>1
<1>2. ~(k <= -1)
  <2> SUFFICES ASSUME k <= -1 PROVE FALSE
    OBVIOUS
  <2>1. k * W <= -W
    OBVIOUS
  <2> QED
    BY <2>1
<1> QED
  BY <1>1, <1>2

LEMMA DivMod ==
  ASSUME NEW W \in Nat \ {0}, NEW n \in Int
  PROVE  /\ n % W \in 0 .. W - 1
         /\ n \div W \in Int
         /\ n = W * (n \div W) + (n % W)
<1>1. n % W \in 0 .. W - 1
  OBVIOUS
<1>2. n \div W \in Int
  OBVIOUS
<1>3. n = W * (n \div W) + (n % W)
  OBVIOUS
<1> QED
  BY <1>1, <1>2, <1>3

\* Taking the remainder of what is subtracted does not change the remainder
\* of the difference, when the difference itself fits in a word.
LEMMA MulMonotone ==
  ASSUME NEW a \in Int, NEW b \in Int, a <= b, NEW n \in Nat
  PROVE  a * n <= b * n
<1>1. PICK d \in Nat : b = a + d
  <2>1. b - a \in Nat /\ b = a + (b - a)
    OBVIOUS
  <2> QED BY <2>1
<1>2. b * n = a * n + d * n
  BY <1>1
<1>3. d * n \in Nat /\ a * n \in Int
  BY <1>1
<1> QED BY <1>2, <1>3

LEMMA QuotientIs ==
  ASSUME NEW n \in Nat, NEW d \in Nat \ {0}, NEW q \in Nat
  PROVE  n \div d = q <=> n \in q * d .. (q + 1) * d - 1
<1> DEFINE x == n \div d
           r == n % d
<1>1. r \in 0 .. d - 1 /\ x \in Int /\ n = d * x + r
  BY DivMod
<1> HIDE DEF x, r
<1>2. (q + 1) * d = q * d + d /\ q * d \in Int /\ d * x = x * d /\ (x + 1) * d = x * d + d /\ x * d \in Int
  BY <1>1
<1>3. ASSUME x = q PROVE n \in q * d .. (q + 1) * d - 1
  BY <1>1, <1>2, <1>3
<1>4. ASSUME n \in q * d .. (q + 1) * d - 1 PROVE x = q
  <2>1. ~(x + 1 <= q)
    <3> SUFFICES ASSUME x + 1 <= q PROVE FALSE
      OBVIOUS
    <3>1. (x + 1) * d <= q * d
      BY <1>1, MulMonotone
    <3> QED BY <3>1, <1>1, <1>2, <1>4
  <2>2. ~(q + 1 <= x)
    <3> SUFFICES ASSUME q + 1 <= x PROVE FALSE
      OBVIOUS
    <3>1. (q + 1) * d <= x * d
      BY <1>1, MulMonotone
    <3> QED BY <3>1, <1>1, <1>2, <1>4
  <2> QED BY <2>1, <2>2, <1>1
<1> QED BY <1>3, <1>4 DEF x

LEMMA ModOfDifference ==
  ASSUME NEW W \in Nat \ {0}, NEW n \in Int, NEW x \in Int, n - x \in 0 .. W - 1
  PROVE  (n - (x % W)) % W = n - x
<1> DEFINE r == x % W
           q == x \div W
           m == n - r
           s == m % W
           t == m \div W
<1>1. r \in 0 .. W - 1 /\ q \in Int /\ x = W * q + r
  BY DivMod
<1>2. m \in Int
  BY <1>1
<1>3. s \in 0 .. W - 1 /\ t \in Int /\ m = W * t + s
  BY <1>2, DivMod
<1> HIDE DEF r, q, s, t
<1>4. (t - q) * W = (n - x) - s
  BY <1>1, <1>3
<1>5. -W < (t - q) * W /\ (t - q) * W < W
  BY <1>3, <1>4
<1>6. t - q = 0
  BY <1>1, <1>3, <1>5, OnlyMultiple
<1>7. s = n - x
  BY <1>1, <1>3, <1>4, <1>6
<1> QED
  BY <1>7 DEF s, r

LEMMA SeqDomain ==
  ASSUME NEW T, NEW s \in Seq(T)
  PROVE  Len(s) \in Nat /\ DOMAIN s = 1 .. Len(s) /\ \A k \in 1 .. Len(s) : s[k] \in T
OBVIOUS

LEMMA FunctionIsSeq ==
  ASSUME NEW T, NEW n \in Nat, NEW f, f \in [1 .. n -> T]
  PROVE  f \in Seq(T) /\ Len(f) = n
OBVIOUS

LEMMA EmptyIffNoLength ==
  ASSUME NEW T, NEW s \in Seq(T)
  PROVE  s = <<>> <=> Len(s) = 0
BY EmptySeq

LEMMA ConcatOf ==
  ASSUME NEW T, NEW s \in Seq(T), NEW t \in Seq(T)
  PROVE  s \o t \in Seq(T) /\ Len(s \o t) = Len(s) + Len(t)
BY ConcatProperties

\* (Its name keeps the equation out of the search for the instance.)
Associates(a, b, c) == (a \o b) \o c = a \o (b \o c)

LEMMA Assoc ==
  ASSUME NEW T, NEW a \in Seq(T), NEW b \in Seq(T), NEW c \in Seq(T)
  PROVE  Associates(a, b, c)
BY ConcatAssociative DEF Associates

LEMMA ConcatFirst ==
  ASSUME NEW T, NEW s \in Seq(T), NEW t \in Seq(T), Len(s) # 0
  PROVE  (s \o t)[1] = s[1]
<1>1. \A i \in 1 .. Len(s) + Len(t) : (s \o t)[i] = IF i <= Len(s) THEN s[i] ELSE t[i - Len(s)]
  BY ConcatProperties, Zenon
<1>2. Len(s) \in Nat /\ Len(t) \in Nat
  BY SeqDomain, Zenon
<1>3. 1 \in 1 .. Len(s) + Len(t) /\ 1 <= Len(s)
  BY <1>2
<1> QED BY <1>1, <1>3, Zenon

Joins(s, t) == Len(s \o t) = Len(s) + Len(t) /\ (Len(s) # 0 => (s \o t)[1] = s[1])

LEMMA Joining ==
  ASSUME NEW T, NEW s \in Seq(T), NEW t \in Seq(T)
  PROVE  s \o t \in Seq(T) /\ Joins(s, t)
BY ConcatOf, ConcatFirst DEF Joins

\* Two ways to cut a sequence at the same place.
LEMMA CutAlike ==
  ASSUME NEW T, NEW a \in Seq(T), NEW b \in Seq(T), NEW c \in Seq(T), NEW d \in Seq(T),
         a \o b = c \o d, Len(a) = Len(c)
  PROVE  a = c /\ b = d
<1>1. /\ Len(a) \in Nat /\ Len(b) \in Nat /\ Len(d) \in Nat
      /\ Len(a \o b) = Len(a) + Len(b) /\ Len(c \o d) = Len(c) + Len(d)
      /\ \A i \in 1 .. Len(a) + Len(b) : (a \o b)[i] = IF i <= Len(a) THEN a[i] ELSE b[i - Len(a)]
      /\ \A i \in 1 .. Len(c) + Len(d) : (c \o d)[i] = IF i <= Len(c) THEN c[i] ELSE d[i - Len(c)]
  BY ConcatProperties, LenProperties, Zenon
<1>2. Len(b) = Len(d)
  BY <1>1
<1>3. ASSUME NEW i \in 1 .. Len(a) PROVE a[i] = c[i]
  <2>1. i \in 1 .. Len(a) + Len(b) /\ i \in 1 .. Len(c) + Len(d) /\ i <= Len(a) /\ i <= Len(c)
    BY <1>1, <1>2
  <2> QED BY <2>1, <1>1, Zenon
<1>4. ASSUME NEW i \in 1 .. Len(b) PROVE b[i] = d[i]
  <2> DEFINE j == Len(a) + i
  <2>1. /\ j \in 1 .. Len(a) + Len(b) /\ j \in 1 .. Len(c) + Len(d)
        /\ ~(j <= Len(a)) /\ ~(j <= Len(c)) /\ j - Len(a) = i /\ j - Len(c) = i
    BY <1>1, <1>2
  <2> HIDE DEF j
  <2>2. (a \o b)[j] = b[i] /\ (c \o d)[j] = d[i]
    BY <2>1, <1>1, Zenon
  <2> QED BY <2>2
<1> QED BY <1>2, <1>3, <1>4, SeqEqual, Zenon

-----------------------------------------------------------------------------
(* FlattenSeq is defined by recursion over an interval: what it computes,  *)
(* from either end.                                                        *)

Flattens(f, s) ==
  f = [i \in 1 .. Len(s) |-> IF i = 1 THEN s[i] ELSE f[i - 1] \o s[i]]

Begins(s, t) ==
  /\ Len(s) \in Nat /\ Len(t) \in Nat /\ Len(s) <= Len(t)
  /\ \A i \in 1 .. Len(s) : s[i] = t[i]

Agree(f, g, n) == \A i \in 1 .. n : f[i] = g[i]

LEMMA FlattensUnique ==
  ASSUME NEW s, NEW t, Begins(s, t), NEW f, NEW g, Flattens(f, s), Flattens(g, t)
  PROVE  Agree(f, g, Len(s))
<1> USE DEF Begins, Agree
<1> DEFINE Bad == {i \in 1 .. Len(s) : f[i] # g[i]}
<1> SUFFICES ASSUME Bad # {} PROVE FALSE
  OBVIOUS
<1>1. PICK i \in Bad : \A k \in Bad : i <= k
  <2>1. Bad \in SUBSET Nat
    OBVIOUS
  <2> HIDE DEF Bad
  <2> QED BY <2>1, LeastNumber
<1>2. i \in 1 .. Len(s) /\ i \in 1 .. Len(t) /\ f[i] # g[i]
  BY <1>1
<1>3. /\ f[i] = IF i = 1 THEN s[i] ELSE f[i - 1] \o s[i]
      /\ g[i] = IF i = 1 THEN t[i] ELSE g[i - 1] \o t[i]
  BY <1>2, Zenon DEF Flattens
<1>4. i # 1 => i - 1 \in 1 .. Len(s) /\ i - 1 \notin Bad
  BY <1>1, <1>2
<1>5. i # 1 => f[i - 1] = g[i - 1]
  BY <1>4
<1>6. s[i] = t[i]
  BY <1>2
<1> QED BY <1>2, <1>3, <1>5, <1>6, Zenon

LEMMA FlattensExists ==
  ASSUME NEW s, Len(s) \in Nat
  PROVE  \E f : Flattens(f, s)
<1> DEFINE P(f, n) == f = [i \in 1 .. n |-> IF i = 1 THEN s[i] ELSE f[i - 1] \o s[i]]
           Has(n) == \E f : P(f, n)
           Missing == {n \in 0 .. Len(s) : ~Has(n)}
<1>1. ASSUME Missing # {} PROVE FALSE
  <2>1. PICK n \in Missing : \A k \in Missing : n <= k
    <3>1. Missing \in SUBSET Nat
      <4> HIDE DEF Has
      <4> QED OBVIOUS
    <3> HIDE DEF Missing
    <3> QED BY <1>1, <3>1, LeastNumber
  <2>2. n \in 0 .. Len(s) /\ ~Has(n)
    <3> HIDE DEF Has
    <3> QED BY <2>1
  <2>3. n # 0
    <3>1. P([i \in 1 .. 0 |-> 0], 0)
      OBVIOUS
    <3> QED BY <3>1, <2>2
  <2>4. n - 1 \in 0 .. Len(s) /\ n - 1 \notin Missing
    <3> HIDE DEF Has
    <3> QED BY <2>1, <2>2, <2>3
  <2>5. PICK g : P(g, n - 1)
    <3>1. Has(n - 1)
      <4> HIDE DEF Has
      <4> QED BY <2>4
    <3> QED BY <3>1
  <2> DEFINE h == [i \in 1 .. n |-> IF i = n THEN (IF n = 1 THEN s[n] ELSE g[n - 1] \o s[n]) ELSE g[i]]
  <2>6. ASSUME NEW i \in 1 .. n PROVE h[i] = IF i = 1 THEN s[i] ELSE h[i - 1] \o s[i]
    <3>1. CASE i = n
      <4>1. n # 1 => n - 1 \in 1 .. n /\ n - 1 # n
        BY <2>2, <2>3
      <4>2. n # 1 => h[n - 1] = g[n - 1]
        BY <4>1
      <4>3. h[n] = IF n = 1 THEN s[n] ELSE g[n - 1] \o s[n]
        BY <3>1
      <4> QED BY <3>1, <4>2, <4>3
    <3>2. CASE i # n
      <4>1. i \in 1 .. n - 1
        BY <2>2, <3>2
      <4>2. g[i] = IF i = 1 THEN s[i] ELSE g[i - 1] \o s[i]
        <5>1. g = [k \in 1 .. n - 1 |-> IF k = 1 THEN s[k] ELSE g[k - 1] \o s[k]]
          BY <2>5
        <5> QED BY <4>1, <5>1, Zenon
      <4>3. i # 1 => i - 1 \in 1 .. n /\ i - 1 # n
        BY <2>2, <3>2
      <4>4. h[i] = g[i] /\ (i # 1 => h[i - 1] = g[i - 1])
        BY <3>2, <4>3
      <4> QED BY <4>2, <4>4
    <3> QED BY <3>1, <3>2
  <2>7. P(h, n)
    <3>1. h = [i \in 1 .. n |-> h[i]]
      OBVIOUS
    <3> HIDE DEF h
    <3> QED BY <2>6, <3>1
  <2> QED BY <2>2, <2>7
<1>2. Missing = {}
  BY <1>1
<1>3. Has(Len(s))
  <2>1. Len(s) \in 0 .. Len(s)
    OBVIOUS
  <2> HIDE DEF Has
  <2> QED BY <2>1, <1>2
<1> QED BY <1>3 DEF Flattens

\* The function of the definition of FlattenSeq.
Flattening(s) == CHOOSE f : Flattens(f, s)

LEMMA FlattenSeqIs ==
  ASSUME NEW s, Len(s) \in Nat \ {0}
  PROVE  /\ FlattenSeq(s) = Flattening(s)[Len(s)]
         /\ Flattens(Flattening(s), s)
<1>1. FlattenSeq(s) = Flattening(s)[Len(s)]
  BY DEF FlattenSeq, Flattening, Flattens
<1>2. Flattens(Flattening(s), s)
  BY FlattensExists, Zenon DEF Flattening
<1> QED BY <1>1, <1>2

LEMMA FlatteningStep ==
  ASSUME NEW T, NEW s \in Seq(Seq(T)), s # <<>>
  PROVE  LET f == Flattening(s)
         IN  /\ Len(s) \in Nat \ {0} /\ FlattenSeq(s) = f[Len(s)]
             /\ f[1] = s[1]
             /\ \A i \in 2 .. Len(s) : f[i] = f[i - 1] \o s[i]
             /\ \A i \in 1 .. Len(s) : f[i] \in Seq(T)
<1> DEFINE f == Flattening(s)
           Elements == Seq(T)
<1>1. Len(s) \in Nat \ {0} /\ \A i \in 1 .. Len(s) : s[i] \in Elements
  <2>1. s \in Seq(Elements)
    OBVIOUS
  <2> HIDE DEF Elements
  <2> QED BY <2>1, SeqDomain, EmptySeq
<1>2. FlattenSeq(s) = f[Len(s)] /\ Flattens(f, s)
  BY <1>1, FlattenSeqIs, Zenon
<1> HIDE DEF f
<1>3. \A i \in 1 .. Len(s) : f[i] = IF i = 1 THEN s[i] ELSE f[i - 1] \o s[i]
  <2>1. f = [i \in 1 .. Len(s) |-> IF i = 1 THEN s[i] ELSE f[i - 1] \o s[i]]
    BY <1>2 DEF Flattens
  <2> TAKE i \in 1 .. Len(s)
  <2> QED BY <2>1, Zenon
<1>4. f[1] = s[1]
  <2>1. 1 \in 1 .. Len(s)
    BY <1>1
  <2> QED BY <2>1, <1>3, Zenon
<1>5. \A i \in 2 .. Len(s) : f[i] = f[i - 1] \o s[i]
  <2> TAKE i \in 2 .. Len(s)
  <2>1. i \in 1 .. Len(s) /\ i # 1
    BY <1>1
  <2> QED BY <2>1, <1>3, Zenon
<1>6. \A i \in 1 .. Len(s) : f[i] \in Elements
  <2> DEFINE Bad == {i \in 1 .. Len(s) : f[i] \notin Elements}
  <2> HIDE DEF Elements
  <2> SUFFICES ASSUME Bad # {} PROVE FALSE
    OBVIOUS
  <2>1. PICK i \in Bad : \A k \in Bad : i <= k
    <3>1. Bad \in SUBSET Nat
      OBVIOUS
    <3> HIDE DEF Bad
    <3> QED BY <3>1, LeastNumber
  <2>2. i \in 1 .. Len(s) /\ f[i] \notin Elements
    BY <2>1
  <2>3. i # 1
    BY <2>2, <1>4, <1>1
  <2>4. i \in 2 .. Len(s) /\ i - 1 \in 1 .. Len(s) /\ i - 1 \notin Bad
    BY <2>1, <2>2, <2>3, <1>1
  <2>5. f[i - 1] \in Elements /\ s[i] \in Elements
    BY <2>2, <2>4, <1>1
  <2>6. f[i - 1] \o s[i] \in Elements
    BY <2>5, ConcatOf, Zenon DEF Elements
  <2> QED BY <2>2, <2>4, <2>6, <1>5
<1> QED BY <1>1, <1>2, <1>4, <1>5, <1>6 DEF f, Elements

\* Nothing flattens to nothing.
LEMMA FlattenEmpty == FlattenSeq(<<>>) = <<>>
<1>1. Len(<<>>) = 0
  OBVIOUS
<1> QED BY <1>1, Zenon DEF FlattenSeq

LEMMA FlattenInSeq ==
  ASSUME NEW T, NEW s \in Seq(Seq(T))
  PROVE  FlattenSeq(s) \in Seq(T)
<1>1. CASE s = <<>>
  BY <1>1, FlattenEmpty, EmptySeq, Zenon
<1>2. CASE s # <<>>
  <2>1. Len(s) \in 1 .. Len(s)
    BY <1>2, FlatteningStep
  <2> QED BY <2>1, <1>2, FlatteningStep, Zenon
<1> QED BY <1>1, <1>2

\* One more at the end.
LEMMA FlattenAppend ==
  ASSUME NEW T, NEW s \in Seq(Seq(T)), NEW x \in Seq(T)
  PROVE  FlattenSeq(Append(s, x)) = FlattenSeq(s) \o x
<1> DEFINE Elements == Seq(T)
           t == Append(s, x)
<1>1. /\ t \in Seq(Elements) /\ t # <<>>
      /\ Len(t) = Len(s) + 1 /\ \A i \in 1 .. Len(s) : t[i] = s[i]
      /\ t[Len(s) + 1] = x
  <2>1. s \in Seq(Elements) /\ x \in Elements
    OBVIOUS
  <2> HIDE DEF Elements
  <2> QED BY <2>1, AppendProperties
<1>2. Len(s) \in Nat
  BY SeqDomain, Zenon
<1> HIDE DEF t
<1>3. /\ FlattenSeq(t) = Flattening(t)[Len(t)]
      /\ Flattening(t)[1] = t[1]
      /\ \A i \in 2 .. Len(t) : Flattening(t)[i] = Flattening(t)[i - 1] \o t[i]
  BY <1>1, FlatteningStep, Zenon
<1>4. CASE s = <<>>
  <2>1. Len(s) = 0 /\ Len(t) = 1 /\ t[1] = x
    BY <1>4, <1>1
  <2>2. FlattenSeq(s) = <<>>
    BY <1>4, FlattenEmpty
  <2> QED BY <2>1, <2>2, <1>3, ConcatEmptySeq DEF t
<1>5. CASE s # <<>>
  <2>1. Len(s) \in Nat \ {0} /\ FlattenSeq(s) = Flattening(s)[Len(s)]
    BY <1>5, FlatteningStep, Zenon
  <2>2. Flattens(Flattening(s), s) /\ Flattens(Flattening(t), t)
    <3>1. Len(t) \in Nat \ {0}
      BY <1>1, <1>2
    <3> QED BY <2>1, <3>1, FlattenSeqIs, Zenon
  <2>3. \A i \in 1 .. Len(s) : Flattening(s)[i] = Flattening(t)[i]
    <3>1. Len(t) \in Nat /\ Len(s) <= Len(t)
      BY <1>1, <1>2
    <3>2. \A i \in 1 .. Len(s) : s[i] = t[i]
      BY <1>1
    <3> DEFINE f == Flattening(s)
               g == Flattening(t)
    <3>3. Flattens(f, s) /\ Flattens(g, t)
      BY <2>2
    <3> HIDE DEF f, g
    <3>4. \A i \in 1 .. Len(s) : f[i] = g[i]
      <4>1. Begins(s, t)
        BY <3>1, <3>2, <1>2 DEF Begins
      <4>2. Agree(f, g, Len(s))
        BY <4>1, <3>3, FlattensUnique, Zenon
      <4> QED BY <4>2 DEF Agree
    <3> QED BY <3>4 DEF f, g
  <2>4. Len(t) \in 2 .. Len(t) /\ Len(t) - 1 = Len(s) /\ Len(s) \in 1 .. Len(s)
    BY <2>1, <1>1
  <2>5. Flattening(t)[Len(t)] = Flattening(t)[Len(s)] \o x
    BY <2>4, <1>3, <1>1
  <2> QED BY <2>1, <2>3, <2>4, <2>5, <1>3, Zenon DEF t
<1> QED BY <1>4, <1>5

\* One from the front.
LEMMA FlattenTail ==
  ASSUME NEW T, NEW s \in Seq(Seq(T)), s # <<>>
  PROVE  FlattenSeq(s) = s[1] \o FlattenSeq(Tail(s))
<1> DEFINE Elements == Seq(T)
           t == Tail(s)
           f == Flattening(s)
           g == Flattening(t)
<1>1. /\ t \in Seq(Elements) /\ Len(t) = Len(s) - 1
      /\ \A i \in 1 .. Len(t) : t[i] = s[i + 1]
  BY HeadTailProperties, Zenon
<1>2. /\ Len(s) \in Nat \ {0} /\ FlattenSeq(s) = f[Len(s)]
      /\ f[1] = s[1]
      /\ \A i \in 2 .. Len(s) : f[i] = f[i - 1] \o s[i]
      /\ \A i \in 1 .. Len(s) : f[i] \in Elements
  BY FlatteningStep, Zenon
<1>3. s[1] \in Elements /\ \A i \in 1 .. Len(s) : s[i] \in Elements
  <2>1. 1 \in 1 .. Len(s) /\ s \in Seq(Elements)
    BY <1>2
  <2> QED BY <2>1, SeqDomain, Zenon
<1>4. t # <<>> => /\ Len(t) \in Nat \ {0} /\ FlattenSeq(t) = g[Len(t)]
                  /\ g[1] = t[1]
                  /\ \A i \in 2 .. Len(t) : g[i] = g[i - 1] \o t[i]
                  /\ \A i \in 1 .. Len(t) : g[i] \in Elements
  BY <1>1, FlatteningStep, Zenon
<1> HIDE DEF t, f, g, Elements
<1>5. CASE t = <<>>
  <2>1. Len(s) = 1
    BY <1>5, <1>1, <1>2
  <2>2. FlattenSeq(t) = <<>>
    BY <1>5, FlattenEmpty, Zenon
  <2>3. s[1] \o <<>> = s[1]
    BY <1>3, ConcatEmptySeq, Zenon DEF Elements
  <2> QED BY <2>1, <2>2, <2>3, <1>2, Zenon DEF t
<1>6. CASE t # <<>>
  <2> DEFINE Alike(i) == f[i + 1] = s[1] \o g[i]
             Bad == {i \in 1 .. Len(t) : ~Alike(i)}
  <2>1. ASSUME Bad # {} PROVE FALSE
    <3>1. PICK i \in Bad : \A k \in Bad : i <= k
      <4>1. Bad \in SUBSET Nat
        <5> HIDE DEF Alike
        <5> QED OBVIOUS
      <4> HIDE DEF Bad
      <4> QED BY <4>1, <2>1, LeastNumber
    <3>2. i \in 1 .. Len(t) /\ ~Alike(i)
      <4> HIDE DEF Alike
      <4> QED BY <3>1
    <3>3. i + 1 \in 2 .. Len(s) /\ i + 1 \in 1 .. Len(s) /\ (i + 1) - 1 = i
      BY <3>2, <1>1, <1>2
    <3>4. f[i + 1] = f[i] \o t[i]
      BY <3>2, <3>3, <1>1, <1>2
    <3>5. CASE i = 1
      BY <3>2, <3>4, <3>5, <1>2, <1>4, <1>6
    <3>6. CASE i # 1
      <4>1. i - 1 \in 1 .. Len(t) /\ i - 1 \notin Bad /\ i \in 2 .. Len(t) /\ (i - 1) + 1 = i
        <5> HIDE DEF Alike
        <5> QED BY <3>1, <3>2, <3>6, <1>4, <1>6
      <4>2. Alike(i - 1) /\ g[i] = g[i - 1] \o t[i]
        <5> HIDE DEF Alike
        <5> QED BY <4>1, <1>4, <1>6
      <4>3. s[1] \in Elements /\ g[i - 1] \in Elements /\ t[i] \in Elements
        BY <4>1, <3>2, <3>3, <1>1, <1>3, <1>4, <1>6
      <4>4. (s[1] \o g[i - 1]) \o t[i] = s[1] \o (g[i - 1] \o t[i])
        <5>1. s[1] \in Seq(T) /\ g[i - 1] \in Seq(T) /\ t[i] \in Seq(T)
          BY <4>3 DEF Elements
        <5>2. Associates(s[1], g[i - 1], t[i])
          BY <5>1, Assoc, Zenon
        <5> QED BY <5>2, Zenon DEF Associates
      <4>5. f[i] = s[1] \o g[i - 1]
        BY <4>1, <4>2
      <4> QED BY <3>2, <3>4, <4>2, <4>4, <4>5
    <3> QED BY <3>5, <3>6
  <2>2. Len(t) \in 1 .. Len(t) /\ Len(t) + 1 = Len(s)
    BY <1>1, <1>2, <1>4, <1>6
  <2>3. f[Len(t) + 1] = s[1] \o g[Len(t)]
    <3>1. Alike(Len(t))
      <4> HIDE DEF Alike
      <4> QED BY <2>1, <2>2
    <3> QED BY <3>1
  <2> QED BY <2>2, <2>3, <1>2, <1>4, <1>6 DEF t
<1> QED BY <1>5, <1>6

LEMMA ToSetConcat ==
  ASSUME NEW T, NEW s \in Seq(T), NEW t \in Seq(T)
  PROVE  ToSet(s \o t) = ToSet(s) \union ToSet(t)
<1>1. /\ Len(s) \in Nat /\ Len(t) \in Nat /\ s \o t \in Seq(T)
      /\ DOMAIN s = 1 .. Len(s) /\ DOMAIN t = 1 .. Len(t) /\ DOMAIN (s \o t) = 1 .. Len(s) + Len(t)
      /\ \A i \in 1 .. Len(s) + Len(t) : (s \o t)[i] = IF i <= Len(s) THEN s[i] ELSE t[i - Len(s)]
  <2>1. Len(s \o t) = Len(s) + Len(t) /\ s \o t \in Seq(T)
    BY ConcatOf, Zenon
  <2> QED BY <2>1, ConcatProperties, SeqDomain
<1> DEFINE r == s \o t
<1>2. ASSUME NEW i \in 1 .. Len(s) PROVE i \in DOMAIN r /\ r[i] = s[i]
  BY <1>1
<1>3. ASSUME NEW i \in 1 .. Len(t) PROVE Len(s) + i \in DOMAIN r /\ r[Len(s) + i] = t[i]
  BY <1>1
<1>4. ASSUME NEW i \in DOMAIN r
      PROVE  (i \in 1 .. Len(s) /\ r[i] = s[i]) \/ (i - Len(s) \in 1 .. Len(t) /\ r[i] = t[i - Len(s)])
  BY <1>1
<1> HIDE DEF r
<1>5. ToSet(r) \subseteq ToSet(s) \union ToSet(t)
  BY <1>1, <1>4 DEF ToSet
<1>6. ToSet(s) \subseteq ToSet(r)
  BY <1>1, <1>2 DEF ToSet
<1>7. ToSet(t) \subseteq ToSet(r)
  BY <1>1, <1>3 DEF ToSet
<1>8. ToSet(r) = ToSet(s) \union ToSet(t)
  BY <1>5, <1>6, <1>7, Zenon
<1> QED BY <1>8 DEF r

LEMMA ToSetOne == \A x : ToSet(<<x>>) = {x}
BY DEF ToSet

LEMMA ToSetNone == ToSet(<<>>) = {}
BY DEF ToSet

LEMMA ToSetIn ==
  ASSUME NEW T, NEW s \in Seq(T)
  PROVE  ToSet(s) \in SUBSET T
BY SeqDomain DEF ToSet

\* A sequence is flattened to what its elements have.
LEMMA FlattenElements ==
  ASSUME NEW T, NEW s \in Seq(Seq(T))
  PROVE  \A x : x \in ToSet(FlattenSeq(s)) <=> \E k \in 1 .. Len(s) : x \in ToSet(s[k])
<1>1. CASE s = <<>>
  <2>1. 1 .. Len(s) = {}
    BY <1>1
  <2>2. ToSet(FlattenSeq(s)) = {}
    BY <1>1, FlattenEmpty, ToSetNone, Zenon
  <2> QED BY <2>1, <2>2
<1>2. CASE s # <<>>
  <2> DEFINE f == Flattening(s)
             Elements == Seq(T)
  <2>1. /\ Len(s) \in Nat \ {0} /\ FlattenSeq(s) = f[Len(s)]
        /\ f[1] = s[1]
        /\ \A i \in 2 .. Len(s) : f[i] = f[i - 1] \o s[i]
        /\ \A i \in 1 .. Len(s) : f[i] \in Elements
    BY <1>2, FlatteningStep, Zenon
  <2>2. \A i \in 1 .. Len(s) : s[i] \in Elements
    <3>1. s \in Seq(Elements)
      OBVIOUS
    <3> HIDE DEF Elements
    <3> QED BY <3>1, SeqDomain
  <2> HIDE DEF f, Elements
  <2> DEFINE Parts(i) == UNION {ToSet(s[k]) : k \in 1 .. i}
             Bad == {i \in 1 .. Len(s) : ToSet(f[i]) # Parts(i)}
  <2>3. ASSUME Bad # {} PROVE FALSE
    <3>1. PICK i \in Bad : \A k \in Bad : i <= k
      <4>1. Bad \in SUBSET Nat
        <5> HIDE DEF Parts
        <5> QED BY <2>1
      <4> HIDE DEF Bad
      <4> QED BY <4>1, <2>3, LeastNumber
    <3>2. i \in 1 .. Len(s) /\ ToSet(f[i]) # Parts(i)
      BY <3>1
    <3>3. CASE i = 1
      <4>1. Parts(1) = ToSet(s[1])
        OBVIOUS
      <4> QED BY <3>2, <3>3, <4>1, <2>1
    <3>4. CASE i # 1
      <4>1. i - 1 \in 1 .. Len(s) /\ i - 1 \notin Bad /\ i \in 2 .. Len(s)
        <5> HIDE DEF Parts
        <5> QED BY <3>1, <3>2, <3>4, <2>1
      <4>2. ToSet(f[i - 1]) = Parts(i - 1)
        <5> HIDE DEF Parts
        <5> QED BY <4>1
      <4>3. ToSet(f[i]) = ToSet(f[i - 1]) \union ToSet(s[i])
        <5>1. f[i - 1] \in Seq(T) /\ s[i] \in Seq(T)
          BY <4>1, <3>2, <2>1, <2>2 DEF Elements
        <5>2. f[i] = f[i - 1] \o s[i]
          BY <4>1, <2>1
        <5> DEFINE a == f[i - 1]
                   b == s[i]
        <5>3. a \in Seq(T) /\ b \in Seq(T)
          BY <5>1
        <5> HIDE DEF a, b
        <5>4. ToSet(a \o b) = ToSet(a) \union ToSet(b)
          BY <5>3, ToSetConcat
        <5> QED BY <5>2, <5>4 DEF a, b
      <4>4. Parts(i) = Parts(i - 1) \union ToSet(s[i])
        <5>1. 1 .. i = (1 .. i - 1) \union {i}
          BY <3>2
        <5> QED BY <5>1
      <4> QED BY <3>2, <4>2, <4>3, <4>4
    <3> QED BY <3>3, <3>4
  <2>4. Len(s) \in 1 .. Len(s)
    BY <2>1
  <2> HIDE DEF Parts
  <2>5. ToSet(f[Len(s)]) = Parts(Len(s))
    BY <2>3, <2>4
  <2>6. \A x : x \in Parts(Len(s)) <=> \E k \in 1 .. Len(s) : x \in ToSet(s[k])
    BY DEF Parts
  <2> QED BY <2>1, <2>5, <2>6, Zenon
<1> QED BY <1>1, <1>2, Zenon

\* r is s followed by t.
Follow(s, t, r) ==
  /\ Len(s) \in Nat /\ Len(t) \in Nat /\ Len(r) = Len(s) + Len(t)
  /\ \A i \in 1 .. Len(s) : r[i] = s[i]
  /\ \A i \in 1 .. Len(t) : r[Len(s) + i] = t[i]

LEMMA ConcatParts ==
  ASSUME NEW T, NEW s \in Seq(T), NEW t \in Seq(T)
  PROVE  s \o t \in Seq(T) /\ Follow(s, t, s \o t)
<1>1. \A i \in 1 .. Len(s) + Len(t) : (s \o t)[i] = IF i <= Len(s) THEN s[i] ELSE t[i - Len(s)]
  BY ConcatProperties, Zenon
<1>2. Len(s) \in Nat /\ Len(t) \in Nat /\ s \o t \in Seq(T) /\ Len(s \o t) = Len(s) + Len(t)
  BY SeqDomain, ConcatOf
<1>3. ASSUME NEW i \in 1 .. Len(s) PROVE (s \o t)[i] = s[i]
  <2>1. i \in 1 .. Len(s) + Len(t) /\ i <= Len(s)
    BY <1>2
  <2> QED BY <2>1, <1>1, Zenon
<1>4. ASSUME NEW i \in 1 .. Len(t) PROVE (s \o t)[Len(s) + i] = t[i]
  <2> DEFINE j == Len(s) + i
  <2>1. j \in 1 .. Len(s) + Len(t) /\ ~(j <= Len(s)) /\ j - Len(s) = i
    BY <1>2
  <2> HIDE DEF j
  <2>2. (s \o t)[j] = t[i]
    BY <2>1, <1>1, Zenon
  <2> QED BY <2>2 DEF j
<1> QED BY <1>2, <1>3, <1>4, Zenon DEF Follow

-----------------------------------------------------------------------------
(* Dictionaries: sequences of entries, of which those count that are the   *)
(* first with their key.                                                   *)

IsFirst(entries, key, k) ==
  /\ k \in DOMAIN entries /\ entries[k].key = key
  /\ \A j \in 1 .. k - 1 : entries[j].key # key

LEMMA LeastWithKey ==
  ASSUME NEW T, NEW entries \in Seq(T), NEW key, NEW k, IsFirst(entries, key, k)
  PROVE  /\ k \in 1 .. Len(entries) /\ {i \in DOMAIN entries : entries[i].key = key} # {}
         /\ Min({i \in DOMAIN entries : entries[i].key = key}) = k
<1> DEFINE S == {i \in DOMAIN entries : entries[i].key = key}
<1>1. Len(entries) \in Nat /\ DOMAIN entries = 1 .. Len(entries)
  BY SeqDomain, Zenon
<1>2. k \in S /\ k \in 1 .. Len(entries) /\ S \in SUBSET Nat
  BY <1>1 DEF IsFirst
<1>3. ASSUME NEW i \in S PROVE k <= i
  BY <1>1, <1>2 DEF IsFirst
<1>4. Min(S) = k
  <2> HIDE DEF S
  <2>1. Min(S) \in S /\ Min(S) <= k
    BY <1>2, MinIs
  <2> DEFINE m == Min(S)
  <2>2. m \in S /\ m <= k
    BY <2>1
  <2> HIDE DEF m
  <2>3. k <= m /\ m \in Nat /\ k \in Nat
    BY <1>2, <1>3, <2>2
  <2>4. m = k
    BY <2>2, <2>3
  <2> QED BY <2>4 DEF m
<1>5. S # {}
  BY <1>2
<1> QED BY <1>2, <1>4, <1>5, Zenon

LEMMA FirstExists ==
  ASSUME NEW T, NEW entries \in Seq(T), NEW key, NEW n \in 1 .. Len(entries), entries[n].key = key
  PROVE  \E k \in 1 .. n : IsFirst(entries, key, k)
<1> DEFINE S == {i \in 1 .. Len(entries) : entries[i].key = key}
<1>1. Len(entries) \in Nat /\ DOMAIN entries = 1 .. Len(entries)
  BY SeqDomain, Zenon
<1>2. n \in S /\ S \in SUBSET Nat
  OBVIOUS
<1>3. PICK k \in S : \A i \in S : k <= i
  <2> HIDE DEF S
  <2> QED BY <1>2, LeastNumber
<1>4. \A j \in 1 .. k - 1 : j \notin S
  BY <1>3, <1>1
<1> QED BY <1>1, <1>2, <1>3, <1>4 DEF IsFirst

\* The keys before the n-th entry.
Seen(keys, entries, n) == {key \in keys : \E k \in 1 .. n - 1 : entries[k].key = key}

LEMMA SeenStep ==
  ASSUME NEW keys, NEW entries, NEW n \in Nat \ {0}
  PROVE  /\ entries[n].key \in keys =>
              Seen(keys, entries, n + 1) = Seen(keys, entries, n) \union {entries[n].key}
         /\ entries[n].key \notin keys \ Seen(keys, entries, n) =>
              Seen(keys, entries, n + 1) = Seen(keys, entries, n)
<1>1. \A key : (\E k \in 1 .. n + 1 - 1 : entries[k].key = key)
                 <=> entries[n].key = key \/ \E k \in 1 .. n - 1 : entries[k].key = key
  OBVIOUS
<1>2. ASSUME entries[n].key \in keys
      PROVE  Seen(keys, entries, n + 1) = Seen(keys, entries, n) \union {entries[n].key}
  BY <1>1, <1>2 DEF Seen
<1>3. ASSUME entries[n].key \notin keys \ Seen(keys, entries, n)
      PROVE  Seen(keys, entries, n + 1) = Seen(keys, entries, n)
  BY <1>1, <1>3 DEF Seen
<1> QED BY <1>2, <1>3

\* A sequence without its last element.
LEMMA FrontIs ==
  ASSUME NEW T, NEW s \in Seq(T), Len(s) # 0
  PROVE  /\ Front(s) \in Seq(T) /\ Len(Front(s)) = Len(s) - 1
         /\ \A k \in 1 .. Len(s) - 1 : Front(s)[k] = s[k]
<1> DEFINE n == Len(s) - 1
<1>1. n \in Nat /\ \A i \in 1 .. n : s[i] \in T
  BY SeqDomain
<1>2. Front(s) = SubSeq(s, 1, n)
  BY DEF Front
<1> HIDE DEF n
<1>3. 1 \in Int /\ n \in Int /\ n - 1 + 1 = n /\ (1 <= n \/ n = 0) /\ (~(1 <= n) => n = 0)
  BY <1>1
<1>4. /\ SubSeq(s, 1, n) \in Seq(T)
      /\ Len(SubSeq(s, 1, n)) = IF 1 <= n THEN n - 1 + 1 ELSE 0
      /\ \A i \in 1 .. n - 1 + 1 : SubSeq(s, 1, n)[i] = s[1 + i - 1]
  BY <1>1, <1>3, SubSeqProperties
<1>5. Len(SubSeq(s, 1, n)) = n /\ \A i \in 1 .. n : SubSeq(s, 1, n)[i] = s[1 + i - 1]
  BY <1>3, <1>4, Zenon
<1>6. \A i \in 1 .. n : 1 + i - 1 = i
  BY <1>1
<1> QED BY <1>2, <1>4, <1>5, <1>6, Zenon DEF n
=============================================================================
