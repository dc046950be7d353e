---------------------------- MODULE BencodeProofs ----------------------------
(***************************************************************************)
(* What the parser accepts, for every input and every function called:     *)
(* nothing but values, and every value.                                    *)
(*                                                                         *)
(* The elements parsed so far nest to any depth.  The invariant speaks of  *)
(* a set that holds all of them: every one is well spelled and has its     *)
(* items in that set (Closed), the calls under way and the result are made *)
(* of its members, and lie side by side in the input (Placed).  Each       *)
(* element that is returned is one more member; that the levels of the     *)
(* result stay in the set follows at the end (LevelsIn).                   *)
(*                                                                         *)
(* The other direction starts from a tree that spells the input (Spells).  *)
(* Until the parse is over, the calls under way read the elements of a     *)
(* path down from its root (On), and what comes next is fixed: an item of  *)
(* the lowest (Due), or its end (WhatIsNext).                              *)
(***************************************************************************)
EXTENDS Bencode, SequenceLemmas

-----------------------------------------------------------------------------
(* The digits.                                                             *)

\* There is a first position that holds no digit.
LEMMA DigitsEndIs ==
  ASSUME Len(input) \in Nat, NEW p \in 0 .. Len(input)
  PROVE  /\ DigitsEnd(p) \in p .. Len(input)
         /\ AllDigits(p, DigitsEnd(p))
         /\ DigitsEnd(p) < Len(input) => input[DigitsEnd(p) + 1] \notin Digits
<1> DEFINE N == Len(input)
           Stops == {q \in p .. N : q < N => input[q + 1] \notin Digits}
<1>1. Stops \in SUBSET Nat /\ N \in Stops
  OBVIOUS
<1>2. PICK m \in Stops : \A k \in Stops : m <= k
  <2> HIDE DEF Stops
  <2> QED BY <1>1, LeastNumber
<1>3. ASSUME NEW k \in p + 1 .. m PROVE input[k] \in Digits
  <2>1. k - 1 \in p .. N /\ k - 1 < N /\ k - 1 < m /\ (k - 1) + 1 = k
    BY <1>2
  <2>2. k - 1 \notin Stops
    <3> HIDE DEF Stops
    <3> QED BY <2>1, <1>1, <1>2
  <2> QED BY <2>1, <2>2
<1>4. m \in p .. N /\ m < N => input[m + 1] \notin Digits
  BY <1>2
<1> DEFINE First(q) == (\A k \in p + 1 .. q : input[k] \in Digits) /\ (q < N => input[q + 1] \notin Digits)
<1>5. m \in p .. N /\ First(m)
  BY <1>2, <1>3
<1>6. DigitsEnd(p) = CHOOSE q \in p .. N : First(q)
  BY DEF DigitsEnd
<1>7. DigitsEnd(p) \in p .. N /\ First(DigitsEnd(p))
  <2> HIDE DEF First, N
  <2> QED BY <1>5, <1>6, Zenon
<1> QED BY <1>7, Zenon DEF AllDigits

\* A digit has a value.
LEMMA DigitValueIs == \A d \in Digits : DigitValue[d] \in Nat
<1> SUFFICES ASSUME NEW d \in Digits PROVE DigitValue[d] \in Nat
  OBVIOUS
<1>1. PICK i \in DOMAIN DigitChars : DigitChars[i] = d
  BY DEF Digits, ToSet
<1>2. i \in 1 .. 10
  BY DEF DigitChars
<1>3. i - 1 \in 0 .. 9 /\ DigitChars[(i - 1) + 1] = d
  BY <1>1, <1>2
<1>4. DigitValue[d] = CHOOSE n \in 0 .. 9 : DigitChars[n + 1] = d
  BY Zenon DEF DigitValue
<1>5. DigitValue[d] \in 0 .. 9
  BY <1>3, <1>4, Zenon
<1> QED BY <1>5

\* The values of the first digits.
Counts(f, digits, n) ==
  f = [k \in 0 .. n |-> IF k = 0 THEN 0 ELSE 10 * f[k - 1] + DigitValue[digits[k]]]

\* The recursive function of Number exists.
LEMMA CountsExists ==
  ASSUME NEW digits, NEW m \in Nat
  PROVE  \E f : Counts(f, digits, m)
<1> DEFINE Has(n) == \E f : Counts(f, digits, n)
           Missing == {n \in 0 .. m : ~Has(n)}
<1> HIDE DEF Has
<1>1. ASSUME Missing # {} PROVE FALSE
  <2>1. PICK n \in Missing : \A j \in Missing : n <= j
    <3>1. Missing \in SUBSET Nat
      OBVIOUS
    <3> HIDE DEF Missing
    <3> QED BY <1>1, <3>1, LeastNumber
  <2>2. n \in Nat /\ ~Has(n)
    BY <2>1
  <2>3. CASE n = 0
    <3> DEFINE f == [k \in 0 .. 0 |-> 0]
    <3>1. \A k \in 0 .. 0 : k = 0
      OBVIOUS
    <3>2. Counts(f, digits, 0)
      BY <3>1 DEF Counts
    <3> QED BY <2>2, <2>3, <3>2 DEF Has
  <2>4. CASE n # 0
    <3>1. n - 1 \in 0 .. m /\ n - 1 \notin Missing
      BY <2>1, <2>4
    <3>2. PICK g : Counts(g, digits, n - 1)
      BY <3>1 DEF Has
    <3> DEFINE Next1(x, k) == 10 * x + DigitValue[digits[k]]
               h == [k \in 0 .. n |-> IF k = n THEN Next1(g[k - 1], k) ELSE g[k]]
    <3>3. ASSUME NEW k \in 0 .. n
          PROVE  h[k] = IF k = 0 THEN 0 ELSE 10 * h[k - 1] + DigitValue[digits[k]]
      <4>1. /\ k # n => k \in 0 .. n - 1
            /\ k # 0 => k - 1 \in 0 .. n /\ k - 1 # n
            /\ k = n => k # 0
        BY <2>2, <2>4
      <4> HIDE DEF Next1
      <4>2. h[k] = IF k = n THEN Next1(g[k - 1], k) ELSE g[k]
        OBVIOUS
      <4>3. k # 0 => h[k - 1] = g[k - 1]
        BY <4>1
      <4>4. k # n => g[k] = IF k = 0 THEN 0 ELSE Next1(g[k - 1], k)
        BY <3>2, <4>1, Zenon DEF Counts, Next1
      <4> HIDE DEF h
      <4>5. h[k] = IF k = 0 THEN 0 ELSE Next1(h[k - 1], k)
        BY <4>1, <4>2, <4>3, <4>4, Zenon
      <4> QED BY <4>5, Zenon DEF Next1
    <3>4. Counts(h, digits, n)
      <4>1. h = [k \in 0 .. n |-> h[k]]
        OBVIOUS
      <4> HIDE DEF h
      <4> QED BY <3>3, <4>1 DEF Counts
    <3> QED BY <2>2, <3>4 DEF Has
  <2> QED BY <2>3, <2>4
<1>2. m \in 0 .. m
  OBVIOUS
<1> QED BY <1>1, <1>2 DEF Has

\* What digits count is a number.
LEMMA NumberIs ==
  ASSUME NEW digits \in Seq(Digits)
  PROVE  Number(digits) \in Nat
<1> DEFINE n == Len(digits)
           f == CHOOSE g : Counts(g, digits, n)
<1>1. Number(digits) = f[n]
  BY Zenon DEF Number, Counts
<1>2. n \in Nat /\ \A k \in 1 .. n : DigitValue[digits[k]] \in Nat
  BY SeqDomain, DigitValueIs
<1>3. Counts(f, digits, n)
  BY <1>2, CountsExists, Zenon
<1>4. \A k \in 0 .. n : f[k] = IF k = 0 THEN 0 ELSE 10 * f[k - 1] + DigitValue[digits[k]]
  <2> HIDE DEF f
  <2> QED BY <1>3, Zenon DEF Counts
<1> HIDE DEF n, f
<1> DEFINE Bad == {k \in 0 .. n : f[k] \notin Nat}
<1>5. ASSUME Bad # {} PROVE FALSE
  <2>1. PICK k \in Bad : \A j \in Bad : k <= j
    <3>1. Bad \in SUBSET Nat
      BY <1>2
    <3> HIDE DEF Bad
    <3> QED BY <1>5, <3>1, LeastNumber
  <2>2. CASE k = 0
    BY <2>1, <2>2, <1>4
  <2>3. CASE k # 0
    <3>1. k - 1 \in 0 .. n /\ k - 1 < k /\ k \in 1 .. n
      BY <1>2, <2>1, <2>3
    <3>2. f[k - 1] \in Nat
      BY <3>1, <2>1
    <3>3. f[k] = 10 * f[k - 1] + DigitValue[digits[k]]
      BY <2>1, <2>3, <1>4
    <3> QED BY <2>1, <3>1, <3>2, <3>3, <1>2
  <2> QED BY <2>2, <2>3
<1>6. n \in 0 .. n
  BY <1>2
<1> QED BY <1>1, <1>5, <1>6, Zenon

-----------------------------------------------------------------------------
(* The elements below others.                                              *)

Below(S) == UNION {ToSet(e.items) : e \in S}

Levels(f, m) == f = [n \in 0 .. m |-> IF n = 0 THEN ToSet(elements) ELSE Below(f[n - 1])]

\* The recursive function of ElementsAt exists.
LEMMA LevelsExists ==
  ASSUME NEW m \in Nat
  PROVE  \E f : Levels(f, m)
<1> DEFINE Has(n) == \E f : Levels(f, n)
           Missing == {n \in 0 .. m : ~Has(n)}
<1> HIDE DEF Has
<1>1. ASSUME Missing # {} PROVE FALSE
  <2>1. PICK n \in Missing : \A j \in Missing : n <= j
    <3>1. Missing \in SUBSET Nat
      OBVIOUS
    <3> HIDE DEF Missing
    <3> QED BY <1>1, <3>1, LeastNumber
  <2>2. n \in Nat /\ ~Has(n)
    BY <2>1
  <2>3. CASE n = 0
    <3> DEFINE f == [k \in 0 .. 0 |-> ToSet(elements)]
    <3>1. \A k \in 0 .. 0 : k = 0
      OBVIOUS
    <3>2. Levels(f, 0)
      BY <3>1 DEF Levels
    <3> QED BY <2>2, <2>3, <3>2 DEF Has
  <2>4. CASE n # 0
    <3>1. n - 1 \in 0 .. m /\ n - 1 \notin Missing
      BY <2>1, <2>4
    <3>2. PICK g : Levels(g, n - 1)
      BY <3>1 DEF Has
    <3> DEFINE h == [k \in 0 .. n |-> IF k = n THEN Below(g[k - 1]) ELSE g[k]]
    <3>3. ASSUME NEW k \in 0 .. n
          PROVE  h[k] = IF k = 0 THEN ToSet(elements) ELSE Below(h[k - 1])
      <4>1. /\ k # n => k \in 0 .. n - 1
            /\ k # 0 => k - 1 \in 0 .. n /\ k - 1 # n
            /\ k = n => k # 0
        BY <2>2, <2>4
      <4>2. h[k] = IF k = n THEN Below(g[k - 1]) ELSE g[k]
        OBVIOUS
      <4>3. k # 0 => h[k - 1] = g[k - 1]
        BY <4>1
      <4>4. k # n => g[k] = IF k = 0 THEN ToSet(elements) ELSE Below(g[k - 1])
        BY <3>2, <4>1, Zenon DEF Levels
      <4> HIDE DEF h
      <4> QED BY <4>1, <4>2, <4>3, <4>4, Zenon
    <3>4. Levels(h, n)
      <4>1. h = [k \in 0 .. n |-> h[k]]
        OBVIOUS
      <4> HIDE DEF h
      <4> QED BY <3>3, <4>1 DEF Levels
    <3> QED BY <2>2, <3>4 DEF Has
  <2> QED BY <2>3, <2>4
<1>2. m \in 0 .. m
  OBVIOUS
<1> QED BY <1>1, <1>2 DEF Has

\* Elements of a set that holds the items of its elements have below them
\* elements of that set only.
LEMMA LevelsIn ==
  ASSUME NEW T, elements \in Seq(T), Len(input) \in Nat,
         \A e \in T : ToSet(e.items) \subseteq T
  PROVE  \A n \in 0 .. Len(input) : \A e \in ElementsAt[n] : e \in T
<1> DEFINE f == CHOOSE g : Levels(g, Len(input))
<1>1. ElementsAt = f
  BY Zenon DEF ElementsAt, Levels, Below
<1>2. Levels(f, Len(input))
  BY LevelsExists, Zenon
<1> HIDE DEF f
<1>3. \A n \in 0 .. Len(input) : f[n] = IF n = 0 THEN ToSet(elements) ELSE Below(f[n - 1])
  BY <1>2, Zenon DEF Levels
<1> DEFINE Bad == {n \in 0 .. Len(input) : ~(f[n] \subseteq T)}
<1>4. ASSUME Bad # {} PROVE FALSE
  <2>1. PICK n \in Bad : \A j \in Bad : n <= j
    <3>1. Bad \in SUBSET Nat
      OBVIOUS
    <3> HIDE DEF Bad
    <3> QED BY <1>4, <3>1, LeastNumber
  <2>2. CASE n = 0
    <3>1. ToSet(elements) \subseteq T
      BY ToSetIn
    <3> QED BY <2>1, <2>2, <3>1, <1>3
  <2>3. CASE n # 0
    <3>1. n - 1 \in 0 .. Len(input) /\ n - 1 < n
      BY <2>1, <2>3
    <3>2. f[n - 1] \subseteq T
      BY <3>1, <2>1
    <3>3. Below(f[n - 1]) \subseteq T
      BY <3>2, Zenon DEF Below
    <3> QED BY <2>1, <2>3, <3>3, <1>3
  <2> QED BY <2>2, <2>3
<1> QED BY <1>1, <1>4, Zenon

-----------------------------------------------------------------------------
(* Elements side by side.                                                  *)

\* r is s and, after it, e.
Longer(s, e, r) ==
  /\ Len(r) = Len(s) + 1
  /\ \A k \in 1 .. Len(s) : r[k] = s[k]
  /\ r[Len(s) + 1] = e

\* One more element.
LEMMA LongerBy ==
  ASSUME NEW T, NEW s \in Seq(T), NEW e \in T
  PROVE  /\ s \o <<e>> \in Seq(T) /\ Longer(s, e, s \o <<e>>)
         /\ Append(s, e) \in Seq(T) /\ Longer(s, e, Append(s, e))
BY DEF Longer

LEMMA NoneSideBySide == \A p : SideBySide(<<>>, p, p)
BY DEF SideBySide

\* An element that begins where the others end.
LEMMA OneMoreSideBySide ==
  ASSUME NEW T, NEW s \in Seq(T), NEW r \in Seq(T), NEW e \in T, Longer(s, e, r),
         NEW from, SideBySide(s, from, e.start)
  PROVE  SideBySide(r, from, e.end)
<1>1. Len(s) \in Nat /\ DOMAIN s = 1 .. Len(s) /\ DOMAIN r = 1 .. Len(s) + 1 /\ (s = <<>> <=> Len(s) = 0)
  BY SeqDomain, EmptyIffNoLength DEF Longer
<1>2. r # <<>> /\ Last(r) = e
  BY DEF Longer, Last
<1>3. ASSUME NEW n \in 1 .. Len(s) + 1
      PROVE  r[n].start = IF n = 1 THEN from ELSE r[n - 1].end
  <2>1. CASE n \in 1 .. Len(s)
    <3>1. r[n] = s[n] /\ n \in DOMAIN s /\ (n # 1 => r[n - 1] = s[n - 1])
      BY <2>1, <1>1 DEF Longer
    <3>2. s[n].start = IF n = 1 THEN from ELSE s[n - 1].end
      BY <3>1, Zenon DEF SideBySide
    <3> QED BY <3>1, <3>2, Zenon
  <2>2. CASE n \notin 1 .. Len(s)
    <3>1. n = Len(s) + 1 /\ r[n] = e /\ (n = 1 <=> s = <<>>) /\ (n # 1 => r[n - 1] = s[Len(s)])
      BY <2>2, <1>1 DEF Longer
    <3>2. e.start = IF s = <<>> THEN from ELSE s[Len(s)].end
      BY Zenon DEF SideBySide, Last
    <3> QED BY <3>1, <3>2, Zenon
  <2> QED BY <2>1, <2>2
<1> QED BY <1>1, <1>2, <1>3, Zenon DEF SideBySide

-----------------------------------------------------------------------------
(* The calls under way.                                                    *)

Calls(T) == [id : {"List", "Dictionary"}, start : Nat, items : Seq(T), key : Seq(T)]

KeysAtOdd(items) == \A k \in DOMAIN items : k % 2 = 1 => IsKey(items[k])

\* What a call has read spells the beginning of a list or dictionary.
CallSpelled(c) ==
  /\ input[c.start + 1] = IF c.id = "List" THEN "l" ELSE "d"
  /\ c.key = <<>> \/ (c.id = "Dictionary" /\ Len(c.key) = 1 /\ IsKey(c.key[1]))
  /\ c.id = "Dictionary" => Len(c.items) % 2 = 0 /\ KeysAtOdd(c.items)

Tiles(calls, p) ==
  \A k \in DOMAIN calls :
    SideBySide(calls[k].items \o calls[k].key, calls[k].start + 1,
               IF k < Len(calls) THEN calls[k + 1].start ELSE p)

\* The calls read up to the position p, after the result so far.
Placed(calls, p) ==
  /\ Tiles(calls, p)
  /\ SideBySide(elements, 0, IF calls = <<>> THEN p ELSE calls[1].start)
  /\ \A k \in DOMAIN calls : CallSpelled(calls[k])

\* The call on top is over.
LEMMA FrontPlaced ==
  ASSUME NEW C, NEW calls \in Seq(C), calls # <<>>, NEW p, Placed(calls, p)
  PROVE  /\ Front(calls) \in Seq(C) /\ Last(calls) \in C
         /\ Placed(Front(calls), Last(calls).start)
         /\ CallSpelled(Last(calls))
         /\ SideBySide(Last(calls).items \o Last(calls).key, Last(calls).start + 1, p)
<1> DEFINE n == Len(calls)
           f == Front(calls)
<1>1. n \in Nat /\ n # 0 /\ DOMAIN calls = 1 .. n /\ n \in 1 .. n
  BY SeqDomain, EmptyIffNoLength
<1>2. /\ f \in Seq(C) /\ Len(f) = n - 1 /\ DOMAIN f = 1 .. n - 1 /\ (f = <<>> <=> n = 1)
      /\ \A k \in 1 .. n - 1 : f[k] = calls[k]
  <2>1. f \in Seq(C)
    BY <1>1 DEF Front
  <2>2. Len(f) = n - 1 /\ DOMAIN f = 1 .. n - 1 /\ \A k \in 1 .. n - 1 : f[k] = calls[k]
    BY <1>1 DEF Front
  <2>3. f = <<>> <=> Len(f) = 0
    BY <2>1, EmptyIffNoLength, Zenon
  <2> HIDE DEF f
  <2> QED BY <1>1, <2>1, <2>2, <2>3
<1>3. Last(calls) = calls[n] /\ Last(calls) \in C
  BY <1>1, SeqDomain DEF Last
<1> HIDE DEF n, f
<1>4. SideBySide(calls[n].items \o calls[n].key, calls[n].start + 1, p)
  <2>1. ~(n < Len(calls))
    BY <1>1 DEF n
  <2>2. SideBySide(calls[n].items \o calls[n].key, calls[n].start + 1,
                   IF n < Len(calls) THEN calls[n + 1].start ELSE p)
    BY <1>1, Zenon DEF Placed, Tiles
  <2> QED BY <2>1, <2>2, Zenon
<1>5. Tiles(f, calls[n].start)
  <2> SUFFICES ASSUME NEW k \in DOMAIN f
               PROVE  SideBySide(f[k].items \o f[k].key, f[k].start + 1,
                                 IF k < Len(f) THEN f[k + 1].start ELSE calls[n].start)
    BY Zenon DEF Tiles
  <2>1. /\ k \in 1 .. n - 1 /\ k \in DOMAIN calls /\ k < Len(calls)
        /\ (k < Len(f) => k + 1 \in 1 .. n - 1) /\ (~(k < Len(f)) => k + 1 = n)
    BY <1>1, <1>2 DEF n
  <2>2. SideBySide(calls[k].items \o calls[k].key, calls[k].start + 1,
                   IF k < Len(calls) THEN calls[k + 1].start ELSE p)
    BY <2>1, Zenon DEF Placed, Tiles
  <2>3. SideBySide(calls[k].items \o calls[k].key, calls[k].start + 1, calls[k + 1].start)
    BY <2>1, <2>2, Zenon
  <2>4. f[k] = calls[k] /\ (k < Len(f) => f[k + 1] = calls[k + 1])
    BY <2>1, <1>2, Zenon
  <2>5. calls[k + 1].start = IF k < Len(f) THEN f[k + 1].start ELSE calls[n].start
    BY <2>1, <2>4, Zenon
  <2> QED BY <2>3, <2>4, <2>5, Zenon
<1>6. SideBySide(elements, 0, IF f = <<>> THEN calls[n].start ELSE f[1].start)
  <2>1. calls[1].start = IF f = <<>> THEN calls[n].start ELSE f[1].start
    <3>1. f # <<>> => f[1] = calls[1]
      <4>1. f # <<>> => 1 \in 1 .. n - 1
        BY <1>1, <1>2
      <4> QED BY <4>1, <1>2, Zenon
    <3> QED BY <3>1, <1>2, Zenon
  <2>2. SideBySide(elements, 0, calls[1].start)
    BY Zenon DEF Placed
  <2> QED BY <2>1, <2>2, Zenon
<1>7. \A k \in DOMAIN f : CallSpelled(f[k])
  <2>1. \A k \in 1 .. n - 1 : k \in DOMAIN calls
    BY <1>1
  <2> QED BY <2>1, <1>2, Zenon DEF Placed
<1>8. CallSpelled(calls[n])
  BY <1>1, Zenon DEF Placed
<1>9. Placed(f, calls[n].start)
  BY <1>5, <1>6, <1>7, Zenon DEF Placed
<1> QED BY <1>2, <1>3, <1>4, <1>8, <1>9, Zenon DEF f

\* A call on top of the others.
LEMMA OneMorePlaced ==
  ASSUME NEW C, NEW calls \in Seq(C), NEW c \in C, NEW p,
         Placed(calls, c.start), CallSpelled(c),
         SideBySide(c.items \o c.key, c.start + 1, p)
  PROVE  /\ Append(calls, c) \in Seq(C) /\ Append(calls, c) # <<>>
         /\ Placed(Append(calls, c), p)
<1> DEFINE n == Len(calls)
           r == Append(calls, c)
<1>1. n \in Nat /\ DOMAIN calls = 1 .. n /\ (calls = <<>> <=> n = 0)
  BY SeqDomain, EmptyIffNoLength
<1>2. /\ r \in Seq(C) /\ r # <<>> /\ Len(r) = n + 1 /\ DOMAIN r = 1 .. n + 1
      /\ \A k \in 1 .. n : r[k] = calls[k]
      /\ r[n + 1] = c
  <2>1. /\ r \in Seq(C) /\ Len(r) = n + 1 /\ DOMAIN r = 1 .. n + 1
        /\ \A k \in 1 .. n : r[k] = calls[k]
        /\ r[n + 1] = c
    BY <1>1
  <2>2. r = <<>> <=> Len(r) = 0
    BY <2>1, EmptyIffNoLength, Zenon
  <2> HIDE DEF r
  <2> QED BY <1>1, <2>1, <2>2
<1> HIDE DEF n, r
<1>3. ASSUME NEW k \in DOMAIN r
      PROVE  /\ CallSpelled(r[k])
             /\ SideBySide(r[k].items \o r[k].key, r[k].start + 1,
                           IF k < Len(r) THEN r[k + 1].start ELSE p)
  <2>1. CASE k = n + 1
    <3>1. ~(k < Len(r)) /\ r[k] = c
      BY <2>1, <1>1, <1>2
    <3> QED BY <3>1, Zenon
  <2>2. CASE k # n + 1
    <3>1. k \in 1 .. n /\ k < Len(r) /\ (k < n => k + 1 \in 1 .. n) /\ (~(k < n) => k + 1 = n + 1)
      BY <2>2, <1>1, <1>2
    <3>2. r[k] = calls[k] /\ k \in DOMAIN calls
      BY <3>1, <1>1, <1>2, Zenon
    <3>3. SideBySide(calls[k].items \o calls[k].key, calls[k].start + 1,
                     IF k < Len(calls) THEN calls[k + 1].start ELSE c.start)
      BY <3>2, Zenon DEF Placed, Tiles
    <3>4. r[k + 1].start = IF k < Len(calls) THEN calls[k + 1].start ELSE c.start
      BY <3>1, <1>2, Zenon DEF n
    <3> QED BY <3>1, <3>2, <3>3, <3>4, Zenon DEF Placed
  <2> QED BY <2>1, <2>2
<1>4. SideBySide(elements, 0, r[1].start)
  <2>1. r[1].start = IF calls = <<>> THEN c.start ELSE calls[1].start
    <3>1. (n = 0 => r[1] = c) /\ (n # 0 => r[1] = calls[1])
      <4>1. (n = 0 => 1 = n + 1) /\ (n # 0 => 1 \in 1 .. n)
        BY <1>1
      <4> QED BY <4>1, <1>2, Zenon
    <3> QED BY <3>1, <1>1, Zenon
  <2> QED BY <2>1, Zenon DEF Placed
<1>5. Placed(r, p)
  BY <1>2, <1>3, <1>4, Zenon DEF Placed, Tiles
<1> QED BY <1>2, <1>5 DEF r

ExpectsKey(top) == top.id = "Dictionary" /\ top.key = <<>>

\* The call on top, after the call it made has returned e.
Returned(top, e) ==
  [top EXCEPT !.items = IF ExpectsKey(top) THEN @ ELSE @ \o top.key \o <<e>>,
              !.key = KeyAfter(top, e)]

LEMMA EmptyTail ==
  ASSUME NEW T, NEW s \in Seq(T)
  PROVE  s \o <<>> = s
OBVIOUS

\* A key and its value.
LEMMA TwoMoreKeys ==
  ASSUME NEW T, NEW s \in Seq(T), NEW t \in Seq(T), NEW r \in Seq(T), NEW key, NEW e,
         Longer(s, key, t), Longer(t, e, r), Len(s) % 2 = 0, KeysAtOdd(s), IsKey(key)
  PROVE  Len(r) % 2 = 0 /\ KeysAtOdd(r)
<1>1. /\ Len(s) \in Nat /\ DOMAIN s = 1 .. Len(s)
      /\ Len(t) = Len(s) + 1 /\ Len(r) = Len(s) + 2 /\ DOMAIN r = 1 .. Len(s) + 2
  BY SeqDomain DEF Longer
<1>2. Len(r) % 2 = 0
  BY <1>1
<1>3. ASSUME NEW k \in 1 .. Len(s) + 2, k % 2 = 1 PROVE IsKey(r[k])
  <2>1. k # Len(s) + 2
    BY <1>1, <1>3
  <2>2. k \in 1 .. Len(t)
    BY <1>1, <2>1
  <2>3. r[k] = t[k]
    BY <2>2 DEF Longer
  <2>4. CASE k \in 1 .. Len(s)
    <3>1. t[k] = s[k]
      BY <2>4 DEF Longer
    <3> QED BY <1>1, <1>3, <2>3, <2>4, <3>1 DEF KeysAtOdd
  <2>5. CASE k \notin 1 .. Len(s)
    <3>1. k = Len(s) + 1
      BY <1>1, <2>2, <2>5
    <3>2. t[k] = key
      BY <3>1 DEF Longer
    <3> QED BY <2>3, <3>2
  <2> QED BY <2>4, <2>5
<1> QED BY <1>1, <1>2, <1>3 DEF KeysAtOdd

\* The call on top goes on, with e for an item or a key.
LEMMA CallReturned ==
  ASSUME NEW T, NEW top \in Calls(T), NEW e \in T, CallSpelled(top), ExpectsKey(top) => IsKey(e)
  PROVE  /\ Returned(top, e) \in Calls(T) /\ Returned(top, e).start = top.start
         /\ CallSpelled(Returned(top, e))
         /\ top.items \o top.key \in Seq(T)
         /\ Returned(top, e).items \o Returned(top, e).key \in Seq(T)
         /\ Longer(top.items \o top.key, e, Returned(top, e).items \o Returned(top, e).key)
<1> DEFINE c == Returned(top, e)
           parts == top.items \o top.key
<1>1. /\ top.id \in {"List", "Dictionary"} /\ top.start \in Nat
      /\ top.items \in Seq(T) /\ top.key \in Seq(T)
  BY DEF Calls
<1>2. /\ c = [id |-> c.id, start |-> c.start, items |-> c.items, key |-> c.key]
      /\ c.id = top.id /\ c.start = top.start
      /\ c.items = IF ExpectsKey(top) THEN top.items ELSE parts \o <<e>>
      /\ c.key = KeyAfter(top, e)
  <2> DEFINE items == IF ExpectsKey(top) THEN top.items ELSE parts \o <<e>>
             key == KeyAfter(top, e)
  <2>1. c = [top EXCEPT !.items = items, !.key = key]
    BY Zenon DEF Returned
  <2>2. top = [id |-> top.id, start |-> top.start, items |-> top.items, key |-> top.key]
    BY DEF Calls
  <2> HIDE DEF items, key, c
  <2>3. c = [id |-> top.id, start |-> top.start, items |-> items, key |-> key]
    BY <2>1, <2>2
  <2> QED BY <2>3 DEF items, key
<1>3. parts \in Seq(T) /\ Joins(top.items, top.key)
  BY <1>1, Joining
<1>4. <<e>> \in Seq(T) /\ <<>> \in Seq(T)
  OBVIOUS
<1> HIDE DEF c
<1>5. CASE ExpectsKey(top)
  <2>1. c.items = top.items /\ c.key = <<e>> /\ IsKey(e) /\ top.id = "Dictionary" /\ top.key = <<>>
    BY <1>2, <1>5, Zenon DEF KeyAfter, ExpectsKey
  <2>2. parts = top.items
    <3>1. top.items \o <<>> = top.items
      BY <1>1, EmptyTail
    <3> QED BY <2>1, <3>1, Zenon
  <2> HIDE DEF parts
  <2>3. c \in Calls(T)
    BY <1>1, <1>2, <1>4, <2>1 DEF Calls
  <2>4. CallSpelled(c)
    <3>1. Len(c.key) = 1 /\ c.key[1] = e
      BY <2>1
    <3>2. Len(top.items) % 2 = 0 /\ KeysAtOdd(top.items)
      BY <2>1, Zenon DEF CallSpelled
    <3>3. input[top.start + 1] = IF top.id = "List" THEN "l" ELSE "d"
      BY Zenon DEF CallSpelled
    <3> QED BY <1>2, <2>1, <3>1, <3>2, <3>3, Zenon DEF CallSpelled
  <2>5. c.items \o c.key \in Seq(T) /\ Longer(parts, e, c.items \o c.key)
    <3>1. top.items \o <<e>> \in Seq(T) /\ Longer(top.items, e, top.items \o <<e>>)
      BY <1>1, LongerBy, Zenon
    <3> QED BY <2>1, <2>2, <3>1, Zenon
  <2> QED BY <1>2, <1>3, <2>3, <2>4, <2>5, Zenon DEF c, parts
<1>6. CASE ~ExpectsKey(top)
  <2>1. c.items = parts \o <<e>> /\ c.key = <<>>
    BY <1>2, <1>6, Zenon DEF KeyAfter, ExpectsKey
  <2>2. parts \o <<e>> \in Seq(T) /\ Longer(parts, e, parts \o <<e>>)
    <3> HIDE DEF parts
    <3> QED BY <1>3, LongerBy, Zenon
  <2>3. c \in Calls(T)
    <3> HIDE DEF parts
    <3> QED BY <1>1, <1>2, <1>4, <2>1, <2>2 DEF Calls
  <2>4. c.items \o c.key = c.items
    <3>1. c.items \in Seq(T)
      BY <2>1, <2>2, Zenon
    <3>2. c.items \o <<>> = c.items
      BY <3>1, EmptyTail
    <3> QED BY <2>1, <3>2, Zenon
  <2>5. c.id = "Dictionary" => Len(c.items) % 2 = 0 /\ KeysAtOdd(c.items)
    <3> SUFFICES ASSUME c.id = "Dictionary" PROVE Len(c.items) % 2 = 0 /\ KeysAtOdd(c.items)
      OBVIOUS
    <3>1. top.id = "Dictionary" /\ top.key # <<>>
      BY <1>2, <1>6, Zenon DEF ExpectsKey
    <3>2. /\ Len(top.key) = 1 /\ IsKey(top.key[1])
          /\ Len(top.items) % 2 = 0 /\ KeysAtOdd(top.items)
      BY <3>1, Zenon DEF CallSpelled
    <3>3. top.key = <<top.key[1]>> /\ top.key[1] \in T
      BY <1>1, <3>2
    <3> DEFINE key == top.key[1]
    <3>4. Longer(top.items, key, parts)
      <4>1. Longer(top.items, key, top.items \o <<key>>)
        BY <1>1, <3>3, LongerBy, Zenon
      <4> QED BY <3>3, <4>1, Zenon
    <3> HIDE DEF key, parts
    <3>5. IsKey(key)
      BY <3>2 DEF key
    <3>6. Len(parts \o <<e>>) % 2 = 0 /\ KeysAtOdd(parts \o <<e>>)
      BY <1>1, <1>3, <2>2, <3>2, <3>4, <3>5, TwoMoreKeys, Zenon
    <3> QED BY <2>1, <3>6, Zenon
  <2>6. CallSpelled(c)
    <3>1. input[top.start + 1] = IF top.id = "List" THEN "l" ELSE "d"
      BY Zenon DEF CallSpelled
    <3> QED BY <1>2, <2>1, <2>5, <3>1, Zenon DEF CallSpelled
  <2> QED BY <1>2, <1>3, <2>1, <2>2, <2>3, <2>4, <2>6, Zenon DEF c, parts
<1> QED BY <1>5, <1>6

-----------------------------------------------------------------------------
(* The inductive invariant.                                                *)

\* T holds elements that are well spelled, and their items.
Closed(T) == \A e \in T : e.end \in Nat /\ ToSet(e.items) \subseteq T /\ Spelled(e)

ParseInv ==
  /\ entry \in Entries /\ input \in Seq(STRING) /\ current \in Nat
  /\ \E T : Closed(T) /\ elements \in Seq(T) /\ stack \in Seq(Calls(T))
  /\ Placed(stack, current)
  /\ pc = "start" => stack = <<>> /\ elements = <<>> /\ current = 0
  /\ Accepted => stack = <<>>
  /\ pc # "done" => \A k \in DOMAIN elements : elements[k].end <= Len(input)
  /\ OverrunOnlyLastString

LEMMA SeqGrows ==
  ASSUME NEW T, NEW U, T \subseteq U
  PROVE  Seq(T) \subseteq Seq(U)
<1> SUFFICES ASSUME NEW s \in Seq(T) PROVE s \in Seq(U)
  OBVIOUS
<1>1. Len(s) \in Nat /\ s \in [1 .. Len(s) -> T]
  OBVIOUS
<1>2. s \in [1 .. Len(s) -> U]
  BY <1>1
<1> QED BY <1>1, <1>2, FunctionIsSeq

\* A well spelled element with its items in the set is one more of it.
LEMMA ClosedGrows ==
  ASSUME NEW T, Closed(T), NEW e, e.end \in Nat, ToSet(e.items) \subseteq T, Spelled(e)
  PROVE  /\ Closed(T \union {e}) /\ e \in T \union {e}
         /\ Seq(T) \subseteq Seq(T \union {e})
         /\ Seq(Calls(T)) \subseteq Seq(Calls(T \union {e}))
<1>1. T \subseteq T \union {e} /\ e \in T \union {e}
  OBVIOUS
<1>2. Closed(T \union {e})
  <2>1. ASSUME NEW x \in T \union {e}
        PROVE  x.end \in Nat /\ ToSet(x.items) \subseteq T \union {e} /\ Spelled(x)
    <3>1. CASE x \in T
      <4>1. x.end \in Nat /\ ToSet(x.items) \subseteq T /\ Spelled(x)
        BY <3>1, Zenon DEF Closed
      <4> QED BY <4>1, Zenon
    <3>2. CASE x = e
      BY <3>2, Zenon
    <3> QED BY <3>1, <3>2
  <2> QED BY <2>1, Zenon DEF Closed
<1>3. Seq(T) \subseteq Seq(T \union {e})
  BY <1>1, SeqGrows, Zenon
<1>4. Calls(T) \subseteq Calls(T \union {e})
  BY <1>3 DEF Calls
<1>5. Seq(Calls(T)) \subseteq Seq(Calls(T \union {e}))
  BY <1>4, SeqGrows, Zenon
<1> QED BY <1>1, <1>2, <1>3, <1>5, Zenon

\* The input does not change, and with it what is well spelled.
LEMMA SameInput ==
  ASSUME input' = input
  PROVE  /\ \A e : Spelled(e)' <=> Spelled(e)
         /\ \A T : Closed(T)' <=> Closed(T)
         /\ \A c : CallSpelled(c)' <=> CallSpelled(c)
<1>1. \A e : Spelled(e)' <=> Spelled(e)
  <2>1. \A p : AfterSign(p)' = AfterSign(p)
    BY DEF AfterSign
  <2>2. \A p, q : IsInteger(p, q)' <=> IsInteger(p, q)
    BY <2>1 DEF IsInteger
  <2>3. \A p, q : AllDigits(p, q)' <=> AllDigits(p, q)
    BY DEF AllDigits
  <2> QED BY <2>1, <2>2, <2>3 DEF Spelled
<1>2. \A T : Closed(T)' <=> Closed(T)
  BY <1>1, Zenon DEF Closed
<1>3. \A c : CallSpelled(c)' <=> CallSpelled(c)
  BY Zenon DEF CallSpelled
<1> QED BY <1>1, <1>2, <1>3

LEMMA SameResult ==
  ASSUME UNCHANGED <<input, elements>>
  PROVE  Placed(stack, current)' <=> Placed(stack', current')
BY SameInput, Zenon DEF Placed, Tiles

\* An error ends the parse and leaves what was read.
LEMMA Fails ==
  ASSUME ParseInv, NEW ec, ec # "none", Fail(ec), UNCHANGED <<entry, input>>
  PROVE  ParseInv'
<1>1. UNCHANGED <<input, current, stack, elements>> /\ pc' = "done" /\ error' # "none"
  BY Zenon DEF Fail
<1>2. entry' \in Entries /\ input' \in Seq(STRING) /\ current' \in Nat
  BY <1>1, Zenon DEF ParseInv
<1>3. \E T : Closed(T)' /\ elements' \in Seq(T) /\ stack' \in Seq(Calls(T))
  BY <1>1, SameInput, Zenon DEF ParseInv
<1>4. Placed(stack, current)'
  BY <1>1, SameResult, Zenon DEF ParseInv
<1>5. OverrunOnlyLastString' /\ ~Accepted'
  BY <1>1, Zenon DEF OverrunOnlyLastString, Accepted
<1> QED BY <1>1, <1>2, <1>3, <1>4, <1>5, Zenon DEF ParseInv

\* An element is returned to the call on top.
LEMMA ReturnsToCall ==
  ASSUME ParseInv, pc # "done",
         NEW T, Closed(T), elements \in Seq(T), NEW calls \in Seq(Calls(T)), calls # <<>>,
         NEW e \in T, Placed(calls, e.start), ExpectsKey(Last(calls)) => IsKey(e),
         stack' = Append(Front(calls), Returned(Last(calls), e)),
         pc' = "element", current' = e.end, UNCHANGED <<elements, error, entry, input>>
  PROVE  ParseInv'
<1> DEFINE top == Last(calls)
           c == Returned(top, e)
<1>1. /\ Front(calls) \in Seq(Calls(T)) /\ top \in Calls(T)
      /\ Placed(Front(calls), top.start) /\ CallSpelled(top)
      /\ SideBySide(top.items \o top.key, top.start + 1, e.start)
  BY FrontPlaced
<1> HIDE DEF top
<1>2. /\ c \in Calls(T) /\ c.start = top.start /\ CallSpelled(c)
      /\ top.items \o top.key \in Seq(T) /\ c.items \o c.key \in Seq(T)
      /\ Longer(top.items \o top.key, e, c.items \o c.key)
  <2>1. ExpectsKey(top) => IsKey(e)
    BY DEF top
  <2> QED BY <1>1, <2>1, CallReturned
<1> HIDE DEF c
<1>3. SideBySide(c.items \o c.key, c.start + 1, e.end)
  <2>1. SideBySide(top.items \o top.key, c.start + 1, e.start)
    BY <1>1, <1>2, Zenon
  <2> QED BY <1>2, <2>1, OneMoreSideBySide
<1>4. /\ Append(Front(calls), c) \in Seq(Calls(T)) /\ Append(Front(calls), c) # <<>>
      /\ Placed(Append(Front(calls), c), e.end)
  <2>1. Placed(Front(calls), c.start)
    BY <1>1, <1>2, Zenon
  <2> QED BY <1>1, <1>2, <1>3, <2>1, OneMorePlaced
<1>5. stack' = Append(Front(calls), c)
  BY Zenon DEF c, top
<1>6. Placed(stack, current)'
  <2>1. Placed(stack', current')
    BY <1>4, <1>5, Zenon
  <2> QED BY <2>1, SameResult, Zenon
<1>7. Closed(T)' /\ elements' \in Seq(T) /\ stack' \in Seq(Calls(T))
  BY <1>4, <1>5, SameInput, Zenon
<1>8. entry' \in Entries /\ input' \in Seq(STRING) /\ current' \in Nat
  BY Zenon DEF ParseInv, Closed
<1>9. /\ pc' # "start" /\ ~Accepted' /\ OverrunOnlyLastString'
      /\ \A k \in DOMAIN elements' : elements'[k].end <= Len(input')
  <2>1. \A k \in DOMAIN elements : elements[k].end <= Len(input)
    BY Zenon DEF ParseInv
  <2>2. \A k \in DOMAIN elements' : elements'[k].end <= Len(input')
    BY <2>1, Zenon
  <2>3. pc' # "start" /\ pc' # "done"
    OBVIOUS
  <2> QED BY <2>2, <2>3, Zenon DEF Accepted, OverrunOnlyLastString
<1> QED BY <1>6, <1>7, <1>8, <1>9, Zenon DEF ParseInv

\* An element is one more of the result.
LEMMA ReturnsResult ==
  ASSUME ParseInv, pc # "done",
         NEW T, Closed(T), elements \in Seq(T),
         NEW e \in T, Placed(<<>>, e.start), e.end <= Len(input) \/ e.id = "String",
         elements' = Append(elements, e), stack' = <<>>,
         pc' = "done" \/ (pc' = "element" /\ e.end < Len(input)),
         current' = e.end, UNCHANGED <<error, entry, input>>
  PROVE  ParseInv'
<1> DEFINE r == Append(elements, e)
           n == Len(elements)
<1>1. entry' \in Entries /\ input' \in Seq(STRING) /\ current' \in Nat /\ Len(input) \in Nat
  BY DEF ParseInv, Closed
<1>2. r \in Seq(T) /\ Longer(elements, e, r)
  BY LongerBy
<1>3. n \in Nat /\ DOMAIN elements = 1 .. n /\ DOMAIN r = 1 .. n + 1 /\ Len(r) = n + 1
      /\ \A k \in 1 .. n + 1 : r[k] = IF k \in 1 .. n THEN elements[k] ELSE e
  OBVIOUS
<1> HIDE DEF r, n
<1>4. Closed(T)' /\ elements' \in Seq(T) /\ stack' \in Seq(Calls(T))
  <2>1. <<>> \in Seq(Calls(T))
    OBVIOUS
  <2> QED BY <1>2, <2>1, SameInput, Zenon DEF r
<1>5. Placed(stack, current)'
  <2>1. SideBySide(elements, 0, e.start)
    BY Zenon DEF Placed
  <2>2. SideBySide(r, 0, e.end)
    BY <1>2, <2>1, OneMoreSideBySide
  <2>3. SideBySide(elements', 0, IF stack' = <<>> THEN current' ELSE stack'[1].start)
    BY <2>2, Zenon DEF r
  <2>4. DOMAIN stack' = {}
    OBVIOUS
  <2> QED BY <2>3, <2>4, Zenon DEF Placed, Tiles
<1>6. \A k \in 1 .. n : elements[k].end <= Len(input)
  BY <1>3, Zenon DEF ParseInv
<1>7. \A k \in 1 .. n + 1 : k # n + 1 => k \in 1 .. n
  BY <1>3
<1>8. OverrunOnlyLastString'
  <2> SUFFICES ASSUME NEW k \in 1 .. n + 1, r[k].end > Len(input)
               PROVE  k = n + 1 /\ r[k].id = "String"
    BY <1>3, Zenon DEF OverrunOnlyLastString, r
  <2>1. CASE k \in 1 .. n
    <3>1. r[k] = elements[k] /\ elements[k] \in T /\ elements[k].end <= Len(input)
      BY <1>3, <1>6, <2>1, SeqDomain DEF n
    <3>2. elements[k].end \in Nat
      BY <3>1, Zenon DEF Closed
    <3> QED BY <1>1, <3>1, <3>2
  <2>2. CASE k \notin 1 .. n
    <3>1. k = n + 1 /\ r[k] = e /\ e.end \in Nat
      BY <1>3, <1>7, <2>2, Zenon DEF Closed
    <3>2. ~(e.end <= Len(input))
      BY <1>1, <3>1
    <3> QED BY <3>1, <3>2
  <2> QED BY <2>1, <2>2
<1>9. pc' # "done" => \A k \in DOMAIN elements' : elements'[k].end <= Len(input')
  <2> SUFFICES ASSUME pc' # "done", NEW k \in 1 .. n + 1 PROVE r[k].end <= Len(input)
    BY <1>3, Zenon DEF r
  <2>1. e.end <= Len(input)
    BY <1>1 DEF Closed
  <2> QED BY <1>3, <1>6, <1>7, <2>1, Zenon
<1>10. pc' # "start" /\ (Accepted' => stack' = <<>>)
  OBVIOUS
<1> QED BY <1>1, <1>4, <1>5, <1>8, <1>9, <1>10, Zenon DEF ParseInv

\* Whatever is returned, to whichever call.
LEMMA Returns ==
  ASSUME ParseInv, pc # "done",
         NEW T, Closed(T), elements \in Seq(T), NEW calls \in Seq(Calls(T)),
         NEW e, e.end \in Nat, ToSet(e.items) \subseteq T, Spelled(e),
         Placed(calls, e.start), e.end <= Len(input) \/ e.id = "String",
         Return(calls, e), UNCHANGED <<entry, input>>
  PROVE  ParseInv'
<1> DEFINE U == T \union {e}
<1>1. Closed(U) /\ e \in U /\ elements \in Seq(U) /\ calls \in Seq(Calls(U))
  BY ClosedGrows, Zenon
<1> HIDE DEF U
<1>2. CASE calls = <<>> /\ elements' = Append(elements, e)
  <2>1. stack' = <<>> /\ current' = e.end /\ UNCHANGED error
    BY <1>2, Zenon DEF Return
  <2>2. pc' = IF entry = "Parse" /\ e.end < Len(input) THEN "element" ELSE "done"
    BY <1>2, Zenon DEF Return
  <2>3. pc' = "done" \/ (pc' = "element" /\ e.end < Len(input))
    BY <2>2, Zenon
  <2>4. Placed(<<>>, e.start)
    BY <1>2, Zenon
  <2> QED BY <1>1, <1>2, <2>1, <2>3, <2>4, ReturnsResult
<1>3. CASE calls # <<>> /\ ExpectsKey(Last(calls)) /\ ~IsKey(e)
  <2>1. Fail("NonStringAsDictionaryKey")
    BY <1>3, Zenon DEF Return, ExpectsKey
  <2>2. "NonStringAsDictionaryKey" # "none"
    OBVIOUS
  <2> QED BY <2>1, <2>2, Fails
<1>4. CASE calls # <<>> /\ (ExpectsKey(Last(calls)) => IsKey(e))
  <2>1. stack' = Append(Front(calls), Returned(Last(calls), e))
    BY <1>4, Zenon DEF Return, ExpectsKey, Returned
  <2>2. pc' = "element" /\ current' = e.end /\ UNCHANGED <<elements, error>>
    BY <1>4, Zenon DEF Return, ExpectsKey
  <2> QED BY <1>1, <1>4, <2>1, <2>2, ReturnsToCall
<1> QED BY <1>2, <1>3, <1>4, Zenon DEF Return

-----------------------------------------------------------------------------
(* The actions.                                                            *)

LEMMA AtElement ==
  ASSUME ParseInv
  PROVE  /\ Len(input) \in Nat /\ DOMAIN input = 1 .. Len(input) /\ current \in Nat
         /\ Placed(stack, current)
BY SeqDomain DEF ParseInv

\* The digits up to where they end.
LEMMA DigitsAt ==
  ASSUME ParseInv, NEW p \in 0 .. Len(input)
  PROVE  /\ DigitsEnd(p) \in p .. Len(input) /\ AllDigits(p, DigitsEnd(p))
         /\ Number(SubSeq(input, p + 1, DigitsEnd(p))) \in Nat
<1> DEFINE q == DigitsEnd(p)
           digits == SubSeq(input, p + 1, q)
<1>1. q \in p .. Len(input) /\ AllDigits(p, q) /\ Len(input) \in Nat
  BY AtElement, DigitsEndIs
<1> HIDE DEF q
<1>2. Len(digits) = q - p /\ DOMAIN digits = 1 .. q - p /\ \A k \in 1 .. q - p : digits[k] = input[p + k]
  <2>1. input \in Seq(STRING)
    BY DEF ParseInv
  <2> QED BY <1>1, <2>1
<1>3. digits \in [1 .. q - p -> Digits]
  <2>1. digits = [k \in 1 .. q - p |-> digits[k]]
    BY <1>1, <1>2
  <2> HIDE DEF digits
  <2>2. ASSUME NEW k \in 1 .. q - p PROVE digits[k] \in Digits
    <3>1. p + k \in p + 1 .. q
      BY <1>1
    <3> QED BY <1>1, <1>2, <3>1 DEF AllDigits
  <2> QED BY <2>1, <2>2
<1>4. digits \in Seq(Digits)
  <2>1. q - p \in Nat
    BY <1>1
  <2> HIDE DEF digits
  <2> QED BY <1>3, <2>1, FunctionIsSeq
<1>5. Number(digits) \in Nat
  <2> HIDE DEF digits
  <2> QED BY <1>4, NumberIs
<1> QED BY <1>1, <1>5 DEF q

LEMMA NoItems == ToSet(<<>>) = {} /\ \A T : ToSet(<<>>) \subseteq T
BY ToSetNone

LEMMA ReadsInteger ==
  ASSUME ParseInv, pc # "done", parse_integer, UNCHANGED <<entry, input>>
  PROVE  ParseInv'
<1>1. CASE Char # "i"
  <2>1. Fail("MissingIntegerStart") /\ "MissingIntegerStart" # "none"
    BY <1>1 DEF parse_integer
  <2> QED BY <2>1, Fails
<1>2. CASE /\ Char = "i" /\ IntegerEnd < Len(input) /\ input[IntegerEnd + 1] = "e"
           /\ IsInteger(current + 1, IntegerEnd)
  <2> DEFINE last == IntegerEnd
             e == Element("Integer", current, last + 1, current + 1, last, <<>>)
  <2>1. current \in Nat /\ Len(input) \in Nat /\ current < Len(input) /\ input[current + 1] = "i"
    BY <1>2, AtElement DEF Char, has_data
  <2>2. AfterSign(current + 1) \in 0 .. Len(input)
    BY <2>1 DEF AfterSign
  <2>3. last \in 0 .. Len(input) /\ AllDigits(AfterSign(current + 1), last)
    <3>1. DigitsEnd(AfterSign(current + 1)) \in AfterSign(current + 1) .. Len(input)
          /\ AllDigits(AfterSign(current + 1), DigitsEnd(AfterSign(current + 1)))
      BY <2>2, DigitsAt
    <3>2. DigitsEnd(AfterSign(current + 1)) \in 0 .. Len(input)
      BY <2>2, <3>1
    <3> QED BY <3>1, <3>2, Zenon DEF IntegerEnd
  <2>4. last < Len(input) /\ input[last + 1] = "e" /\ IsInteger(current + 1, last) /\ Return(stack, e)
    BY <1>2, Zenon DEF parse_integer
  <2> HIDE DEF last
  <2>5. /\ e.id = "Integer" /\ e.start = current /\ e.end = last + 1
        /\ e.from = current + 1 /\ e.to = last /\ e.items = <<>>
    BY DEF Element
  <2> HIDE DEF e
  <2>6. Spelled(e)
    BY <2>1, <2>3, <2>4, <2>5, Zenon DEF Spelled
  <2>7. e.end \in Nat /\ e.end <= Len(input)
    BY <2>1, <2>3, <2>4, <2>5
  <2>8. Placed(stack, e.start)
    BY <2>5, AtElement, Zenon
  <2>9. PICK T : Closed(T) /\ elements \in Seq(T) /\ stack \in Seq(Calls(T))
    BY DEF ParseInv
  <2>10. ToSet(e.items) \subseteq T
    BY <2>5, NoItems, Zenon
  <2> QED BY <2>4, <2>6, <2>7, <2>8, <2>9, <2>10, Returns
<1>3. CASE /\ Char = "i"
           /\ ~(/\ IntegerEnd < Len(input) /\ input[IntegerEnd + 1] = "e"
                /\ IsInteger(current + 1, IntegerEnd))
  <2>1. Fail("BadInteger")
    BY <1>3, Zenon DEF parse_integer
  <2>2. "BadInteger" # "none"
    OBVIOUS
  <2> QED BY <2>1, <2>2, Fails
<1> QED BY <1>1, <1>2, <1>3, Zenon

LEMMA ReadsString ==
  ASSUME ParseInv, pc # "done", current <= Len(input), parse_string, UNCHANGED <<entry, input>>
  PROVE  ParseInv'
<1> DEFINE last == DigitsEnd(current)
           length == Number(SubSeq(input, current + 1, last))
           e == Element("String", current, last + 1 + length, last + 1, last + 1 + length, <<>>)
<1>1. current \in Nat /\ Len(input) \in Nat /\ current \in 0 .. Len(input)
  BY AtElement
<1>2. last \in current .. Len(input) /\ AllDigits(current, last) /\ length \in Nat
  BY <1>1, DigitsAt
<1>3. CASE /\ last # current /\ (last < Len(input) => input[last + 1] = ":")
           /\ last # Len(input) /\ Return(stack, e)
  <2>1. last < Len(input) /\ current < last /\ last + 1 \in Nat /\ (last + 1) - 1 = last
    BY <1>1, <1>2, <1>3
  <2>2. last + 1 + length \in Nat
    BY <1>2, <2>1
  <2>3. /\ e.id = "String" /\ e.start = current /\ e.end = last + 1 + length
        /\ e.from = last + 1 /\ e.to = last + 1 + length /\ e.items = <<>>
    BY DEF Element
  <2>4. length = Number(SubSeq(input, current + 1, last))
    OBVIOUS
  <2> HIDE DEF last, length, e
  <2>5. Spelled(e)
    <3>1. e.start < e.from - 1 /\ AllDigits(e.start, e.from - 1)
      BY <1>2, <2>1, <2>3, Zenon
    <3>2. input[e.from] = ":" /\ e.to = e.from + Number(SubSeq(input, e.start + 1, e.from - 1))
      BY <1>3, <2>1, <2>3, <2>4, Zenon
    <3>3. e.id # "Integer" /\ e.end = e.to
      BY <2>3
    <3> QED BY <2>3, <3>1, <3>2, <3>3, Zenon DEF Spelled
  <2>6. Placed(stack, e.start)
    BY <2>3, AtElement, Zenon
  <2>7. PICK T : Closed(T) /\ elements \in Seq(T) /\ stack \in Seq(Calls(T))
    BY DEF ParseInv
  <2>8. ToSet(e.items) \subseteq T
    BY <2>3, NoItems, Zenon
  <2>9. e.end \in Nat /\ e.id = "String" /\ Return(stack, e)
    BY <1>3, <2>2, <2>3, Zenon
  <2> QED BY <2>5, <2>6, <2>7, <2>8, <2>9, Returns
<1>4. CASE Fail("UnexpectedStringLength") \/ Fail("MissingStringStart")
             \/ Fail("BadStringLength") \/ Fail("StringOutOfBound")
  <2>1. /\ "UnexpectedStringLength" # "none" /\ "MissingStringStart" # "none"
        /\ "BadStringLength" # "none" /\ "StringOutOfBound" # "none"
    OBVIOUS
  <2>2. \A ec : ec # "none" /\ Fail(ec) => ParseInv'
    BY Fails
  <2> QED BY <1>4, <2>1, <2>2, Zenon
<1> QED BY <1>3, <1>4, Zenon DEF parse_string

\* consume(k_list_start), consume(k_dictionary_start).
LEMMA OpensCall ==
  ASSUME ParseInv, pc # "done", NEW id, NEW ch, NEW missing, missing # "none",
         \/ id = "List" /\ ch = "l"
         \/ id = "Dictionary" /\ ch = "d",
         Open(id, ch, missing), UNCHANGED <<entry, input>>
  PROVE  ParseInv'
<1>1. CASE Char # ch
  BY <1>1, Fails DEF Open
<1>2. CASE Char = ch
  <2> DEFINE c == Call(id)
  <2>1. /\ stack' = Append(stack, c) /\ current' = current + 1 /\ pc' = "element"
        /\ UNCHANGED <<elements, error>>
    BY <1>2, Zenon DEF Open
  <2>2. /\ current \in Nat /\ Len(input) \in Nat /\ input[current + 1] = ch
        /\ id \in {"List", "Dictionary"} /\ ch = IF id = "List" THEN "l" ELSE "d"
    BY <1>2, AtElement DEF Char, has_data
  <2>3. PICK T : Closed(T) /\ elements \in Seq(T) /\ stack \in Seq(Calls(T))
    BY DEF ParseInv
  <2>4. /\ c.id = id /\ c.start = current /\ c.items = <<>> /\ c.key = <<>>
        /\ c \in Calls(T)
    BY <2>2 DEF Call, Calls
  <2>5. c.items \o c.key = <<>> /\ Len(c.items) % 2 = 0 /\ DOMAIN c.items = {}
    BY <2>4
  <2> HIDE DEF c
  <2>6. CallSpelled(c)
    BY <2>2, <2>4, <2>5, Zenon DEF CallSpelled, KeysAtOdd
  <2>7. SideBySide(c.items \o c.key, c.start + 1, current + 1)
    BY <2>4, <2>5, NoneSideBySide, Zenon
  <2>8. Placed(stack, c.start)
    BY <2>4, AtElement, Zenon
  <2>9. Append(stack, c) \in Seq(Calls(T)) /\ Placed(Append(stack, c), current + 1)
    BY <2>3, <2>4, <2>6, <2>7, <2>8, OneMorePlaced
  <2>10. Placed(stack, current)'
    BY <2>1, <2>9, SameResult, Zenon
  <2>11. Closed(T)' /\ elements' \in Seq(T) /\ stack' \in Seq(Calls(T))
    BY <2>1, <2>3, <2>9, SameInput, Zenon
  <2>12. entry' \in Entries /\ input' \in Seq(STRING) /\ current' \in Nat
    BY <2>1, <2>2 DEF ParseInv
  <2>13. /\ pc' # "start" /\ ~Accepted' /\ OverrunOnlyLastString'
         /\ \A k \in DOMAIN elements' : elements'[k].end <= Len(input')
    <3>1. \A k \in DOMAIN elements : elements[k].end <= Len(input)
      BY Zenon DEF ParseInv
    <3>2. pc' # "start" /\ pc' # "done"
      BY <2>1
    <3> QED BY <2>1, <3>1, <3>2, Zenon DEF Accepted, OverrunOnlyLastString
  <2> QED BY <2>10, <2>11, <2>12, <2>13, Zenon DEF ParseInv
<1> QED BY <1>1, <1>2

LEMMA ReadsList ==
  ASSUME ParseInv, pc # "done", parse_list, UNCHANGED <<entry, input>>
  PROVE  ParseInv'
<1>1. "MissingListStart" # "none"
  OBVIOUS
<1> QED BY <1>1, OpensCall DEF parse_list

LEMMA ReadsDictionary ==
  ASSUME ParseInv, pc # "done", parse_dictionary, UNCHANGED <<entry, input>>
  PROVE  ParseInv'
<1>1. "MissingDictionaryStart" # "none"
  OBVIOUS
<1> QED BY <1>1, OpensCall DEF parse_dictionary

LEMMA ClosesCall == ParseInv /\ CloseCall => ParseInv'
<1> SUFFICES ASSUME ParseInv, CloseCall PROVE ParseInv'
  OBVIOUS
<1> DEFINE top == Last(stack)
           e == Element(top.id, top.start, current + 1, top.start + 1, current, top.items)
<1>1. pc # "done" /\ stack # <<>> /\ top.key = <<>> /\ UNCHANGED <<entry, input>>
  BY DEF CloseCall, LoopEnds, AtLoopHead
<1>2. CASE has_data
  <2>1. Char = "e" /\ Return(Front(stack), e)
    BY <1>2, Zenon DEF CloseCall, LoopEnds
  <2>2. current \in Nat /\ Len(input) \in Nat /\ current < Len(input) /\ input[current + 1] = "e"
    BY <1>2, <2>1, AtElement DEF Char, has_data
  <2>3. PICK T : Closed(T) /\ elements \in Seq(T) /\ stack \in Seq(Calls(T))
    BY DEF ParseInv
  <2>4. /\ Front(stack) \in Seq(Calls(T)) /\ top \in Calls(T)
        /\ Placed(Front(stack), top.start) /\ CallSpelled(top)
        /\ SideBySide(top.items \o top.key, top.start + 1, current)
    BY <1>1, <2>3, AtElement, FrontPlaced
  <2> HIDE DEF top
  <2>5. /\ e.id = top.id /\ e.start = top.start /\ e.end = current + 1
        /\ e.from = top.start + 1 /\ e.to = current /\ e.items = top.items
    BY DEF Element
  <2>6. top.id \in {"List", "Dictionary"} /\ top.items \in Seq(T)
    BY <2>4 DEF Calls
  <2> HIDE DEF e
  <2>7. top.items \o top.key = top.items
    BY <1>1, <2>6, EmptyTail, Zenon
  <2>8. Spelled(e)
    <3>1. e.id # "Integer" /\ e.id # "String"
      BY <2>5, <2>6
    <3>2. input[e.start + 1] = IF e.id = "List" THEN "l" ELSE "d"
      BY <2>4, <2>5, Zenon DEF CallSpelled
    <3>3. e.from = e.start + 1 /\ SideBySide(e.items, e.from, e.to)
      BY <2>4, <2>5, <2>7, Zenon
    <3>4. e.id = "Dictionary" =>
            Len(e.items) % 2 = 0 /\ \A k \in DOMAIN e.items : k % 2 = 1 => IsKey(e.items[k])
      BY <2>4, <2>5, Zenon DEF CallSpelled, KeysAtOdd
    <3>5. input[e.to + 1] = "e" /\ e.end = e.to + 1
      BY <2>2, <2>5, Zenon
    <3> QED BY <3>1, <3>2, <3>3, <3>4, <3>5, Zenon DEF Spelled
  <2>9. ToSet(e.items) \subseteq T
    BY <2>5, <2>6, ToSetIn
  <2>10. e.end \in Nat /\ e.end <= Len(input)
    BY <2>2, <2>5
  <2>11. Placed(Front(stack), e.start) /\ Return(Front(stack), e)
    BY <2>1, <2>4, <2>5, Zenon
  <2> QED BY <1>1, <2>3, <2>4, <2>8, <2>9, <2>10, <2>11, Returns
<1>3. CASE ~has_data
  <2>1. Fail("MissingListEnd") \/ Fail("MissingDictionaryEnd")
    BY <1>3, Zenon DEF CloseCall
  <2>2. "MissingListEnd" # "none" /\ "MissingDictionaryEnd" # "none"
    OBVIOUS
  <2> QED BY <1>1, <2>1, <2>2, Fails
<1> QED BY <1>2, <1>3

LEMMA ReadsElement == ParseInv /\ parse_element => ParseInv'
<1> SUFFICES ASSUME ParseInv, parse_element PROVE ParseInv'
  OBVIOUS
<1>1. pc # "done" /\ UNCHANGED <<entry, input>>
  BY DEF parse_element
<1>2. CASE ~has_data
  <2>1. Fail("UnexpectedEnd")
    <3>1. Char # "i" /\ Char # "l" /\ Char # "d"
      BY <1>2 DEF Char
    <3> QED BY <1>2, <3>1, Zenon DEF parse_element
  <2>2. "UnexpectedEnd" # "none"
    OBVIOUS
  <2> QED BY <1>1, <2>1, <2>2, Fails
<1>3. CASE has_data
  <2>1. parse_integer \/ parse_list \/ parse_dictionary \/ parse_string
    BY <1>3 DEF parse_element
  <2>2. current <= Len(input)
    BY <1>3, AtElement DEF has_data
  <2> QED BY <1>1, <2>1, <2>2, ReadsInteger, ReadsString, ReadsList, ReadsDictionary
<1> QED BY <1>2, <1>3

LEMMA Starts == ParseInv /\ Start => ParseInv'
<1> SUFFICES ASSUME ParseInv, Start PROVE ParseInv'
  OBVIOUS
<1>1. pc = "start" /\ pc # "done" /\ UNCHANGED <<entry, input>> /\ current <= Len(input)
  <2>1. pc = "start" /\ UNCHANGED <<entry, input>>
    BY Zenon DEF Start
  <2>2. current = 0
    BY <2>1 DEF ParseInv
  <2> QED BY <2>1, <2>2, AtElement
<1>2. entry \in {"Parse", "ParseString", "ParseInteger", "ParseList", "ParseDictionary"}
  BY BencodeAssumption DEF ParseInv
<1>3. CASE parse_integer \/ parse_string \/ parse_list \/ parse_dictionary
  BY <1>1, <1>3, ReadsInteger, ReadsString, ReadsList, ReadsDictionary
<1>4. CASE pc' = "element" /\ UNCHANGED <<current, stack, elements, error>>
  <2>1. stack' = <<>> /\ elements' = <<>> /\ current' = 0
    BY <1>1, <1>4 DEF ParseInv
  <2>2. entry' \in Entries /\ input' \in Seq(STRING) /\ current' \in Nat
    BY <1>1, <2>1 DEF ParseInv
  <2>3. \E T : Closed(T)' /\ elements' \in Seq(T) /\ stack' \in Seq(Calls(T))
    BY <1>1, <1>4, SameInput, Zenon DEF ParseInv
  <2>4. Placed(stack, current)'
    <3>1. UNCHANGED <<input, elements>> /\ Placed(stack', current')
      BY <1>1, <1>4, AtElement, Zenon
    <3> QED BY <3>1, SameResult, Zenon
  <2>5. /\ pc' # "start" /\ ~Accepted' /\ OverrunOnlyLastString'
        /\ \A k \in DOMAIN elements' : elements'[k].end <= Len(input')
    <3>1. pc' # "start" /\ pc' # "done"
      BY <1>4
    <3>2. \A k \in DOMAIN elements : elements[k].end <= Len(input)
      BY <1>1, Zenon DEF ParseInv
    <3> QED BY <1>1, <1>4, <3>1, <3>2, Zenon DEF Accepted, OverrunOnlyLastString
  <2> QED BY <2>2, <2>3, <2>4, <2>5, Zenon DEF ParseInv
<1>5. \/ parse_integer \/ parse_string \/ parse_list \/ parse_dictionary
      \/ pc' = "element" /\ UNCHANGED <<current, stack, elements, error>>
  BY <1>2 DEF Start
<1> QED BY <1>3, <1>4, <1>5, Zenon

LEMMA Initially == Init => ParseInv
<1> SUFFICES ASSUME Init PROVE ParseInv
  OBVIOUS
<1>1. entry \in Entries /\ input \in Seq(STRING) /\ current \in Nat
  BY BencodeAssumption DEF Init
<1>2. /\ stack = <<>> /\ elements = <<>> /\ current = 0 /\ pc = "start" /\ ~Accepted
      /\ DOMAIN stack = {} /\ DOMAIN elements = {}
  BY DEF Init, Accepted
<1>3. Closed({}) /\ elements \in Seq({}) /\ stack \in Seq(Calls({}))
  <2>1. <<>> \in Seq({}) /\ <<>> \in Seq(Calls({}))
    OBVIOUS
  <2>2. Closed({})
    BY Zenon DEF Closed
  <2> QED BY <1>2, <2>1, <2>2, Zenon
<1>4. Placed(stack, current)
  <2>1. SideBySide(elements, 0, 0)
    BY <1>2, NoneSideBySide, Zenon
  <2> QED BY <1>2, <2>1, Zenon DEF Placed, Tiles
<1> QED BY <1>1, <1>2, <1>3, <1>4, Zenon DEF ParseInv, OverrunOnlyLastString

LEMMA Stutters == ParseInv /\ UNCHANGED vars => ParseInv'
<1> SUFFICES ASSUME ParseInv, UNCHANGED vars PROVE ParseInv'
  OBVIOUS
<1>1. UNCHANGED <<entry, input, current, stack, pc, elements, error>>
  BY DEF vars
<1>2. \E T : Closed(T)' /\ elements' \in Seq(T) /\ stack' \in Seq(Calls(T))
  BY <1>1, SameInput, Zenon DEF ParseInv
<1>3. Placed(stack, current)'
  <2>1. UNCHANGED <<input, elements>> /\ Placed(stack', current')
    BY <1>1, AtElement, Zenon
  <2> QED BY <2>1, SameResult, Zenon
<1>4. OverrunOnlyLastString' /\ (Accepted' <=> Accepted)
  BY <1>1, Zenon DEF ParseInv, OverrunOnlyLastString, Accepted
<1> QED BY <1>1, <1>2, <1>3, <1>4, Zenon DEF ParseInv

-----------------------------------------------------------------------------
(* What is left of a tree that spells the input.                           *)

Parts(c) == c.items \o c.key

\* The call c has read the beginning of e.
Follows(c, e) ==
  /\ c.id = e.id /\ c.start = e.start
  /\ Len(Parts(c)) <= Len(e.items)
  /\ \A n \in 1 .. Len(Parts(c)) : Parts(c)[n] = e.items[n]

\* The element that comes below the k-th call, which reads path[k].
Due(calls, path, root, k, e) ==
  IF k = 0 THEN e = root
  ELSE Len(Parts(calls[k])) < Len(path[k].items) /\ e = path[k].items[Len(Parts(calls[k])) + 1]

\* The calls read the elements of a path down from root.
On(path, calls, T, root) ==
  /\ path \in Seq(T) /\ Len(path) = Len(calls)
  /\ \A k \in 1 .. Len(calls) :
       Follows(calls[k], path[k]) /\ Due(calls, path, root, k - 1, path[k])

LEMMA OnFront ==
  ASSUME NEW C, NEW calls \in Seq(C), calls # <<>>, NEW path, NEW T, NEW root,
         On(path, calls, T, root)
  PROVE  /\ Len(calls) \in Nat /\ Len(Front(calls)) = Len(calls) - 1
         /\ On(Front(path), Front(calls), T, root)
         /\ path[Len(calls)] \in T /\ Follows(Last(calls), path[Len(calls)])
         /\ Due(Front(calls), Front(path), root, Len(calls) - 1, path[Len(calls)])
<1> DEFINE n == Len(calls)
           f == Front(calls)
           g == Front(path)
<1>1. n \in Nat /\ n # 0 /\ n \in 1 .. n
  BY SeqDomain, EmptyIffNoLength
<1>2. path \in Seq(T) /\ Len(path) = n
  BY DEF On
<1>3. Len(f) = n - 1 /\ \A k \in 1 .. n - 1 : f[k] = calls[k]
  BY <1>1, FrontIs
<1>4. g \in Seq(T) /\ Len(g) = n - 1 /\ \A k \in 1 .. n - 1 : g[k] = path[k]
  BY <1>1, <1>2, FrontIs
<1>5. path[n] \in T /\ Last(calls) = calls[n]
  BY <1>1, <1>2 DEF Last
<1> HIDE DEF n, f, g
<1>6. ASSUME NEW k \in 1 .. n
      PROVE  Follows(calls[k], path[k]) /\ Due(f, g, root, k - 1, path[k])
  <2>1. Follows(calls[k], path[k]) /\ Due(calls, path, root, k - 1, path[k])
    BY Zenon DEF On, n
  <2>2. k - 1 # 0 => k - 1 \in 1 .. n - 1
    BY <1>1
  <2>3. k - 1 # 0 => f[k - 1] = calls[k - 1] /\ g[k - 1] = path[k - 1]
    BY <2>2, <1>3, <1>4, Zenon
  <2> QED BY <2>1, <2>3, Zenon DEF Due
<1>7. On(g, f, T, root)
  <2>1. \A k \in 1 .. n - 1 : k \in 1 .. n
    BY <1>1
  <2> QED BY <2>1, <1>3, <1>4, <1>6, Zenon DEF On
<1>8. n \in 1 .. n
  BY <1>1
<1> QED BY <1>1, <1>3, <1>5, <1>6, <1>7, <1>8, Zenon DEF n, f, g

LEMMA OnMore ==
  ASSUME NEW C, NEW calls \in Seq(C), NEW c \in C, NEW path, NEW T, NEW root,
         On(path, calls, T, root), NEW e \in T, Follows(c, e),
         Due(calls, path, root, Len(calls), e)
  PROVE  On(Append(path, e), Append(calls, c), T, root)
<1> DEFINE n == Len(calls)
           f == Append(calls, c)
           g == Append(path, e)
<1>1. n \in Nat
  BY SeqDomain
<1>2. path \in Seq(T) /\ Len(path) = n
  BY DEF On
<1>3. Len(f) = n + 1 /\ f[n + 1] = c /\ \A k \in 1 .. n : f[k] = calls[k]
  BY <1>1
<1>4. g \in Seq(T) /\ Len(g) = n + 1 /\ g[n + 1] = e /\ \A k \in 1 .. n : g[k] = path[k]
  BY <1>1, <1>2
<1> HIDE DEF n, f, g
<1>5. ASSUME NEW k \in 1 .. n + 1
      PROVE  Follows(f[k], g[k]) /\ Due(f, g, root, k - 1, g[k])
  <2>1. k - 1 # 0 => k - 1 \in 1 .. n
    BY <1>1
  <2>2. k - 1 # 0 => f[k - 1] = calls[k - 1] /\ g[k - 1] = path[k - 1]
    BY <2>1, <1>3, <1>4, Zenon
  <2>3. CASE k = n + 1
    <3>1. k - 1 = n
      BY <2>3, <1>1
    <3>2. Due(calls, path, root, k - 1, e)
      BY <3>1, Zenon DEF n
    <3> QED BY <2>2, <2>3, <3>2, <1>3, <1>4, Zenon DEF Due
  <2>4. CASE k # n + 1
    <3>1. k \in 1 .. n
      BY <2>4, <1>1
    <3>2. f[k] = calls[k] /\ g[k] = path[k]
      BY <3>1, <1>3, <1>4, Zenon
    <3>3. Follows(calls[k], path[k]) /\ Due(calls, path, root, k - 1, path[k])
      BY <3>1, Zenon DEF On, n
    <3> QED BY <2>2, <3>2, <3>3, Zenon DEF Due
  <2> QED BY <2>3, <2>4
<1>6. On(g, f, T, root)
  BY <1>3, <1>4, <1>5, Zenon DEF On
<1> QED BY <1>6 DEF f, g

\* The call on top has read one element more.
LEMMA FollowsMore ==
  ASSUME NEW U, NEW top, NEW c, Parts(top) \in Seq(U),
         NEW x, NEW e, Follows(top, x), c.id = top.id, c.start = top.start,
         Longer(Parts(top), e, Parts(c)), Len(x.items) \in Nat,
         Len(Parts(top)) < Len(x.items), e = x.items[Len(Parts(top)) + 1]
  PROVE  Follows(c, x)
<1> DEFINE m == Len(Parts(top))
<1>1. m \in Nat /\ Len(Parts(c)) = m + 1
  BY SeqDomain DEF Longer
<1>2. ASSUME NEW k \in 1 .. m + 1 PROVE Parts(c)[k] = x.items[k]
  <2>1. CASE k = m + 1
    BY <2>1 DEF Longer
  <2>2. CASE k # m + 1
    <3>1. k \in 1 .. m
      BY <2>2, <1>1
    <3> QED BY <3>1, Zenon DEF Longer, Follows
  <2> QED BY <2>1, <2>2
<1>3. m + 1 <= Len(x.items)
  BY <1>1
<1> HIDE DEF m
<1> QED BY <1>1, <1>2, <1>3, Zenon DEF Follows

\* No digit is one of the characters the parser looks for.
LEMMA DigitsAre == \A d \in Digits : d \notin {"i", "l", "d", "e", ":", "-"}
<1> SUFFICES ASSUME NEW d \in Digits PROVE d \notin {"i", "l", "d", "e", ":", "-"}
  OBVIOUS
<1>1. PICK i \in DOMAIN DigitChars : DigitChars[i] = d
  BY DEF Digits, ToSet
<1>2. i \in 1 .. 10
  BY DEF DigitChars
<1>3. d \in {"0", "1", "2", "3", "4", "5", "6", "7", "8", "9"}
  BY <1>1, <1>2 DEF DigitChars
<1> QED BY <1>3

\* Digits end where something else begins.
LEMMA DigitsEndAt ==
  ASSUME Len(input) \in Nat, NEW p \in 0 .. Len(input), NEW q \in p .. Len(input),
         AllDigits(p, q), q < Len(input), input[q + 1] \notin Digits
  PROVE  DigitsEnd(p) = q
<1> DEFINE r == DigitsEnd(p)
<1>1. r \in p .. Len(input) /\ AllDigits(p, r) /\ (r < Len(input) => input[r + 1] \notin Digits)
  BY DigitsEndIs
<1> HIDE DEF r
<1>2. ~(r < q)
  <2> SUFFICES ASSUME r < q PROVE FALSE
    OBVIOUS
  <2>1. r + 1 \in p + 1 .. q /\ r < Len(input)
    BY <1>1
  <2> QED BY <1>1, <2>1, Zenon DEF AllDigits
<1>3. ~(q < r)
  <2> SUFFICES ASSUME q < r PROVE FALSE
    OBVIOUS
  <2>1. q + 1 \in p + 1 .. r
    BY <1>1
  <2> QED BY <1>1, <2>1, Zenon DEF AllDigits
<1>4. r = q
  BY <1>1, <1>2, <1>3
<1> QED BY <1>4 DEF r

\* What an element of such a tree is.
LEMMA InTree ==
  ASSUME NEW T, NEW root, Spells(T, root), Len(input) \in Nat, NEW e \in T
  PROVE  /\ e.id \in {"Integer", "String", "List", "Dictionary"}
         /\ e.start \in 0 .. Len(input) /\ e.end \in 0 .. Len(input)
         /\ e.from \in 0 .. Len(input) /\ e.to \in 0 .. Len(input)
         /\ e.items \in Seq(T) /\ Len(e.items) \in Nat /\ e.start < e.end
         /\ e = Element(e.id, e.start, e.end, e.from, e.to, e.items)
         /\ Spelled(e)
<1> DEFINE P == 0 .. Len(input)
<1>1. /\ e \in [id : {"Integer", "String", "List", "Dictionary"}, start : P,
               end : P, from : P, to : P, items : Seq(T)]
      /\ Spelled(e) /\ e.start < e.end
  BY Zenon DEF Spells
<1> HIDE DEF P
<1>2. /\ e.id \in {"Integer", "String", "List", "Dictionary"}
      /\ e.start \in P /\ e.end \in P /\ e.from \in P /\ e.to \in P /\ e.items \in Seq(T)
      /\ e = Element(e.id, e.start, e.end, e.from, e.to, e.items)
  BY <1>1 DEF Element
<1>3. Len(e.items) \in Nat
  BY <1>2, SeqDomain
<1> QED BY <1>1, <1>2, <1>3 DEF P

\* An element begins with a character that is no e.
LEMMA BeginsWell ==
  ASSUME NEW T, NEW root, Spells(T, root), Len(input) \in Nat, NEW e \in T
  PROVE  /\ e.start < Len(input) /\ input[e.start + 1] # "e"
         /\ e.id = "Integer" => input[e.start + 1] = "i"
         /\ e.id = "List" => input[e.start + 1] = "l"
         /\ e.id = "Dictionary" => input[e.start + 1] = "d"
         /\ e.id = "String" => input[e.start + 1] \in Digits
<1>1. /\ e.id \in {"Integer", "String", "List", "Dictionary"} /\ Spelled(e)
      /\ e.start \in 0 .. Len(input) /\ e.end \in 0 .. Len(input) /\ e.from \in 0 .. Len(input)
      /\ e.start < e.end
  BY InTree
<1>2. e.start < Len(input)
  BY <1>1
<1>3. CASE e.id = "Integer"
  <2>1. input[e.start + 1] = "i"
    BY <1>1, <1>3, Zenon DEF Spelled
  <2> QED BY <1>2, <1>3, <2>1
<1>4. CASE e.id = "String"
  <2>1. e.start < e.from - 1 /\ AllDigits(e.start, e.from - 1)
    <3>1. e.id # "Integer"
      BY <1>4
    <3> QED BY <1>1, <1>4, <3>1, Zenon DEF Spelled
  <2>2. e.start + 1 \in e.start + 1 .. e.from - 1
    BY <1>1, <2>1
  <2>3. input[e.start + 1] \in Digits
    BY <2>1, <2>2, Zenon DEF AllDigits
  <2>4. input[e.start + 1] # "e"
    BY <2>3, DigitsAre
  <2> QED BY <1>2, <1>4, <2>3, <2>4
<1>5. CASE e.id \in {"List", "Dictionary"}
  <2>1. e.id # "Integer" /\ e.id # "String"
    BY <1>5
  <2>2. input[e.start + 1] = IF e.id = "List" THEN "l" ELSE "d"
    BY <1>1, <2>1, Zenon DEF Spelled
  <2> QED BY <1>2, <1>5, <2>2
<1> QED BY <1>1, <1>3, <1>4, <1>5

-----------------------------------------------------------------------------
(* What comes next.                                                        *)

\* The parse of a tree is under way, below path.
AtTree(T, root, path) ==
  /\ ParseInv /\ Spells(T, root) /\ entry \in {"Parse", EntryOf[root.id]}
  /\ pc # "done" /\ error = "none" /\ elements = <<>>
  /\ On(path, stack, T, root)

\* The call on top and what it reads.
LEMMA AtTop ==
  ASSUME NEW T, NEW root, NEW path, AtTree(T, root, path), stack # <<>>
  PROVE  LET n == Len(stack)
             x == path[n]
             parts == Parts(stack[n])
         IN /\ n \in Nat /\ n # 0 /\ n \in DOMAIN stack /\ Last(stack) = stack[n]
            /\ x \in T /\ Follows(stack[n], x) /\ Len(x.items) \in Nat /\ Len(parts) \in Nat
            /\ stack[n].id \in {"List", "Dictionary"}
            /\ current = IF Len(parts) = 0 THEN x.start + 1 ELSE x.items[Len(parts)].end
            /\ x.from = x.start + 1 /\ SideBySide(x.items, x.from, x.to)
            /\ x.id = "Dictionary" => Len(x.items) % 2 = 0 /\ KeysAtOdd(x.items)
            /\ input[x.to + 1] = "e" /\ x.end = x.to + 1
            /\ \E U : parts \in Seq(U)
<1> DEFINE n == Len(stack)
           x == path[n]
           parts == Parts(stack[n])
<1>1. ParseInv /\ Spells(T, root) /\ On(path, stack, T, root) /\ Len(input) \in Nat
  BY AtElement DEF AtTree
<1>2. PICK U : stack \in Seq(Calls(U))
  BY <1>1 DEF ParseInv
<1>3. n \in Nat /\ n # 0 /\ n \in DOMAIN stack /\ n \in 1 .. n /\ stack[n] \in Calls(U)
  BY <1>2, SeqDomain, EmptyIffNoLength
<1>4. Last(stack) = stack[n]
  BY DEF Last
<1> HIDE DEF n
<1>5. x \in T /\ Follows(stack[n], x)
  <2>1. path \in Seq(T) /\ Len(path) = n
    BY <1>1, Zenon DEF On, n
  <2>2. path[n] \in T
    BY <1>3, <2>1, SeqDomain
  <2> QED BY <1>1, <1>3, <2>2, Zenon DEF On, n
<1> HIDE DEF x
<1>6. parts \in Seq(U) /\ Len(parts) \in Nat /\ (parts = <<>> <=> Len(parts) = 0)
      /\ stack[n].id \in {"List", "Dictionary"}
  <2>1. stack[n].items \in Seq(U) /\ stack[n].key \in Seq(U) /\ stack[n].id \in {"List", "Dictionary"}
    BY <1>3 DEF Calls
  <2>2. parts \in Seq(U)
    BY <2>1, ConcatOf, Zenon DEF Parts
  <2> HIDE DEF parts
  <2> QED BY <2>1, <2>2, SeqDomain, EmptyIffNoLength
<1>7. current = IF Len(parts) = 0 THEN x.start + 1 ELSE x.items[Len(parts)].end
  <2>1. SideBySide(parts, stack[n].start + 1, current)
    <3>1. ~(n < Len(stack))
      BY <1>3 DEF n
    <3> QED BY <1>1, <1>3, <3>1, Zenon DEF ParseInv, Placed, Tiles, Parts
  <2> HIDE DEF parts
  <2>2. current = IF parts = <<>> THEN stack[n].start + 1 ELSE parts[Len(parts)].end
    BY <2>1, Zenon DEF SideBySide, Last
  <2>3. stack[n].start = x.start /\ \A k \in 1 .. Len(parts) : parts[k] = x.items[k]
    BY <1>5, Zenon DEF Follows, parts
  <2>4. Len(parts) # 0 => Len(parts) \in 1 .. Len(parts)
    BY <1>6
  <2> QED BY <1>6, <2>2, <2>3, <2>4, Zenon
<1>8. Spelled(x) /\ Len(x.items) \in Nat
  BY <1>1, <1>5, InTree
<1>9. x.id = stack[n].id /\ x.id # "Integer" /\ x.id # "String"
  BY <1>5, <1>6 DEF Follows
<1>10. /\ x.from = x.start + 1 /\ SideBySide(x.items, x.from, x.to)
       /\ x.id = "Dictionary" => Len(x.items) % 2 = 0 /\ KeysAtOdd(x.items)
       /\ input[x.to + 1] = "e" /\ x.end = x.to + 1
  BY <1>8, <1>9, Zenon DEF Spelled, KeysAtOdd
<1> HIDE DEF parts
<1> QED BY <1>3, <1>4, <1>5, <1>6, <1>7, <1>8, <1>10, Zenon DEF n, x, parts

\* The element that comes next begins at the current position.
LEMMA NextElement ==
  ASSUME NEW T, NEW root, NEW path, AtTree(T, root, path),
         NEW e, Due(stack, path, root, Len(stack), e)
  PROVE  /\ e \in T /\ e.start = current /\ current < Len(input) /\ current \in Nat
         /\ ~LoopEnds /\ has_data /\ Char = input[current + 1]
<1>1. ParseInv /\ Spells(T, root) /\ Len(input) \in Nat /\ elements = <<>> /\ current \in Nat
  BY AtElement DEF AtTree
<1>2. stack = <<>> <=> Len(stack) = 0
  BY <1>1, EmptyIffNoLength DEF ParseInv
<1>3. e \in T /\ e.start = current
  <2>1. CASE stack = <<>>
    <3>1. e = root /\ e \in T /\ e.start = 0
      BY <1>1, <1>2, <2>1, Zenon DEF Due, Spells
    <3>2. SideBySide(elements, 0, current)
      BY <1>1, <2>1, Zenon DEF ParseInv, Placed
    <3>3. current = 0
      BY <1>1, <3>2, Zenon DEF SideBySide
    <3> QED BY <3>1, <3>3
  <2>2. CASE stack # <<>>
    <3> DEFINE n == Len(stack)
               x == path[n]
               m == Len(Parts(stack[n]))
    <3>1. /\ x \in T /\ Len(x.items) \in Nat /\ m \in Nat
          /\ current = IF m = 0 THEN x.start + 1 ELSE x.items[m].end
          /\ x.from = x.start + 1 /\ SideBySide(x.items, x.from, x.to)
      BY <2>2, AtTop, Zenon
    <3>2. m < Len(x.items) /\ e = x.items[m + 1]
      BY <1>2, <2>2, Zenon DEF Due
    <3>3. x.items \in Seq(T)
      BY <1>1, <3>1, InTree
    <3> HIDE DEF n, x, m
    <3>4. m + 1 \in DOMAIN x.items /\ m + 1 \in 1 .. Len(x.items) /\ (m + 1 = 1 <=> m = 0) /\ m + 1 - 1 = m
      BY <3>1, <3>2, <3>3, SeqDomain
    <3>5. e \in T
      BY <3>2, <3>3, <3>4, SeqDomain
    <3>6. /\ m = 0 => x.items[m + 1].start = x.from
          /\ m # 0 => x.items[m + 1].start = x.items[m].end
      <4>1. \A j \in DOMAIN x.items :
              /\ j = 1 => x.items[j].start = x.from
              /\ j # 1 => x.items[j].start = x.items[j - 1].end
        BY <3>1, Zenon DEF SideBySide
      <4> DEFINE j == m + 1
      <4>2. j \in DOMAIN x.items /\ (j = 1 <=> m = 0) /\ j - 1 = m
        BY <3>1, <3>4
      <4> HIDE DEF j
      <4>3. /\ m = 0 => x.items[j].start = x.from
            /\ m # 0 => x.items[j].start = x.items[m].end
        BY <4>1, <4>2, Zenon
      <4> QED BY <4>3 DEF j
    <3> QED BY <3>1, <3>2, <3>4, <3>5, <3>6, Zenon
  <2> QED BY <2>1, <2>2
<1>4. current < Len(input) /\ input[current + 1] # "e"
  BY <1>1, <1>3, BeginsWell
<1>5. has_data /\ Char = input[current + 1]
  BY <1>4, Zenon DEF has_data, Char
<1> QED BY <1>1, <1>3, <1>4, <1>5, Zenon DEF LoopEnds

\* There is one, or the call on top has read all and meets its e.
LEMMA WhatIsNext ==
  ASSUME NEW T, NEW root, NEW path, AtTree(T, root, path)
  PROVE  \/ \E e : Due(stack, path, root, Len(stack), e)
         \/ /\ stack # <<>> /\ LoopEnds /\ has_data
            /\ LET x == path[Len(stack)]
               IN /\ x.to = current /\ x.end = current + 1 /\ x.from = x.start + 1
                  /\ Len(Parts(Last(stack))) = Len(x.items)
<1>1. ParseInv /\ Spells(T, root) /\ Len(input) \in Nat /\ current \in Nat
  BY AtElement DEF AtTree
<1>2. stack = <<>> <=> Len(stack) = 0
  BY <1>1, EmptyIffNoLength DEF ParseInv
<1>3. CASE stack = <<>>
  BY <1>2, <1>3, Zenon DEF Due
<1>4. CASE stack # <<>>
  <2> DEFINE n == Len(stack)
             x == path[n]
             top == stack[n]
             m == Len(Parts(top))
  <2>1. /\ x \in T /\ Len(x.items) \in Nat /\ m \in Nat /\ n \in DOMAIN stack
        /\ Last(stack) = top /\ Follows(top, x) /\ top.id \in {"List", "Dictionary"}
        /\ current = IF m = 0 THEN x.start + 1 ELSE x.items[m].end
        /\ x.from = x.start + 1 /\ SideBySide(x.items, x.from, x.to)
        /\ x.id = "Dictionary" => Len(x.items) % 2 = 0 /\ KeysAtOdd(x.items)
        /\ input[x.to + 1] = "e" /\ x.end = x.to + 1
    BY <1>4, AtTop, Zenon
  <2>2. CASE m < Len(x.items)
    BY <1>2, <1>4, <2>2, Zenon DEF Due
  <2>3. CASE ~(m < Len(x.items))
    <3>1. CallSpelled(top)
      BY <1>1, <2>1, Zenon DEF ParseInv, Placed
    <3>2. PICK U : top \in Calls(U)
      <4>1. PICK U : stack \in Seq(Calls(U))
        BY <1>1 DEF ParseInv
      <4>2. top \in Calls(U)
        BY <4>1, <2>1, SeqDomain
      <4> QED BY <4>2
    <3> HIDE DEF n, x, top
    <3>3. m = Len(x.items)
      BY <2>1, <2>3 DEF Follows
    <3>4. top.key = <<>>
      <4> SUFFICES ASSUME top.key # <<>> PROVE FALSE
        OBVIOUS
      <4>1. top.id = "Dictionary" /\ Len(top.key) = 1 /\ Len(top.items) % 2 = 0
        BY <3>1, Zenon DEF CallSpelled
      <4>2. x.id = "Dictionary"
        BY <2>1, <4>1, Zenon DEF Follows
      <4>3. top.items \in Seq(U) /\ top.key \in Seq(U)
        BY <3>2 DEF Calls
      <4>4. m = Len(top.items) + 1 /\ Len(top.items) \in Nat
        <5>1. Len(top.items \o top.key) = Len(top.items) + Len(top.key) /\ Len(top.items) \in Nat
          BY <4>3, ConcatOf, SeqDomain
        <5> QED BY <4>1, <5>1 DEF Parts
      <4> DEFINE l == Len(top.items)
      <4>5. l \in Nat /\ l % 2 = 0 /\ (l + 1) % 2 = 0
        <5>1. Len(x.items) % 2 = 0 /\ Len(x.items) = l + 1
          BY <2>1, <3>3, <4>2, <4>4, Zenon
        <5> QED BY <4>1, <4>4, <5>1
      <4> HIDE DEF l
      <4> QED BY <4>5
    <3>5. x.to = current
      <4>1. x.items \in Seq(T)
        BY <1>1, <2>1, InTree
      <4>2. x.items = <<>> <=> Len(x.items) = 0
        BY <4>1, EmptyIffNoLength, Zenon
      <4> QED BY <2>1, <3>3, <4>2, Zenon DEF SideBySide, Last
    <3>6. current < Len(input)
      <4>1. x.end \in 0 .. Len(input)
        BY <1>1, <2>1, InTree
      <4> QED BY <1>1, <2>1, <3>5, <4>1
    <3>7. has_data /\ Char = "e"
      BY <2>1, <3>5, <3>6, Zenon DEF has_data, Char
    <3>8. LoopEnds
      BY <1>4, <2>1, <3>4, <3>7, Zenon DEF LoopEnds, AtLoopHead
    <3> QED BY <1>4, <2>1, <3>3, <3>5, <3>7, <3>8, Zenon DEF n, x, top
  <2> QED BY <2>2, <2>3
<1> QED BY <1>3, <1>4

LEMMA OddAfterEven ==
  ASSUME NEW m \in Nat, m % 2 = 0
  PROVE  (m + 1) % 2 = 1
OBVIOUS

\* All has been right so far.
TreeAhead(T, root) ==
  /\ error = "none"
  /\ IF pc = "done" THEN elements = <<root>>
     ELSE elements = <<>> /\ \E path : On(path, stack, T, root)

\* The element that comes next is returned.
LEMMA ReturnsDue ==
  ASSUME NEW T, NEW root, NEW above, AtTree(T, root, above),
         NEW U, NEW calls \in Seq(Calls(U)), \A k \in DOMAIN calls : CallSpelled(calls[k]),
         NEW path, On(path, calls, T, root),
         NEW e \in T, Due(calls, path, root, Len(calls), e),
         Return(calls, e), UNCHANGED <<entry, input>>
  PROVE  TreeAhead(T, root)'
<1>1. ParseInv /\ Spells(T, root) /\ Len(input) \in Nat /\ error = "none" /\ elements = <<>>
  BY AtElement DEF AtTree
<1>2. calls = <<>> <=> Len(calls) = 0
  BY EmptyIffNoLength
<1>3. CASE calls = <<>>
  <2>1. e = root /\ e.end = Len(input)
    BY <1>1, <1>2, <1>3, Zenon DEF Due, Spells
  <2>2. ~(e.end < Len(input))
    BY <1>1, <2>1
  <2>3. elements' = Append(elements, e) /\ pc' = "done" /\ error' = error
    BY <1>3, <2>2, Zenon DEF Return
  <2>4. Append(<<>>, root) = <<root>>
    OBVIOUS
  <2> QED BY <1>1, <2>1, <2>3, <2>4, Zenon DEF TreeAhead
<1>4. CASE calls # <<>>
  <2> DEFINE n == Len(calls)
             top == Last(calls)
             x == path[n]
             m == Len(Parts(top))
             V == U \union {e}
  <2>1. n \in Nat /\ n # 0 /\ n \in DOMAIN calls /\ top = calls[n] /\ top \in Calls(U) /\ CallSpelled(top)
    <3>1. n \in Nat /\ n # 0 /\ n \in DOMAIN calls /\ calls[n] \in Calls(U)
      BY <1>2, <1>4, SeqDomain
    <3> QED BY <3>1, Zenon DEF Last
  <2>2. /\ Len(Front(calls)) = n - 1
        /\ On(Front(path), Front(calls), T, root)
        /\ x \in T /\ Follows(top, x)
        /\ Due(Front(calls), Front(path), root, n - 1, x)
    BY <1>4, OnFront, Zenon
  <2>3. m < Len(x.items) /\ e = x.items[m + 1]
    BY <1>2, <1>4, <2>1, Zenon DEF Due
  <2>4. /\ top.items \in Seq(U) /\ top.key \in Seq(U)
        /\ top.id \in {"List", "Dictionary"} /\ Parts(top) \in Seq(U) /\ m \in Nat
    <3>1. top.items \in Seq(U) /\ top.key \in Seq(U) /\ top.id \in {"List", "Dictionary"}
      BY <2>1 DEF Calls
    <3>2. Parts(top) \in Seq(U)
      BY <3>1, ConcatOf, Zenon DEF Parts
    <3> QED BY <3>1, <3>2, SeqDomain
  <2>5. x.items \in Seq(T) /\ Len(x.items) \in Nat /\ Spelled(x)
    BY <1>1, <2>2, InTree
  <2> HIDE DEF n, top, x, m
  <2>6. ExpectsKey(top) => IsKey(e)
    <3> SUFFICES ASSUME ExpectsKey(top) PROVE IsKey(e)
      OBVIOUS
    <3>1. top.id = "Dictionary" /\ x.id = "Dictionary" /\ top.key = <<>>
      BY <2>2, Zenon DEF ExpectsKey, Follows
    <3>2. Len(top.items) % 2 = 0 /\ Parts(top) = top.items
      <4>1. top.items \o <<>> = top.items
        BY <2>4, EmptyTail
      <4> QED BY <2>1, <3>1, <4>1, Zenon DEF CallSpelled, Parts
    <3>3. m % 2 = 0
      BY <3>2 DEF m
    <3>4. KeysAtOdd(x.items)
      <4>1. x.id # "Integer" /\ x.id # "String"
        BY <3>1
      <4> QED BY <2>5, <3>1, <4>1, Zenon DEF Spelled, KeysAtOdd
    <3>5. (m + 1) % 2 = 1 /\ m + 1 \in DOMAIN x.items
      <4>1. (m + 1) % 2 = 1
        BY <2>4, <3>3, OddAfterEven, Zenon
      <4>2. DOMAIN x.items = 1 .. Len(x.items)
        BY <2>5, SeqDomain
      <4>3. m + 1 \in 1 .. Len(x.items)
        BY <2>3, <2>4, <2>5
      <4> QED BY <4>1, <4>2, <4>3, Zenon
    <3> QED BY <2>3, <3>4, <3>5, Zenon DEF KeysAtOdd
  <2>7. stack' = Append(Front(calls), Returned(top, e)) /\ pc' = "element"
        /\ elements' = elements /\ error' = error
    <3>1. ~(ExpectsKey(top) /\ ~IsKey(e))
      BY <2>6, Zenon
    <3> QED BY <1>4, <3>1, Zenon DEF Return, ExpectsKey, Returned, top
  <2>8. U \subseteq V /\ e \in V
    OBVIOUS
  <2> HIDE DEF V
  <2>9. Seq(U) \subseteq Seq(V)
    BY <2>8, SeqGrows, Zenon
  <2>10. Calls(U) \subseteq Calls(V)
    BY <2>9 DEF Calls
  <2>11. top \in Calls(V) /\ calls \in Seq(Calls(V))
    <3>1. Seq(Calls(U)) \subseteq Seq(Calls(V))
      BY <2>10, SeqGrows, Zenon
    <3> QED BY <2>1, <2>10, <3>1, Zenon
  <2> DEFINE c == Returned(top, e)
  <2>12. /\ c \in Calls(V) /\ c.start = top.start /\ Longer(Parts(top), e, Parts(c))
         /\ Parts(top) \in Seq(V)
    BY <2>1, <2>6, <2>8, <2>11, CallReturned, Zenon DEF Parts
  <2>13. c.id = top.id
    BY <2>1 DEF Returned, Calls
  <2> HIDE DEF c
  <2>14. Follows(c, x)
    <3>1. m < Len(x.items) /\ Len(Parts(top)) < Len(x.items) /\ e = x.items[Len(Parts(top)) + 1]
      BY <2>3 DEF m
    <3> QED BY <2>2, <2>5, <2>12, <2>13, <3>1, FollowsMore
  <2>15. On(Append(Front(path), x), Append(Front(calls), c), T, root)
    <3>1. Front(calls) \in Seq(Calls(V)) /\ Len(calls) # 0
      BY <1>2, <1>4, <2>11, FrontIs
    <3>2. Due(Front(calls), Front(path), root, Len(Front(calls)), x)
      BY <2>2, Zenon
    <3> QED BY <2>2, <2>12, <2>14, <3>1, <3>2, OnMore
  <2>16. \E p : On(p, stack', T, root)
    BY <2>7, <2>15, Zenon DEF c
  <2>17. pc' # "done"
    BY <2>7
  <2> QED BY <1>1, <2>7, <2>16, <2>17, Zenon DEF TreeAhead
<1> QED BY <1>3, <1>4

LEMMA CallsSpelled ==
  ASSUME ParseInv
  PROVE  \E U : stack \in Seq(Calls(U)) /\ \A k \in DOMAIN stack : CallSpelled(stack[k])
BY Zenon DEF ParseInv, Placed

\* The element that comes next is read and returned.
LEMMA ReturnsNext ==
  ASSUME NEW T, NEW root, NEW path, AtTree(T, root, path),
         NEW e \in T, Due(stack, path, root, Len(stack), e),
         Return(stack, e), UNCHANGED <<entry, input>>
  PROVE  TreeAhead(T, root)'
<1>1. PICK U : stack \in Seq(Calls(U)) /\ \A k \in DOMAIN stack : CallSpelled(stack[k])
  BY CallsSpelled DEF AtTree
<1>2. On(path, stack, T, root)
  BY DEF AtTree
<1> QED BY <1>1, <1>2, ReturnsDue

LEMMA TreeInteger ==
  ASSUME NEW T, NEW root, NEW path, AtTree(T, root, path),
         NEW e, Due(stack, path, root, Len(stack), e), e.id = "Integer",
         parse_integer, UNCHANGED <<entry, input>>
  PROVE  TreeAhead(T, root)'
<1>1. Spells(T, root) /\ Len(input) \in Nat
  BY AtElement DEF AtTree
<1>2. /\ e \in T /\ e.start = current /\ current < Len(input) /\ current \in Nat
      /\ Char = input[current + 1]
  BY NextElement
<1>3. /\ e.from \in 0 .. Len(input) /\ e.to \in 0 .. Len(input) /\ e.end \in 0 .. Len(input)
      /\ e = Element(e.id, e.start, e.end, e.from, e.to, e.items) /\ Spelled(e)
      /\ e.items = <<>>
  <2>1. e.items = <<>>
    BY <1>1, <1>2 DEF Spells
  <2> QED BY <1>1, <1>2, <2>1, InTree
<1>4. /\ input[e.start + 1] = "i" /\ e.from = e.start + 1
      /\ IsInteger(e.from, e.to) /\ AllDigits(AfterSign(e.from), e.to)
      /\ input[e.to + 1] = "e" /\ e.end = e.to + 1
  BY <1>3, Zenon DEF Spelled
<1>5. e.from = current + 1 /\ Char = "i" /\ e.to < Len(input)
  <2>1. e.to < Len(input)
    BY <1>1, <1>3, <1>4
  <2> QED BY <1>2, <1>4, <2>1, Zenon
<1>6. IntegerEnd = e.to
  <2>1. AfterSign(e.from) \in 0 .. Len(input)
    BY <1>1, <1>3 DEF AfterSign
  <2>2. e.to \in AfterSign(e.from) .. Len(input)
    BY <1>1, <1>3, <1>4, <2>1 DEF IsInteger
  <2>3. input[e.to + 1] \notin Digits
    BY <1>4, DigitsAre
  <2>4. DigitsEnd(AfterSign(e.from)) = e.to
    BY <1>1, <1>4, <1>5, <2>1, <2>2, <2>3, DigitsEndAt
  <2> QED BY <1>5, <2>4, Zenon DEF IntegerEnd
<1>7. Return(stack, e)
  <2>1. e = Element("Integer", current, IntegerEnd + 1, current + 1, IntegerEnd, <<>>)
    BY <1>2, <1>3, <1>4, <1>6, Zenon
  <2>2. /\ IntegerEnd < Len(input) /\ input[IntegerEnd + 1] = "e"
        /\ IsInteger(current + 1, IntegerEnd)
    BY <1>4, <1>5, <1>6, Zenon
  <2>3. Return(stack, Element("Integer", current, IntegerEnd + 1, current + 1, IntegerEnd, <<>>))
    BY <1>5, <2>2, Zenon DEF parse_integer
  <2> QED BY <2>1, <2>3, Zenon
<1> QED BY <1>2, <1>7, ReturnsNext

LEMMA TreeString ==
  ASSUME NEW T, NEW root, NEW path, AtTree(T, root, path),
         NEW e, Due(stack, path, root, Len(stack), e), e.id = "String",
         parse_string, UNCHANGED <<entry, input>>
  PROVE  TreeAhead(T, root)'
<1>1. Spells(T, root) /\ Len(input) \in Nat
  BY AtElement DEF AtTree
<1>2. e \in T /\ e.start = current /\ current < Len(input) /\ current \in Nat
  BY NextElement
<1>3. /\ e.from \in 0 .. Len(input) /\ e.to \in 0 .. Len(input) /\ e.end \in 0 .. Len(input)
      /\ e = Element(e.id, e.start, e.end, e.from, e.to, e.items) /\ Spelled(e)
      /\ e.items = <<>> /\ e.to - e.from <= MaxLength
  <2>1. e.items = <<>> /\ e.to - e.from <= MaxLength
    BY <1>1, <1>2 DEF Spells
  <2> QED BY <1>1, <1>2, <2>1, InTree
<1>4. /\ e.start < e.from - 1 /\ AllDigits(e.start, e.from - 1)
      /\ input[e.from] = ":"
      /\ e.to = e.from + Number(SubSeq(input, e.start + 1, e.from - 1)) /\ e.end = e.to
  <2>1. e.id # "Integer"
    OBVIOUS
  <2> QED BY <1>3, <2>1, Zenon DEF Spelled
<1> DEFINE last == e.from - 1
           length == Number(SubSeq(input, current + 1, last))
<1>5. /\ last \in current .. Len(input) /\ last < Len(input) /\ last + 1 = e.from
      /\ current # last /\ current \in 0 .. Len(input)
  BY <1>1, <1>2, <1>3, <1>4
<1>6. DigitsEnd(current) = last
  <2>1. input[last + 1] \notin Digits /\ AllDigits(current, last)
    BY <1>2, <1>4, <1>5, DigitsAre
  <2> HIDE DEF last
  <2> QED BY <1>1, <1>5, <2>1, DigitsEndAt
<1>7. length \in Nat
  <2>1. Number(SubSeq(input, current + 1, DigitsEnd(current))) \in Nat
    BY <1>5, DigitsAt DEF AtTree
  <2> QED BY <1>6, <2>1, Zenon
<1>8. e.to = e.from + length
  BY <1>2, <1>4, Zenon
<1> HIDE DEF length
<1>9. length <= MaxLength /\ length < Len(input)
  <2>1. length = e.to - e.from
    BY <1>3, <1>7, <1>8
  <2> QED BY <1>1, <1>3, <1>4, <1>5, <2>1
<1>10. Return(stack, e)
  <2>1. e = Element("String", current, last + 1 + length, last + 1, last + 1 + length, <<>>)
    BY <1>2, <1>3, <1>4, <1>5, <1>8, Zenon
  <2>2. ~(last = current \/ (last < Len(input) /\ input[last + 1] # ":"))
    BY <1>4, <1>5, Zenon
  <2>3. last # Len(input) /\ ~(length > MaxLength) /\ Fits(last + 1, length)
    BY <1>1, <1>5, <1>7, <1>9, BencodeAssumption DEF Fits
  <2> HIDE DEF last
  <2>4. length = Number(SubSeq(input, current + 1, last))
    BY DEF length
  <2>5. Return(stack, Element("String", current, last + 1 + length, last + 1, last + 1 + length, <<>>))
    BY <1>6, <2>2, <2>3, <2>4, Zenon DEF parse_string
  <2> QED BY <2>1, <2>5, Zenon
<1> QED BY <1>2, <1>10, ReturnsNext

LEMMA TreeOpens ==
  ASSUME NEW T, NEW root, NEW path, AtTree(T, root, path),
         NEW e, Due(stack, path, root, Len(stack), e), NEW id, NEW ch, NEW missing,
         \/ id = "List" /\ ch = "l"
         \/ id = "Dictionary" /\ ch = "d",
         e.id = id, Open(id, ch, missing), UNCHANGED <<entry, input>>
  PROVE  TreeAhead(T, root)'
<1>1. Spells(T, root) /\ Len(input) \in Nat /\ error = "none" /\ elements = <<>> /\ On(path, stack, T, root)
  BY AtElement DEF AtTree
<1>2. e \in T /\ e.start = current /\ Char = input[current + 1] /\ current \in Nat
  BY NextElement
<1>3. Char = ch
  BY <1>1, <1>2, BeginsWell
<1> DEFINE c == Call(id)
<1>4. stack' = Append(stack, c) /\ pc' = "element" /\ UNCHANGED <<elements, error>>
  BY <1>3, Zenon DEF Open
<1>5. PICK U : stack \in Seq(Calls(U))
  BY DEF AtTree, ParseInv
<1>6. /\ c \in Calls(U) /\ c.id = id /\ c.start = current /\ Len(Parts(c)) = 0
  BY <1>2 DEF Call, Calls, Parts
<1> HIDE DEF c
<1>7. Follows(c, e)
  <2>1. Len(e.items) \in Nat
    BY <1>1, <1>2, InTree
  <2>2. Len(Parts(c)) <= Len(e.items) /\ \A k \in 1 .. Len(Parts(c)) : FALSE
    BY <1>6, <2>1
  <2> QED BY <1>2, <1>6, <2>2, Zenon DEF Follows
<1>8. On(Append(path, e), Append(stack, c), T, root)
  BY <1>1, <1>2, <1>5, <1>6, <1>7, OnMore
<1>9. pc' # "done"
  BY <1>4
<1> QED BY <1>1, <1>4, <1>8, <1>9, Zenon DEF TreeAhead

LEMMA TreeCloses ==
  ASSUME NEW T, NEW root, NEW path, AtTree(T, root, path), stack # <<>>, has_data,
         path[Len(stack)].to = current, path[Len(stack)].end = current + 1,
         path[Len(stack)].from = path[Len(stack)].start + 1,
         Len(Parts(Last(stack))) = Len(path[Len(stack)].items),
         CloseCall
  PROVE  TreeAhead(T, root)'
<1> DEFINE n == Len(stack)
           x == path[n]
           top == Last(stack)
           f == Front(stack)
           g == Front(path)
<1>1. ParseInv /\ Spells(T, root) /\ Len(input) \in Nat /\ On(path, stack, T, root)
  BY AtElement DEF AtTree
<1>2. PICK U : stack \in Seq(Calls(U)) /\ \A k \in DOMAIN stack : CallSpelled(stack[k])
  BY <1>1, CallsSpelled
<1>3. /\ n \in Nat /\ Len(f) = n - 1 /\ On(g, f, T, root)
      /\ x \in T /\ Follows(top, x) /\ Due(f, g, root, n - 1, x)
  BY <1>1, <1>2, OnFront, Zenon
<1>4. n # 0 /\ n \in DOMAIN stack /\ top \in Calls(U) /\ top.key = <<>> /\ UNCHANGED <<entry, input>>
  <2>1. n # 0 /\ n \in DOMAIN stack /\ stack[n] \in Calls(U)
    BY <1>2, SeqDomain, EmptyIffNoLength
  <2>2. top.key = <<>> /\ UNCHANGED <<entry, input>>
    BY DEF CloseCall, LoopEnds, AtLoopHead
  <2> QED BY <2>1, <2>2, Zenon DEF Last
<1>5. /\ f \in Seq(Calls(U)) /\ \A k \in 1 .. n - 1 : f[k] = stack[k]
  BY <1>2, <1>4, FrontIs
<1>6. \A k \in DOMAIN f : CallSpelled(f[k])
  <2>1. DOMAIN f = 1 .. n - 1 /\ \A k \in 1 .. n - 1 : k \in DOMAIN stack
    <3>1. DOMAIN f = 1 .. Len(f)
      BY <1>5, SeqDomain
    <3>2. DOMAIN stack = 1 .. n
      BY <1>2, SeqDomain
    <3> HIDE DEF f
    <3> QED BY <1>3, <3>1, <3>2
  <2> QED BY <1>2, <1>5, <2>1, Zenon
<1>7. /\ x.to = current /\ x.end = current + 1 /\ x.from = x.start + 1
      /\ Len(Parts(top)) = Len(x.items)
  OBVIOUS
<1>8. Return(f, Element(top.id, top.start, current + 1, top.start + 1, current, top.items))
  BY Zenon DEF CloseCall
<1> HIDE DEF n, x, f, g, top
<1>9. x = Element(x.id, x.start, x.end, x.from, x.to, x.items) /\ x.items \in Seq(T)
  BY <1>1, <1>3, InTree
<1>10. top.items = x.items
  <2>1. top.items \in Seq(U)
    BY <1>4 DEF Calls
  <2>2. Parts(top) = top.items
    <3>1. top.items \o <<>> = top.items
      BY <2>1, EmptyTail
    <3> QED BY <1>4, <3>1, Zenon DEF Parts
  <2> DEFINE V == U \union T
  <2>3. U \subseteq V /\ T \subseteq V
    OBVIOUS
  <2> HIDE DEF V
  <2>4. top.items \in Seq(V) /\ x.items \in Seq(V)
    BY <1>9, <2>1, <2>3, SeqGrows, Zenon
  <2>5. Len(top.items) = Len(x.items) /\ \A k \in 1 .. Len(top.items) : top.items[k] = x.items[k]
    BY <1>3, <1>7, <2>2, Zenon DEF Follows
  <2> QED BY <2>4, <2>5, SeqEqual
<1>11. Element(top.id, top.start, current + 1, top.start + 1, current, top.items) = x
  <2>1. top.id = x.id /\ top.start = x.start
    BY <1>3, Zenon DEF Follows
  <2> QED BY <1>7, <1>9, <1>10, <2>1, Zenon
<1>12. Due(f, g, root, Len(f), x) /\ Return(f, x)
  BY <1>3, <1>8, <1>11, Zenon
<1> QED BY <1>3, <1>4, <1>5, <1>6, <1>12, ReturnsDue

\* The function for the kind of the element that comes next reads its part.
LEMMA TreeReads ==
  ASSUME NEW T, NEW root, NEW path, AtTree(T, root, path),
         NEW e, Due(stack, path, root, Len(stack), e),
         \/ e.id = "Integer" /\ parse_integer
         \/ e.id = "String" /\ parse_string
         \/ e.id = "List" /\ parse_list
         \/ e.id = "Dictionary" /\ parse_dictionary,
         UNCHANGED <<entry, input>>
  PROVE  TreeAhead(T, root)'
<1>1. CASE e.id = "Integer" /\ parse_integer
  BY <1>1, TreeInteger
<1>2. CASE e.id = "String" /\ parse_string
  BY <1>2, TreeString
<1>3. CASE e.id = "List" /\ parse_list
  BY <1>3, TreeOpens DEF parse_list
<1>4. CASE e.id = "Dictionary" /\ parse_dictionary
  BY <1>4, TreeOpens DEF parse_dictionary
<1> QED BY <1>1, <1>2, <1>3, <1>4

\* parse_element chooses that function.
LEMMA TreeElement ==
  ASSUME NEW T, NEW root, NEW path, AtTree(T, root, path), parse_element
  PROVE  TreeAhead(T, root)'
<1>1. Spells(T, root) /\ Len(input) \in Nat
  BY AtElement DEF AtTree
<1>2. ~LoopEnds /\ UNCHANGED <<entry, input>>
  BY DEF parse_element
<1>3. PICK e : Due(stack, path, root, Len(stack), e)
  BY <1>2, WhatIsNext
<1>4. e \in T /\ e.start = current /\ has_data /\ Char = input[current + 1]
  BY <1>3, NextElement
<1>5. e.id \in {"Integer", "String", "List", "Dictionary"}
  BY <1>1, <1>4, InTree
<1>6. /\ e.id = "Integer" => Char = "i"
      /\ e.id = "List" => Char = "l"
      /\ e.id = "Dictionary" => Char = "d"
      /\ e.id = "String" => Char \in Digits
  BY <1>1, <1>4, BeginsWell
<1>7. e.id = "String" => Char # "i" /\ Char # "l" /\ Char # "d"
  BY <1>6, DigitsAre
<1>8. \/ e.id = "Integer" /\ parse_integer
      \/ e.id = "String" /\ parse_string
      \/ e.id = "List" /\ parse_list
      \/ e.id = "Dictionary" /\ parse_dictionary
  BY <1>4, <1>5, <1>6, <1>7 DEF parse_element
<1> QED BY <1>2, <1>3, <1>8, TreeReads

LEMMA TreeStarts ==
  ASSUME NEW T, NEW root, NEW path, AtTree(T, root, path), Start
  PROVE  TreeAhead(T, root)'
<1>1. /\ ParseInv /\ Spells(T, root) /\ entry \in {"Parse", EntryOf[root.id]}
      /\ On(path, stack, T, root) /\ error = "none" /\ elements = <<>>
  BY DEF AtTree
<1>2. UNCHANGED <<entry, input>> /\ pc = "start"
  BY Zenon DEF Start
<1>3. stack = <<>> /\ Len(stack) = 0
  BY <1>1, <1>2 DEF ParseInv
<1>4. root.id \in {"Integer", "String", "List", "Dictionary"}
  BY <1>1, AtElement, InTree DEF Spells
<1>5. CASE entry = "Parse"
  <2>1. pc' = "element" /\ UNCHANGED <<current, stack, elements, error>>
    BY <1>5 DEF Start
  <2>2. pc' # "done"
    BY <2>1
  <2> QED BY <1>1, <2>1, <2>2, Zenon DEF TreeAhead
<1>6. CASE entry # "Parse"
  <2>1. Due(stack, path, root, Len(stack), root)
    BY <1>3 DEF Due
  <2>2. /\ root.id = "Integer" => entry = "ParseInteger"
        /\ root.id = "String" => entry = "ParseString"
        /\ root.id = "List" => entry = "ParseList"
        /\ root.id = "Dictionary" => entry = "ParseDictionary"
    BY <1>1, <1>6 DEF EntryOf
  <2>3. \/ root.id = "Integer" /\ parse_integer
        \/ root.id = "String" /\ parse_string
        \/ root.id = "List" /\ parse_list
        \/ root.id = "Dictionary" /\ parse_dictionary
    BY <1>4, <2>2 DEF Start
  <2> QED BY <1>2, <2>1, <2>3, TreeReads
<1> QED BY <1>5, <1>6

LEMMA TreeEnds ==
  ASSUME NEW T, NEW root, NEW path, AtTree(T, root, path), CloseCall
  PROVE  TreeAhead(T, root)'
<1>1. LoopEnds
  BY DEF CloseCall
<1>2. ~ \E e : Due(stack, path, root, Len(stack), e)
  BY <1>1, NextElement
<1> QED BY <1>2, WhatIsNext, TreeCloses

\* The input of the parse is spelled by a tree for all of it or not at all.
LEMMA SpellsSame ==
  ASSUME NEW T, NEW root, input' = input
  PROVE  Spells(T, root)' <=> Spells(T, root)
<1>1. \A e : Spelled(e)' <=> Spelled(e)
  BY SameInput
<1> QED BY <1>1, Zenon DEF Spells

\* A tree for the function called is on the way to be the result, or is it.
TreeInv(T, root) ==
  Spells(T, root) /\ entry \in {"Parse", EntryOf[root.id]} => TreeAhead(T, root)

LEMMA TreeInitially == \A T, root : Init => TreeInv(T, root)
<1> SUFFICES ASSUME NEW T, NEW root, Init PROVE TreeAhead(T, root)
  BY Zenon DEF TreeInv
<1>1. On(<<>>, stack, T, root)
  BY DEF On, Init
<1>2. error = "none" /\ elements = <<>> /\ pc # "done"
  BY DEF Init
<1> QED BY <1>1, <1>2, Zenon DEF TreeAhead

LEMMA TreeStep ==
  ASSUME NEW T, NEW root
  PROVE  ParseInv /\ TreeInv(T, root) /\ [Next]_vars => TreeInv(T, root)'
<1> SUFFICES ASSUME ParseInv, TreeInv(T, root), [Next]_vars,
                    Spells(T, root)', entry' \in {"Parse", EntryOf[root.id]}
             PROVE  TreeAhead(T, root)'
  BY Zenon DEF TreeInv
<1>1. UNCHANGED <<entry, input>>
  BY DEF Next, Start, parse_element, CloseCall, Terminated, vars
<1>2. TreeAhead(T, root) /\ Spells(T, root) /\ entry \in {"Parse", EntryOf[root.id]}
  BY <1>1, SpellsSame, Zenon DEF TreeInv
<1>3. CASE UNCHANGED vars
  <2>1. UNCHANGED <<stack, pc, elements, error>>
    BY <1>3 DEF vars
  <2> QED BY <1>2, <2>1, Zenon DEF TreeAhead
<1>4. CASE pc # "done" /\ ~UNCHANGED vars
  <2>1. PICK path : AtTree(T, root, path)
    BY <1>2, <1>4, Zenon DEF TreeAhead, AtTree
  <2>2. Start \/ parse_element \/ CloseCall
    BY <1>4 DEF Next, Terminated
  <2> QED BY <2>1, <2>2, TreeStarts, TreeElement, TreeEnds
<1>5. pc = "done" => UNCHANGED vars
  <2> SUFFICES ASSUME pc = "done" PROVE UNCHANGED vars
    OBVIOUS
  <2>1. ~Start /\ ~parse_element /\ ~CloseCall
    BY Zenon DEF Start, parse_element, CloseCall
  <2> QED BY <2>1 DEF Next, Terminated
<1> QED BY <1>3, <1>4, <1>5

-----------------------------------------------------------------------------
(* The theorems.                                                           *)

\* What the calls under way and the result have read of the input, at every
\* step of every parse of any input.
THEOREM ParseInvariant == Spec => []ParseInv
<1>1. Init => ParseInv
  BY Initially
<1>2. ParseInv /\ [Next]_vars => ParseInv'
  <2> SUFFICES ASSUME ParseInv, [Next]_vars PROVE ParseInv'
    OBVIOUS
  <2>1. CASE Start
    BY <2>1, Starts
  <2>2. CASE parse_element
    BY <2>2, ReadsElement
  <2>3. CASE CloseCall
    BY <2>3, ClosesCall
  <2>4. CASE Terminated \/ UNCHANGED vars
    BY <2>4, Stutters DEF Terminated
  <2> QED BY <2>1, <2>2, <2>3, <2>4 DEF Next
<1> QED BY <1>1, <1>2, PTL DEF Spec

\* Nothing of the input is skipped or read twice (the loops of parse_list and
\* parse_dictionary).
THEOREM InputTiled == Spec => []ItemsTile
<1>1. ParseInv => ItemsTile
  BY Zenon DEF ParseInv, Placed, Tiles, ItemsTile, EndOf
<1> QED BY <1>1, ParseInvariant, PTL

\* Only a string outside of lists and dictionaries may reach over the end of
\* the input (consume_n).
THEOREM NoOtherOverrun == Spec => []OverrunOnlyLastString
<1>1. ParseInv => OverrunOnlyLastString
  BY DEF ParseInv
<1> QED BY <1>1, ParseInvariant, PTL

\* What is accepted spells the result, at every depth: the parser accepts
\* nothing but values, whatever the input.
THEOREM OnlyValuesAccepted == Spec => []OnlyValuesParsed
<1>1. ASSUME ParseInv, Accepted
      PROVE  /\ \A n \in 0 .. Len(input) : \A e \in ElementsAt[n] : Spelled(e)
             /\ SideBySide(elements, 0, current)
  <2>1. PICK T : Closed(T) /\ elements \in Seq(T)
    BY <1>1 DEF ParseInv
  <2>2. \A e \in T : Spelled(e) /\ ToSet(e.items) \subseteq T
    BY <2>1, Zenon DEF Closed
  <2>3. Len(input) \in Nat
    BY <1>1, AtElement
  <2>4. \A n \in 0 .. Len(input) : \A e \in ElementsAt[n] : e \in T
    BY <2>1, <2>2, <2>3, LevelsIn
  <2>5. SideBySide(elements, 0, current)
    BY <1>1, Zenon DEF ParseInv, Placed
  <2> QED BY <2>2, <2>4, <2>5, Zenon
<1>2. ParseInv => OnlyValuesParsed
  BY <1>1, Zenon DEF OnlyValuesParsed
<1> QED BY <1>2, ParseInvariant, PTL

\* The other direction: an input that a tree of values spells is accepted by
\* Parse and by the function for the kind of its root, and the result is that
\* tree, for every input, however the tree nests and whatever its strings hold
\* (an e or a digit in a string ends nothing).
THEOREM TreesAccepted ==
  ASSUME NEW T, NEW root
  PROVE  Spec => []TreeParsed(T, root)
<1>1. Init => TreeInv(T, root)
  BY TreeInitially
<1>2. ParseInv /\ TreeInv(T, root) /\ [Next]_vars => TreeInv(T, root)'
  BY TreeStep
<1>3. TreeInv(T, root) => TreeParsed(T, root)
  BY Zenon DEF TreeInv, TreeParsed, TreeAhead
<1> QED BY <1>1, <1>2, <1>3, ParseInvariant, PTL DEF Spec
=============================================================================
