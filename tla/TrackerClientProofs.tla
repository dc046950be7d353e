------------------------- MODULE TrackerClientProofs -------------------------
(***************************************************************************)
(* The peers found are those the trackers sent, every tracker is asked, and*)
(* a tracker reads from the query what was put in it, for every list of    *)
(* URLs, every hash, every answer and every way an exchange ends.          *)
(***************************************************************************)
EXTENDS TrackerClient, SequenceLemmas

-----------------------------------------------------------------------------
(* The invariant.                                                          *)

HttpAwaits == {"resolve", "connect", "handshake", "write", "status", "headers", "body"}
Lines == {"200", "404", "not_HTTP", "header", "blank", "piece_1", "piece_2"}

RequestTypes ==
  /\ tracker_url_utf8_ \in Urls /\ multi_trackers_ \in Seq(Urls)
  /\ pc \in HttpAwaits \union {"build", "udp", "done"}
  /\ current \in Nat /\ all_peers \in Seq(Nat)
  /\ response \in Seq(Lines) /\ content \in Seq(Lines) /\ stream \in Seq(Lines)

\* The requests are those of the list, and the loop is at one of them.
RequestsInv ==
  IF pc = "build" THEN current = 0 /\ all_peers = <<>>
  ELSE /\ all_infos = build_tracker_requests
       /\ answered \in Seq(SUBSET Nat) /\ Len(answered) = Len(all_infos)
       /\ current \in IF pc = "done" THEN {Len(all_infos)} ELSE 1 .. Len(all_infos)

\* The peers of the trackers before the n-th.
AnsweredBefore(n) == UNION {answered[k] : k \in 1 .. n - 1}

\* Those are collected, and the trackers after the current one have not
\* answered.
CollectedInv ==
  pc \in HttpAwaits \union {"udp"} =>
    /\ ToSet(all_peers) = AnsweredBefore(current)
    /\ \A k \in DOMAIN answered : k > current => answered[k] = {}

\* What was sent is what was dropped, what is kept and what is to come.
Exchanged(sent) ==
  /\ pc = "status" => sent = stream /\ response = <<>>
  /\ pc = "headers" => sent = <<"200">> \o (response \o stream)
  /\ pc = "body" => sent = <<"200", "header", "blank">> \o (content \o stream)

ExchangeInv ==
  /\ pc \in {"resolve", "connect", "handshake", "write", "udp"} => answered[current] = {}
  /\ pc \in {"status", "headers", "body"} =>
       /\ answer \in Answers
       /\ \E sent \in Responses :
            answered[current] = Offered(sent, answer, ending) /\ Exchanged(sent)

RequestInv ==
  /\ RequestTypes /\ RequestsInv /\ CollectedInv /\ ExchangeInv
  /\ OnlyAndAllAnswered

-----------------------------------------------------------------------------
(* Sorting and leaving out what is there twice.                            *)

\* The elements up to the n-th can be sorted: the n-th is put before the
\* first that is above it.
LEMMA SortingExists ==
  ASSUME NEW s \in Seq(Nat), NEW n \in 0 .. Len(s)
  PROVE  \E p \in Bijection(1 .. n, 1 .. n) :
           \A i, j \in 1 .. n : i < j => s[p[i]] <= s[p[j]]
<1>0. Len(s) \in Nat /\ \A i \in 1 .. Len(s) : s[i] \in Nat
  BY SeqDomain
<1> DEFINE Sorts(p, m) ==
             /\ p \in [1 .. m -> 1 .. m]
             /\ \A i, j \in 1 .. m : p[i] = p[j] => i = j
             /\ \A k \in 1 .. m : \E i \in 1 .. m : p[i] = k
             /\ \A i, j \in 1 .. m : i < j => s[p[i]] <= s[p[j]]
           Has(m) == \E p : Sorts(p, m)
           Missing == {m \in 0 .. n : ~Has(m)}
<1> HIDE DEF Has
<1>1. ASSUME Missing # {} PROVE FALSE
  <2>1. PICK m \in Missing : \A k \in Missing : m <= k
    <3>1. Missing \in SUBSET Nat
      OBVIOUS
    <3> HIDE DEF Missing
    <3> QED BY <1>1, <3>1, LeastNumber
  <2>2. m \in 0 .. Len(s) /\ ~Has(m)
    BY <2>1, <1>0
  <2>3. m # 0
    <3>1. Sorts([i \in 1 .. 0 |-> i], 0)
      OBVIOUS
    <3> QED BY <3>1, <2>2 DEF Has
  <2>4. m - 1 \in 0 .. n /\ m - 1 \notin Missing
    BY <2>1, <2>3
  <2>5. PICK p : Sorts(p, m - 1)
    BY <2>4 DEF Has
  \* The place of s[m] among the others.
  <2> DEFINE Above == {i \in 1 .. m : i = m \/ s[p[i]] > s[m]}
  <2>6. PICK q \in Above : \A i \in Above : q <= i
    <3>1. Above \in SUBSET Nat /\ m \in Above
      BY <2>2, <2>3
    <3> HIDE DEF Above
    <3> QED BY <3>1, LeastNumber
  <2> DEFINE r == [i \in 1 .. m |-> IF i < q THEN p[i] ELSE IF i = q THEN m ELSE p[i - 1]]
  <2>7. q \in 1 .. m /\ m \in 1 .. Len(s)
    BY <2>2, <2>3, <2>6
  <2>8. \A i \in 1 .. m - 1 : p[i] \in 1 .. m - 1
    BY <2>5
  <2>8a. \A i, j \in 1 .. m - 1 : p[i] = p[j] => i = j
    BY <2>5, Zenon
  <2>8b. \A k \in 1 .. m - 1 : \E i \in 1 .. m - 1 : p[i] = k
    BY <2>5, Zenon
  <2>8c. \A i, j \in 1 .. m - 1 : i < j => s[p[i]] <= s[p[j]]
    BY <2>5, Zenon
  <2>9. \A i \in 1 .. q - 1 : s[p[i]] <= s[m]
    <3> TAKE i \in 1 .. q - 1
    <3>1. i \in 1 .. m /\ i # m /\ i \notin Above
      BY <2>6, <2>7
    <3>2. i \in 1 .. m - 1
      BY <2>7
    <3> QED BY <3>1, <3>2, <2>7, <2>8, <1>0
  <2>10. \A i \in q .. m - 1 : s[m] <= s[p[i]]
    <3> TAKE i \in q .. m - 1
    <3>1. i \in 1 .. m - 1 /\ q \in 1 .. m - 1
      BY <2>7
    <3>2. s[p[q]] > s[m]
      BY <2>6, <3>1
    <3>3. s[p[q]] <= s[p[i]]
      <4>1. q = i \/ q < i
        BY <3>1
      <4>2. s[p[q]] \in Nat
        BY <3>1, <2>8, <2>7, <1>0
      <4> QED BY <4>1, <4>2, <3>1, <2>8c
    <3>4. p[q] \in 1 .. Len(s) /\ p[i] \in 1 .. Len(s)
      BY <3>1, <2>7, <2>8, <1>0
    <3>5. s[p[q]] \in Nat /\ s[p[i]] \in Nat /\ s[m] \in Nat
      BY <3>4, <2>7, <1>0
    <3> HIDE DEF Sorts, r, Above
    <3> QED BY <3>2, <3>3, <3>5
  <2> HIDE DEF Above, Sorts
  <2>11. r \in [1 .. m -> 1 .. m]
    <3> DEFINE R(i) == IF i < q THEN p[i] ELSE IF i = q THEN m ELSE p[i - 1]
    <3>1. m \in 1 .. m /\ \A k \in 1 .. m - 1 : k \in 1 .. m
      BY <2>7
    <3>2. \A i \in 1 .. m : \/ i < q /\ i \in 1 .. m - 1
                            \/ ~(i < q) /\ i = q
                            \/ ~(i < q) /\ i # q /\ i - 1 \in 1 .. m - 1
      BY <2>7
    <3>3. \A i \in 1 .. m : R(i) \in 1 .. m
      BY <2>8, <3>1, <3>2, Zenon
    <3> HIDE DEF R
    <3>4. r = [i \in 1 .. m |-> R(i)]
      BY Zenon DEF R, r
    <3> QED BY <3>3, <3>4, Zenon
  <2>12. \A i \in 1 .. m : /\ i < q => r[i] = p[i] /\ i \in 1 .. m - 1
                           /\ i = q => r[i] = m
                           /\ i > q => r[i] = p[i - 1] /\ i - 1 \in 1 .. m - 1
    BY <2>7
  <2> HIDE DEF r
  <2>13. ASSUME NEW i \in 1 .. m, NEW j \in 1 .. m, r[i] = r[j] PROVE i = j
    <3> DEFINE Back(k) == IF k < q THEN k ELSE k - 1
    <3>1. ASSUME NEW k \in 1 .. m, k # q
          PROVE  Back(k) \in 1 .. m - 1 /\ r[k] = p[Back(k)] /\ r[k] # m
      <4>1. Back(k) \in 1 .. m - 1 /\ r[k] = p[Back(k)]
        BY <2>12, <3>1, <2>7
      <4> QED BY <4>1, <2>8
    <3>2. i = q <=> j = q
      BY <3>1, <2>12, <2>13
    <3>3. CASE i # q
      <4>1. Back(i) = Back(j)
        <5> HIDE DEF Back
        <5> QED BY <3>1, <3>2, <3>3, <2>8a, <2>13
      <4> QED BY <4>1, <3>2, <3>3, <2>7
    <3> QED BY <3>2, <3>3
  <2>14. ASSUME NEW k \in 1 .. m PROVE \E i \in 1 .. m : r[i] = k
    <3>1. CASE k = m
      BY <3>1, <2>7, <2>12
    <3>2. CASE k # m
      <4>1. k \in 1 .. m - 1
        BY <3>2, <2>7
      <4>2. PICK i \in 1 .. m - 1 : p[i] = k
        BY <4>1, <2>8b
      <4>3. CASE i < q
        <5>1. i \in 1 .. m
          BY <2>7
        <5>2. r[i] = k
          BY <5>1, <4>2, <4>3, <2>12
        <5> QED BY <5>1, <5>2
      <4>4. CASE ~(i < q)
        <5>1. i + 1 \in 1 .. m /\ i + 1 > q /\ (i + 1) - 1 = i
          BY <4>4, <2>7
        <5> QED BY <5>1, <4>2, <2>12
      <4> QED BY <4>3, <4>4
    <3> QED BY <3>1, <3>2
  <2>15. ASSUME NEW i \in 1 .. m, NEW j \in 1 .. m, i < j PROVE s[r[i]] <= s[r[j]]
    <3>1. CASE j < q
      <4>1. r[i] = p[i] /\ r[j] = p[j] /\ i \in 1 .. m - 1 /\ j \in 1 .. m - 1
        BY <3>1, <2>15, <2>12, <2>7
      <4> QED BY <4>1, <2>15, <2>8c
    <3>2. CASE j = q
      <4>1. i \in 1 .. q - 1 /\ r[i] = p[i] /\ r[j] = m
        BY <3>2, <2>15, <2>12, <2>7
      <4> QED BY <4>1, <2>9
    <3>3. CASE j > q /\ i < q
      <4>1. r[i] = p[i] /\ r[j] = p[j - 1] /\ i \in 1 .. m - 1 /\ j - 1 \in 1 .. m - 1 /\ i < j - 1
        BY <3>3, <2>12, <2>7
      <4> QED BY <4>1, <2>8c
    <3>4. CASE j > q /\ i = q
      <4>1. r[i] = m /\ r[j] = p[j - 1] /\ j - 1 \in q .. m - 1
        BY <3>4, <2>12, <2>7
      <4> QED BY <4>1, <2>10
    <3>5. CASE j > q /\ i > q
      <4>1. r[i] = p[i - 1] /\ r[j] = p[j - 1] /\ i - 1 \in 1 .. m - 1 /\ j - 1 \in 1 .. m - 1
            /\ i - 1 < j - 1
        BY <3>5, <2>15, <2>12, <2>7
      <4> QED BY <4>1, <2>8c
    <3> QED BY <3>1, <3>2, <3>3, <3>4, <3>5, <2>7, <2>15
  <2>16. Sorts(r, m)
    BY <2>11, <2>13, <2>14, <2>15 DEF Sorts
  <2> QED BY <2>2, <2>16 DEF Has
<1>2. PICK p : Sorts(p, n)
  <2>1. n \in 0 .. n
    BY <1>0
  <2> QED BY <1>1, <2>1 DEF Has
<1>3. p \in Bijection(1 .. n, 1 .. n)
  <2>1. p \in [1 .. n -> 1 .. n] /\ DOMAIN p = 1 .. n
    BY <1>2
  <2>2. IsInjective(p)
    BY <1>2, <2>1, Zenon DEF IsInjective
  <2>3. \A k \in 1 .. n : \E i \in 1 .. n : p[i] = k
    BY <1>2, Zenon
  <2> HIDE DEF Sorts
  <2> QED BY <2>1, <2>2, <2>3, Zenon DEF Bijection, Injection, Surjection
<1> QED BY <1>2, <1>3

Rises(s) == \A i, j \in 1 .. Len(s) : i < j => s[i] <= s[j]

LEMMA SortedIs ==
  ASSUME NEW s \in Seq(Nat)
  PROVE  /\ Sorted(s) \in Seq(Nat) /\ Rises(Sorted(s))
         /\ ToSet(Sorted(s)) = ToSet(s)
<1> DEFINE n == Len(s)
           InOrder(p) == \A i, j \in DOMAIN s : i < j => s[p[i]] <= s[p[j]]
           order == CHOOSE p \in Bijection(DOMAIN s, DOMAIN s) : InOrder(p)
<1>1. n \in Nat /\ DOMAIN s = 1 .. n /\ \A k \in 1 .. n : s[k] \in Nat
  BY SeqDomain
<1>2. order \in Bijection(1 .. n, 1 .. n) /\ InOrder(order)
  <2>1. n \in 0 .. Len(s)
    BY <1>1
  <2>2. \E p \in Bijection(1 .. n, 1 .. n) : InOrder(p)
    BY <1>1, <2>1, SortingExists, Zenon
  <2> HIDE DEF n, InOrder
  <2> QED BY <2>2, <1>1, Zenon
<1>3. Sorted(s) = [k \in 1 .. n |-> s[order[k]]]
  BY <1>1, Zenon DEF Sorted
<1> HIDE DEF order
<1>4. order \in [1 .. n -> 1 .. n] /\ \A k \in 1 .. n : \E i \in 1 .. n : order[i] = k
  BY <1>2 DEF Bijection, Injection, Surjection
<1> DEFINE t == Sorted(s)
<1>5. t \in Seq(Nat) /\ Len(t) = n /\ DOMAIN t = 1 .. n /\ \A k \in 1 .. n : t[k] = s[order[k]]
  <2> HIDE DEF n
  <2>1. \A k \in 1 .. n : s[order[k]] \in Nat
    BY <1>1, <1>4
  <2> QED BY <1>1, <1>3, <2>1
<1> HIDE DEF t, n
<1>6. Rises(t)
  BY <1>1, <1>2, <1>5 DEF Rises
<1>7. ToSet(t) = ToSet(s)
  <2>1. ToSet(t) \subseteq ToSet(s)
    BY <1>1, <1>4, <1>5 DEF ToSet
  <2>2. ASSUME NEW k \in 1 .. n PROVE s[k] \in ToSet(t)
    <3>1. PICK i \in 1 .. n : order[i] = k
      BY <1>4
    <3>2. t[i] = s[k]
      BY <3>1, <1>5
    <3> QED BY <3>2, <1>5 DEF ToSet
  <2> QED BY <1>1, <2>1, <2>2 DEF ToSet
<1> QED BY <1>5, <1>6, <1>7 DEF t

LEMMA UniqueIs ==
  ASSUME NEW s \in Seq(Nat), Rises(s)
  PROVE  /\ Unique(s) \in Seq(Nat) /\ IsInjective(Unique(s))
         /\ ToSet(Unique(s)) = ToSet(s)
<1> DEFINE u == [k \in DOMAIN s |-> IF k > 1 /\ s[k] = s[k - 1] THEN <<>> ELSE <<s[k]>>]
           Numbers == Seq(Nat)
           n == Len(s)
<1>1. n \in Nat /\ DOMAIN s = 1 .. n /\ \A k \in 1 .. n : s[k] \in Nat
  BY SeqDomain
<1>2. /\ u \in Seq(Numbers) /\ Len(u) = n
      /\ \A k \in 1 .. n : u[k] = IF k > 1 /\ s[k] = s[k - 1] THEN <<>> ELSE <<s[k]>>
  <2>1. \A k \in 1 .. n : <<s[k]>> \in Numbers /\ <<>> \in Numbers
    BY <1>1
  <2> HIDE DEF Numbers, n
  <2>2. u \in [1 .. n -> Numbers]
    BY <1>1, <2>1
  <2> QED BY <1>1, <2>2, FunctionIsSeq
<1>3. Unique(s) = FlattenSeq(u)
  BY DEF Unique
<1> HIDE DEF u
<1>4. u \in Seq(Seq(Nat))
  BY <1>2
<1>5. FlattenSeq(u) \in Seq(Nat)
  BY <1>4, FlattenInSeq, Zenon
<1>6. ToSet(FlattenSeq(u)) = ToSet(s)
  <2>1. \A x : x \in ToSet(FlattenSeq(u)) <=> \E k \in 1 .. n : x \in ToSet(u[k])
    BY <1>2, <1>4, FlattenElements
  <2>2. \A k \in 1 .. n : ToSet(u[k]) = IF k > 1 /\ s[k] = s[k - 1] THEN {} ELSE {s[k]}
    BY <1>2, ToSetNone, ToSetOne
  <2>3. ASSUME NEW i \in 1 .. n PROVE \E k \in 1 .. n : ToSet(u[k]) = {s[i]}
    <3> DEFINE S == {k \in 1 .. n : s[k] = s[i]}
    <3>1. S \in SUBSET Nat /\ i \in S
      OBVIOUS
    <3>2. PICK k \in S : \A j \in S : k <= j
      <4> HIDE DEF S
      <4> QED BY <3>1, LeastNumber
    <3>3. k \in 1 .. n /\ s[k] = s[i] /\ ~(k > 1 /\ s[k] = s[k - 1])
      <4>1. ASSUME k > 1, s[k] = s[k - 1] PROVE FALSE
        <5>1. k - 1 \in S
          BY <4>1, <3>2, <1>1
        <5> HIDE DEF S
        <5> QED BY <5>1, <3>1, <3>2
      <4> QED BY <4>1, <3>2
    <3> QED BY <2>2, <3>3
  <2>4. ASSUME NEW x \in ToSet(s) PROVE \E k \in 1 .. n : x \in ToSet(u[k])
    <3>1. PICK i \in 1 .. n : x = s[i]
      BY <1>1 DEF ToSet
    <3> QED BY <3>1, <2>3
  <2>5. ASSUME NEW x, NEW k \in 1 .. n, x \in ToSet(u[k]) PROVE x \in ToSet(s)
    <3>1. x = s[k]
      BY <2>2, <2>5
    <3> QED BY <3>1, <1>1 DEF ToSet
  <2> QED BY <2>1, <2>4, <2>5
<1>7. IsInjective(FlattenSeq(u))
  <2>1. CASE u = <<>>
    BY <2>1, FlattenEmpty DEF IsInjective
  <2>2. CASE u # <<>>
    <3> DEFINE f == Flattening(u)
    <3>1. /\ Len(u) \in Nat \ {0} /\ FlattenSeq(u) = f[Len(u)]
          /\ f[1] = u[1]
          /\ \A i \in 2 .. Len(u) : f[i] = f[i - 1] \o u[i]
          /\ \A i \in 1 .. Len(u) : f[i] \in Seq(Nat)
      BY <1>4, <2>2, FlatteningStep, Zenon
    <3> HIDE DEF f
    <3> DEFINE Climbs(i) == /\ \A a, b \in 1 .. Len(f[i]) : a < b => f[i][a] < f[i][b]
                            /\ \A a \in 1 .. Len(f[i]) : f[i][a] <= s[i]
               Bad == {i \in 1 .. n : ~Climbs(i)}
    <3>2. ASSUME Bad # {} PROVE FALSE
      <4>1. PICK i \in Bad : \A k \in Bad : i <= k
        <5>1. Bad \in SUBSET Nat
          <6> HIDE DEF Climbs
          <6> QED BY <1>1
        <5> HIDE DEF Bad
        <5> QED BY <5>1, <3>2, LeastNumber
      <4>2. i \in 1 .. n /\ ~Climbs(i)
        <5> HIDE DEF Climbs
        <5> QED BY <4>1
      <4>3. CASE i = 1
        <5>1. f[1] = <<s[1]>> /\ s[1] \in Nat
          <6>1. 1 \in 1 .. n /\ ~(1 > 1)
            BY <4>2, <4>3
          <6>2. u[1] = <<s[1]>> /\ s[1] \in Nat
            BY <6>1, <1>2, <1>1
          <6> QED BY <6>2, <3>1
        <5>2. Climbs(1)
          BY <5>1
        <5> QED BY <4>2, <4>3, <5>2
      <4>4. CASE i # 1
        <5>1. i - 1 \in 1 .. n /\ i - 1 \notin Bad /\ i \in 2 .. n
          <6> HIDE DEF Climbs
          <6> QED BY <4>1, <4>2, <4>4, <1>1
        <5>2. Climbs(i - 1)
          <6> HIDE DEF Climbs
          <6> QED BY <5>1
        <5> DEFINE g == f[i - 1]
                   h == f[i]
        <5>3. g \in Seq(Nat) /\ h = g \o u[i]
          BY <5>1, <1>2, <3>1
        <5>4. /\ \A a, b \in 1 .. Len(g) : a < b => g[a] < g[b]
              /\ \A a \in 1 .. Len(g) : g[a] <= s[i - 1]
          BY <5>2
        <5>5. s[i - 1] <= s[i] /\ s[i - 1] \in Nat /\ s[i] \in Nat
          BY <5>1, <1>1 DEF Rises
        <5>6. ~(/\ \A a, b \in 1 .. Len(h) : a < b => h[a] < h[b]
                /\ \A a \in 1 .. Len(h) : h[a] <= s[i])
          BY <4>2
        <5> HIDE DEF g, h, Climbs
        <5>7. Len(g) \in Nat /\ \A a \in 1 .. Len(g) : g[a] \in Nat
          BY <5>3, SeqDomain
        <5>8. CASE s[i] = s[i - 1]
          <6>1. u[i] = <<>>
            <7>1. i > 1
              BY <5>1
            <7> QED BY <7>1, <5>8, <4>2, <1>2
          <6>2. h = g
            BY <5>3, <6>1, ConcatEmptySeq, Zenon
          <6> QED BY <6>2, <5>4, <5>6, <5>8
        <5>9. CASE s[i] # s[i - 1]
          <6>1. u[i] = <<s[i]>>
            BY <5>9, <4>2, <1>2
          <6>2. Len(h) = Len(g) + 1 /\ \A a \in 1 .. Len(h) : h[a] = IF a <= Len(g) THEN g[a] ELSE s[i]
            <7> DEFINE x == s[i]
            <7>1. h = g \o <<x>> /\ x \in Nat
              BY <5>3, <5>5, <6>1
            <7> HIDE DEF x
            <7>2. h = Append(g, x)
              BY <5>3, <7>1, AppendIsConcat
            <7>3. /\ Len(h) = Len(g) + 1 /\ \A a \in 1 .. Len(g) : h[a] = g[a]
                  /\ h[Len(g) + 1] = x
              BY <5>3, <7>1, <7>2, AppendProperties
            <7>4. Len(h) = Len(g) + 1 /\ \A a \in 1 .. Len(h) : h[a] = IF a <= Len(g) THEN g[a] ELSE x
              BY <7>3, <5>7
            <7> QED BY <7>4 DEF x
          <6>3. s[i - 1] < s[i]
            BY <5>5, <5>9
          <6>4. \A a \in 1 .. Len(g) : h[a] = g[a] /\ g[a] < s[i]
            BY <6>2, <6>3, <5>4, <5>5, <5>7
          <6>5. h[Len(g) + 1] = s[i] /\ \A a \in 1 .. Len(h) : a \in 1 .. Len(g) \/ a = Len(g) + 1
            BY <6>2, <5>7
          <6>6. ASSUME NEW a \in 1 .. Len(h), NEW b \in 1 .. Len(h), a < b PROVE h[a] < h[b]
            <7>1. a \in 1 .. Len(g)
              BY <6>2, <6>6, <5>7
            <7> QED BY <7>1, <6>4, <6>5, <6>6, <5>4
          <6>7. ASSUME NEW a \in 1 .. Len(h) PROVE h[a] <= s[i]
            BY <6>4, <6>5, <5>5, <5>7
          <6> QED BY <6>6, <6>7, <5>6
        <5> QED BY <5>8, <5>9
      <4> QED BY <4>3, <4>4
    <3> HIDE DEF Climbs
    <3>3. Climbs(n) /\ f[n] \in Seq(Nat)
      BY <3>1, <3>2, <1>2, <1>1
    <3>4. \A a, b \in 1 .. Len(f[n]) : a < b => f[n][a] < f[n][b]
      BY <3>3 DEF Climbs
    <3>5. DOMAIN f[n] = 1 .. Len(f[n]) /\ \A a \in 1 .. Len(f[n]) : f[n][a] \in Nat
      BY <3>3, SeqDomain
    <3>6. IsInjective(f[n])
      BY <3>4, <3>5 DEF IsInjective
    <3> QED BY <3>1, <3>6, <1>2
  <2> QED BY <2>1, <2>2
<1> QED BY <1>3, <1>5, <1>6, <1>7

LEMMA RemoveDuplicatesIs ==
  ASSUME NEW s \in Seq(Nat)
  PROVE  /\ RemoveDuplicates(s) \in Seq(Nat) /\ IsInjective(RemoveDuplicates(s))
         /\ ToSet(RemoveDuplicates(s)) = ToSet(s)
<1>1. Sorted(s) \in Seq(Nat) /\ Rises(Sorted(s)) /\ ToSet(Sorted(s)) = ToSet(s)
  BY SortedIs
<1> QED BY <1>1, UniqueIs, Zenon DEF RemoveDuplicates

-----------------------------------------------------------------------------
(* The requests.                                                           *)

Requests == UNION {build_from_one(url) : url \in Urls}

LEMMA SetToSeqNone == SetToSeq({}) = <<>>
<1>1. Cardinality({}) = 0
  BY FS_EmptySet
<1>2. 1 .. 0 = {}
  OBVIOUS
<1>3. \A f \in [1 .. 0 -> {}] : f = <<>>
  BY <1>2
<1>4. <<>> \in [1 .. 0 -> {}] /\ IsInjective(<<>>)
  BY <1>2 DEF IsInjective
<1> QED BY <1>1, <1>3, <1>4 DEF SetToSeq

LEMMA SetToSeqOne ==
  ASSUME NEW q
  PROVE  SetToSeq({q}) = <<q>>
<1>1. Cardinality({q}) = 1
  BY FS_Singleton
<1>2. 1 .. 1 = {1}
  OBVIOUS
<1>3. \A f \in [1 .. 1 -> {q}] : f = <<q>>
  BY <1>2
<1>4. <<q>> \in [1 .. 1 -> {q}] /\ IsInjective(<<q>>)
  BY <1>2 DEF IsInjective
<1> QED BY <1>1, <1>3, <1>4 DEF SetToSeq

\* A URL gives one request or none.
LEMMA OneRequest ==
  ASSUME NEW url
  PROVE  build_from_one(url) = {} \/ \E q : build_from_one(url) = {q}
BY DEF build_from_one, build_http_request, build_udp_request

LEMMA RequestSeq ==
  ASSUME NEW url \in Urls
  PROVE  /\ SetToSeq(build_from_one(url)) \in Seq(Requests)
         /\ ToSet(SetToSeq(build_from_one(url))) = build_from_one(url)
<1> DEFINE B == build_from_one(url)
<1>1. B \subseteq Requests
  BY DEF Requests
<1>2. B = {} \/ \E q : B = {q}
  BY OneRequest
<1> HIDE DEF B
<1>3. CASE B = {}
  BY <1>3, SetToSeqNone, ToSetNone, EmptySeq DEF B
<1>4. ASSUME NEW q, B = {q} PROVE SetToSeq(B) \in Seq(Requests) /\ ToSet(SetToSeq(B)) = B
  <2>1. SetToSeq(B) = <<q>> /\ q \in Requests
    BY <1>1, <1>4, SetToSeqOne
  <2> QED BY <2>1, <1>4, ToSetOne
<1> QED BY <1>2, <1>3, <1>4 DEF B

\* The requests built are those of the URLs asked.
LEMMA RequestsBuilt ==
  ASSUME tracker_url_utf8_ \in Urls, multi_trackers_ \in Seq(Urls)
  PROVE  /\ build_tracker_requests \in Seq(Requests)
         /\ \A k \in DOMAIN Asked : build_from_one(Asked[k]) \subseteq ToSet(build_tracker_requests)
<1> DEFINE n == Len(Asked)
           s == [k \in DOMAIN Asked |-> SetToSeq(build_from_one(Asked[k]))]
           Elements == Seq(Requests)
<1>1. n \in Nat /\ DOMAIN Asked = 1 .. n /\ \A k \in 1 .. n : Asked[k] \in Urls
  <2>1. Asked \in Seq(Urls)
    BY DEF Asked
  <2> QED BY <2>1, SeqDomain
<1>2. \A k \in 1 .. n : /\ SetToSeq(build_from_one(Asked[k])) \in Elements
                        /\ ToSet(SetToSeq(build_from_one(Asked[k]))) = build_from_one(Asked[k])
  BY <1>1, RequestSeq, Zenon
<1>3. /\ s \in Seq(Elements) /\ Len(s) = n
      /\ \A k \in 1 .. n : ToSet(s[k]) = build_from_one(Asked[k])
  <2> HIDE DEF Elements, n
  <2>1. s \in [1 .. n -> Elements] /\ \A k \in 1 .. n : s[k] = SetToSeq(build_from_one(Asked[k]))
    BY <1>1, <1>2
  <2> HIDE DEF s
  <2> QED BY <1>1, <1>2, <2>1, FunctionIsSeq
<1>4. build_tracker_requests = FlattenSeq(s)
  BY DEF build_tracker_requests
<1> HIDE DEF s, n
<1>5. s \in Seq(Seq(Requests))
  BY <1>3
<1>6. FlattenSeq(s) \in Seq(Requests)
  BY <1>5, FlattenInSeq, Zenon
<1>7. \A x : x \in ToSet(FlattenSeq(s)) <=> \E k \in 1 .. n : x \in ToSet(s[k])
  BY <1>3, <1>5, FlattenElements
<1> QED BY <1>1, <1>3, <1>4, <1>6, <1>7

-----------------------------------------------------------------------------
(* Exchanges.                                                              *)

\* What the first lines of an answer can be.
LooksSent(sent) ==
  /\ sent \in Seq(Lines)
  /\ \A k \in 4 .. Len(sent) : sent[k] \in {"piece_1", "piece_2"}
  /\ Len(sent) >= 2 => \/ sent[2] = "blank" /\ (Len(sent) >= 3 => sent[3] = "piece_1")
                       \/ sent[2] = "header" /\ (Len(sent) >= 3 => sent[3] = "blank")

LEMMA BodyIs == Body \in Seq(Lines) /\ Len(Body) = 2 /\ Body[1] = "piece_1" /\ Body[2] = "piece_2"
BY DEF Body, Lines

LEMMA PrefixLooksSent ==
  ASSUME NEW whole, LooksSent(whole), NEW sent \in Prefixes(whole)
  PROVE  LooksSent(sent)
<1>1. PICK n \in 0 .. Len(whole) : sent = SubSeq(whole, 1, n)
  BY DEF Prefixes
<1>2. /\ whole \in Seq(Lines)
      /\ \A k \in 4 .. Len(whole) : whole[k] \in {"piece_1", "piece_2"}
      /\ Len(whole) >= 2 => \/ whole[2] = "blank" /\ (Len(whole) >= 3 => whole[3] = "piece_1")
                            \/ whole[2] = "header" /\ (Len(whole) >= 3 => whole[3] = "blank")
  BY DEF LooksSent
<1>3. Len(whole) \in Nat /\ \A k \in 1 .. n : whole[k] \in Lines
  <2>1. Len(whole) \in Nat /\ \A k \in 1 .. Len(whole) : whole[k] \in Lines
    BY <1>2, SeqDomain, Zenon
  <2> QED BY <2>1
<1>4. sent \in Seq(Lines) /\ Len(sent) = n /\ \A k \in 1 .. n : sent[k] = whole[k]
  BY <1>1, <1>3, SubSeqProperties
<1>5. n >= 2 => n \in Nat /\ 2 \in 1 .. n /\ sent[2] = whole[2]
  BY <1>4
<1>6. n >= 3 => n \in Nat /\ 3 \in 1 .. n /\ sent[3] = whole[3]
  BY <1>4
<1>7. \A k \in 4 .. n : sent[k] = whole[k] /\ k \in 4 .. Len(whole)
  BY <1>4, <1>3
<1>8. \A k \in 4 .. Len(sent) : sent[k] \in {"piece_1", "piece_2"}
  BY <1>2, <1>4, <1>7
<1>9. Len(sent) >= 2 => \/ sent[2] = "blank" /\ (Len(sent) >= 3 => sent[3] = "piece_1")
                        \/ sent[2] = "header" /\ (Len(sent) >= 3 => sent[3] = "blank")
  BY <1>2, <1>3, <1>4, <1>5, <1>6
<1> QED BY <1>4, <1>8, <1>9 DEF LooksSent

LEMMA ResponseLooksSent ==
  ASSUME NEW sent \in Responses
  PROVE  LooksSent(sent)
<1>1. PICK status \in {"200", "404", "not_HTTP"} :
        \/ sent \in Prefixes(<<status, "blank">> \o Body)
        \/ sent \in Prefixes(<<status, "header", "blank">> \o Body)
  BY DEF Responses
<1>2. status \in Lines /\ "header" \in Lines /\ "blank" \in Lines
  BY DEF Lines
<1> DEFINE short == <<status, "blank">>
           long == <<status, "header", "blank">>
<1>3. /\ short \in Seq(Lines) /\ Len(short) = 2 /\ short[2] = "blank"
      /\ long \in Seq(Lines) /\ Len(long) = 3 /\ long[2] = "header" /\ long[3] = "blank"
  <2>1. short \in Seq(Lines) /\ long \in Seq(Lines)
    BY <1>2
  <2> QED BY <2>1
<1> HIDE DEF short, long
<1>4. LooksSent(short \o Body)
  <2> DEFINE w == short \o Body
  <2>1. /\ w \in Seq(Lines) /\ Len(w) = 4 /\ w[2] = "blank"
        /\ w[3] = "piece_1" /\ w[4] = "piece_2"
    <3>1. /\ w \in Seq(Lines) /\ Len(w) = Len(short) + Len(Body)
          /\ \A i \in 1 .. Len(short) : w[i] = short[i]
          /\ \A i \in 1 .. Len(Body) : w[Len(short) + i] = Body[i]
      <4>1. w \in Seq(Lines) /\ Follow(short, Body, w)
        BY <1>3, BodyIs, ConcatParts, Zenon
      <4> QED BY <4>1, Zenon DEF Follow
    <3> HIDE DEF w
    <3>2. Len(w) = 4 /\ w[2 + 1] = Body[1] /\ w[2 + 2] = Body[2]
      BY <3>1, <1>3, BodyIs
    <3>3. w[2] = short[2]
      BY <3>1, <1>3
    <3> QED BY <3>1, <3>2, <3>3, <1>3, BodyIs
  <2> HIDE DEF w
  <2>2. LooksSent(w)
    <3>1. \A k \in 4 .. Len(w) : w[k] \in {"piece_1", "piece_2"}
      BY <2>1
    <3> QED BY <2>1, <3>1 DEF LooksSent
  <2> QED BY <2>2 DEF w
<1>5. LooksSent(long \o Body)
  <2> DEFINE w == long \o Body
  <2>1. /\ w \in Seq(Lines) /\ Len(w) = 5 /\ w[2] = "header" /\ w[3] = "blank"
        /\ w[4] = "piece_1" /\ w[5] = "piece_2"
    <3>1. /\ w \in Seq(Lines) /\ Len(w) = Len(long) + Len(Body)
          /\ \A i \in 1 .. Len(long) : w[i] = long[i]
          /\ \A i \in 1 .. Len(Body) : w[Len(long) + i] = Body[i]
      <4>1. w \in Seq(Lines) /\ Follow(long, Body, w)
        BY <1>3, BodyIs, ConcatParts, Zenon
      <4> QED BY <4>1, Zenon DEF Follow
    <3> HIDE DEF w
    <3>2. Len(w) = 5 /\ w[3 + 1] = Body[1] /\ w[3 + 2] = Body[2]
      BY <3>1, <1>3, BodyIs
    <3>3. w[2] = long[2] /\ w[3] = long[3]
      BY <3>1, <1>3
    <3> QED BY <3>1, <3>2, <3>3, <1>3, BodyIs
  <2> HIDE DEF w
  <2>2. LooksSent(w)
    <3>1. \A k \in 4 .. Len(w) : k = 4 \/ k = 5
      BY <2>1
    <3>2. \A k \in 4 .. Len(w) : w[k] \in {"piece_1", "piece_2"}
      BY <2>1, <3>1
    <3> QED BY <2>1, <3>2 DEF LooksSent
  <2> QED BY <2>2 DEF w
<1> QED BY <1>1, <1>4, <1>5, PrefixLooksSent DEF short, long

SameAs(a, b, c, d) == a \o b = c \o d

\* What a read takes and what it leaves.
LEMMA ReceivedIs ==
  ASSUME NEW r \in Seq(Lines), NEW s \in Seq(Lines), NEW n \in 0 .. Len(s),
         NEW b, b = r \o SubSeq(s, 1, n),
         NEW rest, rest = SubSeq(s, Len(b) - Len(r) + 1, Len(s))
  PROVE  /\ b \in Seq(Lines) /\ rest \in Seq(Lines)
         /\ SameAs(b, rest, r, s)
<1> DEFINE x == SubSeq(s, 1, n)
           y == SubSeq(s, n + 1, Len(s))
<1>1. Len(r) \in Nat /\ Len(s) \in Nat /\ \A k \in 1 .. Len(s) : s[k] \in Lines
  BY SeqDomain
<1>2. x \in Seq(Lines) /\ Len(x) = n /\ \A i \in 1 .. n : x[i] = s[i]
  BY <1>1, SubSeqProperties
<1>3. y \in Seq(Lines) /\ Len(y) = Len(s) - n /\ \A i \in 1 .. Len(s) - n : y[i] = s[n + i]
  <2>1. \A i \in n + 1 .. Len(s) : s[i] \in Lines
    BY <1>1
  <2>2. /\ y \in Seq(Lines) /\ Len(y) = IF n + 1 <= Len(s) THEN Len(s) - (n + 1) + 1 ELSE 0
        /\ \A i \in 1 .. Len(s) - (n + 1) + 1 : y[i] = s[(n + 1) + i - 1]
    BY <1>1, <2>1, SubSeqProperties
  <2> HIDE DEF y
  <2> QED BY <2>2, <1>1
<1>4. b \in Seq(Lines) /\ Len(b) = Len(r) + n
  BY <1>2, ConcatOf
<1>5. Len(b) - Len(r) + 1 = n + 1
  BY <1>1, <1>4
<1> HIDE DEF x, y
<1>6. x \o y = s
  <2>1. /\ x \o y \in Seq(Lines) /\ Len(x \o y) = n + (Len(s) - n)
        /\ \A i \in 1 .. n : (x \o y)[i] = x[i]
        /\ \A i \in 1 .. Len(s) - n : (x \o y)[n + i] = y[i]
    <3>1. /\ x \o y \in Seq(Lines) /\ Len(x \o y) = Len(x) + Len(y)
          /\ \A i \in 1 .. Len(x) : (x \o y)[i] = x[i]
          /\ \A i \in 1 .. Len(y) : (x \o y)[Len(x) + i] = y[i]
      <4>1. x \o y \in Seq(Lines) /\ Follow(x, y, x \o y)
        BY <1>2, <1>3, ConcatParts, Zenon
      <4> QED BY <4>1, Zenon DEF Follow
    <3> QED BY <3>1, <1>2, <1>3, Zenon
  <2> DEFINE xy == x \o y
  <2>2. Len(xy) = Len(s)
    BY <2>1, <1>1
  <2>3. ASSUME NEW i \in 1 .. Len(s) PROVE xy[i] = s[i]
    <3>1. CASE i \in 1 .. n
      BY <3>1, <2>1, <1>2
    <3>2. CASE i \notin 1 .. n
      <4>1. i - n \in 1 .. Len(s) - n /\ n + (i - n) = i
        BY <3>2, <1>1
      <4> HIDE DEF xy
      <4>2. xy[n + (i - n)] = s[n + (i - n)]
        BY <4>1, <2>1, <1>3 DEF xy
      <4> QED BY <4>1, <4>2
    <3> QED BY <3>1, <3>2
  <2>4. xy \in Seq(Lines)
    BY <2>1
  <2> HIDE DEF xy
  <2>5. xy = s
    BY <2>2, <2>3, <2>4, SeqEqual
  <2> QED BY <2>5 DEF xy
<1>7. b \o y = r \o s
  <2>1. Associates(r, x, y)
    BY <1>2, <1>3, Assoc
  <2>2. b = r \o x
    BY DEF x
  <2> QED BY <2>1, <2>2, <1>6, Zenon DEF Associates
<1> QED BY <1>3, <1>4, <1>5, <1>7 DEF y, SameAs

-----------------------------------------------------------------------------
(* The answer.  FoldLeft is a recursive function of the sets of indexes.   *)

StartState == [parsed |-> {}, data |-> {NoData}]

Reads(f, S, entries) ==
  f = [s \in SUBSET S |->
         IF s = {} THEN StartState
         ELSE InvokeParserOptionalKey(f[s \ {Max(s)}], entries[Max(s)])]

ReadingOf(entries) == CHOOSE f : Reads(f, DOMAIN entries, entries)

LEMMA ContentRead ==
  ASSUME NEW entries
  PROVE  ParseTrackerCompactResponseContent(entries)
           = {data \in ReadingOf(entries)[DOMAIN entries].data : data.tag # "none"}
BY DEF ParseTrackerCompactResponseContent, ReadingOf, Reads, StartState, FoldLeft, MapThenFoldSet

LEMMA ReadsExists ==
  ASSUME NEW entries, NEW n \in Nat
  PROVE  \E f : Reads(f, 1 .. n, entries)
<1> DEFINE Has(k) == \E f : Reads(f, 1 .. k, entries)
           Missing == {k \in 0 .. n : ~Has(k)}
<1> HIDE DEF Has
<1>1. ASSUME Missing # {} PROVE FALSE
  <2>1. PICK k \in Missing : \A j \in Missing : k <= j
    <3>1. Missing \in SUBSET Nat
      OBVIOUS
    <3> HIDE DEF Missing
    <3> QED BY <1>1, <3>1, LeastNumber
  <2>2. k \in Nat /\ ~Has(k)
    BY <2>1
  <2>3. CASE k = 0
    <3> DEFINE f == [s \in SUBSET (1 .. 0) |-> StartState]
    <3>1. \A s \in SUBSET (1 .. 0) : s = {}
      OBVIOUS
    <3>2. Reads(f, 1 .. 0, entries)
      BY <3>1 DEF Reads
    <3> QED BY <2>2, <2>3, <3>2 DEF Has
  <2>4. CASE k # 0
    <3>1. k - 1 \in 0 .. n /\ k - 1 \notin Missing
      BY <2>1, <2>4
    <3>2. PICK g : Reads(g, 1 .. k - 1, entries)
      BY <3>1 DEF Has
    <3> DEFINE Last1(x) == InvokeParserOptionalKey(x, entries[k])
               h == [s \in SUBSET (1 .. k) |-> IF k \in s THEN Last1(g[s \ {k}]) ELSE g[s]]
    <3>3. ASSUME NEW s \in SUBSET (1 .. k)
          PROVE  h[s] = IF s = {} THEN StartState
                        ELSE InvokeParserOptionalKey(h[s \ {Max(s)}], entries[Max(s)])
      <4>1. s # {} => Max(s) \in s /\ \A j \in s : j <= Max(s)
        BY <2>2, MaxIs
      <4>2. CASE k \in s
        <5>1. Max(s) = k
          <6> DEFINE m == Max(s)
          <6>1. m \in s /\ k <= m
            BY <4>1, <4>2
          <6> HIDE DEF m
          <6>2. m = k
            BY <6>1, <2>2
          <6> QED BY <6>2 DEF m
        <5>2. s \ {k} \in SUBSET (1 .. k) /\ k \notin s \ {k} /\ s # {}
          BY <4>2
        <5> HIDE DEF Last1
        <5>3. h[s \ {k}] = g[s \ {k}] /\ h[s] = Last1(g[s \ {k}])
          BY <4>2, <5>2
        <5> HIDE DEF h
        <5> QED BY <5>1, <5>2, <5>3, Zenon DEF Last1
      <4>3. CASE k \notin s
        <5>1. s \in SUBSET (1 .. k - 1) /\ \A x : s \ {x} \in SUBSET (1 .. k) /\ k \notin s \ {x}
          <6>1. \A j \in s : j \in 1 .. k /\ j # k
            BY <4>3
          <6>2. \A j \in 1 .. k : j # k => j \in 1 .. k - 1
            BY <2>2
          <6> QED BY <6>1, <6>2
        <5> HIDE DEF Last1
        <5>2. h[s] = g[s] /\ \A x : h[s \ {x}] = g[s \ {x}]
          BY <4>3, <5>1
        <5>3. g[s] = IF s = {} THEN StartState
                     ELSE InvokeParserOptionalKey(g[s \ {Max(s)}], entries[Max(s)])
          BY <3>2, <5>1, Zenon DEF Reads
        <5> HIDE DEF h
        <5> QED BY <5>2, <5>3, Zenon
      <4> QED BY <4>2, <4>3
    <3>4. Reads(h, 1 .. k, entries)
      <4>1. h = [s \in SUBSET (1 .. k) |-> h[s]]
        OBVIOUS
      <4> HIDE DEF h
      <4> QED BY <3>3, <4>1 DEF Reads
    <3> QED BY <2>2, <3>4 DEF Has
  <2> QED BY <2>3, <2>4
<1>2. n \in 0 .. n
  OBVIOUS
<1> QED BY <1>1, <1>2 DEF Has

\* What the parser knows after n entries.
After(entries, n) == ReadingOf(entries)[1 .. n]

LEMMA AfterStep ==
  ASSUME NEW T, NEW entries \in Seq(T)
  PROVE  /\ ParseTrackerCompactResponseContent(entries)
              = {data \in After(entries, Len(entries)).data : data.tag # "none"}
         /\ After(entries, 0) = StartState
         /\ \A n \in 1 .. Len(entries) :
              After(entries, n) = InvokeParserOptionalKey(After(entries, n - 1), entries[n])
<1> DEFINE f == ReadingOf(entries)
           N == Len(entries)
<1>1. N \in Nat /\ DOMAIN entries = 1 .. N
  BY SeqDomain
<1>2. Reads(f, 1 .. N, entries)
  BY <1>1, ReadsExists, Zenon DEF ReadingOf
<1>3. \A s \in SUBSET (1 .. N) :
        f[s] = IF s = {} THEN StartState
               ELSE InvokeParserOptionalKey(f[s \ {Max(s)}], entries[Max(s)])
  <2> HIDE DEF f, N
  <2> QED BY <1>2, Zenon DEF Reads
<1>4. f[1 .. 0] = StartState
  <2>1. 1 .. 0 \in SUBSET (1 .. N) /\ 1 .. 0 = {}
    OBVIOUS
  <2> HIDE DEF f, N
  <2> QED BY <2>1, <1>3, Zenon
<1>5. ASSUME NEW n \in 1 .. N
      PROVE  f[1 .. n] = InvokeParserOptionalKey(f[1 .. n - 1], entries[n])
  <2>1. 1 .. n \in SUBSET (1 .. N) /\ 1 .. n # {} /\ n \in Nat /\ (1 .. n) \ {n} = 1 .. n - 1
    <3>1. n \in 1 .. n /\ n \in Nat /\ \A j \in 1 .. n : j \in 1 .. N
      BY <1>1
    <3>2. \A j : j \in (1 .. n) \ {n} <=> j \in 1 .. n - 1
      BY <3>1
    <3> HIDE DEF N
    <3> QED BY <3>1, <3>2
  <2>2. Max(1 .. n) = n
    <3> DEFINE m == Max(1 .. n)
    <3>1. m \in 1 .. n /\ \A j \in 1 .. n : j <= m
      BY <2>1, MaxIs
    <3> HIDE DEF m
    <3>2. m = n
      BY <3>1, <2>1
    <3> QED BY <3>2 DEF m
  <2> HIDE DEF f, N
  <2> QED BY <2>1, <2>2, <1>3, Zenon
<1>6. ParseTrackerCompactResponseContent(entries) = {data \in f[1 .. N].data : data.tag # "none"}
  BY <1>1, ContentRead, Zenon
<1> QED BY <1>4, <1>5, <1>6, Zenon DEF After

\* The value at the first entry of a key.
LEMMA FirstAt ==
  ASSUME NEW T, NEW entries \in Seq(T), NEW key, NEW k, IsFirst(entries, key, k)
  PROVE  k \in 1 .. Len(entries) /\ FirstOf(entries, key) = {entries[k].value}
BY LeastWithKey, Zenon DEF FirstOf

\* (The provers stumble over a string with a space.)
FailureKey == "failure reason"

LEMMA KeysAre ==
  /\ ResponseKeys = {"interval", "peers", FailureKey}
  /\ FailureKey # "interval" /\ FailureKey # "peers" /\ "interval" # "peers"
  /\ \A data, entry :
       /\ entry.key = "interval" => ParseKey(data, entry) = ParseResponse_Interval(data, entry.value)
       /\ entry.key = "peers" => ParseKey(data, entry) = ParseResponse_Peers(data, entry.value)
       /\ entry.key = FailureKey => ParseKey(data, entry) = ParseResponse_Failure(data, entry.value)
<1>1. ResponseKeys = {"interval", "peers", FailureKey}
  BY Zenon DEF ResponseKeys, FailureKey
<1>2. FailureKey # "interval" /\ FailureKey # "peers" /\ "interval" # "peers"
  BY Zenon DEF FailureKey
<1>3. ASSUME NEW data, NEW entry, entry.key = "interval"
      PROVE  ParseKey(data, entry) = ParseResponse_Interval(data, entry.value)
  BY <1>3, Zenon DEF ParseKey
<1>4. ASSUME NEW data, NEW entry, entry.key = "peers"
      PROVE  ParseKey(data, entry) = ParseResponse_Peers(data, entry.value)
  BY <1>4, Zenon DEF ParseKey
<1>5. ASSUME NEW data, NEW entry, entry.key = FailureKey
      PROVE  ParseKey(data, entry) = ParseResponse_Failure(data, entry.value)
  BY <1>5, Zenon DEF ParseKey, FailureKey
<1> QED BY <1>1, <1>2, <1>3, <1>4, <1>5, Zenon

\* The value at the first entry of a key, among the first n entries.
Got(entries, key, n) == {entries[k].value : k \in {k \in 1 .. n : IsFirst(entries, key, k)}}

LEMMA GotStep ==
  ASSUME NEW T, NEW entries \in Seq(T), NEW key, NEW n \in 1 .. Len(entries)
  PROVE  /\ entries[n].key # key => Got(entries, key, n) = Got(entries, key, n - 1)
         /\ entries[n].key = key => Got(entries, key, n) =
              IF Got(entries, key, n - 1) = {} THEN {entries[n].value} ELSE Got(entries, key, n - 1)
<1>1. Len(entries) \in Nat /\ DOMAIN entries = 1 .. Len(entries)
  BY SeqDomain, Zenon
<1>2. n \in Nat /\ n \in 1 .. n /\ \A k \in 1 .. n : k = n \/ k \in 1 .. n - 1
  BY <1>1
<1>3. \A k \in 1 .. n - 1 : k \in 1 .. n
  BY <1>1
<1>4. ASSUME ~IsFirst(entries, key, n) PROVE Got(entries, key, n) = Got(entries, key, n - 1)
  <2>1. {k \in 1 .. n : IsFirst(entries, key, k)} = {k \in 1 .. n - 1 : IsFirst(entries, key, k)}
    BY <1>2, <1>3, <1>4, Zenon
  <2> QED BY <2>1, Zenon DEF Got
<1>5. ASSUME IsFirst(entries, key, n)
      PROVE  Got(entries, key, n) = {entries[n].value} /\ Got(entries, key, n - 1) = {}
  <2>1. \A k \in 1 .. n - 1 : ~IsFirst(entries, key, k)
    BY <1>5 DEF IsFirst
  <2>2. {k \in 1 .. n : IsFirst(entries, key, k)} = {n}
    BY <1>2, <1>5, <2>1, Zenon
  <2>3. {k \in 1 .. n - 1 : IsFirst(entries, key, k)} = {}
    BY <2>1, Zenon
  <2> QED BY <2>2, <2>3 DEF Got
<1>6. ASSUME entries[n].key = key, Got(entries, key, n - 1) = {} PROVE IsFirst(entries, key, n)
  <2>1. ASSUME NEW j \in 1 .. n - 1, entries[j].key = key PROVE FALSE
    <3>1. j \in 1 .. Len(entries)
      BY <1>1
    <3>2. PICK k \in 1 .. j : IsFirst(entries, key, k)
      BY <2>1, <3>1, FirstExists, Zenon
    <3>3. k \in 1 .. n - 1
      BY <1>1
    <3>4. entries[k].value \in Got(entries, key, n - 1)
      BY <3>2, <3>3, Zenon DEF Got
    <3> QED BY <3>4, <1>6
  <2> QED BY <2>1, <1>1, <1>6 DEF IsFirst
<1>7. entries[n].key # key => ~IsFirst(entries, key, n)
  BY DEF IsFirst
<1> QED BY <1>4, <1>5, <1>6, <1>7, Zenon

LEMMA GotNone ==
  ASSUME NEW entries, NEW key
  PROVE  Got(entries, key, 0) = {}
BY DEF Got

LEMMA GotAll ==
  ASSUME NEW T, NEW entries \in Seq(T), NEW key
  PROVE  Got(entries, key, Len(entries)) = FirstOf(entries, key)
<1> DEFINE N == Len(entries)
<1>1. N \in Nat /\ DOMAIN entries = 1 .. N
  BY SeqDomain, Zenon
<1>2. ASSUME NEW n \in 1 .. N, entries[n].key = key
      PROVE  Got(entries, key, N) = FirstOf(entries, key)
  <2>1. PICK k \in 1 .. n : IsFirst(entries, key, k)
    BY <1>2, FirstExists, Zenon
  <2>2. k \in 1 .. N /\ FirstOf(entries, key) = {entries[k].value}
    BY <2>1, FirstAt, Zenon
  <2>3. ASSUME NEW j \in 1 .. N, IsFirst(entries, key, j) PROVE j = k
    <3>1. ~(j < k) /\ ~(k < j)
      BY <2>1, <2>2, <2>3 DEF IsFirst
    <3> QED BY <3>1, <2>2, <1>1
  <2>4. {j \in 1 .. N : IsFirst(entries, key, j)} = {k}
    BY <2>1, <2>2, <2>3, Zenon
  <2> QED BY <2>2, <2>4 DEF Got
<1>3. ASSUME \A n \in 1 .. N : entries[n].key # key
      PROVE  Got(entries, key, N) = FirstOf(entries, key)
  <2>1. {j \in 1 .. N : IsFirst(entries, key, j)} = {}
    BY <1>3, Zenon DEF IsFirst
  <2>2. {k \in DOMAIN entries : entries[k].key = key} = {}
    BY <1>1, <1>3
  <2> HIDE DEF N
  <2>3. FirstOf(entries, key) = {}
    BY <2>2, Zenon DEF FirstOf
  <2>4. Got(entries, key, N) = {}
    BY <2>1 DEF Got
  <2> QED BY <2>3, <2>4
<1> QED BY <1>2, <1>3

\* What is asked of the values that count.
PeersAccepted(v) == IsNonEmptyString(v) /\ v.n % PackedPeerSize = 0
Accepted(interval, peers, failure) ==
  /\ failure = {}
  /\ \A v \in interval : ParsesAsUint64(v)
  /\ \A v \in peers : PeersAccepted(v)

Errors == [tag : {"error"}, peers_ : Seq(Nat)]

\* What the parser makes of the values read so far.
HasRead(state, interval, peers, failure) ==
  /\ "interval" \in state.parsed <=> interval # {}
  /\ "peers" \in state.parsed <=> peers # {}
  /\ FailureKey \in state.parsed <=> failure # {}
  /\ Accepted(interval, peers, failure) =>
       \E d \in [tag : {"none", "success"}, peers_ : Seq(Nat)] :
         /\ state.data = {d}
         /\ d.tag = "none" <=> interval = {} /\ peers = {}
         /\ peers = {} => d.peers_ = <<>>
         /\ \A v \in peers : d.peers_ = v.items
  /\ ~Accepted(interval, peers, failure) => state.data \in SUBSET Errors

LEMMA StartRead == HasRead(StartState, {}, {}, {})
<1>1. NoData \in [tag : {"none", "success"}, peers_ : Seq(Nat)]
  BY EmptySeq DEF NoData
<1>2. NoData.tag = "none" /\ NoData.peers_ = <<>>
  BY DEF NoData
<1>3. StartState.parsed = {} /\ StartState.data = {NoData}
  BY DEF StartState
<1> QED BY <1>1, <1>2, <1>3, Zenon DEF HasRead, Accepted

LEMMA OnlyTag ==
  ASSUME NEW data
  PROVE  /\ data.tag = "error" => GetOrCreateOnly(data, "success") = {}
         /\ data \in [tag : {"none", "success"}, peers_ : Seq(Nat)] =>
              GetOrCreateOnly(data, "success") = {[tag |-> "success", peers_ |-> data.peers_]}
BY DEF GetOrCreateOnly

LEMMA ErrorTag ==
  ASSUME NEW data, data \in [tag : {"none", "success"}, peers_ : Seq(Nat)] \union Errors
  PROVE  GetOrCreateOnly(data, "error") \in SUBSET Errors
BY DEF GetOrCreateOnly, Errors

LEMMA Takes ==
  ASSUME NEW state, NEW entry, NEW key \in ResponseKeys, entry.key = key,
         ~(key \in state.parsed)
  PROVE  LET new == InvokeParserOptionalKey(state, entry)
         IN /\ new.parsed = state.parsed \union {key}
            /\ new.data = UNION {ParseKey(data, entry) : data \in state.data}
<1>1. Found(ResponseKeys, state.parsed, entry)
  BY Zenon DEF Found
<1> QED BY <1>1 DEF InvokeParserOptionalKey

LEMMA Passes ==
  ASSUME NEW state, NEW entry,
         entry.key \notin ResponseKeys \/ entry.key \in state.parsed
  PROVE  InvokeParserOptionalKey(state, entry) = state
<1>1. ~Found(ResponseKeys, state.parsed, entry)
  BY Zenon DEF Found
<1> QED BY <1>1, Zenon DEF InvokeParserOptionalKey

LEMMA IntervalRead ==
  ASSUME NEW state, NEW peers, NEW failure, HasRead(state, {}, peers, failure),
         NEW entry, entry.key = "interval"
  PROVE  HasRead(InvokeParserOptionalKey(state, entry), {entry.value}, peers, failure)
<1> DEFINE new == InvokeParserOptionalKey(state, entry)
           v == entry.value
<1>1. /\ new.parsed = state.parsed \union {"interval"}
      /\ new.data = UNION {ParseResponse_Interval(data, v) : data \in state.data}
  <2>1. "interval" \in ResponseKeys /\ ~("interval" \in state.parsed)
    BY KeysAre, Zenon DEF HasRead
  <2>2. new.parsed = state.parsed \union {"interval"} /\ new.data = UNION {ParseKey(data, entry) : data \in state.data}
    BY <2>1, Takes, Zenon
  <2>3. \A data : ParseKey(data, entry) = ParseResponse_Interval(data, v)
    BY KeysAre, Zenon
  <2> QED BY <2>2, <2>3, Zenon
<1> HIDE DEF new, v
<1>2. /\ "interval" \in new.parsed <=> {v} # {}
      /\ "peers" \in new.parsed <=> peers # {}
      /\ FailureKey \in new.parsed <=> failure # {}
  <2>1. /\ "peers" \in state.parsed <=> peers # {}
        /\ FailureKey \in state.parsed <=> failure # {}
    BY Zenon DEF HasRead
  <2> QED BY <1>1, <2>1, KeysAre, Zenon
<1>3. CASE Accepted({}, peers, failure)
  <2>1. PICK d \in [tag : {"none", "success"}, peers_ : Seq(Nat)] :
          /\ state.data = {d}
          /\ peers = {} => d.peers_ = <<>>
          /\ \A w \in peers : d.peers_ = w.items
    BY <1>3, Zenon DEF HasRead
  <2>2. new.data = IF ParsesAsUint64(v) THEN {[tag |-> "success", peers_ |-> d.peers_]} ELSE {}
    <3>1. new.data = ParseResponse_Interval(d, v)
      BY <1>1, <2>1
    <3> QED BY <3>1, OnlyTag, Zenon DEF ParseResponse_Interval
  <2>3. Accepted({v}, peers, failure) <=> ParsesAsUint64(v)
    BY <1>3, Zenon DEF Accepted
  <2> DEFINE e == [tag |-> "success", peers_ |-> d.peers_]
  <2>4. e \in [tag : {"none", "success"}, peers_ : Seq(Nat)] /\ e.tag = "success" /\ e.peers_ = d.peers_
    BY <2>1
  <2> HIDE DEF e
  <2>5. ParsesAsUint64(v) => new.data = {e}
    BY <2>2 DEF e
  <2>6. ~ParsesAsUint64(v) => new.data = {}
    BY <2>2
  <2>7. "success" # "none" /\ {v} # {}
    OBVIOUS
  <2> QED BY <2>1, <2>3, <2>4, <2>5, <2>6, <2>7, <1>2, Zenon DEF HasRead, new, v
<1>4. CASE ~Accepted({}, peers, failure)
  <2>1. ~Accepted({v}, peers, failure)
    BY <1>4, Zenon DEF Accepted
  <2>2. \A d \in state.data : d.tag = "error"
    <3>1. state.data \in SUBSET Errors
      BY <1>4, Zenon DEF HasRead
    <3> QED BY <3>1 DEF Errors
  <2>3. new.data = {}
    <3>1. \A d \in state.data : ParseResponse_Interval(d, v) = {}
      BY <2>2, OnlyTag, Zenon DEF ParseResponse_Interval
    <3> QED BY <3>1, <1>1
  <2> QED BY <2>1, <2>3, <1>2, Zenon DEF HasRead, new, v
<1> QED BY <1>3, <1>4

LEMMA PeersRead ==
  ASSUME NEW state, NEW interval, NEW failure, HasRead(state, interval, {}, failure),
         NEW entry, entry.key = "peers",
         IsNonEmptyString(entry.value) => entry.value.items \in Seq(Nat)
  PROVE  HasRead(InvokeParserOptionalKey(state, entry), interval, {entry.value}, failure)
<1> DEFINE new == InvokeParserOptionalKey(state, entry)
           v == entry.value
<1>1. /\ new.parsed = state.parsed \union {"peers"}
      /\ new.data = UNION {ParseResponse_Peers(data, v) : data \in state.data}
  <2>1. "peers" \in ResponseKeys /\ ~("peers" \in state.parsed)
    BY KeysAre, Zenon DEF HasRead
  <2>2. new.parsed = state.parsed \union {"peers"} /\ new.data = UNION {ParseKey(data, entry) : data \in state.data}
    BY <2>1, Takes, Zenon
  <2>3. \A data : ParseKey(data, entry) = ParseResponse_Peers(data, v)
    BY KeysAre, Zenon
  <2> QED BY <2>2, <2>3, Zenon
<1>a. PeersAccepted(v) => v.items \in Seq(Nat)
  BY Zenon DEF PeersAccepted
<1> HIDE DEF new, v
<1>2. /\ "interval" \in new.parsed <=> interval # {}
      /\ "peers" \in new.parsed <=> {v} # {}
      /\ FailureKey \in new.parsed <=> failure # {}
  <2>1. /\ "interval" \in state.parsed <=> interval # {}
        /\ FailureKey \in state.parsed <=> failure # {}
    BY Zenon DEF HasRead
  <2> QED BY <1>1, <2>1, KeysAre, Zenon
<1>3. CASE Accepted(interval, {}, failure)
  <2>1. PICK d \in [tag : {"none", "success"}, peers_ : Seq(Nat)] :
          /\ state.data = {d}
          /\ d.peers_ = <<>>
    BY <1>3, Zenon DEF HasRead
  <2> DEFINE e == [tag |-> "success", peers_ |-> v.items]
  <2>2. new.data = IF PeersAccepted(v) THEN {e} ELSE {}
    <3>1. new.data = ParseResponse_Peers(d, v)
      BY <1>1, <2>1
    <3>2. GetOrCreateOnly(d, "success") = {[tag |-> "success", peers_ |-> <<>>]}
      BY <2>1, OnlyTag, Zenon
    <3>3. PeersAccepted(v) => <<>> \o v.items = v.items
      BY <1>a, ConcatEmptySeq
    <3>4. PeersAccepted(v) =>
            [[tag |-> "success", peers_ |-> <<>>] EXCEPT !.peers_ = @ \o v.items] = e
      BY <3>3
    <3>5. ParseResponse_Peers(d, v) = IF PeersAccepted(v) THEN {e} ELSE {}
      <4>1. CASE PeersAccepted(v)
        <5> DEFINE With(state1) == [state1 EXCEPT !.peers_ = @ \o v.items]
        <5>1. ParseResponse_Peers(d, v) = {With(state1) : state1 \in GetOrCreateOnly(d, "success")}
          BY <4>1, Zenon DEF ParseResponse_Peers, PeersAccepted
        <5>2. \A x : {With(state1) : state1 \in {x}} = {With(x)}
          <6> HIDE DEF With
          <6> QED OBVIOUS
        <5>3. With([tag |-> "success", peers_ |-> <<>>]) = e
          BY <3>4, <4>1
        <5> HIDE DEF With, e
        <5> QED BY <4>1, <5>1, <5>2, <5>3, <3>2
      <4>2. CASE ~PeersAccepted(v)
        BY <4>2, Zenon DEF ParseResponse_Peers, PeersAccepted
      <4> QED BY <4>1, <4>2
    <3> QED BY <3>1, <3>5
  <2>3. Accepted(interval, {v}, failure) <=> PeersAccepted(v)
    BY <1>3, Zenon DEF Accepted
  <2>4. PeersAccepted(v) =>
          e \in [tag : {"none", "success"}, peers_ : Seq(Nat)] /\ e.tag = "success" /\ e.peers_ = v.items
    BY <1>a
  <2> HIDE DEF e
  <2>7. "success" # "none" /\ {v} # {} /\ \A w \in {v} : w = v
    OBVIOUS
  <2> QED BY <2>2, <2>3, <2>4, <2>7, <1>2, Zenon DEF HasRead, new, v
<1>4. CASE ~Accepted(interval, {}, failure)
  <2>1. ~Accepted(interval, {v}, failure)
    BY <1>4, Zenon DEF Accepted
  <2>2. \A d \in state.data : d.tag = "error"
    <3>1. state.data \in SUBSET Errors
      BY <1>4, Zenon DEF HasRead
    <3> QED BY <3>1 DEF Errors
  <2>3. new.data = {}
    <3>1. \A d \in state.data : GetOrCreateOnly(d, "success") = {}
      BY <2>2, OnlyTag, Zenon
    <3>2. \A d \in state.data : ParseResponse_Peers(d, v) = {}
      BY <3>1 DEF ParseResponse_Peers
    <3> QED BY <3>2, <1>1
  <2> QED BY <2>1, <2>3, <1>2, Zenon DEF HasRead, new, v
<1> QED BY <1>3, <1>4

LEMMA FailureRead ==
  ASSUME NEW state, NEW interval, NEW peers, HasRead(state, interval, peers, {}),
         NEW entry, entry.key = FailureKey
  PROVE  HasRead(InvokeParserOptionalKey(state, entry), interval, peers, {entry.value})
<1> DEFINE new == InvokeParserOptionalKey(state, entry)
           v == entry.value
<1>1. /\ new.parsed = state.parsed \union {FailureKey}
      /\ new.data = UNION {ParseResponse_Failure(data, v) : data \in state.data}
  <2>1. FailureKey \in ResponseKeys /\ ~(FailureKey \in state.parsed)
    BY KeysAre, Zenon DEF HasRead
  <2>2. new.parsed = state.parsed \union {FailureKey} /\ new.data = UNION {ParseKey(data, entry) : data \in state.data}
    BY <2>1, Takes, Zenon
  <2>3. \A data : ParseKey(data, entry) = ParseResponse_Failure(data, v)
    BY KeysAre, Zenon
  <2> QED BY <2>2, <2>3, Zenon
<1> HIDE DEF new, v
<1>2. /\ "interval" \in new.parsed <=> interval # {}
      /\ "peers" \in new.parsed <=> peers # {}
      /\ FailureKey \in new.parsed <=> {v} # {}
  <2>1. /\ "interval" \in state.parsed <=> interval # {}
        /\ "peers" \in state.parsed <=> peers # {}
    BY Zenon DEF HasRead
  <2> QED BY <1>1, <2>1, KeysAre, Zenon
<1>3. ~Accepted(interval, peers, {v})
  BY Zenon DEF Accepted
<1>4. \A d \in state.data : ParseResponse_Failure(d, v) \in SUBSET Errors
  <2>1. ASSUME NEW d \in state.data PROVE ParseResponse_Failure(d, v) \in SUBSET Errors
    <3>1. d \in [tag : {"none", "success"}, peers_ : Seq(Nat)] \union Errors
      BY Zenon DEF HasRead
    <3>2. GetOrCreateOnly(d, "error") \in SUBSET Errors
      BY <3>1, ErrorTag, Zenon
    <3> QED BY <3>2 DEF ParseResponse_Failure
  <2> QED BY <2>1
<1>5. new.data \in SUBSET Errors
  BY <1>1, <1>4
<1> QED BY <1>2, <1>3, <1>5, Zenon DEF HasRead, new, v

LEMMA AnswerRead ==
  ASSUME NEW said \in Answers, NEW n \in 0 .. Len(said)
  PROVE  HasRead(After(said, n), Got(said, "interval", n), Got(said, "peers", n), Got(said, FailureKey, n))
<1> DEFINE Read(k) == HasRead(After(said, k), Got(said, "interval", k), Got(said, "peers", k),
                              Got(said, FailureKey, k))
           Missing == {k \in 0 .. n : ~Read(k)}
           values == {said[k].value : k \in DOMAIN said}
           T == Entries(values)
<1>1. said \in Seq(T) /\ \A v \in values : IsNonEmptyString(v) => v.items \in Seq(Nat)
  BY TrackerClientAssumption, Zenon DEF TrackerClientAssumption
<1>2. Len(said) \in Nat /\ \A k \in 1 .. Len(said) : IsNonEmptyString(said[k].value) => said[k].value.items \in Seq(Nat)
  <2> HIDE DEF T
  <2>1. Len(said) \in Nat /\ DOMAIN said = 1 .. Len(said)
    BY <1>1, SeqDomain, Zenon
  <2> QED BY <2>1, <1>1, Zenon
<1> HIDE DEF values, T
<1>3. Read(0)
  <2>1. After(said, 0) = StartState
    BY <1>1, AfterStep, Zenon
  <2> QED BY <2>1, StartRead, GotNone
<1>4. ASSUME Missing # {} PROVE FALSE
  <2>1. PICK k \in Missing : \A j \in Missing : k <= j
    <3>1. Missing \in SUBSET Nat
      <4> HIDE DEF Read
      <4> QED BY <1>2
    <3> HIDE DEF Missing
    <3> QED BY <1>4, <3>1, LeastNumber
  <2> DEFINE state == After(said, k - 1)
             entry == said[k]
             iv == Got(said, "interval", k - 1)
             pv == Got(said, "peers", k - 1)
             fv == Got(said, FailureKey, k - 1)
  <2>2. k \in 1 .. Len(said) /\ ~Read(k) /\ Read(k - 1)
    <3> HIDE DEF Read
    <3>1. k \in 0 .. n /\ ~Read(k)
      BY <2>1
    <3>2. k # 0 /\ k - 1 \in 0 .. n
      BY <3>1, <1>3
    <3>3. k - 1 \notin Missing
      <4>1. ~(k <= k - 1)
        BY <3>1
      <4> HIDE DEF Missing
      <4> QED BY <2>1, <4>1
    <3> QED BY <3>1, <3>2, <3>3, <1>2
  <2>3. After(said, k) = InvokeParserOptionalKey(state, entry)
    BY <1>1, <2>2, AfterStep, Zenon
  <2>4. HasRead(state, iv, pv, fv)
    BY <2>2
  <2>5. \A key : /\ entry.key # key => Got(said, key, k) = Got(said, key, k - 1)
                 /\ entry.key = key => Got(said, key, k) =
                      IF Got(said, key, k - 1) = {} THEN {entry.value} ELSE Got(said, key, k - 1)
    BY <1>1, <2>2, GotStep, Zenon
  <2>6. IsNonEmptyString(entry.value) => entry.value.items \in Seq(Nat)
    BY <1>2, <2>2, Zenon
  <2>7. ~HasRead(InvokeParserOptionalKey(state, entry), Got(said, "interval", k), Got(said, "peers", k),
                 Got(said, FailureKey, k))
    BY <2>2, <2>3, Zenon
  <2> HIDE DEF state, entry
  <2>8. CASE entry.key \notin ResponseKeys
    <3>1. entry.key # "interval" /\ entry.key # "peers" /\ entry.key # FailureKey
      BY <2>8, KeysAre, Zenon
    <3>2. InvokeParserOptionalKey(state, entry) = state
      BY <2>8, Passes, Zenon
    <3>3. /\ Got(said, "interval", k) = iv /\ Got(said, "peers", k) = pv
          /\ Got(said, FailureKey, k) = fv
      BY <3>1, <2>5, Zenon
    <3> HIDE DEF iv, pv, fv
    <3> QED BY <3>2, <3>3, <2>4, <2>7
  <2>9. CASE entry.key = "interval"
    <3>1. entry.key # "peers" /\ entry.key # FailureKey
      BY <2>9, KeysAre, Zenon
    <3>2. CASE iv = {}
      <4>1. HasRead(InvokeParserOptionalKey(state, entry), {entry.value}, pv, fv)
        BY <2>4, <2>9, <3>2, IntervalRead, Zenon
      <4> QED BY <3>1, <3>2, <4>1, <2>5, <2>7, <2>9, Zenon
    <3>3. CASE iv # {}
      <4>1. InvokeParserOptionalKey(state, entry) = state
        <5>1. entry.key \in state.parsed
          BY <2>4, <2>9, <3>3, Zenon DEF HasRead
        <5> QED BY <5>1, Passes, Zenon
      <4> QED BY <3>1, <3>3, <4>1, <2>4, <2>5, <2>7, <2>9, Zenon
    <3> QED BY <3>2, <3>3
  <2>10. CASE entry.key = "peers"
    <3>1. entry.key # "interval" /\ entry.key # FailureKey
      BY <2>10, KeysAre, Zenon
    <3>2. CASE pv = {}
      <4>1. HasRead(InvokeParserOptionalKey(state, entry), iv, {entry.value}, fv)
        BY <2>4, <2>6, <2>10, <3>2, PeersRead, Zenon
      <4> QED BY <3>1, <3>2, <4>1, <2>5, <2>7, <2>10, Zenon
    <3>3. CASE pv # {}
      <4>1. InvokeParserOptionalKey(state, entry) = state
        <5>1. entry.key \in state.parsed
          BY <2>4, <2>10, <3>3, Zenon DEF HasRead
        <5> QED BY <5>1, Passes, Zenon
      <4> QED BY <3>1, <3>3, <4>1, <2>4, <2>5, <2>7, <2>10, Zenon
    <3> QED BY <3>2, <3>3
  <2>11. CASE entry.key = FailureKey
    <3>1. entry.key # "interval" /\ entry.key # "peers"
      BY <2>11, KeysAre, Zenon
    <3>2. CASE fv = {}
      <4>1. HasRead(InvokeParserOptionalKey(state, entry), iv, pv, {entry.value})
        BY <2>4, <2>11, <3>2, FailureRead, Zenon
      <4> QED BY <3>1, <3>2, <4>1, <2>5, <2>7, <2>11, Zenon
    <3>3. CASE fv # {}
      <4>1. InvokeParserOptionalKey(state, entry) = state
        <5>1. entry.key \in state.parsed
          BY <2>4, <2>11, <3>3, Zenon DEF HasRead
        <5> QED BY <5>1, Passes, Zenon
      <4> QED BY <3>1, <3>3, <4>1, <2>4, <2>5, <2>7, <2>11, Zenon
    <3> QED BY <3>2, <3>3
  <2>12. entry.key \in ResponseKeys => entry.key = "interval" \/ entry.key = "peers" \/ entry.key = FailureKey
    BY KeysAre, Zenon
  <2> QED BY <2>8, <2>9, <2>10, <2>11, <2>12
<1>5. Read(n)
  <2>1. n \in 0 .. n
    BY <1>2
  <2> HIDE DEF Read
  <2> QED BY <1>4, <2>1
<1> QED BY <1>5

Full == <<"200", "header", "blank">> \o Body

LEMMA OfferedIs ==
  ASSUME NEW sent, NEW said, NEW end
  PROVE  Offered(sent, said, end) =
           IF /\ sent = Full /\ end = "eof"
              /\ Accepted(FirstOf(said, "interval"), FirstOf(said, "peers"), FirstOf(said, FailureKey))
           THEN UNION {ToSet(v.items) : v \in FirstOf(said, "peers")}
           ELSE {}
<1>1. \A v : PeersAccepted(v) <=> v.kind = "String" /\ v.n > 0 /\ v.n % 6 = 0
  BY Zenon DEF PeersAccepted, IsNonEmptyString, IsString, PackedPeerSize
<1> QED BY <1>1, Zenon DEF Offered, Full, Accepted, ParsesAsUint64, FailureKey

\* The peers of a complete answer, when there are any, are those offered.
LEMMA PeersAreOffered ==
  ASSUME NEW said \in Answers, answer = said
  PROVE  /\ \A peers \in PeersOf(Body) :
              peers \in Seq(Nat) /\ ToSet(peers) = Offered(Full, said, "eof")
         /\ PeersOf(Body) = {} => Offered(Full, said, "eof") = {}
<1> DEFINE T == Entries({said[k].value : k \in DOMAIN said})
           iv == FirstOf(said, "interval")
           pv == FirstOf(said, "peers")
           fv == FirstOf(said, FailureKey)
           state == After(said, Len(said))
           parsed == ParseTrackerCompactResponseContent(said)
<1>1. said \in Seq(T)
  BY TrackerClientAssumption, Zenon DEF TrackerClientAssumption
<1> HIDE DEF T
<1>2. HasRead(state, iv, pv, fv)
  <2>1. Len(said) \in Nat
    BY <1>1, SeqDomain, Zenon
  <2>2. Len(said) \in 0 .. Len(said)
    BY <2>1
  <2>3. HasRead(state, Got(said, "interval", Len(said)), Got(said, "peers", Len(said)),
                Got(said, FailureKey, Len(said)))
    BY <2>2, AnswerRead, Zenon
  <2>4. \A key : Got(said, key, Len(said)) = FirstOf(said, key)
    BY <1>1, GotAll, Zenon
  <2>5. /\ Got(said, "interval", Len(said)) = iv /\ Got(said, "peers", Len(said)) = pv
        /\ Got(said, FailureKey, Len(said)) = fv
    BY <2>4, Zenon
  <2> HIDE DEF iv, pv, fv, state
  <2> QED BY <2>3, <2>5, Zenon DEF state
<1>3. parsed = {data \in state.data : data.tag # "none"}
  BY <1>1, AfterStep, Zenon
<1>4. PeersOf(Body) = {data.peers_ : data \in {d \in parsed : d.tag = "success"}}
  BY Zenon DEF PeersOf
<1>5. Offered(Full, said, "eof") =
        IF Accepted(iv, pv, fv) THEN UNION {ToSet(v.items) : v \in pv} ELSE {}
  BY OfferedIs, Zenon
<1>6. pv = {} \/ \E v : pv = {v}
  BY Zenon DEF FirstOf
<1> HIDE DEF iv, pv, fv, state, parsed
<1>7. CASE ~Accepted(iv, pv, fv)
  <2>1. state.data \in SUBSET Errors
    BY <1>2, <1>7, Zenon DEF HasRead
  <2>2. \A d \in parsed : d.tag = "error"
    BY <2>1, <1>3 DEF Errors
  <2> QED BY <2>2, <1>4, <1>5, <1>7
<1>8. CASE Accepted(iv, pv, fv)
  <2>1. PICK d \in [tag : {"none", "success"}, peers_ : Seq(Nat)] :
          /\ state.data = {d}
          /\ d.tag = "none" <=> iv = {} /\ pv = {}
          /\ pv = {} => d.peers_ = <<>>
          /\ \A v \in pv : d.peers_ = v.items
    BY <1>2, <1>8, Zenon DEF HasRead
  <2>2. CASE d.tag = "none"
    <3>1. pv = {} /\ parsed = {}
      BY <2>1, <2>2, <1>3
    <3>2. UNION {ToSet(v.items) : v \in pv} = {}
      BY <3>1
    <3> QED BY <3>1, <3>2, <1>4, <1>5
  <2>3. CASE d.tag # "none"
    <3>1. d.tag = "success" /\ d.peers_ \in Seq(Nat)
      BY <2>1, <2>3
    <3>2. parsed = {d}
      BY <2>1, <2>3, <1>3
    <3>3. PeersOf(Body) = {d.peers_}
      BY <3>1, <3>2, <1>4
    <3>4. ToSet(d.peers_) = UNION {ToSet(v.items) : v \in pv}
      <4>1. CASE pv = {}
        BY <4>1, <2>1, ToSetNone
      <4>2. ASSUME NEW v, pv = {v} PROVE ToSet(d.peers_) = UNION {ToSet(w.items) : w \in pv}
        <5>1. d.peers_ = v.items
          BY <2>1, <4>2
        <5>2. {ToSet(w.items) : w \in pv} = {ToSet(v.items)}
          BY <4>2
        <5> QED BY <5>1, <5>2
      <4> QED BY <4>1, <4>2, <1>6
    <3> QED BY <3>1, <3>3, <3>4, <1>5, <1>8
  <2> QED BY <2>2, <2>3
<1> QED BY <1>7, <1>8

LEMMA FullIs ==
  /\ Full \in Seq(Lines) /\ Full # <<>> /\ Head(Full) = "200"
  /\ Full = <<"200">> \o (<<"header", "blank">> \o Body)
<1> DEFINE a == <<"200">>
           h == <<"header", "blank">>
           t == <<"200", "header", "blank">>
<1>1. a \in Seq(Lines) /\ h \in Seq(Lines) /\ t \in Seq(Lines) /\ t = a \o h /\ Len(t) # 0 /\ t[1] = "200"
  BY DEF Lines
<1> HIDE DEF a, h, t
<1>2. Associates(a, h, Body)
  BY <1>1, BodyIs, Assoc
<1>3. t \o Body = a \o (h \o Body)
  BY <1>1, <1>2, Zenon DEF Associates
<1>4. t \o Body \in Seq(Lines) /\ Len(t \o Body) = Len(t) + Len(Body) /\ (t \o Body)[1] = t[1]
  BY <1>1, BodyIs, ConcatOf, ConcatFirst, Zenon
<1> DEFINE w == t \o Body
<1>5. w \in Seq(Lines) /\ w # <<>> /\ w[1] = "200"
  <2>1. w \in Seq(Lines) /\ Len(w) # 0 /\ w[1] = "200"
    <3>1. Len(t) \in Nat /\ Len(Body) \in Nat
      BY <1>1, BodyIs, SeqDomain
    <3> HIDE DEF w
    <3> QED BY <1>1, <1>4, <3>1 DEF w
  <2> HIDE DEF w
  <2> QED BY <2>1, EmptyIffNoLength
<1>6. Head(w) = "200"
  <2> HIDE DEF w
  <2> QED BY <1>5
<1> QED BY <1>3, <1>5, <1>6 DEF Full, t, a, h

LEMMA CutHead ==
  ASSUME NEW T, NEW s \in Seq(T), s # <<>>
  PROVE  s = <<Head(s)>> \o Tail(s) /\ Head(s) \in T /\ Tail(s) \in Seq(T) /\ Head(s) = s[1]
<1>1. /\ Head(s) \in T /\ Tail(s) \in Seq(T) /\ Len(Tail(s)) = Len(s) - 1
      /\ \A i \in 1 .. Len(Tail(s)) : Tail(s)[i] = s[i + 1]
  BY HeadTailProperties, Zenon
<1>2. Head(s) = s[1] /\ Len(s) \in Nat /\ Len(s) # 0
  BY EmptyIffNoLength
<1> DEFINE h == <<Head(s)>>
           t == Tail(s)
           r == h \o t
<1>3. h \in Seq(T) /\ Len(h) = 1 /\ h[1] = s[1]
  BY <1>1, <1>2
<1> HIDE DEF h, t
<1>4. r \in Seq(T) /\ Follow(h, t, r)
  BY <1>1, <1>3, ConcatParts, Zenon DEF t
<1> HIDE DEF r
<1>5. Len(r) = 1 + Len(t) /\ r[1] = s[1] /\ \A i \in 1 .. Len(t) : r[1 + i] = t[i]
  BY <1>3, <1>4 DEF Follow
<1>6. Len(r) = Len(s) /\ \A i \in 1 .. Len(s) : r[i] = s[i]
  <2>1. Len(t) = Len(s) - 1 /\ \A i \in 1 .. Len(t) : t[i] = s[i + 1]
    BY <1>1 DEF t
  <2>2. ASSUME NEW i \in 1 .. Len(s), i # 1 PROVE r[i] = s[i]
    <3>1. i - 1 \in 1 .. Len(t) /\ 1 + (i - 1) = i /\ (i - 1) + 1 = i
      BY <2>1, <2>2, <1>2
    <3>2. r[1 + (i - 1)] = t[i - 1] /\ t[i - 1] = s[(i - 1) + 1]
      BY <1>5, <2>1, <3>1
    <3> QED BY <3>1, <3>2
  <2> QED BY <2>1, <2>2, <1>2, <1>5
<1>7. r = s
  BY <1>4, <1>6, SeqEqual
<1> QED BY <1>1, <1>2, <1>7 DEF h, t, r

\* The status line is taken off.
LEMMA StatusTaken ==
  ASSUME NEW b \in Seq(Lines), b # <<>>, Head(b) = "200", NEW rest \in Seq(Lines)
  PROVE  b \o rest = <<"200">> \o (Tail(b) \o rest) /\ Tail(b) \in Seq(Lines)
<1>1. b = <<"200">> \o Tail(b) /\ Tail(b) \in Seq(Lines)
  BY CutHead
<1> DEFINE a == <<"200">>
           t == Tail(b)
<1>2. a \in Seq(Lines)
  BY DEF Lines
<1> HIDE DEF a, t
<1>3. Associates(a, t, rest)
  BY <1>1, <1>2, Assoc DEF t
<1> QED BY <1>1, <1>3, Zenon DEF Associates, a, t

\* Headers end where the tracker ended them: before any of the body.
LEMMA HeadersTaken ==
  ASSUME NEW b \in Seq(Lines), EndsHeaders(b), NEW rest \in Seq(Lines),
         LooksSent(<<"200">> \o (b \o rest))
  PROVE  /\ BodyIn(b) \in Seq(Lines)
         /\ <<"200">> \o (b \o rest) = <<"200", "header", "blank">> \o (BodyIn(b) \o rest)
<1> DEFINE a == <<"200">>
           all == b \o rest
           sent == a \o all
           m == Len(b)
<1>1. a \in Seq(Lines) /\ Len(a) = 1
  BY DEF Lines
<1>2. m \in Nat /\ \A k \in 1 .. m : b[k] \in Lines
  BY SeqDomain, Zenon
<1>3. all \in Seq(Lines) /\ Follow(b, rest, all)
  BY ConcatParts, Zenon
<1> HIDE DEF a, all
<1>4. sent \in Seq(Lines) /\ Follow(a, all, sent)
  BY <1>1, <1>3, ConcatParts, Zenon
<1>5. LooksSent(sent)
  BY DEF a, all
<1> HIDE DEF sent
<1>6. Len(all) = m + Len(rest) /\ Len(rest) \in Nat /\ \A i \in 1 .. m : all[i] = b[i]
  BY <1>3 DEF Follow
<1>7. Len(sent) = 1 + Len(all) /\ \A i \in 1 .. Len(all) : sent[1 + i] = all[i]
  BY <1>1, <1>4 DEF Follow
<1>8. \A i \in 1 .. m : sent[1 + i] = b[i]
  BY <1>2, <1>6, <1>7
<1>9. m >= 2 /\ b[1] = "header" /\ b[2] = "blank"
  <2>1. PICK k \in 1 .. m - 1 : b[k] \in {"header", "blank"} /\ b[k + 1] = "blank"
    BY Zenon DEF EndsHeaders
  <2>2. k \in 1 .. m /\ k + 1 \in 1 .. m
    BY <1>2
  <2>3. sent[1 + k] \in {"header", "blank"} /\ sent[1 + (k + 1)] = "blank"
    BY <2>1, <2>2, <1>8
  <2>4. \A i \in 4 .. Len(sent) : sent[i] # "blank"
    BY <1>5 DEF LooksSent
  <2>5. k = 1
    <3>1. ASSUME k # 1 PROVE FALSE
      <4>1. 1 + (k + 1) \in 4 .. Len(sent)
        BY <3>1, <2>2, <1>2, <1>6, <1>7
      <4> QED BY <4>1, <2>3, <2>4
    <3> QED BY <3>1
  <2>6. sent[2] \in {"header", "blank"} /\ sent[3] = "blank" /\ Len(sent) >= 3
    BY <2>2, <2>3, <2>5, <1>2, <1>6, <1>7
  <2>7. sent[2] = "header"
    BY <2>6, <1>5 DEF LooksSent
  <2> QED BY <2>1, <2>2, <2>5, <2>7, <1>8
<1> DEFINE Blanks == {i \in 1 .. Len(b) : b[i] = "blank"}
<1>10. SelectInSeq(b, LAMBDA line : line = "blank") = 2
  <2>1. 2 \in Blanks /\ 1 \notin Blanks /\ Blanks \in SUBSET Nat /\ Blanks # {}
    BY <1>9, <1>2
  <2>2. Min(Blanks) = 2
    <3> DEFINE x == Min(Blanks)
    <3> HIDE DEF Blanks
    <3>1. x \in Blanks /\ x <= 2
      BY <2>1, MinIs
    <3> HIDE DEF x
    <3>2. x \in Nat /\ x # 1 /\ x # 0
      BY <3>1, <2>1 DEF Blanks
    <3>3. x = 2
      BY <3>1, <3>2
    <3> QED BY <3>3 DEF x
  <2>3. SelectInSeq(b, LAMBDA line : line = "blank") = IF Blanks # {} THEN Min(Blanks) ELSE 0
    BY Zenon DEF SelectInSeq
  <2> HIDE DEF Blanks
  <2> QED BY <2>1, <2>2, <2>3
<1> DEFINE d == BodyIn(b)
           h == <<"header", "blank">>
           w == h \o d
<1>11. d = SubSeq(b, 3, m)
  <2>1. d = SubSeq(b, SelectInSeq(b, LAMBDA line : line = "blank") + 1, Len(b))
    BY Zenon DEF BodyIn
  <2> QED BY <2>1, <1>10
<1>12. d \in Seq(Lines) /\ Len(d) = m - 2 /\ \A i \in 1 .. m - 2 : d[i] = b[i + 2]
  <2>1. \A i \in 3 .. m : b[i] \in Lines
    BY <1>2
  <2>2. /\ d \in Seq(Lines) /\ Len(d) = IF 3 <= m THEN m - 3 + 1 ELSE 0
        /\ \A i \in 1 .. m - 3 + 1 : d[i] = b[3 + i - 1]
    BY <1>2, <1>11, <2>1, SubSeqProperties
  <2> HIDE DEF d, m
  <2> QED BY <2>2, <1>2, <1>9
<1>13. h \in Seq(Lines) /\ Len(h) = 2 /\ h[1] = "header" /\ h[2] = "blank"
  BY DEF Lines
<1> HIDE DEF d, h
<1>14. w \in Seq(Lines) /\ Follow(h, d, w)
  BY <1>12, <1>13, ConcatParts, Zenon
<1> HIDE DEF w
<1>15. w = b
  <2>1. Len(w) = 2 + (m - 2) /\ w[1] = h[1] /\ w[2] = h[2] /\ \A i \in 1 .. m - 2 : w[2 + i] = d[i]
    BY <1>12, <1>13, <1>14 DEF Follow
  <2>2. ASSUME NEW i \in 1 .. m, i # 1, i # 2 PROVE w[i] = b[i]
    <3>1. i - 2 \in 1 .. m - 2 /\ 2 + (i - 2) = i /\ (i - 2) + 2 = i
      BY <2>2, <1>2
    <3>2. w[2 + (i - 2)] = d[i - 2] /\ d[i - 2] = b[(i - 2) + 2]
      BY <2>1, <1>12, <3>1
    <3> QED BY <3>1, <3>2
  <2>3. Len(w) = Len(b) /\ \A i \in 1 .. Len(b) : w[i] = b[i]
    BY <2>1, <2>2, <1>2, <1>9, <1>13
  <2> QED BY <2>3, <1>14, SeqEqual
<1>16. Associates(h, d, rest) /\ d \o rest \in Seq(Lines)
  BY <1>12, <1>13, Assoc, ConcatOf
<1>17. b \o rest = h \o (d \o rest)
  BY <1>15, <1>16, Zenon DEF Associates, w
<1> DEFINE t == <<"200", "header", "blank">>
<1>18. t = a \o h
  BY DEF a, h
<1>19. Associates(a, h, d \o rest)
  <2> DEFINE x == d \o rest
  <2>1. x \in Seq(Lines)
    BY <1>16
  <2> HIDE DEF x
  <2>2. Associates(a, h, x)
    BY <1>1, <1>13, <2>1, Assoc
  <2> QED BY <2>2 DEF x
<1> HIDE DEF t
<1>20. a \o (b \o rest) = t \o (d \o rest)
  BY <1>17, <1>18, <1>19, Zenon DEF Associates
<1> QED BY <1>12, <1>20, Zenon DEF a, t, d

\* When a read fails, the answer was not a good one.
LEMMA NotFull ==
  ASSUME NEW sent, NEW r \in Seq(Lines), NEW s \in Seq(Lines)
  PROVE  /\ sent = s /\ (s # <<>> => Head(s) # "200") => sent # Full
         /\ sent = <<"200">> \o (r \o s) /\ ~EndsHeaders(r \o s) => sent # Full
<1>1. ASSUME s = Full PROVE s # <<>> /\ Head(s) = "200"
  BY <1>1, FullIs
<1>2. ASSUME Full = <<"200">> \o (r \o s) PROVE EndsHeaders(r \o s)
  <2> DEFINE a == <<"200">>
             h == <<"header", "blank">>
             x == r \o s
             y == h \o Body
  <2>1. a \in Seq(Lines) /\ h \in Seq(Lines) /\ Len(h) = 2 /\ h[1] = "header" /\ h[2] = "blank"
    BY DEF Lines
  <2>2. a \o x = a \o y
    BY <1>2, FullIs
  <2> HIDE DEF a, h
  <2>3. x \in Seq(Lines) /\ y \in Seq(Lines) /\ Follow(h, Body, y)
    BY <2>1, BodyIs, ConcatOf, ConcatParts, Zenon
  <2> HIDE DEF x, y
  <2>4. x = y
    BY <2>1, <2>2, <2>3, CutAlike
  <2>5. Len(x) = 4 /\ x[1] = "header" /\ x[2] = "blank"
    BY <2>1, <2>3, <2>4, BodyIs DEF Follow
  <2>6. EndsHeaders(x)
    <3>1. 1 \in 1 .. Len(x) - 1 /\ x[1] \in {"header", "blank"} /\ x[1 + 1] = "blank"
      BY <2>5
    <3> QED BY <3>1, Zenon DEF EndsHeaders
  <2> QED BY <2>6 DEF x
<1> QED BY <1>1, <1>2

\* The body is complete when the whole answer was sent.
LEMMA FullWithBody ==
  ASSUME NEW c \in Seq(Lines)
  PROVE  <<"200", "header", "blank">> \o (c \o <<>>) = Full <=> c = Body
<1> DEFINE t == <<"200", "header", "blank">>
<1>1. t \in Seq(Lines)
  BY DEF Lines
<1>2. c \o <<>> = c
  BY ConcatEmptySeq
<1>3. Full = t \o Body
  BY DEF Full
<1> HIDE DEF t
<1>4. ASSUME t \o c = t \o Body PROVE c = Body
  BY <1>1, <1>4, BodyIs, CutAlike
<1> QED BY <1>2, <1>3, <1>4, Zenon DEF t

LEMMA OfferedNumbers ==
  ASSUME NEW sent, NEW said \in Answers, NEW end
  PROVE  Offered(sent, said, end) \in SUBSET Nat
<1> DEFINE values == {said[k].value : k \in DOMAIN said}
           pv == FirstOf(said, "peers")
<1>1. said \in Seq(Entries(values)) /\ \A v \in values : IsNonEmptyString(v) => v.items \in Seq(Nat)
  BY TrackerClientAssumption, Zenon DEF TrackerClientAssumption
<1>2. \A v \in pv : v \in values
  <2>1. CASE \E n \in 1 .. Len(said) : said[n].key = "peers"
    <3>1. PICK n \in 1 .. Len(said) : said[n].key = "peers"
      BY <2>1
    <3>2. PICK k \in 1 .. n : IsFirst(said, "peers", k)
      BY <1>1, <3>1, FirstExists, Zenon
    <3>3. k \in DOMAIN said /\ pv = {said[k].value}
      BY <1>1, <3>2, FirstAt, Zenon DEF IsFirst
    <3> QED BY <3>3
  <2>2. CASE \A n \in 1 .. Len(said) : said[n].key # "peers"
    <3>1. DOMAIN said = 1 .. Len(said)
      BY <1>1, SeqDomain, Zenon
    <3>2. {k \in DOMAIN said : said[k].key = "peers"} = {}
      BY <2>2, <3>1
    <3>3. pv = {}
      BY <3>2, Zenon DEF FirstOf
    <3> QED BY <3>3
  <2> QED BY <2>1, <2>2
<1> HIDE DEF values
<1>3. Offered(sent, said, end) = {} \/
        /\ Offered(sent, said, end) = UNION {ToSet(v.items) : v \in pv}
        /\ \A v \in pv : PeersAccepted(v)
  BY OfferedIs, Zenon DEF Accepted
<1>4. \A v \in pv : PeersAccepted(v) => ToSet(v.items) \in SUBSET Nat
  <2>1. ASSUME NEW v \in pv, PeersAccepted(v) PROVE ToSet(v.items) \in SUBSET Nat
    <3>1. v.items \in Seq(Nat)
      BY <1>1, <1>2, <2>1, Zenon DEF PeersAccepted
    <3> QED BY <3>1, ToSetIn
  <2> QED BY <2>1
<1> HIDE DEF pv
<1> QED BY <1>3, <1>4

-----------------------------------------------------------------------------
(* Each action keeps the invariant.                                        *)

LEMMA SameRequests == UNCHANGED torrentVars => build_tracker_requests' = build_tracker_requests
BY DEF torrentVars, build_tracker_requests, Asked

LEMMA ShortSeqs ==
  ASSUME NEW T, NEW n, NEW s \in SeqOf(T, n)
  PROVE  s \in Seq(T)
BY DEF SeqOf

LEMMA Starts == Init => RequestInv
<1> SUFFICES ASSUME Init PROVE RequestInv
  OBVIOUS
<1>1. multi_trackers_ \in Seq(Urls)
  BY ShortSeqs DEF Init
<1>2. <<>> \in Seq(Nat) /\ <<>> \in Seq(Lines)
  BY EmptySeq
<1>3. RequestTypes
  BY <1>1, <1>2 DEF Init, RequestTypes
<1>4. RequestsInv /\ CollectedInv /\ ExchangeInv /\ OnlyAndAllAnswered
  BY DEF Init, RequestsInv, CollectedInv, ExchangeInv, OnlyAndAllAnswered, HttpAwaits
<1> QED BY <1>3, <1>4 DEF RequestInv

\* The requests, while one is at hand.
LEMMA AtRequest ==
  ASSUME RequestInv, pc \in HttpAwaits \union {"udp"}
  PROVE  /\ all_infos = build_tracker_requests /\ all_infos \in Seq(Requests)
         /\ answered \in Seq(SUBSET Nat) /\ Len(answered) = Len(all_infos) /\ Len(answered) \in Nat
         /\ DOMAIN answered = 1 .. Len(answered) /\ current \in 1 .. Len(answered)
         /\ ToSet(all_peers) = UNION {answered[k] : k \in 1 .. current - 1}
         /\ \A k \in DOMAIN answered : k > current => answered[k] = {}
         /\ all_peers \in Seq(Nat)
<1>1. pc # "build" /\ pc # "done"
  BY DEF HttpAwaits
<1>2. /\ all_infos = build_tracker_requests
      /\ answered \in Seq(SUBSET Nat) /\ Len(answered) = Len(all_infos)
      /\ current \in 1 .. Len(all_infos)
  BY <1>1 DEF RequestInv, RequestsInv
<1>3. all_infos \in Seq(Requests)
  BY <1>2, RequestsBuilt DEF RequestInv, RequestTypes
<1>4. Len(answered) \in Nat /\ DOMAIN answered = 1 .. Len(answered)
  BY <1>2, SeqDomain, Zenon
<1>5. /\ ToSet(all_peers) = UNION {answered[k] : k \in 1 .. current - 1}
      /\ \A k \in DOMAIN answered : k > current => answered[k] = {}
      /\ all_peers \in Seq(Nat)
  BY DEF RequestInv, CollectedInv, RequestTypes, AnsweredBefore
<1> QED BY <1>2, <1>3, <1>4, <1>5

\* The tracker at hand is done with, whatever it answered.
LEMMA Collects ==
  ASSUME RequestInv, pc \in HttpAwaits \union {"udp"},
         NEW peers \in Seq(Nat), TryAddPeers(peers),
         UNCHANGED <<torrentVars, all_infos>>,
         answered' = [answered EXCEPT ![current] = ToSet(peers)],
         response' \in Seq(Lines), content' \in Seq(Lines), stream' \in Seq(Lines)
  PROVE  RequestInv'
<1> DEFINE c == current
           N == Len(answered)
           P == all_peers \o peers
<1>1. /\ all_infos = build_tracker_requests /\ all_infos \in Seq(Requests)
      /\ answered \in Seq(SUBSET Nat) /\ N = Len(all_infos) /\ N \in Nat
      /\ DOMAIN answered = 1 .. N /\ c \in 1 .. N
      /\ ToSet(all_peers) = UNION {answered[k] : k \in 1 .. c - 1}
      /\ \A k \in DOMAIN answered : k > c => answered[k] = {}
      /\ all_peers \in Seq(Nat)
  BY AtRequest
<1>2. ToSet(peers) \in SUBSET Nat
  BY ToSetIn
<1>3. /\ answered' \in Seq(SUBSET Nat) /\ Len(answered') = N /\ DOMAIN answered' = 1 .. N
      /\ answered'[c] = ToSet(peers) /\ \A k \in 1 .. N : k # c => answered'[k] = answered[k]
  <2> DEFINE S == ToSet(peers)
             T == SUBSET Nat
  <2>1. answered' = [answered EXCEPT ![c] = S] /\ S \in T /\ answered \in Seq(T)
    BY <1>1, <1>2
  <2> HIDE DEF S, T
  <2>2. answered' \in Seq(T) /\ Len(answered') = N
    BY <2>1, <1>1
  <2>3. answered'[c] = S /\ \A k \in 1 .. N : k # c => answered'[k] = answered[k]
    BY <2>1, <1>1
  <2>4. DOMAIN answered' = 1 .. N
    BY <2>1, <1>1
  <2> QED BY <2>2, <2>3, <2>4 DEF S, T
<1>4. P \in Seq(Nat) /\ ToSet(P) = UNION {answered'[k] : k \in 1 .. c}
  <2>1. P \in Seq(Nat) /\ ToSet(P) = ToSet(all_peers) \union ToSet(peers)
    <3>1. P \in Seq(Nat)
      BY <1>1, ConcatOf, Zenon
    <3>2. ToSet(P) = ToSet(all_peers) \union ToSet(peers)
      <4>1. \A s, t \in Seq(Nat) : ToSet(s \o t) = ToSet(s) \union ToSet(t)
        BY ToSetConcat
      <4> QED BY <4>1, <1>1, Zenon
    <3> QED BY <3>1, <3>2
  <2>2. c \in Nat \ {0} /\ \A k \in 1 .. c - 1 : k \in 1 .. N /\ k # c
    BY <1>1
  <2>3. \A k \in 1 .. c : k = c \/ k \in 1 .. c - 1
    BY <2>2
  <2> DEFINE U == UNION {answered'[k] : k \in 1 .. c}
             V == UNION {answered[k] : k \in 1 .. c - 1}
  <2>4. ToSet(all_peers) = V /\ answered'[c] = ToSet(peers) /\ c \in 1 .. c
    BY <1>1, <1>3, <2>2
  <2>5. \A x : x \in U <=> \E k \in 1 .. c : x \in answered'[k]
    BY Zenon
  <2>6. \A x : x \in V <=> \E k \in 1 .. c - 1 : x \in answered[k]
    BY Zenon
  <2>7. \A k \in 1 .. c - 1 : answered'[k] = answered[k] /\ k \in 1 .. c
    BY <2>2, <1>3
  <2> HIDE DEF P, c, U, V
  <2>8. \A x : x \in U <=> x \in V \/ x \in ToSet(peers)
    BY <2>3, <2>4, <2>5, <2>6, <2>7, Zenon
  <2>9. U = V \union ToSet(peers)
    BY <2>8
  <2> QED BY <2>1, <2>4, <2>9, Zenon DEF U
<1>5. all_infos' = build_tracker_requests'
  BY <1>1, SameRequests
<1>6. tracker_url_utf8_' \in Urls /\ multi_trackers_' \in Seq(Urls)
  BY DEF RequestInv, RequestTypes, torrentVars
<1>7. all_infos' = all_infos
  OBVIOUS
<1>8. CASE /\ c < Len(all_infos)
           /\ current' = c + 1
           /\ all_peers' = P
           /\ pc' = FirstAwait(all_infos[c + 1])
  <2>1. pc' \in {"udp", "resolve"}
    BY <1>8 DEF FirstAwait
  <2>2. pc' \in HttpAwaits \union {"build", "udp", "done"} /\ pc' # "build" /\ pc' # "done"
        /\ pc' \notin {"status", "headers", "body"}
    BY <2>1 DEF HttpAwaits
  <2>3. c + 1 \in 1 .. N /\ c + 1 \in Nat /\ (c + 1) - 1 = c
    BY <1>1, <1>8
  <2> HIDE DEF P, c
  <2>4. RequestTypes'
    BY <1>4, <1>6, <1>8, <2>2, <2>3 DEF RequestTypes
  <2>5. RequestsInv'
    BY <1>1, <1>3, <1>5, <1>7, <1>8, <2>2, <2>3 DEF RequestsInv
  <2>6. CollectedInv'
    <3>1. AnsweredBefore(current)' = UNION {answered'[k] : k \in 1 .. c}
      <4>1. AnsweredBefore(current)' = UNION {answered'[k] : k \in 1 .. (c + 1) - 1}
        BY <1>8, Zenon DEF AnsweredBefore
      <4> QED BY <4>1, <2>3, Zenon
    <3>2. ToSet(all_peers') = AnsweredBefore(current)'
      BY <3>1, <1>4, <1>8, Zenon
    <3>3. \A k \in DOMAIN answered' : k > current' => answered'[k] = {}
      <4>1. ASSUME NEW k \in 1 .. N, k > c + 1 PROVE answered'[k] = {}
        <5>1. k # c /\ k > c
          BY <4>1, <2>3, <1>1 DEF c
        <5>2. answered'[k] = answered[k]
          BY <5>1, <1>3
        <5> QED BY <5>1, <5>2, <1>1
      <4> QED BY <4>1, <1>3, <1>8
    <3> QED BY <3>2, <3>3 DEF CollectedInv
  <2>7. ExchangeInv'
    <3>1. answered'[c + 1] = {}
      <4>1. c + 1 # c /\ c + 1 > c
        BY <1>1 DEF c
      <4>2. answered'[c + 1] = answered[c + 1]
        BY <4>1, <2>3, <1>3
      <4> QED BY <4>1, <4>2, <2>3, <1>1
    <3> QED BY <3>1, <1>8, <2>2 DEF ExchangeInv
  <2>8. OnlyAndAllAnswered'
    BY <2>2 DEF OnlyAndAllAnswered
  <2> QED BY <2>4, <2>5, <2>6, <2>7, <2>8 DEF RequestInv
<1>9. CASE /\ c >= Len(all_infos)
           /\ all_peers' = RemoveDuplicates(P)
           /\ result' = IF all_peers' # <<>> THEN "peers" ELSE "failed"
           /\ pc' = "done"
           /\ UNCHANGED current
  <2>1. c = N /\ c \in Nat
    BY <1>1, <1>9
  <2> HIDE DEF P
  <2>2. all_peers' \in Seq(Nat) /\ IsInjective(all_peers') /\ ToSet(all_peers') = ToSet(P)
    BY <1>4, <1>9, RemoveDuplicatesIs, Zenon
  <2>3. RequestTypes'
    BY <1>6, <1>9, <2>1, <2>2 DEF RequestTypes
  <2>4. RequestsInv'
    BY <1>1, <1>3, <1>5, <1>7, <1>9, <2>1 DEF RequestsInv
  <2>5. CollectedInv' /\ ExchangeInv'
    BY <1>9 DEF CollectedInv, ExchangeInv, HttpAwaits
  <2>6. OnlyAndAllAnswered'
    <3> DEFINE good == UNION {answered'[k] : k \in DOMAIN answered'}
    <3>1. ToSet(all_peers') = good
      BY <1>3, <1>4, <2>1, <2>2
    <3>2. all_peers' = <<>> <=> ToSet(all_peers') = {}
      <4>1. ASSUME all_peers' # <<>> PROVE ToSet(all_peers') # {}
        <5>1. Len(all_peers') \in Nat \ {0} /\ DOMAIN all_peers' = 1 .. Len(all_peers')
          BY <4>1, <2>2, EmptyIffNoLength, SeqDomain
        <5>2. 1 \in DOMAIN all_peers'
          BY <5>1
        <5>3. all_peers'[1] \in ToSet(all_peers')
          BY <5>2 DEF ToSet
        <5> QED BY <5>3
      <4> QED BY <4>1, ToSetNone
    <3> HIDE DEF good
    <3>3. result' = IF good = {} THEN "failed" ELSE "peers"
      BY <3>1, <3>2, <1>9
    <3> QED BY <3>1, <3>3, <2>2, Zenon DEF OnlyAndAllAnswered, good
  <2> QED BY <2>3, <2>4, <2>5, <2>6 DEF RequestInv
<1> QED BY <1>8, <1>9 DEF TryAddPeers

LEMMA Builds == RequestInv /\ Build => RequestInv'
<1> SUFFICES ASSUME RequestInv, Build PROVE RequestInv'
  OBVIOUS
<1>1. /\ pc = "build" /\ current = 0 /\ all_peers = <<>>
      /\ tracker_url_utf8_ \in Urls /\ multi_trackers_ \in Seq(Urls)
      /\ response \in Seq(Lines) /\ content \in Seq(Lines) /\ stream \in Seq(Lines)
  BY DEF RequestInv, RequestTypes, RequestsInv, Build
<1>2. /\ all_infos' = build_tracker_requests' /\ all_infos' \in Seq(Requests)
      /\ UNCHANGED <<torrentVars, all_peers, response, content, stream>>
  <2>1. all_infos' = build_tracker_requests /\ UNCHANGED torrentVars
    BY DEF Build
  <2>2. build_tracker_requests \in Seq(Requests)
    BY <1>1, RequestsBuilt
  <2>3. UNCHANGED <<torrentVars, all_peers, response, content, stream>>
    BY DEF Build, httpVars
  <2> QED BY <2>1, <2>2, <2>3, SameRequests
<1>3. tracker_url_utf8_' \in Urls /\ multi_trackers_' \in Seq(Urls)
  BY <1>1, <1>2 DEF torrentVars
<1> DEFINE N == Len(all_infos')
<1>4. N \in Nat /\ DOMAIN all_infos' = 1 .. N /\ (all_infos' = <<>> <=> N = 0)
  BY <1>2, SeqDomain, EmptyIffNoLength, Zenon
<1>5. /\ answered' \in Seq(SUBSET Nat) /\ Len(answered') = N /\ DOMAIN answered' = 1 .. N
      /\ \A k \in 1 .. N : answered'[k] = {}
  <2>1. answered' = [k \in 1 .. N |-> {}]
    BY <1>4 DEF Build
  <2> HIDE DEF N
  <2>2. answered' \in [1 .. N -> SUBSET Nat]
    BY <2>1
  <2> QED BY <2>1, <2>2, <1>4, FunctionIsSeq
<1>6. all_peers' = <<>> /\ <<>> \in Seq(Nat)
  BY <1>1, <1>2, EmptySeq
<1>7. CASE all_infos' = <<>>
  <2>1. result' = "failed" /\ pc' = "done" /\ current' = 0 /\ N = 0
    BY <1>1, <1>4, <1>7 DEF Build
  <2> HIDE DEF N
  <2>2. RequestTypes'
    BY <1>1, <1>2, <1>3, <1>6, <2>1 DEF RequestTypes
  <2>3. RequestsInv'
    BY <1>2, <1>5, <2>1 DEF RequestsInv, N
  <2>4. CollectedInv' /\ ExchangeInv'
    BY <2>1 DEF CollectedInv, ExchangeInv, HttpAwaits
  <2>5. OnlyAndAllAnswered'
    <3> DEFINE good == UNION {answered'[k] : k \in DOMAIN answered'}
    <3>1. good = {}
      BY <1>5
    <3>2. ToSet(all_peers') = {} /\ IsInjective(all_peers')
      BY <1>6, ToSetNone DEF IsInjective
    <3> HIDE DEF good
    <3> QED BY <2>1, <3>1, <3>2, Zenon DEF OnlyAndAllAnswered, good
  <2> QED BY <2>2, <2>3, <2>4, <2>5 DEF RequestInv
<1>8. CASE all_infos' # <<>>
  <2>1. current' = 1 /\ pc' \in {"udp", "resolve"} /\ 1 \in 1 .. N
    BY <1>4, <1>8 DEF Build, FirstAwait
  <2>2. pc' \in HttpAwaits \union {"build", "udp", "done"} /\ pc' # "build" /\ pc' # "done"
        /\ pc' \notin {"status", "headers", "body"}
    BY <2>1 DEF HttpAwaits
  <2> HIDE DEF N
  <2>3. RequestTypes'
    BY <1>1, <1>2, <1>3, <1>6, <2>1, <2>2 DEF RequestTypes
  <2>4. RequestsInv'
    BY <1>2, <1>5, <2>1, <2>2 DEF RequestsInv, N
  <2>5. CollectedInv'
    <3>1. AnsweredBefore(current)' = {}
      BY <2>1 DEF AnsweredBefore
    <3> QED BY <3>1, <1>5, <1>6, ToSetNone DEF CollectedInv
  <2>6. ExchangeInv'
    BY <1>5, <2>1, <2>2 DEF ExchangeInv
  <2>7. OnlyAndAllAnswered'
    BY <2>2 DEF OnlyAndAllAnswered
  <2> QED BY <2>3, <2>4, <2>5, <2>6, <2>7 DEF RequestInv
<1> QED BY <1>7, <1>8

\* A step of the exchange changes neither the requests nor what is collected.
LEMMA StaysAtRequest ==
  ASSUME RequestInv, pc \in HttpAwaits \union {"udp"}, pc' \in HttpAwaits,
         UNCHANGED <<torrentVars, all_infos, current, all_peers>>,
         answered' \in Seq(SUBSET Nat), Len(answered') = Len(answered),
         \A k \in 1 .. Len(answered) : k # current => answered'[k] = answered[k],
         response' \in Seq(Lines), content' \in Seq(Lines), stream' \in Seq(Lines)
  PROVE  RequestTypes' /\ RequestsInv' /\ CollectedInv' /\ OnlyAndAllAnswered'
<1>1. /\ all_infos = build_tracker_requests
      /\ Len(answered) = Len(all_infos) /\ Len(answered) \in Nat
      /\ DOMAIN answered = 1 .. Len(answered) /\ current \in 1 .. Len(answered)
      /\ ToSet(all_peers) = UNION {answered[k] : k \in 1 .. current - 1}
      /\ \A k \in DOMAIN answered : k > current => answered[k] = {}
  BY AtRequest
<1>2. pc' # "build" /\ pc' # "done"
  BY DEF HttpAwaits
<1>3. all_infos' = build_tracker_requests'
  BY <1>1, SameRequests
<1>4. RequestTypes'
  BY DEF RequestInv, RequestTypes, torrentVars
<1>5. RequestsInv'
  BY <1>1, <1>2, <1>3 DEF RequestsInv
<1>6. CollectedInv'
  <2>1. \A k \in 1 .. current - 1 : answered'[k] = answered[k]
    BY <1>1
  <2>2. {answered'[k] : k \in 1 .. current - 1} = {answered[k] : k \in 1 .. current - 1}
    BY <2>1
  <2>3. AnsweredBefore(current)' = UNION {answered[k] : k \in 1 .. current - 1}
    BY <2>2, Zenon DEF AnsweredBefore
  <2>4. DOMAIN answered' = 1 .. Len(answered)
    BY SeqDomain
  <2>5. \A k \in 1 .. Len(answered) : k > current => answered'[k] = {}
    <3>1. ASSUME NEW k \in 1 .. Len(answered), k > current PROVE answered'[k] = {}
      <4>1. k # current
        BY <3>1, <1>1
      <4>2. answered'[k] = answered[k]
        BY <4>1
      <4> QED BY <4>2, <3>1, <1>1
    <3> QED BY <3>1
  <2>6. ToSet(all_peers)' = AnsweredBefore(current)'
    BY <1>1, <2>3, Zenon
  <2>7. \A k \in DOMAIN answered' : k > current' => answered'[k] = {}
    BY <2>4, <2>5
  <2> QED BY <2>6, <2>7 DEF CollectedInv
<1>7. OnlyAndAllAnswered'
  BY <1>2 DEF OnlyAndAllAnswered
<1> QED BY <1>4, <1>5, <1>6, <1>7

LEMMA Answered ==
  ASSUME RequestInv, pc \in HttpAwaits \union {"udp"}
  PROVE  /\ answered \in Seq(SUBSET Nat) /\ answered = [answered EXCEPT ![current] = answered[current]]
         /\ response \in Seq(Lines) /\ content \in Seq(Lines) /\ stream \in Seq(Lines)
         /\ <<>> \in Seq(Lines)
<1>1. answered \in Seq(SUBSET Nat)
  BY AtRequest
<1>2. answered = [answered EXCEPT ![current] = answered[current]]
  BY <1>1
<1>3. response \in Seq(Lines) /\ content \in Seq(Lines) /\ stream \in Seq(Lines)
  BY DEF RequestInv, RequestTypes
<1> QED BY <1>1, <1>2, <1>3, EmptySeq

\* Resolving, connecting and the handshake.
LEMMA Connects == RequestInv /\ (Resolved \/ Connected) => RequestInv'
<1> SUFFICES ASSUME RequestInv, Resolved \/ Connected PROVE RequestInv'
  OBVIOUS
<1>1. /\ pc \in {"resolve", "connect", "handshake"} /\ pc' \in {"connect", "handshake", "write"}
      /\ UNCHANGED <<torrentVars, all_infos, current, response, content, stream, answer, ending,
                     all_peers, answered>>
  BY DEF Resolved, Connected, httpVars
<1>2. pc \in HttpAwaits \union {"udp"} /\ pc' \in HttpAwaits
  BY <1>1 DEF HttpAwaits
<1>3. /\ answered' \in Seq(SUBSET Nat)
      /\ response' \in Seq(Lines) /\ content' \in Seq(Lines) /\ stream' \in Seq(Lines)
  BY <1>1, <1>2, Answered
<1>4. RequestTypes' /\ RequestsInv' /\ CollectedInv' /\ OnlyAndAllAnswered'
  BY <1>1, <1>2, <1>3, StaysAtRequest
<1>5. ExchangeInv'
  BY <1>1 DEF RequestInv, ExchangeInv
<1> QED BY <1>4, <1>5 DEF RequestInv

LEMMA Writes == RequestInv /\ Written => RequestInv'
<1> SUFFICES ASSUME RequestInv, Written PROVE RequestInv'
  OBVIOUS
<1>1. pc = "write" /\ pc' = "status"
      /\ UNCHANGED <<torrentVars, all_infos, current, all_peers>>
      /\ response' = <<>> /\ content' = <<>>
  BY DEF Written
<1>2. PICK sent \in Responses, said \in Answers, end \in {"eof", "reset", "open"} :
        /\ stream' = sent /\ answer' = said /\ ending' = end
        /\ answered' = [answered EXCEPT ![current] = Offered(sent, said, end)]
  BY Zenon DEF Written
<1>3. pc \in HttpAwaits \union {"udp"} /\ pc' \in HttpAwaits
  BY <1>1 DEF HttpAwaits
<1> DEFINE S == Offered(sent, said, end)
           T == SUBSET Nat
<1>4. answered \in Seq(T) /\ S \in T /\ current \in 1 .. Len(answered) /\ Len(answered) \in Nat
  BY <1>3, AtRequest, OfferedNumbers
<1>5. answered' = [answered EXCEPT ![current] = S]
  BY <1>2
<1> HIDE DEF S, T
<1>6. /\ answered' \in Seq(T) /\ Len(answered') = Len(answered) /\ answered'[current] = S
      /\ \A k \in 1 .. Len(answered) : k # current => answered'[k] = answered[k]
  BY <1>4, <1>5
<1>7. stream' \in Seq(Lines) /\ <<>> \in Seq(Lines)
  BY <1>2, ResponseLooksSent, EmptySeq DEF LooksSent
<1>8. RequestTypes' /\ RequestsInv' /\ CollectedInv' /\ OnlyAndAllAnswered'
  BY <1>1, <1>3, <1>6, <1>7, StaysAtRequest DEF T
<1>9. ExchangeInv'
  <2>1. answered'[current'] = Offered(sent, answer', ending')
    BY <1>1, <1>2, <1>6 DEF S
  <2>2. Exchanged(sent)'
    BY <1>1, <1>2 DEF Exchanged
  <2>3. sent \in Responses' /\ answer' \in Answers
    BY <1>2 DEF Responses, Body
  <2> QED BY <1>1, <2>1, <2>2, <2>3 DEF ExchangeInv
<1> QED BY <1>8, <1>9 DEF RequestInv

\* What the exchange of the current tracker is known to be.
LEMMA InExchange ==
  ASSUME RequestInv, pc \in {"status", "headers", "body"}
  PROVE  /\ answer \in Answers
         /\ \E sent \in Responses :
              /\ LooksSent(sent) /\ answered[current] = Offered(sent, answer, ending)
              /\ pc = "status" => sent = stream /\ response = <<>>
              /\ pc = "headers" => sent = <<"200">> \o (response \o stream)
              /\ pc = "body" => sent = <<"200", "header", "blank">> \o (content \o stream)
         /\ response \in Seq(Lines) /\ content \in Seq(Lines) /\ stream \in Seq(Lines)
         /\ pc \in HttpAwaits \union {"udp"}
<1>1. ExchangeInv
  BY DEF RequestInv
<1>2. PICK sent \in Responses : answered[current] = Offered(sent, answer, ending) /\ Exchanged(sent)
  BY <1>1 DEF ExchangeInv
<1>3. /\ pc = "status" => sent = stream /\ response = <<>>
      /\ pc = "headers" => sent = <<"200">> \o (response \o stream)
      /\ pc = "body" => sent = <<"200", "header", "blank">> \o (content \o stream)
  BY <1>2, Zenon DEF Exchanged
<1>4. LooksSent(sent)
  BY ResponseLooksSent
<1>5. answer \in Answers
  BY <1>1 DEF ExchangeInv
<1>6. /\ response \in Seq(Lines) /\ content \in Seq(Lines) /\ stream \in Seq(Lines)
      /\ pc \in HttpAwaits \union {"udp"}
  BY DEF RequestInv, RequestTypes, HttpAwaits
<1> QED BY <1>2, <1>3, <1>4, <1>5, <1>6, Zenon

\* A read in the midst of an exchange.
LEMMA Reading ==
  ASSUME RequestInv, pc \in {"status", "headers", "body"}, pc' \in {"status", "headers", "body"},
         UNCHANGED <<torrentVars, all_infos, current, answer, ending, all_peers, answered>>,
         response' \in Seq(Lines), content' \in Seq(Lines), stream' \in Seq(Lines),
         NEW sent \in Responses, answered[current] = Offered(sent, answer, ending),
         Exchanged(sent)'
  PROVE  RequestInv'
<1>1. pc \in HttpAwaits \union {"udp"} /\ pc' \in HttpAwaits
  BY DEF HttpAwaits
<1>2. answered' \in Seq(SUBSET Nat)
  BY <1>1, Answered
<1>3. RequestTypes' /\ RequestsInv' /\ CollectedInv' /\ OnlyAndAllAnswered'
  BY <1>1, <1>2, StaysAtRequest
<1>4. answer' \in Answers
  BY InExchange
<1>5. ExchangeInv'
  <2>1. sent \in Responses' /\ Offered(sent, answer, ending)' = Offered(sent, answer, ending)
    BY DEF Responses, Body, Offered
  <2> QED BY <1>4, <2>1 DEF ExchangeInv
<1> QED BY <1>3, <1>5 DEF RequestInv

LEMMA ReadsStatus == RequestInv /\ StatusRead => RequestInv'
<1> SUFFICES ASSUME RequestInv, StatusRead PROVE RequestInv'
  OBVIOUS
<1>1. pc = "status" /\ pc' = "headers"
      /\ UNCHANGED <<torrentVars, all_infos, current, content, answer, ending, all_peers, answered>>
  BY DEF StatusRead
<1>2. PICK b \in Received :
        /\ b # <<>> /\ Head(b) = "200"
        /\ response' = Tail(b)
        /\ stream' = SubSeq(stream, Len(b) - Len(response) + 1, Len(stream))
  BY Zenon DEF StatusRead
<1>n. PICK n \in 0 .. Len(stream) : b = response \o SubSeq(stream, 1, n)
  BY Zenon DEF Received
<1>3. response \in Seq(Lines) /\ content \in Seq(Lines) /\ stream \in Seq(Lines)
  BY <1>1, InExchange
<1>4. PICK sent \in Responses :
        answered[current] = Offered(sent, answer, ending) /\ sent = stream /\ response = <<>>
  BY <1>1, InExchange
<1>5. b \in Seq(Lines) /\ stream' \in Seq(Lines) /\ b \o stream' = response \o stream
  <2>1. b \in Seq(Lines) /\ stream' \in Seq(Lines) /\ SameAs(b, stream', response, stream)
    BY <1>2, <1>n, <1>3, ReceivedIs, Zenon
  <2> QED BY <2>1, Zenon DEF SameAs
<1>6. response \o stream = sent
  BY <1>3, <1>4, ConcatEmptySeq
<1>7. b \o stream' = <<"200">> \o (response' \o stream') /\ response' \in Seq(Lines)
  BY <1>2, <1>5, StatusTaken, Zenon
<1>8. sent = <<"200">> \o (response' \o stream')
  BY <1>5, <1>6, <1>7, Zenon
<1>9. Exchanged(sent)'
  BY <1>1, <1>8 DEF Exchanged
<1> QED BY <1>1, <1>3, <1>4, <1>5, <1>7, <1>9, Reading

LEMMA ReadsHeaders == RequestInv /\ HeadersRead => RequestInv'
<1> SUFFICES ASSUME RequestInv, HeadersRead PROVE RequestInv'
  OBVIOUS
<1>1. pc = "headers" /\ pc' = "body" /\ response' = <<>>
      /\ UNCHANGED <<torrentVars, all_infos, current, answer, ending, all_peers, answered>>
  BY DEF HeadersRead
<1>2. PICK b \in Received :
        /\ EndsHeaders(b)
        /\ content' = BodyIn(b)
        /\ stream' = SubSeq(stream, Len(b) - Len(response) + 1, Len(stream))
  BY Zenon DEF HeadersRead
<1>n. PICK n \in 0 .. Len(stream) : b = response \o SubSeq(stream, 1, n)
  BY Zenon DEF Received
<1>3. response \in Seq(Lines) /\ content \in Seq(Lines) /\ stream \in Seq(Lines)
  BY <1>1, InExchange
<1>4. PICK sent \in Responses :
        /\ LooksSent(sent) /\ answered[current] = Offered(sent, answer, ending)
        /\ sent = <<"200">> \o (response \o stream)
  BY <1>1, InExchange
<1>5. b \in Seq(Lines) /\ stream' \in Seq(Lines) /\ b \o stream' = response \o stream
  <2>1. b \in Seq(Lines) /\ stream' \in Seq(Lines) /\ SameAs(b, stream', response, stream)
    BY <1>2, <1>n, <1>3, ReceivedIs, Zenon
  <2> QED BY <2>1, Zenon DEF SameAs
<1>6. sent = <<"200">> \o (b \o stream')
  BY <1>4, <1>5, Zenon
<1>7. LooksSent(<<"200">> \o (b \o stream'))
  BY <1>4, <1>6, Zenon
<1>8. content' \in Seq(Lines)
      /\ <<"200">> \o (b \o stream') = <<"200", "header", "blank">> \o (content' \o stream')
  BY <1>2, <1>5, <1>7, HeadersTaken, Zenon
<1>9. sent = <<"200", "header", "blank">> \o (content' \o stream')
  BY <1>6, <1>8, Zenon
<1>10. Exchanged(sent)'
  BY <1>1, <1>9 DEF Exchanged
<1>11. response' \in Seq(Lines)
  BY <1>1, EmptySeq
<1> QED BY <1>1, <1>4, <1>5, <1>8, <1>10, <1>11, Reading

LEMMA ReadsBody == RequestInv /\ BodyRead => RequestInv'
<1> SUFFICES ASSUME RequestInv, BodyRead PROVE RequestInv'
  OBVIOUS
<1>1. pc = "body" /\ pc' = "body"
      /\ UNCHANGED <<torrentVars, all_infos, current, response, answer, ending, all_peers, answered>>
  BY DEF BodyRead
<1>2. PICK n \in 1 .. Len(stream) :
        /\ content' = content \o SubSeq(stream, 1, n)
        /\ stream' = SubSeq(stream, n + 1, Len(stream))
  BY DEF BodyRead
<1>3. response \in Seq(Lines) /\ content \in Seq(Lines) /\ stream \in Seq(Lines) /\ response' = response
  BY <1>1, InExchange
<1>4. PICK sent \in Responses :
        /\ answered[current] = Offered(sent, answer, ending)
        /\ sent = <<"200", "header", "blank">> \o (content \o stream)
  BY <1>1, InExchange
<1> DEFINE m == Len(content') - Len(content) + 1
           rest == SubSeq(stream, m, Len(stream))
<1>5. n \in 0 .. Len(stream)
  BY <1>2
<1>6. /\ content' \in Seq(Lines) /\ rest \in Seq(Lines)
      /\ content' \o rest = content \o stream
  <2>1. /\ content' \in Seq(Lines) /\ rest \in Seq(Lines)
        /\ SameAs(content', rest, content, stream)
    <3> DEFINE b == content'
    <3>1. b = content \o SubSeq(stream, 1, n) /\ rest = SubSeq(stream, Len(b) - Len(content) + 1, Len(stream))
      BY <1>2
    <3> HIDE DEF rest, m, b
    <3>2. /\ b \in Seq(Lines) /\ rest \in Seq(Lines)
          /\ SameAs(b, rest, content, stream)
      BY <1>3, <1>5, <3>1, ReceivedIs, Zenon
    <3> QED BY <3>2 DEF b
  <2> QED BY <2>1, Zenon DEF SameAs
<1>7. m = n + 1
  <2> DEFINE x == SubSeq(stream, 1, n)
  <2>1. Len(content) \in Nat /\ n \in Nat /\ Len(stream) \in Nat
        /\ \A k \in 1 .. n : stream[k] \in Lines
    BY <1>2, <1>3, SeqDomain
  <2>2. x \in Seq(Lines) /\ Len(x) = n
    BY <2>1, SubSeqProperties
  <2>3. content' = content \o x
    BY <1>2
  <2> HIDE DEF x
  <2>4. Len(content') = Len(content) + n
    BY <1>3, <2>2, <2>3, ConcatOf
  <2> QED BY <2>1, <2>4
<1>8. rest = stream'
  <2> HIDE DEF m
  <2> QED BY <1>2, <1>7
<1> HIDE DEF rest, m
<1>9. sent = <<"200", "header", "blank">> \o (content' \o stream')
  BY <1>4, <1>6, <1>8, Zenon
<1>10. Exchanged(sent)'
  BY <1>1, <1>9 DEF Exchanged
<1> QED BY <1>1, <1>3, <1>4, <1>6, <1>8, <1>10, Reading

\* The exchange is over and its connection closed.
LEMMA Ends ==
  ASSUME RequestInv, pc \in HttpAwaits, Closed, UNCHANGED <<torrentVars, all_infos, answered>>,
         NEW peers \in Seq(Nat), TryAddPeers(peers), answered[current] = ToSet(peers)
  PROVE  RequestInv'
<1>1. pc \in HttpAwaits \union {"udp"}
  OBVIOUS
<1>2. response' \in Seq(Lines) /\ content' \in Seq(Lines) /\ stream' \in Seq(Lines)
  BY EmptySeq DEF Closed
<1>3. answered' = [answered EXCEPT ![current] = ToSet(peers)]
  <2>1. answered = [answered EXCEPT ![current] = answered[current]] /\ answered' = answered
    BY <1>1, Answered
  <2> QED BY <2>1
<1> QED BY <1>1, <1>2, <1>3, Collects

LEMMA EndsBody == RequestInv /\ BodyEnds => RequestInv'
<1> SUFFICES ASSUME RequestInv, BodyEnds PROVE RequestInv'
  OBVIOUS
<1>1. pc = "body" /\ stream = <<>> /\ ending = "eof" /\ Closed
      /\ UNCHANGED <<torrentVars, all_infos, answered>>
  BY DEF BodyEnds
<1>2. PICK sent \in Responses :
        /\ answered[current] = Offered(sent, answer, ending)
        /\ sent = <<"200", "header", "blank">> \o (content \o stream)
  BY <1>1, InExchange
<1>3. answer \in Answers /\ content \in Seq(Lines) /\ pc \in HttpAwaits
  BY <1>1, InExchange DEF HttpAwaits
<1>4. sent = Full <=> content = Body
  BY <1>1, <1>2, <1>3, FullWithBody, Zenon
<1>5. ASSUME NEW peers \in PeersOf(content), TryAddPeers(peers) PROVE RequestInv'
  <2>1. content = Body
    BY <1>5, Zenon DEF PeersOf
  <2>2. peers \in Seq(Nat) /\ ToSet(peers) = Offered(Full, answer, "eof")
    BY <1>3, <1>5, <2>1, PeersAreOffered, Zenon
  <2>3. answered[current] = ToSet(peers)
    BY <1>1, <1>2, <1>4, <2>1, <2>2, Zenon
  <2> QED BY <1>1, <1>3, <1>5, <2>2, <2>3, Ends
<1>6. ASSUME PeersOf(content) = {}, FetchFails PROVE RequestInv'
  <2>1. answered[current] = {}
    <3>1. CASE content = Body
      <4>1. Offered(Full, answer, "eof") = {}
        BY <1>3, <1>6, <3>1, PeersAreOffered, Zenon
      <4> QED BY <1>1, <1>2, <1>4, <3>1, <4>1, Zenon
    <3>2. CASE content # Body
      BY <1>2, <1>4, <3>2, OfferedIs, Zenon
    <3> QED BY <3>1, <3>2
  <2>2. <<>> \in Seq(Nat) /\ ToSet(<<>>) = answered[current] /\ TryAddPeers(<<>>)
    BY <1>6, <2>1, ToSetNone, EmptySeq DEF FetchFails
  <2> QED BY <1>1, <1>3, <2>2, Ends
<1> QED BY <1>5, <1>6, Zenon DEF BodyEnds

LEMMA FailsHttp == RequestInv /\ HttpFails => RequestInv'
<1> SUFFICES ASSUME RequestInv, HttpFails PROVE RequestInv'
  OBVIOUS
<1>1. /\ pc \in {"resolve", "connect", "handshake", "write"} \/ ReadFails
      /\ FetchFails /\ Closed /\ UNCHANGED <<torrentVars, all_infos, answered>>
  BY DEF HttpFails
<1>2. pc \in {"resolve", "connect", "handshake", "write", "status", "headers", "body"}
  BY <1>1 DEF ReadFails, Starved
<1>3. pc \in HttpAwaits
  BY <1>2 DEF HttpAwaits
<1>4. answered[current] = {}
  <2>1. CASE pc \in {"resolve", "connect", "handshake", "write"}
    BY <2>1 DEF RequestInv, ExchangeInv
  <2>2. CASE pc \notin {"resolve", "connect", "handshake", "write"}
    <3>1. pc \in {"status", "headers", "body"} /\ ReadFails
      BY <1>1, <1>2, <2>2
    <3>2. PICK sent \in Responses :
            /\ answered[current] = Offered(sent, answer, ending)
            /\ pc = "status" => sent = stream /\ response = <<>>
            /\ pc = "headers" => sent = <<"200">> \o (response \o stream)
      BY <3>1, InExchange, Zenon
    <3>3. response \in Seq(Lines) /\ stream \in Seq(Lines)
      BY <3>1, InExchange
    <3>4. CASE pc = "status" /\ (stream # <<>> => Head(stream) # "200")
      <4>1. sent # Full
        BY <3>2, <3>3, <3>4, NotFull
      <4> QED BY <3>2, <4>1, OfferedIs, Zenon
    <3>5. CASE pc = "headers" /\ ~EndsHeaders(response \o stream)
      <4>1. sent # Full
        BY <3>2, <3>3, <3>5, NotFull
      <4> QED BY <3>2, <4>1, OfferedIs, Zenon
    <3>6. CASE pc = "body" /\ stream = <<>> /\ ending = "reset"
      <4>1. ending # "eof"
        BY <3>6
      <4> QED BY <3>2, <4>1, OfferedIs, Zenon
    <3> QED BY <3>1, <3>4, <3>5, <3>6 DEF ReadFails, Starved
  <2> QED BY <2>1, <2>2
<1>5. <<>> \in Seq(Nat) /\ ToSet(<<>>) = answered[current] /\ TryAddPeers(<<>>)
  BY <1>1, <1>4, ToSetNone, EmptySeq DEF FetchFails
<1> QED BY <1>1, <1>3, <1>5, Ends

LEMMA AnswersUdp == RequestInv /\ UdpAnswers => RequestInv'
<1> SUFFICES ASSUME RequestInv, UdpAnswers PROVE RequestInv'
  OBVIOUS
<1>1. pc = "udp" /\ UNCHANGED <<torrentVars, all_infos, response, content, stream>>
  BY DEF UdpAnswers, httpVars
<1>2. PICK peers \in SeqOf(Peers, 2) \ {<<>>} :
        /\ answered' = [answered EXCEPT ![current] = ToSet(peers)]
        /\ TryAddPeers(peers)
  BY Zenon DEF UdpAnswers
<1>3. pc \in HttpAwaits \union {"udp"}
  BY <1>1
<1>4. peers \in Seq(Nat)
  <2>1. peers \in Seq(Peers)
    BY <1>2, ShortSeqs, Zenon
  <2>2. Peers \subseteq Nat
    BY TrackerClientAssumption, Zenon DEF TrackerClientAssumption
  <2>3. /\ Len(peers) \in Nat /\ DOMAIN peers = 1 .. Len(peers)
        /\ \A k \in 1 .. Len(peers) : peers[k] \in Peers
    BY <2>1, SeqDomain, Zenon
  <2>4. peers = [k \in 1 .. Len(peers) |-> peers[k]]
    BY <2>1, <2>3
  <2>5. peers \in [1 .. Len(peers) -> Nat]
    BY <2>2, <2>3, <2>4, Zenon
  <2> QED BY <2>3, <2>5, FunctionIsSeq
<1>5. response' \in Seq(Lines) /\ content' \in Seq(Lines) /\ stream' \in Seq(Lines)
  BY <1>1, <1>3, Answered
<1> QED BY <1>1, <1>2, <1>3, <1>4, <1>5, Collects

LEMMA FailsUdp == RequestInv /\ UdpFails => RequestInv'
<1> SUFFICES ASSUME RequestInv, UdpFails PROVE RequestInv'
  OBVIOUS
<1>1. pc = "udp" /\ UNCHANGED <<torrentVars, all_infos, response, content, stream, answered>>
      /\ TryAddPeers(<<>>)
  BY DEF UdpFails, FetchFails, httpVars
<1>2. pc \in HttpAwaits \union {"udp"} /\ <<>> \in Seq(Nat)
  BY <1>1, EmptySeq
<1>3. answered[current] = ToSet(<<>>)
  BY <1>1, ToSetNone DEF RequestInv, ExchangeInv
<1>4. answered' = [answered EXCEPT ![current] = ToSet(<<>>)]
  <2>1. answered = [answered EXCEPT ![current] = answered[current]]
    BY <1>2, Answered
  <2> QED BY <1>1, <1>3, <2>1
<1>5. response' \in Seq(Lines) /\ content' \in Seq(Lines) /\ stream' \in Seq(Lines)
  BY <1>1, <1>2, Answered
<1> QED BY <1>1, <1>2, <1>4, <1>5, Collects

LEMMA Stutters == RequestInv /\ UNCHANGED vars => RequestInv'
<1> SUFFICES ASSUME RequestInv, UNCHANGED vars PROVE RequestInv'
  OBVIOUS
<1>1. UNCHANGED <<torrentVars, tracker_url_utf8_, multi_trackers_, pc, all_infos, current, response,
                  content, stream, answer, ending, all_peers, result, answered>>
  BY DEF vars, torrentVars, httpVars
<1>2. build_tracker_requests' = build_tracker_requests
  BY <1>1, SameRequests
<1>3. RequestTypes'
  BY <1>1 DEF RequestInv, RequestTypes
<1>4. RequestsInv'
  BY <1>1, <1>2 DEF RequestInv, RequestsInv
<1>5. CollectedInv'
  BY <1>1 DEF RequestInv, CollectedInv, AnsweredBefore
<1>6. ExchangeInv'
  <2>1. ExchangeInv
    BY DEF RequestInv
  <2>2. CASE pc \in {"status", "headers", "body"}
    <3>1. PICK sent \in Responses : answered[current] = Offered(sent, answer, ending) /\ Exchanged(sent)
      BY <2>1, <2>2 DEF ExchangeInv
    <3>2. Exchanged(sent)'
      BY <1>1, <3>1 DEF Exchanged
    <3>3. answered'[current'] = Offered(sent, answer', ending') /\ answer' \in Answers
      BY <1>1, <2>1, <2>2, <3>1 DEF ExchangeInv
    <3>4. sent \in Responses'
      BY DEF Responses, Body
    <3> QED BY <1>1, <2>2, <3>2, <3>3, <3>4 DEF ExchangeInv
  <2>3. CASE pc \notin {"status", "headers", "body"}
    BY <1>1, <2>1, <2>3 DEF ExchangeInv
  <2> QED BY <2>2, <2>3
<1>7. OnlyAndAllAnswered'
  BY <1>1 DEF RequestInv, OnlyAndAllAnswered
<1> QED BY <1>3, <1>4, <1>5, <1>6, <1>7 DEF RequestInv

-----------------------------------------------------------------------------
(* The query string.                                                       *)

\* A sequence is its front and its last element.
LEMMA FrontAndLast ==
  ASSUME NEW T, NEW s \in Seq(T), s # <<>>
  PROVE  /\ Front(s) \in Seq(T) /\ Last(s) \in T /\ s = Append(Front(s), Last(s))
         /\ Len(Front(s)) + 1 = Len(s)
<1>1. Len(s) \in Nat /\ Len(s) # 0
  BY SeqDomain, EmptyIffNoLength
<1> DEFINE f == Front(s)
<1>2. f \in Seq(T) /\ Len(f) = Len(s) - 1 /\ \A k \in 1 .. Len(s) - 1 : f[k] = s[k]
  BY <1>1, FrontIs
<1>3. s[Len(s)] \in T
  BY <1>1, SeqDomain
<1> HIDE DEF f
<1>4. s = Append(f, s[Len(s)])
  <2>1. f \in Seq(T) /\ Len(f) = Len(s) - 1 /\ \A k \in 1 .. Len(s) - 1 : f[k] = s[k]
    BY <1>2
  <2>2. Append(f, s[Len(s)]) \in Seq(T) /\ Len(Append(f, s[Len(s)])) = Len(s)
    BY <1>1, <1>3, <2>1
  <2>3. ASSUME NEW k \in 1 .. Len(s) PROVE Append(f, s[Len(s)])[k] = s[k]
    BY <1>1, <1>3, <2>1
  <2> QED BY <2>2, <2>3, SeqEqual
<1>5. Len(f) + 1 = Len(s)
  BY <1>1, <1>2
<1> QED BY <1>2, <1>3, <1>4, <1>5, Zenon DEF Last, f

\* std::to_string of what is at most n.
Decimals(f, n) ==
  f = [m \in 0 .. n |-> IF m < 10 THEN <<48 + m>> ELSE Append(f[m \div 10], 48 + (m % 10))]

LEMMA Tenth ==
  ASSUME NEW m \in Nat, ~(m < 10)
  PROVE  m \div 10 \in 0 .. m - 1 /\ m % 10 \in 0 .. 9
OBVIOUS

LEMMA DecimalsExist ==
  ASSUME NEW m \in Nat
  PROVE  \E f : Decimals(f, m)
<1> DEFINE Has(n) == \E f : Decimals(f, n)
           Missing == {n \in 0 .. m : ~Has(n)}
<1> HIDE DEF Has
<1>1. ASSUME Missing # {} PROVE FALSE
  <2>1. PICK n \in Missing : \A j \in Missing : n <= j
    <3>1. Missing \in SUBSET Nat
      OBVIOUS
    <3> HIDE DEF Missing
    <3> QED BY <1>1, <3>1, LeastNumber
  <2>2. n \in Nat /\ ~Has(n)
    BY <2>1
  <2>3. CASE n = 0
    <3> DEFINE f == [k \in 0 .. 0 |-> <<48 + k>>]
    <3>1. \A k \in 0 .. 0 : k < 10
      OBVIOUS
    <3>2. Decimals(f, 0)
      BY <3>1, Zenon DEF Decimals
    <3> QED BY <2>2, <2>3, <3>2 DEF Has
  <2>4. CASE n # 0
    <3>1. n - 1 \in 0 .. m /\ n - 1 \notin Missing
      BY <2>1, <2>4
    <3>2. PICK g : Decimals(g, n - 1)
      BY <3>1 DEF Has
    <3> DEFINE Longer1(x, k) == Append(x, 48 + (k % 10))
               First(k) == <<48 + k>>
               h == [k \in 0 .. n |-> IF k = n
                                      THEN (IF n < 10 THEN First(n) ELSE Longer1(g[n \div 10], n))
                                      ELSE g[k]]
    <3>3. ASSUME NEW k \in 0 .. n
          PROVE  h[k] = IF k < 10 THEN <<48 + k>> ELSE Append(h[k \div 10], 48 + (k % 10))
      <4>1. /\ k \in Nat
            /\ k # n => k \in 0 .. n - 1
            /\ ~(k < 10) => k \div 10 \in 0 .. k - 1
        BY <2>2, <2>4, Tenth
      <4>2. ~(k < 10) => k \div 10 \in 0 .. n /\ k \div 10 # n
        BY <4>1, <2>2
      <4> HIDE DEF Longer1, First
      <4>3. h[k] = IF k = n THEN (IF n < 10 THEN First(n) ELSE Longer1(g[n \div 10], n)) ELSE g[k]
        OBVIOUS
      <4>4. ~(k < 10) => h[k \div 10] = g[k \div 10]
        BY <4>2, Zenon
      <4>5. k # n => g[k] = IF k < 10 THEN First(k) ELSE Longer1(g[k \div 10], k)
        BY <3>2, <4>1, Zenon DEF Decimals, Longer1, First
      <4> HIDE DEF h
      <4>6. h[k] = IF k < 10 THEN First(k) ELSE Longer1(h[k \div 10], k)
        BY <4>3, <4>4, <4>5, Zenon
      <4> QED BY <4>6, Zenon DEF Longer1, First
    <3>4. Decimals(h, n)
      <4>1. h = [k \in 0 .. n |-> h[k]]
        OBVIOUS
      <4> HIDE DEF h
      <4> QED BY <3>3, <4>1 DEF Decimals
    <3> QED BY <2>2, <3>4 DEF Has
  <2> QED BY <2>3, <2>4
<1>2. m \in 0 .. m
  OBVIOUS
<1> QED BY <1>1, <1>2 DEF Has

\* Numbers are written with bytes.
LEMMA DecimalBytes ==
  ASSUME NEW n \in Nat
  PROVE  Decimal(n) \in Seq(Byte)
<1> DEFINE f == CHOOSE g : Decimals(g, n)
<1>1. Decimal(n) = f[n]
  BY Zenon DEF Decimal, Decimals
<1>2. Decimals(f, n)
  BY DecimalsExist, Zenon
<1> HIDE DEF f
<1>3. \A m \in 0 .. n : f[m] = IF m < 10 THEN <<48 + m>> ELSE Append(f[m \div 10], 48 + (m % 10))
  BY <1>2, Zenon DEF Decimals
<1> DEFINE Bad == {m \in 0 .. n : f[m] \notin Seq(Byte)}
<1>4. ASSUME Bad # {} PROVE FALSE
  <2>1. PICK m \in Bad : \A j \in Bad : m <= j
    <3>1. Bad \in SUBSET Nat
      OBVIOUS
    <3> HIDE DEF Bad
    <3> QED BY <1>4, <3>1, LeastNumber
  <2>2. m \in Nat /\ m \in 0 .. n /\ f[m] \notin Seq(Byte)
    BY <2>1
  <2>3. CASE m < 10
    <3>1. f[m] = <<48 + m>>
      BY <1>3, <2>2, <2>3, Zenon
    <3>2. 48 + m \in Byte
      BY <2>2, <2>3 DEF Byte
    <3> QED BY <2>2, <3>1, <3>2
  <2>4. CASE ~(m < 10)
    <3>1. m \div 10 \in 0 .. m - 1 /\ m % 10 \in 0 .. 9
      BY <2>2, <2>4, Tenth
    <3>2. m \div 10 \in 0 .. n /\ m \div 10 < m
      BY <2>2, <3>1
    <3>3. f[m \div 10] \in Seq(Byte)
      <4> DEFINE d == m \div 10
      <4>1. d \notin Bad
        <5>1. d \in 0 .. n /\ d < m
          BY <3>2
        <5> HIDE DEF d, Bad
        <5> QED BY <2>1, <2>2, <5>1
      <4>2. d \in 0 .. n
        BY <3>2
      <4> HIDE DEF d
      <4>3. f[d] \in Seq(Byte)
        BY <4>1, <4>2
      <4> QED BY <4>3 DEF d
    <3>4. 48 + (m % 10) \in Byte
      BY <3>1 DEF Byte
    <3>5. f[m] = Append(f[m \div 10], 48 + (m % 10))
      BY <1>3, <2>2, <2>4, Zenon
    <3>6. Append(f[m \div 10], 48 + (m % 10)) \in Seq(Byte)
      BY <3>3, <3>4, AppendProperties, Zenon
    <3> QED BY <2>2, <3>5, <3>6, Zenon
  <2> QED BY <2>3, <2>4
<1>5. n \in 0 .. n
  OBVIOUS
<1> QED BY <1>1, <1>4, <1>5, Zenon

\* No element of s is x.
Free(s, x) == \A k \in DOMAIN s : s[k] # x

HexChars == (48 .. 57) \union (65 .. 70)

LEMMA HexDigitIs ==
  ASSUME NEW d \in 0 .. 15
  PROVE  HexDigits[d + 1] = IF d < 10 THEN 48 + d ELSE 55 + d
<1>1. d \in {0, 1, 2, 3, 4, 5, 6, 7, 8, 9, 10, 11, 12, 13, 14, 15}
  OBVIOUS
<1> QED BY <1>1 DEF HexDigits

LEMMA HexIs ==
  ASSUME NEW d \in 0 .. 15
  PROVE  HexDigits[d + 1] \in HexChars /\ HexValue(HexDigits[d + 1]) = d
<1>1. HexDigits[d + 1] \in HexChars
  BY HexDigitIs DEF HexChars
<1>2. ASSUME NEW k \in 0 .. 15, HexDigits[k + 1] = HexDigits[d + 1] PROVE k = d
  BY <1>2, HexDigitIs
<1> DEFINE c == HexDigits[d + 1]
           v == CHOOSE k \in 0 .. 15 : HexDigits[k + 1] = c
<1>3. v \in 0 .. 15 /\ HexDigits[v + 1] = c
  BY Zenon
<1>4. v = d
  <2> HIDE DEF v
  <2> QED BY <1>2, <1>3
<1> QED BY <1>1, <1>4, Zenon DEF HexValue

\* The block b is what is written for the byte c.
Stands(b, c) ==
  \/ b = <<43>> /\ c = 32
  \/ b = <<c>> /\ c # 37 /\ c # 43
  \/ \E h, l \in HexChars : b = <<37, h, l>> /\ c = 16 * HexValue(h) + HexValue(l)

LEMMA EncodeStands ==
  ASSUME NEW c \in Byte, NEW escapes, 43 \in escapes
  PROVE  /\ Stands(Encode(c, escapes), c) /\ Encode(c, escapes) \in Seq(Byte)
         /\ \A x \in escapes : x \in {38, 61} => Free(Encode(c, escapes), x)
<1>1. CASE c = 32
  <2>1. Encode(c, escapes) = <<43>>
    BY <1>1, Zenon DEF Encode
  <2>2. Stands(Encode(c, escapes), c)
    BY <1>1, <2>1, Zenon DEF Stands
  <2>3. <<43>> \in Seq(Byte) /\ Free(<<43>>, 38) /\ Free(<<43>>, 61)
    BY DEF Free, Byte
  <2> QED BY <2>1, <2>2, <2>3
<1>2. CASE c # 32 /\ IsChar(c) /\ c \notin escapes
  <2>1. Encode(c, escapes) = <<c>>
    BY <1>2 DEF Encode
  <2>2. c # 37
    BY <1>2 DEF IsChar
  <2>3. c # 43
    BY <1>2
  <2>4. Stands(Encode(c, escapes), c)
    BY <2>1, <2>2, <2>3, Zenon DEF Stands
  <2> QED BY <1>2, <2>1, <2>4 DEF Free
<1>3. CASE c # 32 /\ ~(IsChar(c) /\ c \notin escapes)
  <2> DEFINE a == c \div 16
             z == c % 16
             h == HexDigits[a + 1]
             l == HexDigits[z + 1]
  <2>1. Encode(c, escapes) = <<37, h, l>>
    BY <1>3, Zenon DEF Encode
  <2>2. a \in 0 .. 15 /\ z \in 0 .. 15 /\ c = 16 * a + z
    BY DEF Byte
  <2> HIDE DEF a, z
  <2>3. h \in HexChars /\ l \in HexChars /\ HexValue(h) = a /\ HexValue(l) = z
    BY <2>2, HexIs
  <2> HIDE DEF h, l
  <2>4. c = 16 * HexValue(h) + HexValue(l)
    BY <2>2, <2>3, Zenon
  <2>5. Stands(Encode(c, escapes), c)
    BY <2>1, <2>3, <2>4, Zenon DEF Stands
  <2>6. h \in Byte /\ l \in Byte /\ h \notin {38, 61} /\ l \notin {38, 61}
    BY <2>3 DEF HexChars, Byte
  <2>7. Free(<<37, h, l>>, 38) /\ Free(<<37, h, l>>, 61) /\ <<37, h, l>> \in Seq(Byte)
    BY <2>6 DEF Free, Byte
  <2> QED BY <2>1, <2>5, <2>7
<1> QED BY <1>1, <1>2, <1>3

\* A function on a sequence's places, with one place more.
LEMMA MapMore ==
  ASSUME NEW U, NEW N \in Nat, NEW f, NEW g,
         f \in [1 .. N -> U], g \in [1 .. N + 1 -> U], \A n \in 1 .. N : g[n] = f[n]
  PROVE  f \in Seq(U) /\ g[N + 1] \in U /\ g = Append(f, g[N + 1])
<1>1. f \in Seq(U) /\ Len(f) = N /\ g \in Seq(U) /\ Len(g) = N + 1
  BY FunctionIsSeq
<1>2. g[N + 1] \in U
  BY <1>1
<1>3. Append(f, g[N + 1]) \in Seq(U) /\ Len(Append(f, g[N + 1])) = N + 1
  BY <1>1, <1>2, AppendProperties
<1>4. ASSUME NEW k \in 1 .. N + 1 PROVE Append(f, g[N + 1])[k] = g[k]
  <2>1. CASE k = N + 1
    BY <1>1, <1>2, <2>1, AppendProperties
  <2>2. CASE k # N + 1
    <3>1. k \in 1 .. N
      BY <2>2
    <3>2. Append(f, g[N + 1])[k] = f[k]
      BY <1>1, <1>2, <3>1, AppendProperties
    <3> QED BY <3>1, <3>2
  <2> QED BY <2>1, <2>2
<1>5. g = Append(f, g[N + 1])
  BY <1>1, <1>3, <1>4, SeqEqual
<1> QED BY <1>1, <1>2, <1>5

\* Encoding goes on from what is encoded.
LEMMA EncodedMore ==
  ASSUME NEW s \in Seq(Byte), NEW c \in Byte, NEW escapes, 43 \in escapes
  PROVE  encode_query(Append(s, c), escapes) = encode_query(s, escapes) \o Encode(c, escapes)
<1> DEFINE r == Append(s, c)
           f == [n \in 1 .. Len(s) |-> Encode(s[n], escapes)]
           g == [n \in 1 .. Len(s) + 1 |-> Encode(r[n], escapes)]
<1>1. /\ r \in Seq(Byte) /\ Len(s) \in Nat /\ Len(r) = Len(s) + 1 /\ r[Len(s) + 1] = c
      /\ \A n \in 1 .. Len(s) : r[n] = s[n] /\ n \in 1 .. Len(s) + 1
      /\ DOMAIN s = 1 .. Len(s) /\ DOMAIN r = 1 .. Len(s) + 1
      /\ \A n \in 1 .. Len(s) + 1 : r[n] \in Byte
      /\ \A n \in 1 .. Len(s) : s[n] \in Byte
      /\ Len(s) + 1 \in 1 .. Len(s) + 1
  OBVIOUS
<1> HIDE DEF r
<1>2. \A b \in Byte : Encode(b, escapes) \in Seq(Byte)
  BY EncodeStands
<1>3. f \in [1 .. Len(s) -> Seq(Byte)] /\ g \in [1 .. Len(s) + 1 -> Seq(Byte)]
  BY <1>1, <1>2
<1>4. (\A n \in 1 .. Len(s) : g[n] = f[n]) /\ g[Len(s) + 1] = Encode(c, escapes)
  BY <1>1
<1>5. encode_query(s, escapes) = FlattenSeq(f) /\ encode_query(r, escapes) = FlattenSeq(g)
  BY <1>1, Zenon DEF encode_query
<1> HIDE DEF f, g
<1>6. f \in Seq(Seq(Byte)) /\ g = Append(f, Encode(c, escapes)) /\ Encode(c, escapes) \in Seq(Byte)
  <2>1. f \in Seq(Seq(Byte)) /\ g = Append(f, g[Len(s) + 1]) /\ g[Len(s) + 1] \in Seq(Byte)
    <3>1. Len(s) \in Nat
      BY <1>1
    <3>2. \A n \in 1 .. Len(s) : g[n] = f[n]
      BY <1>4
    <3> DEFINE N == Len(s)
    <3> HIDE DEF N
    <3>3. /\ N \in Nat /\ f \in [1 .. N -> Seq(Byte)] /\ g \in [1 .. N + 1 -> Seq(Byte)]
          /\ \A n \in 1 .. N : g[n] = f[n]
      BY <1>3, <3>1, <3>2, Zenon DEF N
    <3>4. f \in Seq(Seq(Byte)) /\ g = Append(f, g[N + 1]) /\ g[N + 1] \in Seq(Byte)
      BY <3>3, MapMore
    <3> QED BY <3>4, Zenon DEF N
  <2> QED BY <1>4, <2>1, Zenon
<1>7. FlattenSeq(g) = FlattenSeq(f) \o Encode(c, escapes)
  BY <1>6, FlattenAppend, Zenon
<1> QED BY <1>5, <1>7, Zenon DEF r

-----------------------------------------------------------------------------
(* Decoding.                                                               *)

\* No escape reaches over the end.
Quiet(s) == ~Percent(s, Len(s) - 1) /\ ~Percent(s, Len(s))

LEMMA DecodedMore ==
  ASSUME NEW s \in Seq(Byte), NEW c \in Byte
  PROVE  \E T : /\ Decoded(s) \in Seq(T)
                /\ DecodedAt(Append(s, c), Len(s) + 1) \in Seq(T)
                /\ Decoded(Append(s, c)) = Decoded(s) \o DecodedAt(Append(s, c), Len(s) + 1)
<1> DEFINE N == Len(s)
           r == Append(s, c)
           T == {DecodedAt(r, n)[1] : n \in 1 .. N + 1}
           f == [n \in 1 .. N |-> DecodedAt(s, n)]
           g == [n \in 1 .. N + 1 |-> DecodedAt(r, n)]
<1>1. /\ N \in Nat /\ DOMAIN s = 1 .. N /\ DOMAIN r = 1 .. N + 1
      /\ \A n \in 1 .. N : r[n] = s[n]
  OBVIOUS
<1> HIDE DEF N, r, T
<1>2. ASSUME NEW n \in 1 .. N + 1 PROVE g[n] \in Seq(T)
  <2>1. g[n] = DecodedAt(r, n)
    OBVIOUS
  <2>2. DecodedAt(r, n) = <<>> \/ \E x : DecodedAt(r, n) = <<x>>
    BY Zenon DEF DecodedAt
  <2>3. CASE DecodedAt(r, n) = <<>>
    BY <2>1, <2>3
  <2>4. CASE DecodedAt(r, n) # <<>>
    <3>1. PICK x : DecodedAt(r, n) = <<x>>
      BY <2>2, <2>4, Zenon
    <3>2. <<x>>[1] = x
      OBVIOUS
    <3>3. x \in T
      BY <3>1, <3>2, Zenon DEF T
    <3>4. <<x>> \in Seq(T)
      BY <3>3
    <3> QED BY <2>1, <3>1, <3>4, Zenon
  <2> QED BY <2>3, <2>4
<1>3. ASSUME NEW n \in 1 .. N PROVE g[n] = f[n]
  <2>1. /\ n \in 1 .. N + 1 /\ r[n] = s[n]
        /\ n - 1 > 0 => r[n - 1] = s[n - 1]
        /\ n - 2 > 0 => r[n - 2] = s[n - 2] /\ n - 1 > 0
    BY <1>1
  <2>2. /\ Percent(r, n - 2) <=> Percent(s, n - 2)
        /\ Percent(r, n - 1) <=> Percent(s, n - 1)
        /\ Percent(r, n) <=> Percent(s, n)
    BY <2>1, Zenon DEF Percent
  <2>3. Percent(r, n - 2) => r[n - 1] = s[n - 1]
    BY <2>1, Zenon DEF Percent
  <2>4. DecodedAt(r, n) = DecodedAt(s, n)
    BY <2>1, <2>2, <2>3, Zenon DEF DecodedAt
  <2> QED BY <2>1, <2>4, Zenon
<1>4. \A n \in 1 .. N : n \in 1 .. N + 1
  BY <1>1
<1>5. f \in [1 .. N -> Seq(T)] /\ g \in [1 .. N + 1 -> Seq(T)]
  <2>1. g \in [1 .. N + 1 -> Seq(T)]
    BY <1>2
  <2>2. \A n \in 1 .. N : f[n] \in Seq(T)
    BY <1>2, <1>3, <1>4, Zenon
  <2> QED BY <2>1, <2>2
<1>6. Decoded(s) = FlattenSeq(f) /\ Decoded(r) = FlattenSeq(g) /\ g[N + 1] = DecodedAt(r, N + 1)
  <2>1. N + 1 \in 1 .. N + 1
    BY <1>1
  <2> QED BY <1>1, <2>1, Zenon DEF Decoded
<1> HIDE DEF f, g
<1>7. f \in Seq(Seq(T)) /\ g = Append(f, g[N + 1]) /\ g[N + 1] \in Seq(T)
  BY <1>1, <1>3, <1>5, MapMore
<1>8. FlattenSeq(g) = FlattenSeq(f) \o g[N + 1] /\ FlattenSeq(f) \in Seq(T)
  BY <1>7, FlattenAppend, FlattenInSeq, Zenon
<1> QED BY <1>6, <1>7, <1>8, Zenon DEF N, r

\* A character more decodes to none or one byte more.
LEMMA DecodedNone ==
  ASSUME NEW s \in Seq(Byte), NEW c \in Byte, DecodedAt(Append(s, c), Len(s) + 1) = <<>>
  PROVE  Decoded(Append(s, c)) = Decoded(s)
<1>1. PICK T : Decoded(s) \in Seq(T) /\ Decoded(Append(s, c)) = Decoded(s) \o <<>>
  BY DecodedMore, Zenon
<1>2. \A t \in Seq(T) : t \o <<>> = t
  OBVIOUS
<1> QED BY <1>1, <1>2, Zenon

LEMMA DecodedOne ==
  ASSUME NEW s \in Seq(Byte), NEW c \in Byte, NEW b,
         DecodedAt(Append(s, c), Len(s) + 1) = <<b>>
  PROVE  Decoded(Append(s, c)) = Append(Decoded(s), b)
<1>1. PICK T : /\ Decoded(s) \in Seq(T) /\ <<b>> \in Seq(T)
               /\ Decoded(Append(s, c)) = Decoded(s) \o <<b>>
  BY DecodedMore, Zenon
<1>2. b \in T
  <2>1. <<b>>[1] \in T
    BY <1>1, SeqDomain
  <2> QED BY <2>1
<1>3. \A t \in Seq(T) : t \o <<b>> = Append(t, b)
  BY <1>2
<1> QED BY <1>1, <1>3, Zenon

\* What is written for a byte decodes to that byte.
LEMMA DecodedBlock ==
  ASSUME NEW s \in Seq(Byte), Quiet(s), NEW c \in Byte, NEW b \in Seq(Byte), Stands(b, c)
  PROVE  Decoded(s \o b) = Append(Decoded(s), c) /\ Quiet(s \o b)
<1> DEFINE N == Len(s)
<1>1. N \in Nat /\ ~Percent(s, N - 1) /\ ~Percent(s, N)
  BY DEF Quiet
<1>2. ASSUME NEW x \in Byte, b = <<x>>, x # 37, (IF x = 43 THEN 32 ELSE x) = c
      PROVE  Decoded(s \o b) = Append(Decoded(s), c) /\ Quiet(s \o b)
  <2> DEFINE r == Append(s, x)
  <2>1. s \o b = r
    BY <1>2
  <2>2. /\ Len(r) = N + 1 /\ r[N + 1] = x /\ N + 1 - 2 = N - 1 /\ N + 1 - 1 = N
        /\ N > 0 => r[N] = s[N]
        /\ N - 1 > 0 => r[N - 1] = s[N - 1]
    BY <1>1
  <2> HIDE DEF r, N
  <2>3. ~Percent(r, N - 1) /\ ~Percent(r, N) /\ ~Percent(r, N + 1)
    BY <1>1, <1>2, <2>2, Zenon DEF Percent
  <2>4. DecodedAt(r, N + 1) = <<c>>
    BY <1>1, <1>2, <2>2, <2>3 DEF DecodedAt
  <2>5. Decoded(r) = Append(Decoded(s), c)
    BY <2>4, DecodedOne DEF r, N
  <2>6. Quiet(r)
    BY <1>1, <2>2, <2>3 DEF Quiet
  <2> QED BY <2>1, <2>5, <2>6, Zenon
<1>3. ASSUME NEW h \in HexChars, NEW l \in HexChars, b = <<37, h, l>>,
             c = 16 * HexValue(h) + HexValue(l)
      PROVE  Decoded(s \o b) = Append(Decoded(s), c) /\ Quiet(s \o b)
  <2> DEFINE r1 == Append(s, 37)
             r2 == Append(r1, h)
             r3 == Append(r2, l)
  <2>1. 37 \in Byte /\ h \in Byte /\ l \in Byte /\ h # 37 /\ l # 37
    BY DEF HexChars, Byte
  <2>2. s \o b = r3
    BY <1>3, <2>1
  <2>3. r1 \in Seq(Byte) /\ Len(r1) = N + 1 /\ r1[N + 1] = 37
        /\ (N > 0 => r1[N] = s[N]) /\ (N - 1 > 0 => r1[N - 1] = s[N - 1])
    BY <1>1, <2>1
  <2> HIDE DEF r1, N
  <2>4. r2 \in Seq(Byte) /\ Len(r2) = N + 2 /\ r2[N + 2] = h /\ r2[N + 1] = 37
        /\ (N > 0 => r2[N] = s[N])
    <3>1. N > 0 => N \in 1 .. N + 1
      BY <1>1
    <3> QED BY <1>1, <2>1, <2>3, <3>1
  <2> HIDE DEF r2
  <2>5. r3 \in Seq(Byte) /\ Len(r3) = N + 3 /\ r3[N + 3] = l /\ r3[N + 2] = h /\ r3[N + 1] = 37
    BY <1>1, <2>1, <2>4
  <2> HIDE DEF r3
  <2>6. /\ N + 1 - 2 = N - 1 /\ N + 1 - 1 = N /\ N + 2 - 2 = N /\ N + 2 - 1 = N + 1
        /\ N + 3 - 2 = N + 1 /\ N + 3 - 1 = N + 2 /\ N + 1 > 0
        /\ (N + 1) + 1 = N + 2 /\ (N + 2) + 1 = N + 3
    BY <1>1
  <2>7. Decoded(r1) = Decoded(s)
    <3>1. ~Percent(r1, N - 1) /\ ~Percent(r1, N) /\ Percent(r1, N + 1)
      BY <1>1, <2>3, <2>6, Zenon DEF Percent
    <3>2. DecodedAt(r1, N + 1) = <<>>
      BY <1>1, <2>6, <3>1 DEF DecodedAt
    <3> QED BY <2>1, <3>2, DecodedNone DEF r1, N
  <2>8. Decoded(r2) = Decoded(r1)
    <3>1. ~Percent(r2, N) /\ Percent(r2, N + 1)
      BY <1>1, <2>4, <2>6, Zenon DEF Percent
    <3>2. DecodedAt(r2, N + 2) = <<>>
      BY <1>1, <2>6, <3>1 DEF DecodedAt
    <3>3. DecodedAt(Append(r1, h), Len(r1) + 1) = <<>>
      BY <2>3, <2>6, <3>2, Zenon DEF r2
    <3>4. Decoded(Append(r1, h)) = Decoded(r1)
      BY <2>1, <2>3, <3>3, DecodedNone
    <3> QED BY <3>4, Zenon DEF r2
  <2>9. Decoded(r3) = Append(Decoded(r2), c)
    <3>1. Percent(r3, N + 1)
      BY <2>5, <2>6, Zenon DEF Percent
    <3>2. DecodedAt(r3, N + 3) = <<c>>
      BY <1>1, <1>3, <2>5, <2>6, <3>1 DEF DecodedAt
    <3>3. DecodedAt(Append(r2, l), Len(r2) + 1) = <<c>>
      BY <2>4, <2>6, <3>2, Zenon DEF r3
    <3>4. Decoded(Append(r2, l)) = Append(Decoded(r2), c)
      BY <2>1, <2>4, <3>3, DecodedOne
    <3> QED BY <3>4, Zenon DEF r3
  <2>10. Quiet(r3)
    BY <1>1, <2>1, <2>5, <2>6 DEF Quiet, Percent
  <2> QED BY <2>2, <2>7, <2>8, <2>9, <2>10, Zenon
<1>4. CASE b = <<43>> /\ c = 32
  <2>1. 43 \in Byte /\ 43 # 37
    BY DEF Byte
  <2> QED BY <1>2, <1>4, <2>1, Zenon
<1>5. CASE b = <<c>> /\ c # 37 /\ c # 43
  BY <1>2, <1>5, Zenon
<1> QED BY <1>3, <1>4, <1>5, Zenon DEF Stands

LEMMA FreeConcat ==
  ASSUME NEW s \in Seq(Byte), NEW t \in Seq(Byte), NEW x, Free(s, x), Free(t, x)
  PROVE  Free(s \o t, x)
<1>1. s \o t \in Seq(Byte) /\ Follow(s, t, s \o t)
  BY ConcatParts
<1> DEFINE r == s \o t
<1> HIDE DEF r
<1>2. r \in Seq(Byte) /\ Follow(s, t, r)
  BY <1>1 DEF r
<1>3. ASSUME NEW k \in 1 .. Len(r) PROVE r[k] # x
  <2>1. Len(s) \in Nat /\ Len(t) \in Nat /\ Len(r) = Len(s) + Len(t)
        /\ DOMAIN s = 1 .. Len(s) /\ DOMAIN t = 1 .. Len(t)
    BY <1>2 DEF Follow
  <2>2. CASE k \in 1 .. Len(s)
    BY <1>2, <2>1, <2>2 DEF Follow, Free
  <2>3. CASE k \notin 1 .. Len(s)
    <3>1. k - Len(s) \in 1 .. Len(t) /\ Len(s) + (k - Len(s)) = k
      BY <2>1, <2>3
    <3>2. r[k] = t[k - Len(s)]
      BY <1>2, <3>1 DEF Follow
    <3> QED BY <2>1, <3>1, <3>2 DEF Free
  <2> QED BY <2>2, <2>3
<1>4. DOMAIN r = 1 .. Len(r)
  BY <1>2, SeqDomain
<1> QED BY <1>3, <1>4 DEF Free, r

\* What was written for a string decodes to it.
WrittenFor(s, escapes) ==
  LET w == encode_query(s, escapes)
  IN /\ w \in Seq(Byte) /\ Quiet(w) /\ Decoded(w) = s
     /\ \A x \in escapes : x \in {38, 61} => Free(w, x)

LEMMA EncodedDecoded ==
  ASSUME NEW escapes, 43 \in escapes
  PROVE  \A s \in Seq(Byte) : WrittenFor(s, escapes)
<1> DEFINE Bad == {n \in Nat : \E s \in Seq(Byte) : Len(s) = n /\ ~WrittenFor(s, escapes)}
<1>1. ASSUME Bad # {} PROVE FALSE
  <2>1. PICK n \in Bad : \A k \in Bad : n <= k
    <3>1. Bad \in SUBSET Nat
      OBVIOUS
    <3> HIDE DEF Bad
    <3> QED BY <1>1, <3>1, LeastNumber
  <2>2. PICK s \in Seq(Byte) : Len(s) = n /\ ~WrittenFor(s, escapes)
    BY <2>1
  <2>3. CASE s = <<>>
    <3>1. [k \in DOMAIN s |-> Encode(s[k], escapes)] = <<>>
      BY <2>3
    <3>2. encode_query(s, escapes) = <<>>
      BY <3>1, FlattenEmpty, Zenon DEF encode_query
    <3>3. [k \in DOMAIN <<>> |-> DecodedAt(<<>>, k)] = <<>>
      OBVIOUS
    <3>4. Decoded(<<>>) = <<>>
      BY <3>3, FlattenEmpty, Zenon DEF Decoded
    <3>5. <<>> \in Seq(Byte) /\ Quiet(<<>>) /\ \A x : Free(<<>>, x)
      BY DEF Quiet, Percent, Free
    <3> QED BY <2>2, <2>3, <3>2, <3>4, <3>5, Zenon DEF WrittenFor
  <2>4. CASE s # <<>>
    <3> DEFINE f == Front(s)
               c == Last(s)
               w == encode_query(f, escapes)
               b == Encode(c, escapes)
    <3>1. f \in Seq(Byte) /\ c \in Byte /\ s = Append(f, c) /\ Len(f) + 1 = Len(s)
      BY <2>4, FrontAndLast
    <3> HIDE DEF f, c
    <3>2. Len(f) \in Nat /\ Len(f) < n
      BY <2>2, <3>1
    <3>3. WrittenFor(f, escapes)
      <4>1. Len(f) \notin Bad
        <5>1. n \in Nat
          BY <2>1
        <5> HIDE DEF Bad
        <5> QED BY <2>1, <3>2, <5>1
      <4> QED BY <3>1, <3>2, <4>1
    <3>4. /\ w \in Seq(Byte) /\ Quiet(w) /\ Decoded(w) = f
          /\ \A x \in escapes : x \in {38, 61} => Free(w, x)
      BY <3>3, Zenon DEF WrittenFor
    <3>5. /\ Stands(b, c) /\ b \in Seq(Byte)
          /\ \A x \in escapes : x \in {38, 61} => Free(b, x)
      BY <3>1, EncodeStands
    <3>6. encode_query(s, escapes) = w \o b
      BY <3>1, EncodedMore
    <3> HIDE DEF w, b
    <3>7. w \o b \in Seq(Byte)
      BY <3>4, <3>5, ConcatOf
    <3>8. Decoded(w \o b) = s /\ Quiet(w \o b)
      BY <3>1, <3>4, <3>5, DecodedBlock
    <3>9. \A x \in escapes : x \in {38, 61} => Free(w \o b, x)
      BY <3>4, <3>5, FreeConcat
    <3>10. WrittenFor(s, escapes)
      BY <3>6, <3>7, <3>8, <3>9, Zenon DEF WrittenFor
    <3> QED BY <2>2, <3>10
  <2> QED BY <2>3, <2>4
<1>2. \A s \in Seq(Byte) : Len(s) \in Nat
  OBVIOUS
<1> QED BY <1>1, <1>2

-----------------------------------------------------------------------------
(* The parts between ampersands.                                           *)

LEMMA AmpersandsMore ==
  ASSUME NEW s \in Seq(Byte), NEW c \in Byte
  PROVE  /\ Ampersands(s) \in Seq(1 .. Len(s))
         /\ Ampersands(Append(s, c)) =
              IF c = 38 THEN Append(Ampersands(s), Len(s) + 1) ELSE Ampersands(s)
<1> DEFINE N == Len(s)
           r == Append(s, c)
           At(q, n) == IF q[n] = 38 THEN <<n>> ELSE <<>>
           f == [n \in 1 .. N |-> At(s, n)]
           g == [n \in 1 .. N + 1 |-> At(r, n)]
           T == 1 .. N
           U == 1 .. N + 1
<1>1. /\ N \in Nat /\ DOMAIN s = 1 .. N /\ DOMAIN r = 1 .. N + 1 /\ r[N + 1] = c
      /\ \A n \in 1 .. N : r[n] = s[n]
  BY DEF Byte
<1>2. Ampersands(s) = FlattenSeq(f) /\ Ampersands(r) = FlattenSeq(g)
  BY <1>1, Zenon DEF Ampersands
<1> HIDE DEF N, r
<1>3. (\A n \in 1 .. N : At(s, n) \in Seq(T)) /\ (\A n \in 1 .. N + 1 : At(r, n) \in Seq(U))
  <2>1. \A S : \A n \in S : <<n>> \in Seq(S) /\ <<>> \in Seq(S)
    OBVIOUS
  <2>2. \A q, n : At(q, n) = <<n>> \/ At(q, n) = <<>>
    BY Zenon
  <2> HIDE DEF At
  <2> QED BY <2>1, <2>2, Zenon DEF T, U
<1>4. (\A n \in 1 .. N : At(s, n) = At(r, n)) /\ (\A n \in 1 .. N : n \in 1 .. N + 1)
  BY <1>1
<1>5. N + 1 \in 1 .. N + 1
  BY <1>1
<1> HIDE DEF T, U, At
<1>6. f \in Seq(Seq(T))
  <2>1. f \in [1 .. N -> Seq(T)]
    BY <1>3
  <2> QED BY <1>1, <2>1, FunctionIsSeq
<1>7. f \in [1 .. N -> Seq(U)] /\ g \in [1 .. N + 1 -> Seq(U)] /\ \A n \in 1 .. N : g[n] = f[n]
  <2>1. \A n \in 1 .. N : At(s, n) \in Seq(U) /\ n \in 1 .. N + 1
    BY <1>3, <1>4, Zenon
  <2> QED BY <1>3, <1>4, <2>1
<1>8. g[N + 1] = At(r, N + 1)
  BY <1>5
<1> HIDE DEF f, g
<1>9. f \in Seq(Seq(U)) /\ g = Append(f, At(r, N + 1)) /\ At(r, N + 1) \in Seq(U)
  <2> DEFINE V == Seq(U)
  <2>1. N \in Nat
    BY <1>1, Zenon
  <2>2. f \in [1 .. N -> V] /\ g \in [1 .. N + 1 -> V] /\ \A n \in 1 .. N : g[n] = f[n]
    BY <1>7, Zenon
  <2> HIDE DEF V
  <2>3. f \in Seq(V) /\ g[N + 1] \in V /\ g = Append(f, g[N + 1])
    BY <2>1, <2>2, MapMore
  <2> QED BY <1>8, <2>3, Zenon DEF V
<1>10. FlattenSeq(g) = FlattenSeq(f) \o At(r, N + 1) /\ FlattenSeq(f) \in Seq(T) /\ FlattenSeq(f) \in Seq(U)
  BY <1>6, <1>9, FlattenAppend, FlattenInSeq, Zenon
<1>11. \A t \in Seq(U) : t \o <<>> = t /\ t \o <<N + 1>> = Append(t, N + 1)
  BY <1>5 DEF U
<1>12. At(r, N + 1) = IF c = 38 THEN <<N + 1>> ELSE <<>>
  BY <1>1, Zenon DEF At
<1>13. Ampersands(r) = IF c = 38 THEN Append(Ampersands(s), N + 1) ELSE Ampersands(s)
  BY <1>2, <1>10, <1>11, <1>12, Zenon
<1> QED BY <1>2, <1>10, <1>13, Zenon DEF N, r, T

\* What has no ampersand adds none.
LEMMA AmpersandsFree ==
  ASSUME NEW s \in Seq(Byte)
  PROVE  \A w \in Seq(Byte) : Free(w, 38) => Ampersands(s \o w) = Ampersands(s)
<1> DEFINE Adds(w) == Free(w, 38) /\ Ampersands(s \o w) # Ampersands(s)
           Bad == {n \in Nat : \E w \in Seq(Byte) : Len(w) = n /\ Adds(w)}
<1> HIDE DEF Adds
<1>1. ASSUME Bad # {} PROVE FALSE
  <2>1. PICK n \in Bad : \A k \in Bad : n <= k
    <3>1. Bad \in SUBSET Nat
      OBVIOUS
    <3> HIDE DEF Bad
    <3> QED BY <1>1, <3>1, LeastNumber
  <2>2. PICK w \in Seq(Byte) : Len(w) = n /\ Adds(w)
    BY <2>1
  <2>3. CASE w = <<>>
    <3>1. s \o <<>> = s
      OBVIOUS
    <3> QED BY <2>2, <2>3, <3>1, Zenon DEF Adds
  <2>4. CASE w # <<>>
    <3> DEFINE f == Front(w)
               c == Last(w)
    <3>1. f \in Seq(Byte) /\ c \in Byte /\ w = Append(f, c) /\ Len(f) + 1 = Len(w)
      BY <2>4, FrontAndLast
    <3> HIDE DEF f, c
    <3>2. Len(f) \in Nat /\ Len(f) < n /\ n \in Nat
      BY <2>1, <2>2, <3>1
    <3>3. ~Adds(f)
      <4>1. Len(f) \notin Bad
        <5> HIDE DEF Bad
        <5> QED BY <2>1, <3>2
      <4> QED BY <3>1, <3>2, <4>1
    <3>4. Free(f, 38) /\ c # 38
      <4>1. /\ DOMAIN w = 1 .. Len(f) + 1 /\ DOMAIN f = 1 .. Len(f) /\ w[Len(f) + 1] = c
            /\ \A k \in 1 .. Len(f) : w[k] = f[k] /\ k \in 1 .. Len(f) + 1
            /\ Len(f) + 1 \in 1 .. Len(f) + 1
        BY <3>1, <3>2
      <4>2. Free(w, 38)
        BY <2>2, Zenon DEF Adds
      <4> QED BY <4>1, <4>2, Zenon DEF Free
    <3>5. s \o w = Append(s \o f, c) /\ s \o f \in Seq(Byte)
      BY <3>1
    <3>6. Ampersands(s \o w) = Ampersands(s \o f)
      BY <3>1, <3>4, <3>5, AmpersandsMore
    <3> QED BY <2>2, <3>3, <3>4, <3>6, Zenon DEF Adds
  <2> QED BY <2>3, <2>4
<1>2. \A w \in Seq(Byte) : Len(w) \in Nat
  OBVIOUS
<1>3. \A w \in Seq(Byte) : ~Adds(w)
  BY <1>1, <1>2
<1> QED BY <1>3, Zenon DEF Adds

LEMMA SubSeqOf ==
  ASSUME NEW T, NEW s \in Seq(T), NEW a \in 1 .. Len(s) + 1, NEW b \in a - 1 .. Len(s)
  PROVE  /\ SubSeq(s, a, b) \in Seq(T) /\ Len(SubSeq(s, a, b)) = b - a + 1
         /\ \A k \in 1 .. b - a + 1 : SubSeq(s, a, b)[k] = s[a + k - 1]
<1>1. a \in Int /\ b \in Int /\ Len(s) \in Nat /\ 1 <= a /\ b <= Len(s)
  OBVIOUS
<1>2. \A k \in a .. b : s[k] \in T
  BY <1>1
<1>3. /\ SubSeq(s, a, b) \in Seq(T)
      /\ Len(SubSeq(s, a, b)) = IF a <= b THEN b - a + 1 ELSE 0
      /\ \A k \in 1 .. b - a + 1 : SubSeq(s, a, b)[k] = s[a + k - 1]
  BY <1>1, <1>2, SubSeqProperties
<1> DEFINE r == SubSeq(s, a, b)
<1> HIDE DEF r
<1>4. Len(r) = b - a + 1
  <2>1. Len(r) = IF a <= b THEN b - a + 1 ELSE 0
    BY <1>3, Zenon DEF r
  <2> QED BY <1>1, <2>1
<1> QED BY <1>3, <1>4, Zenon DEF r

\* A part of the beginning, and the end.
LEMMA PartOfFirst ==
  ASSUME NEW T, NEW s \in Seq(T), NEW t \in Seq(T),
         NEW a \in 1 .. Len(s) + 1, NEW b \in a - 1 .. Len(s)
  PROVE  SubSeq(s \o t, a, b) = SubSeq(s, a, b)
<1> DEFINE r == s \o t
<1>1. r \in Seq(T) /\ Follow(s, t, r)
  BY ConcatParts
<1> HIDE DEF r
<1>2. Len(r) \in Nat /\ Len(s) \in Nat /\ Len(s) <= Len(r) /\ a \in 1 .. Len(r) + 1 /\ b \in a - 1 .. Len(r)
  BY <1>1 DEF Follow
<1>3. /\ SubSeq(r, a, b) \in Seq(T) /\ Len(SubSeq(r, a, b)) = b - a + 1
      /\ \A k \in 1 .. b - a + 1 : SubSeq(r, a, b)[k] = r[a + k - 1]
  BY <1>1, <1>2, SubSeqOf
<1>4. /\ SubSeq(s, a, b) \in Seq(T) /\ Len(SubSeq(s, a, b)) = b - a + 1
      /\ \A k \in 1 .. b - a + 1 : SubSeq(s, a, b)[k] = s[a + k - 1]
  BY SubSeqOf
<1>5. ASSUME NEW k \in 1 .. b - a + 1 PROVE r[a + k - 1] = s[a + k - 1]
  <2>1. a + k - 1 \in 1 .. Len(s)
    BY <1>2
  <2> QED BY <1>1, <2>1, Zenon DEF Follow
<1> DEFINE x == SubSeq(r, a, b)
           y == SubSeq(s, a, b)
<1> HIDE DEF x, y
<1>6. x \in Seq(T) /\ y \in Seq(T) /\ Len(x) = Len(y) /\ \A k \in 1 .. Len(x) : x[k] = y[k]
  BY <1>3, <1>4, <1>5, Zenon DEF x, y
<1>7. x = y
  BY <1>6, SeqEqual
<1> QED BY <1>7, Zenon DEF r, x, y

\* The same when there may be nothing between a and b.
LEMMA PartOfBeginning ==
  ASSUME NEW T, NEW s \in Seq(T), NEW t \in Seq(T),
         NEW a \in 1 .. Len(s) + 1, NEW b \in 0 .. Len(s)
  PROVE  SubSeq(s, a, b) \in Seq(T) /\ SubSeq(s \o t, a, b) = SubSeq(s, a, b)
<1>1. Len(s) \in Nat /\ s \o t \in Seq(T)
  BY ConcatOf
<1>2. CASE a - 1 <= b
  <2>1. b \in a - 1 .. Len(s)
    BY <1>1, <1>2
  <2> QED BY <2>1, PartOfFirst, SubSeqOf
<1>3. CASE ~(a - 1 <= b)
  <2>1. a \in Int /\ b \in Int /\ b < a /\ ~(a <= b)
    BY <1>1, <1>3
  <2>2. \A r \in Seq(T) : SubSeq(r, a, b) \in Seq(T) /\ SubSeq(r, a, b) = <<>>
    <3> SUFFICES ASSUME NEW r \in Seq(T)
                 PROVE  SubSeq(r, a, b) \in Seq(T) /\ SubSeq(r, a, b) = <<>>
      OBVIOUS
    <3>1. \A i \in a .. b : r[i] \in T
      BY <2>1
    <3>2. /\ SubSeq(r, a, b) \in Seq(T)
          /\ Len(SubSeq(r, a, b)) = IF a <= b THEN b - a + 1 ELSE 0
      BY <2>1, <3>1, SubSeqProperties
    <3>3. Len(SubSeq(r, a, b)) = 0
      BY <2>1, <3>2, Zenon
    <3> QED BY <3>2, <3>3, EmptyIffNoLength
  <2> QED BY <1>1, <2>2, Zenon
<1> QED BY <1>2, <1>3

LEMMA LastPart ==
  ASSUME NEW T, NEW s \in Seq(T), NEW t \in Seq(T), NEW a, NEW b,
         a = Len(s) + 1, b = Len(s) + Len(t)
  PROVE  SubSeq(s \o t, a, b) = t
<1> DEFINE r == s \o t
<1>1. r \in Seq(T) /\ Follow(s, t, r)
  BY ConcatParts
<1> HIDE DEF r
<1>2. Len(r) \in Nat /\ Len(s) \in Nat /\ Len(t) \in Nat
      /\ a \in 1 .. Len(r) + 1 /\ b \in a - 1 .. Len(r) /\ b - a + 1 = Len(t)
  BY <1>1 DEF Follow
<1>3. /\ SubSeq(r, a, b) \in Seq(T) /\ Len(SubSeq(r, a, b)) = Len(t)
      /\ \A k \in 1 .. b - a + 1 : SubSeq(r, a, b)[k] = r[a + k - 1]
  BY <1>1, <1>2, SubSeqOf
<1>4. ASSUME NEW k \in 1 .. Len(t) PROVE SubSeq(r, a, b)[k] = t[k]
  <2>1. a + k - 1 = Len(s) + k /\ k \in 1 .. b - a + 1
    BY <1>2
  <2> QED BY <1>1, <1>3, <2>1, Zenon DEF Follow
<1> DEFINE x == SubSeq(r, a, b)
<1> HIDE DEF x
<1>5. x \in Seq(T) /\ Len(x) = Len(t) /\ \A k \in 1 .. Len(x) : x[k] = t[k]
  BY <1>3, <1>4, Zenon DEF x
<1>6. x = t
  BY <1>5, SeqEqual
<1> QED BY <1>6, Zenon DEF r, x

\* The borders of the parts: before the first, the ampersands, after the last.
BorderOf(amps, n) == <<0>> \o amps \o <<n + 1>>

LEMMA BorderIs ==
  ASSUME NEW n \in Nat, NEW amps \in Seq(1 .. n)
  PROVE  LET border == BorderOf(amps, n)
             k == Len(amps)
         IN /\ Len(border) = k + 2 /\ k \in Nat
            /\ border[1] = 0 /\ border[k + 2] = n + 1
            /\ \A i \in 1 .. k : border[i + 1] = amps[i]
            /\ \A i \in 1 .. k + 2 : border[i] \in 0 .. n + 1
            /\ \A i \in 2 .. k + 2 : border[i] \in 1 .. n + 1
<1> DEFINE S == 0 .. n + 1
           k == Len(amps)
           f == <<0>> \o amps
           border == f \o <<n + 1>>
<1>1. amps \in Seq(S) /\ <<0>> \in Seq(S) /\ <<n + 1>> \in Seq(S) /\ k \in Nat
      /\ \A i \in 1 .. k : amps[i] \in 1 .. n
  OBVIOUS
<1> HIDE DEF S, k
<1>2. f \in Seq(S) /\ Follow(<<0>>, amps, f)
  BY <1>1, ConcatParts
<1> HIDE DEF f
<1>3. Len(f) = k + 1 /\ f[1] = 0 /\ \A i \in 1 .. k : f[i + 1] = amps[i]
  <2>1. Len(<<0>>) = 1 /\ <<0>>[1] = 0
    OBVIOUS
  <2>2. Len(f) = 1 + k /\ f[1] = 0 /\ \A i \in 1 .. k : f[1 + i] = amps[i]
    BY <1>1, <1>2, <2>1 DEF Follow, k
  <2> QED BY <1>1, <2>2
<1>4. border \in Seq(S) /\ Follow(f, <<n + 1>>, border)
  BY <1>1, <1>2, ConcatParts
<1> HIDE DEF border
<1>5. Len(border) = k + 2 /\ border[k + 2] = n + 1 /\ \A i \in 1 .. k + 1 : border[i] = f[i]
  <2>1. Len(<<n + 1>>) = 1 /\ <<n + 1>>[1] = n + 1
    OBVIOUS
  <2>2. Len(border) = (k + 1) + 1 /\ border[(k + 1) + 1] = n + 1
        /\ \A i \in 1 .. k + 1 : border[i] = f[i]
    BY <1>1, <1>3, <1>4, <2>1 DEF Follow
  <2> QED BY <1>1, <2>2
<1>6. border[1] = 0 /\ \A i \in 1 .. k : border[i + 1] = amps[i]
  <2>1. 1 \in 1 .. k + 1 /\ \A i \in 1 .. k : i + 1 \in 1 .. k + 1
    BY <1>1
  <2> QED BY <1>3, <1>5, <2>1, Zenon
<1>7. ASSUME NEW i \in 2 .. k + 2 PROVE border[i] \in 1 .. n + 1
  <2>1. CASE i = k + 2
    BY <1>5, <2>1
  <2>2. CASE i # k + 2
    <3> DEFINE j == i - 1
    <3>1. j \in 1 .. k /\ j + 1 = i
      BY <1>1, <2>2
    <3> HIDE DEF j
    <3>2. border[i] = amps[j] /\ amps[j] \in 1 .. n
      BY <1>1, <1>6, <3>1
    <3> QED BY <3>2
  <2> QED BY <2>1, <2>2
<1>8. ASSUME NEW i \in 1 .. k + 2 PROVE border[i] \in 0 .. n + 1
  <2>1. CASE i = 1
    BY <1>6, <2>1
  <2>2. CASE i # 1
    <3>1. i \in 2 .. k + 2
      BY <1>1, <2>2
    <3>2. border[i] \in 1 .. n + 1
      BY <1>7, <3>1
    <3> QED BY <3>2
  <2> QED BY <2>1, <2>2
<1> QED BY <1>1, <1>5, <1>6, <1>7, <1>8, Zenon DEF BorderOf, k, f, border

LEMMA PartsAre ==
  ASSUME NEW s \in Seq(Byte), NEW amps \in Seq(1 .. Len(s)), Ampersands(s) = amps
  PROVE  Parts(s) = [n \in 1 .. Len(amps) + 1 |->
                       SubSeq(s, BorderOf(amps, Len(s))[n] + 1, BorderOf(amps, Len(s))[n + 1] - 1)]
<1> DEFINE border == BorderOf(amps, Len(s))
<1>1. Len(border) = Len(amps) + 2 /\ Len(amps) \in Nat
  BY BorderIs
<1> HIDE DEF border
<1>2. Len(border) - 1 = Len(amps) + 1
  BY <1>1
<1>3. Parts(s) = [n \in 1 .. Len(border) - 1 |-> SubSeq(s, border[n] + 1, border[n + 1] - 1)]
  BY Zenon DEF Parts, BorderOf, border
<1> QED BY <1>2, <1>3, Zenon DEF border

\* One part, and one part more.
LEMMA OnePart ==
  ASSUME NEW w \in Seq(Byte), Free(w, 38)
  PROVE  Parts(w) = <<w>>
<1>1. Ampersands(w) = <<>>
  <2>1. <<>> \o w = w /\ <<>> \in Seq(Byte)
    OBVIOUS
  <2>2. Ampersands(<<>>) = <<>>
    <3>1. [n \in DOMAIN <<>> |-> IF <<>>[n] = 38 THEN <<n>> ELSE <<>>] = <<>>
      OBVIOUS
    <3> QED BY <3>1, FlattenEmpty, Zenon DEF Ampersands
  <2>3. Ampersands(<<>> \o w) = Ampersands(<<>>)
    BY <2>1, AmpersandsFree
  <2> QED BY <2>1, <2>2, <2>3, Zenon
<1> DEFINE none == <<>>
           border == BorderOf(none, Len(w))
<1>2. none \in Seq(1 .. Len(w)) /\ Len(none) = 0 /\ Len(w) \in Nat
  OBVIOUS
<1> HIDE DEF none
<1>3. border[1] = 0 /\ border[2] = Len(w) + 1
  <2>1. border[1] = 0 /\ border[Len(none) + 2] = Len(w) + 1
    BY <1>2, BorderIs, Zenon
  <2>2. Len(none) + 2 = 2
    BY <1>2
  <2> QED BY <2>1, <2>2, Zenon
<1>4. Parts(w) = [n \in 1 .. Len(none) + 1 |-> SubSeq(w, border[n] + 1, border[n + 1] - 1)]
  BY <1>1, <1>2, PartsAre DEF none
<1> HIDE DEF border
<1>5. Parts(w) = [n \in 1 .. 1 |-> SubSeq(w, border[n] + 1, border[n + 1] - 1)]
  BY <1>2, <1>4
<1>6. SubSeq(w, border[1] + 1, border[1 + 1] - 1) = w
  <2>1. <<>> \in Seq(Byte) /\ Len(<<>>) = 0 /\ <<>> \o w = w
    OBVIOUS
  <2>2. border[1] + 1 = Len(<<>>) + 1 /\ border[1 + 1] - 1 = Len(<<>>) + Len(w)
    BY <1>2, <1>3
  <2>3. SubSeq(<<>> \o w, border[1] + 1, border[1 + 1] - 1) = w
    BY <2>1, <2>2, LastPart
  <2> QED BY <2>1, <2>3, Zenon
<1>7. \A n \in 1 .. 1 : n = 1
  OBVIOUS
<1>8. Parts(w) = [n \in 1 .. 1 |-> w]
  BY <1>5, <1>6, <1>7, Zenon
<1>9. [n \in 1 .. 1 |-> w] = <<w>>
  OBVIOUS
<1> QED BY <1>8, <1>9

LEMMA PartsMore ==
  ASSUME NEW s \in Seq(Byte), NEW w \in Seq(Byte), Free(w, 38)
  PROVE  /\ Parts(s) \in Seq(Seq(Byte))
         /\ Parts(s \o (<<38>> \o w)) = Append(Parts(s), w)
<1> DEFINE N == Len(s)
           t == <<38>> \o w
           r == s \o t
           a == Ampersands(s)
           b == Append(a, N + 1)
           M == Len(r)
           k == Len(a)
           old == BorderOf(a, N)
           new == BorderOf(b, M)
<1>1. /\ t \in Seq(Byte) /\ r \in Seq(Byte) /\ N \in Nat /\ Len(w) \in Nat /\ M = N + 1 + Len(w)
      /\ r = Append(s, 38) \o w /\ Append(s, 38) \in Seq(Byte) /\ 38 \in Byte
  <2>1. 38 \in Byte
    BY DEF Byte
  <2>2. t \in Seq(Byte) /\ Len(t) = 1 + Len(w) /\ Append(s, 38) \in Seq(Byte)
        /\ N \in Nat /\ Len(w) \in Nat
    BY <2>1
  <2>3. <<38>> \in Seq(Byte)
    BY <2>1
  <2>4. s \o <<38>> = Append(s, 38)
    BY <2>1
  <2>5. Associates(s, <<38>>, w)
    BY <2>3, Assoc, Zenon
  <2>6. r = Append(s, 38) \o w
    BY <2>4, <2>5, Zenon DEF Associates
  <2>7. r \in Seq(Byte) /\ M = N + Len(t)
    BY <2>2, ConcatOf
  <2> HIDE DEF t, r, N, M
  <2>8. M = N + 1 + Len(w)
    BY <2>2, <2>7
  <2> QED BY <2>1, <2>2, <2>6, <2>7, <2>8, Zenon
<1>2. a \in Seq(1 .. N)
  BY <1>1, AmpersandsMore
<1>3. Ampersands(r) = b
  <2>1. Ampersands(Append(s, 38)) = b
    BY <1>1, AmpersandsMore
  <2>2. Ampersands(Append(s, 38) \o w) = Ampersands(Append(s, 38))
    BY <1>1, AmpersandsFree
  <2> QED BY <1>1, <2>1, <2>2, Zenon
<1> HIDE DEF N, M, t, r, a, b
<1>4. b \in Seq(1 .. M) /\ Len(b) = k + 1 /\ k \in Nat /\ b[k + 1] = N + 1
      /\ \A i \in 1 .. k : b[i] = a[i]
  <2>1. a \in Seq(1 .. M) /\ N + 1 \in 1 .. M
    BY <1>1, <1>2
  <2> QED BY <2>1 DEF b
<1>5. /\ old[1] = 0 /\ old[k + 2] = N + 1
      /\ \A i \in 1 .. k : old[i + 1] = a[i]
      /\ \A i \in 1 .. k + 2 : old[i] \in 0 .. N + 1
      /\ \A i \in 2 .. k + 2 : old[i] \in 1 .. N + 1
  BY <1>1, <1>2, BorderIs
<1>6. /\ new[1] = 0 /\ new[Len(b) + 2] = M + 1
      /\ \A i \in 1 .. Len(b) : new[i + 1] = b[i]
  <2>1. M \in Nat
    BY <1>1
  <2> QED BY <1>4, <2>1, BorderIs, Zenon
<1>7. Parts(s) = [n \in 1 .. k + 1 |-> SubSeq(s, old[n] + 1, old[n + 1] - 1)]
  BY <1>2, PartsAre DEF a, N
<1>8. Parts(r) = [n \in 1 .. Len(b) + 1 |-> SubSeq(r, new[n] + 1, new[n + 1] - 1)]
  BY <1>1, <1>3, <1>4, PartsAre DEF M
<1> HIDE DEF old, new, k
<1>9. ASSUME NEW i \in 1 .. k + 2 PROVE new[i] = old[i]
  <2>1. CASE i = 1
    BY <1>5, <1>6, <2>1
  <2>2. CASE i # 1
    <3> DEFINE j == i - 1
    <3>1. j \in 1 .. k + 1 /\ j + 1 = i /\ (j # k + 1 => j \in 1 .. k) /\ (j = k + 1 => i = k + 2)
      BY <1>4, <2>2
    <3> HIDE DEF j
    <3>2. new[i] = b[j]
      BY <1>4, <1>6, <3>1, Zenon
    <3>3. old[i] = b[j]
      BY <1>4, <1>5, <3>1, Zenon
    <3> QED BY <3>2, <3>3
  <2> QED BY <2>1, <2>2
<1> DEFINE Part(q, border, n) == SubSeq(q, border[n] + 1, border[n + 1] - 1)
<1>10. ASSUME NEW n \in 1 .. k + 1
       PROVE  Part(s, old, n) \in Seq(Byte) /\ Part(r, new, n) = Part(s, old, n)
  <2>1. n \in 1 .. k + 2 /\ n + 1 \in 1 .. k + 2 /\ n + 1 \in 2 .. k + 2
    BY <1>4
  <2>2. old[n] \in 0 .. N
    <3>1. CASE n = 1
      BY <1>1, <1>5, <3>1
    <3>2. CASE n # 1
      <4> DEFINE j == n - 1
      <4>1. j \in 1 .. k /\ j + 1 = n
        BY <1>4, <3>2
      <4> HIDE DEF j
      <4>2. old[n] = a[j] /\ a[j] \in 1 .. N
        BY <1>2, <1>5, <4>1, SeqDomain DEF k
      <4> QED BY <1>1, <4>2
    <3> QED BY <3>1, <3>2
  <2>3. old[n + 1] \in 1 .. N + 1
    BY <1>5, <2>1
  <2> DEFINE x == old[n] + 1
             y == old[n + 1] - 1
  <2>4. x \in 1 .. N + 1 /\ y \in 0 .. N
    <3>1. N \in Nat
      BY <1>1
    <3> QED BY <2>2, <2>3, <3>1
  <2> HIDE DEF x, y
  <2>5. SubSeq(s, x, y) \in Seq(Byte) /\ SubSeq(s \o t, x, y) = SubSeq(s, x, y)
    BY <1>1, <2>4, PartOfBeginning DEF N
  <2>6. new[n] = old[n] /\ new[n + 1] = old[n + 1]
    BY <1>9, <2>1, Zenon
  <2> QED BY <2>5, <2>6, Zenon DEF x, y, r
<1>11. Part(r, new, k + 2) = w
  <2>1. new[k + 2] = N + 1 /\ new[k + 3] = M + 1 /\ k + 2 + 1 = k + 3
    <3>1. k + 2 \in 1 .. k + 2
      BY <1>4
    <3>2. new[k + 2] = N + 1
      BY <1>5, <1>9, <3>1, Zenon
    <3>3. Len(b) + 2 = k + 3 /\ k + 2 + 1 = k + 3
      BY <1>4
    <3> QED BY <1>6, <3>2, <3>3, Zenon
  <2> DEFINE x == new[k + 2] + 1
             y == new[k + 2 + 1] - 1
             u == Append(s, 38)
  <2>2. Len(u) = N + 1
    BY <1>1 DEF N
  <2>3. x = Len(u) + 1 /\ y = Len(u) + Len(w)
    BY <1>1, <2>1, <2>2
  <2>4. u \in Seq(Byte) /\ r = u \o w
    BY <1>1
  <2> HIDE DEF x, y, u
  <2>5. SubSeq(u \o w, x, y) = w
    BY <2>3, <2>4, LastPart
  <2> QED BY <2>4, <2>5, Zenon DEF x, y
<1> HIDE DEF Part
<1>12. Parts(s) = [n \in 1 .. k + 1 |-> Part(s, old, n)] /\ Parts(r) = [n \in 1 .. k + 2 |-> Part(r, new, n)]
  <2>1. Len(b) + 1 = k + 2
    BY <1>4
  <2> QED BY <1>7, <1>8, <2>1, Zenon DEF Part
<1>13. Parts(s) \in [1 .. k + 1 -> Seq(Byte)]
  BY <1>10, <1>12
<1>14. Parts(r)[k + 2] = w /\ \A n \in 1 .. k + 1 : Parts(r)[n] = Parts(s)[n]
  <2>1. k + 2 \in 1 .. k + 2 /\ \A n \in 1 .. k + 1 : n \in 1 .. k + 2
    BY <1>4
  <2> QED BY <1>10, <1>11, <1>12, <2>1, Zenon
<1>15. Parts(s) \in Seq(Seq(Byte)) /\ Len(Parts(s)) = k + 1
  BY <1>4, <1>13, FunctionIsSeq
<1>16. Parts(r) \in Seq(Seq(Byte)) /\ Len(Parts(r)) = k + 2
  <2>1. ASSUME NEW n \in 1 .. k + 2 PROVE Part(r, new, n) \in Seq(Byte)
    <3>1. n = k + 2 \/ n \in 1 .. k + 1
      BY <1>4
    <3>2. CASE n = k + 2
      BY <1>11, <3>2, Zenon
    <3>3. CASE n \in 1 .. k + 1
      BY <1>10, <3>3, Zenon
    <3> QED BY <3>1, <3>2, <3>3
  <2>2. Parts(r) \in [1 .. k + 2 -> Seq(Byte)]
    BY <1>12, <2>1
  <2>3. k + 2 \in Nat
    BY <1>4
  <2> QED BY <2>2, <2>3, FunctionIsSeq
<1> DEFINE P == Parts(s)
           Q == Parts(r)
<1> HIDE DEF P, Q
<1>17. Q = Append(P, w)
  <2>1. P \in Seq(Seq(Byte)) /\ Len(P) = k + 1 /\ Q \in Seq(Seq(Byte)) /\ Len(Q) = k + 2
        /\ Q[k + 2] = w /\ \A n \in 1 .. k + 1 : Q[n] = P[n]
    BY <1>14, <1>15, <1>16, Zenon DEF P, Q
  <2>2. Append(P, w) \in Seq(Seq(Byte)) /\ Len(Append(P, w)) = k + 2
    BY <1>4, <2>1, AppendProperties
  <2>3. ASSUME NEW n \in 1 .. k + 2 PROVE Append(P, w)[n] = Q[n]
    <3>1. n = Len(P) + 1 \/ n \in 1 .. Len(P)
      BY <1>4, <2>1
    <3>2. Append(P, w)[Len(P) + 1] = w /\ \A i \in 1 .. Len(P) : Append(P, w)[i] = P[i]
      BY <2>1, AppendProperties
    <3>3. Len(P) + 1 = k + 2
      BY <1>4, <2>1
    <3> QED BY <2>1, <3>1, <3>2, <3>3, Zenon
  <2> QED BY <2>1, <2>2, <2>3, SeqEqual
<1> QED BY <1>15, <1>17, Zenon DEF P, Q, r, t

-----------------------------------------------------------------------------
(* Entries and queries.                                                    *)

QueryEntries == [key : Seq(Byte), val : Seq(Byte)]

\* What is written for an entry has no ampersand and reads as that entry: the
\* first equals sign is the one between key and value.
LEMMA EntryReadIs ==
  ASSUME NEW e \in QueryEntries
  PROVE  EntryStr(e) \in Seq(Byte) /\ Free(EntryStr(e), 38) /\ EntryRead(EntryStr(e)) = e
<1> DEFINE k == encode_query(e.key, KeyEscapes)
           v == encode_query(e.val, ValEscapes)
           w == EntryStr(e)
           equals == {n \in DOMAIN w : w[n] = 61}
<1>1. e.key \in Seq(Byte) /\ e.val \in Seq(Byte) /\ e = QueryEntry(e.key, e.val)
  BY DEF QueryEntries, QueryEntry
<1>2. /\ 43 \in KeyEscapes /\ 61 \in KeyEscapes /\ 38 \in KeyEscapes
      /\ 43 \in ValEscapes /\ 38 \in ValEscapes
  BY DEF KeyEscapes, ValEscapes
<1>3. k \in Seq(Byte) /\ Decoded(k) = e.key /\ Free(k, 61) /\ Free(k, 38)
  <2>1. WrittenFor(e.key, KeyEscapes)
    BY <1>1, <1>2, EncodedDecoded
  <2> QED BY <1>2, <2>1 DEF WrittenFor
<1>4. v \in Seq(Byte) /\ Decoded(v) = e.val /\ Free(v, 38)
  <2>1. WrittenFor(e.val, ValEscapes)
    BY <1>1, <1>2, EncodedDecoded
  <2> QED BY <1>2, <2>1 DEF WrittenFor
<1> HIDE DEF k, v
<1>5. CASE e.val = <<>>
  <2>1. w = k
    <3>1. w = k \o <<>> /\ k \o <<>> = k
      BY <1>3, <1>5 DEF EntryStr, k
    <3> QED BY <3>1
  <2> HIDE DEF w
  <2>2. equals = {}
    BY <1>3, <2>1, Zenon DEF Free
  <2>3. EntryRead(w) = QueryEntry(Decoded(w), <<>>)
    BY <2>2, Zenon DEF EntryRead
  <2>4. EntryRead(w) = e /\ w \in Seq(Byte) /\ Free(w, 38)
    BY <1>1, <1>3, <1>5, <2>1, <2>3, Zenon
  <2> QED BY <2>4, Zenon DEF w
<1>6. CASE e.val # <<>>
  <2> DEFINE t == <<61>> \o v
             m == Len(k) + 1
  <2>1. w = k \o t
    BY <1>6, Zenon DEF EntryStr, k, v
  <2>2. 61 \in Byte /\ <<61>> \in Seq(Byte) /\ Free(<<61>>, 38)
    BY DEF Byte, Free
  <2>3. t \in Seq(Byte) /\ Free(t, 38) /\ t[1] = 61 /\ Len(t) = 1 + Len(v) /\ Len(v) \in Nat
    <3>1. t[1] = 61 /\ Len(t) = 1 + Len(v) /\ Len(v) \in Nat
      BY <1>4
    <3> QED BY <1>4, <2>2, <3>1, ConcatOf, FreeConcat
  <2> HIDE DEF w, t
  <2>4. w \in Seq(Byte) /\ Follow(k, t, w) /\ Free(w, 38)
    BY <1>3, <2>1, <2>3, ConcatParts, FreeConcat
  <2>5. /\ Len(k) \in Nat /\ m \in Nat /\ Len(w) = m + Len(v) /\ DOMAIN w = 1 .. Len(w)
        /\ DOMAIN k = 1 .. Len(k) /\ m \in 1 .. Len(w)
    <3>1. Len(k) \in Nat /\ Len(w) = Len(k) + Len(t)
      BY <2>4, Zenon DEF Follow
    <3>2. DOMAIN w = 1 .. Len(w) /\ DOMAIN k = 1 .. Len(k)
      BY <1>3, <2>4, SeqDomain
    <3> QED BY <2>3, <3>1, <3>2
  <2>6. m \in equals /\ \A n \in equals : m <= n
    <3>1. w[m] = 61
      <4>1. 1 \in 1 .. Len(t)
        BY <2>3
      <4> QED BY <2>3, <2>4, <4>1, Zenon DEF Follow
    <3>2. ASSUME NEW n \in equals, ~(m <= n) PROVE FALSE
      <4>1. n \in 1 .. Len(k) /\ w[n] = 61
        BY <2>5, <3>2
      <4>2. w[n] = k[n] /\ n \in DOMAIN k
        BY <2>4, <2>5, <4>1, Zenon DEF Follow
      <4>3. k[n] # 61
        BY <1>3, <4>2, Zenon DEF Free
      <4> QED BY <4>1, <4>2, <4>3, Zenon
    <3> QED BY <2>5, <3>1, <3>2
  <2>7. Min(equals) = m
    <3>1. equals \in SUBSET Nat /\ equals # {}
      BY <2>5, <2>6
    <3> DEFINE S == equals
    <3> HIDE DEF equals, m
    <3>2. Min(equals) \in equals /\ \A n \in equals : Min(equals) <= n
      BY <3>1, MinIs
    <3>3. Min(equals) \in Nat /\ m \in Nat /\ Min(equals) <= m /\ m <= Min(equals)
      BY <2>6, <3>1, <3>2
    <3> QED BY <3>3
  <2>8. SubSeq(w, 1, m - 1) = k
    <3>1. 1 \in 1 .. Len(k) + 1 /\ m - 1 \in 1 - 1 .. Len(k) /\ m - 1 = Len(k)
      BY <2>5
    <3>2. SubSeq(k \o t, 1, Len(k)) = SubSeq(k, 1, Len(k))
      BY <1>3, <2>3, <3>1, PartOfFirst
    <3>3. SubSeq(k, 1, Len(k)) = k
      <4>1. <<>> \in Seq(Byte) /\ Len(<<>>) = 0 /\ <<>> \o k = k
        BY <1>3
      <4>2. 1 = Len(<<>>) + 1 /\ Len(k) = Len(<<>>) + Len(k)
        BY <2>5, <4>1
      <4>3. SubSeq(<<>> \o k, 1, Len(k)) = k
        BY <1>3, <4>1, <4>2, LastPart
      <4> QED BY <4>1, <4>3, Zenon
    <3> QED BY <2>1, <3>1, <3>2, <3>3, Zenon
  <2>9. SubSeq(w, m + 1, Len(w)) = v
    <3> DEFINE u == k \o <<61>>
    <3>1. u \in Seq(Byte) /\ Len(u) = m
      BY <1>3, <2>2
    <3>2. w = u \o v
      <4>1. Associates(k, <<61>>, v)
        BY <1>3, <1>4, <2>2, Assoc, Zenon
      <4> QED BY <2>1, <4>1, Zenon DEF Associates, t
    <3> HIDE DEF u
    <3>3. m + 1 = Len(u) + 1 /\ Len(w) = Len(u) + Len(v)
      BY <2>5, <3>1
    <3>4. SubSeq(u \o v, m + 1, Len(w)) = v
      BY <1>4, <3>1, <3>3, LastPart
    <3> QED BY <3>2, <3>4, Zenon
  <2>10. EntryRead(w) = QueryEntry(Decoded(SubSeq(w, 1, Min(equals) - 1)),
                                   Decoded(SubSeq(w, Min(equals) + 1, Len(w))))
    <3>1. equals # {}
      BY <2>6
    <3> QED BY <3>1, Zenon DEF EntryRead
  <2> HIDE DEF equals, m
  <2>11. EntryRead(w) = e
    BY <1>1, <1>3, <1>4, <2>7, <2>8, <2>9, <2>10, Zenon
  <2> QED BY <2>4, <2>11, Zenon DEF w
<1> QED BY <1>5, <1>6

\* The query string goes on with an ampersand.
LEMMA QueryMore ==
  ASSUME NEW q \in Seq(QueryEntries), NEW e \in QueryEntries
  PROVE  build_query_str(Append(q, e)) =
           IF q = <<>> THEN EntryStr(e) ELSE build_query_str(q) \o (<<38>> \o EntryStr(e))
<1> DEFINE N == Len(q)
           r == Append(q, e)
           B(x) == <<38>> \o EntryStr(x)
           f == [n \in 1 .. N |-> B(q[n])]
           g == [n \in 1 .. N + 1 |-> B(r[n])]
<1>1. /\ N \in Nat /\ DOMAIN q = 1 .. N /\ DOMAIN r = 1 .. N + 1 /\ r[N + 1] = e
      /\ \A n \in 1 .. N : r[n] = q[n] /\ q[n] \in QueryEntries
      /\ \A n \in 1 .. N : n \in 1 .. N + 1
      /\ \A n \in 1 .. N + 1 : r[n] \in QueryEntries
      /\ N + 1 \in 1 .. N + 1 /\ (q = <<>> <=> N = 0)
  <2>1. q = <<>> <=> N = 0
    BY EmptyIffNoLength
  <2>2. /\ N \in Nat /\ DOMAIN q = 1 .. N /\ DOMAIN r = 1 .. N + 1 /\ r[N + 1] = e
        /\ \A n \in 1 .. N : r[n] = q[n] /\ q[n] \in QueryEntries
        /\ \A n \in 1 .. N : n \in 1 .. N + 1
        /\ \A n \in 1 .. N + 1 : r[n] \in QueryEntries
        /\ N + 1 \in 1 .. N + 1
    OBVIOUS
  <2> QED BY <2>1, <2>2, Zenon
<1> HIDE DEF N, r
<1>2. ASSUME NEW x \in QueryEntries
      PROVE  B(x) \in Seq(Byte) /\ Len(B(x)) # 0 /\ Tail(B(x)) = EntryStr(x)
  <2>1. EntryStr(x) \in Seq(Byte)
    BY EntryReadIs
  <2> DEFINE w == EntryStr(x)
  <2> HIDE DEF w
  <2>2. w \in Seq(Byte)
    BY <2>1 DEF w
  <2>3. <<38>> \o w \in Seq(Byte) /\ Len(<<38>> \o w) # 0 /\ Tail(<<38>> \o w) = w
    BY <2>2 DEF Byte
  <2> QED BY <2>3, Zenon DEF w
<1>3. f \in [1 .. N -> Seq(Byte)] /\ g \in [1 .. N + 1 -> Seq(Byte)]
      /\ \A n \in 1 .. N : g[n] = f[n]
  <2>1. (\A n \in 1 .. N : B(q[n]) \in Seq(Byte)) /\ \A n \in 1 .. N + 1 : B(r[n]) \in Seq(Byte)
    BY <1>1, <1>2, Zenon
  <2>2. \A n \in 1 .. N : B(q[n]) = B(r[n]) /\ n \in 1 .. N + 1
    BY <1>1, Zenon
  <2> HIDE DEF B
  <2> QED BY <2>1, <2>2
<1>4. g[N + 1] = B(e)
  BY <1>1, Zenon
<1>5. build_query_str(q) = Tail(FlattenSeq(f)) /\ build_query_str(r) = Tail(FlattenSeq(g))
  BY <1>1, Zenon DEF build_query_str
<1>6. \A n \in 1 .. N : f[n] = B(q[n])
  OBVIOUS
<1> HIDE DEF f, g, B
<1>7. f \in Seq(Seq(Byte)) /\ Len(f) = N /\ g = Append(f, B(e))
  <2>1. f \in Seq(Seq(Byte)) /\ g = Append(f, g[N + 1])
    BY <1>1, <1>3, MapMore
  <2>2. Len(f) = N
    BY <1>1, <1>3, FunctionIsSeq
  <2> QED BY <1>4, <2>1, <2>2, Zenon
<1>8. FlattenSeq(g) = FlattenSeq(f) \o B(e) /\ FlattenSeq(f) \in Seq(Byte)
  BY <1>2, <1>7, FlattenAppend, FlattenInSeq, Zenon
<1>9. CASE q = <<>>
  <2>1. f = <<>>
    BY <1>1, <1>7, <1>9, EmptyIffNoLength
  <2>2. FlattenSeq(f) = <<>>
    BY <2>1, FlattenEmpty, Zenon
  <2>3. <<>> \o B(e) = B(e)
    BY <1>2
  <2> QED BY <1>2, <1>5, <1>8, <1>9, <2>2, <2>3, Zenon DEF r
<1>10. CASE q # <<>>
  <2>1. f # <<>> /\ 1 \in 1 .. N
    <3>1. N # 0 /\ f # <<>>
      BY <1>1, <1>7, <1>10, EmptyIffNoLength
    <3> QED BY <1>1, <3>1
  <2>2. FlattenSeq(f) = f[1] \o FlattenSeq(Tail(f)) /\ Tail(f) \in Seq(Seq(Byte))
    <3>1. Tail(f) \in Seq(Seq(Byte))
      BY <1>7, <2>1
    <3> QED BY <1>7, <2>1, <3>1, FlattenTail
  <2> DEFINE a == f[1]
             b == FlattenSeq(Tail(f))
             c == B(e)
  <2>3. a \in Seq(Byte) /\ Len(a) # 0 /\ b \in Seq(Byte) /\ c \in Seq(Byte)
    <3>1. a = B(q[1]) /\ q[1] \in QueryEntries
      BY <1>1, <1>6, <2>1, Zenon
    <3> QED BY <1>2, <2>2, <3>1, FlattenInSeq, Zenon
  <2> HIDE DEF a, b, c
  <2>4. FlattenSeq(f) \in Seq(Byte) /\ Len(FlattenSeq(f)) # 0
    <3>1. Len(a \o b) = Len(a) + Len(b) /\ Len(a) \in Nat /\ Len(b) \in Nat
      BY <2>3, ConcatOf, SeqDomain
    <3>2. Len(a \o b) # 0
      BY <2>3, <3>1
    <3> QED BY <1>8, <2>2, <3>2, Zenon DEF a, b
  <2> DEFINE h == FlattenSeq(f)
  <2> HIDE DEF h
  <2>5. Tail(h \o c) = Tail(h) \o c
    <3>1. h \in Seq(Byte) /\ Len(h) # 0
      BY <2>4, Zenon DEF h
    <3> QED BY <2>3, <3>1
  <2> QED BY <1>5, <1>8, <1>10, <2>5, Zenon DEF h, c, B, r
<1> QED BY <1>9, <1>10

\* A query is read as it was meant.
ReadBack(q) ==
  /\ build_query_str(q) \in Seq(Byte)
  /\ Parts(build_query_str(q)) = [n \in DOMAIN q |-> EntryStr(q[n])]

LEMMA AllReadBack ==
  \A q \in Seq(QueryEntries) : q # <<>> => ReadBack(q)
<1> DEFINE Bad == {n \in Nat : \E q \in Seq(QueryEntries) : Len(q) = n /\ q # <<>> /\ ~ReadBack(q)}
<1>1. ASSUME Bad # {} PROVE FALSE
  <2>1. PICK n \in Bad : \A k \in Bad : n <= k
    <3>1. Bad \in SUBSET Nat
      OBVIOUS
    <3> HIDE DEF Bad
    <3> QED BY <1>1, <3>1, LeastNumber
  <2>2. PICK q \in Seq(QueryEntries) : Len(q) = n /\ q # <<>> /\ ~ReadBack(q)
    BY <2>1
  <2> DEFINE p == Front(q)
             e == Last(q)
             w == EntryStr(e)
             f == [k \in DOMAIN q |-> EntryStr(q[k])]
             m == Len(p)
  <2>3. p \in Seq(QueryEntries) /\ e \in QueryEntries /\ q = Append(p, e) /\ m + 1 = Len(q)
    BY <2>2, FrontAndLast
  <2> HIDE DEF p, e
  <2>4. m \in Nat /\ m < n /\ n \in Nat
    BY <2>1, <2>2, <2>3
  <2>5. w \in Seq(Byte) /\ Free(w, 38)
    BY <2>3, EntryReadIs
  <2>6. \A x \in QueryEntries : EntryStr(x) \in Seq(Byte)
    BY EntryReadIs
  <2> HIDE DEF w
  <2>7. /\ DOMAIN q = 1 .. m + 1 /\ DOMAIN p = 1 .. m /\ q[m + 1] = e
        /\ \A k \in 1 .. m : q[k] = p[k] /\ k \in 1 .. m + 1 /\ p[k] \in QueryEntries
        /\ m + 1 \in 1 .. m + 1
    BY <2>3, <2>4
  <2>8. f = [k \in 1 .. m + 1 |-> EntryStr(q[k])]
    BY <2>7, Zenon
  <2> HIDE DEF f
  <2>9. CASE p = <<>>
    <3>1. m = 0
      BY <2>9
    <3>2. build_query_str(q) = w
      BY <2>3, <2>9, QueryMore DEF w
    <3>3. Parts(w) = <<w>>
      BY <2>5, OnePart
    <3>4. f = <<w>>
      <4>1. m + 1 = 1 /\ \A k \in 1 .. 1 : k = 1
        BY <3>1
      <4>2. q[1] = e
        BY <2>7, <4>1, Zenon
      <4>3. f = [k \in 1 .. 1 |-> EntryStr(q[k])]
        BY <2>8, <4>1, Zenon
      <4>4. f = [k \in 1 .. 1 |-> w]
        BY <4>1, <4>2, <4>3, Zenon DEF w
      <4>5. [k \in 1 .. 1 |-> w] = <<w>>
        OBVIOUS
      <4> QED BY <4>4, <4>5, Zenon
    <3> QED BY <2>2, <2>5, <3>2, <3>3, <3>4, Zenon DEF ReadBack, f
  <2>10. CASE p # <<>>
    <3> DEFINE s == build_query_str(p)
               g == [k \in 1 .. m |-> EntryStr(p[k])]
    <3>1. ReadBack(p)
      <4>1. m \notin Bad
        <5> HIDE DEF Bad, m
        <5> QED BY <2>1, <2>4
      <4> QED BY <2>3, <2>4, <2>10, <4>1
    <3>2. s \in Seq(Byte) /\ Parts(s) = g
      BY <2>7, <3>1, Zenon DEF ReadBack
    <3>3. build_query_str(q) = s \o (<<38>> \o w)
      BY <2>3, <2>10, QueryMore DEF w
    <3> HIDE DEF s
    <3>4. Parts(s \o (<<38>> \o w)) = Append(g, w)
      BY <2>5, <3>2, PartsMore
    <3>5. s \o (<<38>> \o w) \in Seq(Byte)
      <4>1. <<38>> \o w \in Seq(Byte)
        <5>1. <<38>> \in Seq(Byte)
          BY DEF Byte
        <5> QED BY <2>5, <5>1, ConcatOf
      <4> QED BY <3>2, <4>1, ConcatOf
    <3>6. f = Append(g, w)
      <4>1. g \in [1 .. m -> Seq(Byte)]
        BY <2>6, <2>7
      <4>2. f \in [1 .. m + 1 -> Seq(Byte)]
        <5>1. \A k \in 1 .. m + 1 : q[k] \in QueryEntries
          BY <2>2, <2>3, SeqDomain
        <5> QED BY <2>6, <2>8, <5>1
      <4>3. \A k \in 1 .. m : f[k] = g[k]
        BY <2>7, <2>8, Zenon
      <4>4. f[m + 1] = w
        BY <2>7, <2>8, Zenon DEF w
      <4> HIDE DEF g
      <4>5. f = Append(g, f[m + 1])
        BY <2>4, <4>1, <4>2, <4>3, MapMore
      <4> QED BY <4>4, <4>5, Zenon
    <3> QED BY <2>2, <3>3, <3>4, <3>5, <3>6, Zenon DEF ReadBack, f
  <2> QED BY <2>9, <2>10
<1>2. \A q \in Seq(QueryEntries) : Len(q) \in Nat
  OBVIOUS
<1> QED BY <1>1, <1>2

LEMMA QueryReadIs ==
  ASSUME NEW q \in Seq(QueryEntries), q # <<>>
  PROVE  QueryRead(build_query_str(q)) = q
<1> DEFINE s == build_query_str(q)
           f == [n \in DOMAIN q |-> EntryStr(q[n])]
<1>1. Parts(s) = f
  BY AllReadBack, Zenon DEF ReadBack
<1>2. \A n \in DOMAIN q : EntryRead(f[n]) = q[n]
  <2>1. \A n \in DOMAIN q : q[n] \in QueryEntries
    OBVIOUS
  <2> QED BY <2>1, EntryReadIs, Zenon
<1>3. DOMAIN f = DOMAIN q
  OBVIOUS
<1> HIDE DEF s, f
<1>4. QueryRead(s) = [n \in DOMAIN q |-> EntryRead(f[n])]
  BY <1>1, <1>3, Zenon DEF QueryRead
<1>5. QueryRead(s) = [n \in DOMAIN q |-> q[n]]
  BY <1>2, <1>4, Zenon
<1>6. q = [n \in DOMAIN q |-> q[n]]
  OBVIOUS
<1> QED BY <1>5, <1>6, Zenon DEF s

-----------------------------------------------------------------------------
(* The theorems.                                                           *)

\* The invariant holds whatever the URLs, the answers and the ways the
\* exchanges end are (request_torrent_peers and HTTP_GET).
THEOREM RequestInvariant == Spec => []RequestInv
<1>1. RequestInv /\ [Next]_vars => RequestInv'
  <2>1. RequestInv /\ Terminated => RequestInv'
    BY Stutters DEF Terminated
  <2>2. RequestInv /\ Waits => RequestInv'
    BY Stutters DEF Waits
  <2> QED BY <2>1, <2>2, Builds, Connects, Writes, ReadsStatus, ReadsHeaders, ReadsBody, EndsBody,
             FailsHttp, AnswersUdp, FailsUdp, Stutters DEF Next
<1> QED BY <1>1, Starts, PTL DEF Spec

\* The result has the peers of every tracker that gave a good answer and no
\* others, each once, and the request fails only when there are none
\* (request_torrent_peers, HTTP_GET, ParseTrackerCompactResponseContent,
\* RemoveDuplicates).
THEOREM PeersOfAllTrackers == Spec => []OnlyAndAllAnswered
<1>1. RequestInv => OnlyAndAllAnswered
  BY DEF RequestInv
<1> QED BY <1>1, RequestInvariant, PTL

\* When the request is over, every URL that a request can be built for has
\* been asked, also after a tracker that failed (build_tracker_requests, the
\* loop of request_torrent_peers).
THEOREM UsableUrlsAsked == Spec => []EveryUsableUrlAsked
<1>1. RequestInv => EveryUsableUrlAsked
  <2> SUFFICES ASSUME RequestInv, pc = "done",
                      NEW k \in DOMAIN multi_trackers_, NEW q \in build_from_one(multi_trackers_[k])
               PROVE  \E n \in 1 .. current : all_infos[n] = q
    BY DEF EveryUsableUrlAsked
  <2>1. /\ all_infos = build_tracker_requests /\ current = Len(all_infos)
        /\ tracker_url_utf8_ \in Urls /\ multi_trackers_ \in Seq(Urls)
    BY DEF RequestInv, RequestsInv, RequestTypes
  <2>2. all_infos \in Seq(Requests)
        /\ \A i \in DOMAIN Asked : build_from_one(Asked[i]) \subseteq ToSet(all_infos)
    BY <2>1, RequestsBuilt
  <2>3. Asked = multi_trackers_
    <3>1. multi_trackers_ # <<>>
      OBVIOUS
    <3> QED BY <3>1 DEF Asked
  <2>4. q \in ToSet(all_infos)
    BY <2>2, <2>3, Zenon
  <2>5. DOMAIN all_infos = 1 .. current
    BY <2>1, <2>2, SeqDomain, Zenon
  <2> QED BY <2>4, <2>5 DEF ToSet
<1> QED BY <1>1, RequestInvariant, PTL

\* The trackers read from the query what the client means, for every hash and
\* peer id, every amount and every query the URL of a tracker has of its own:
\* percent signs, plus signs and borders between entries are never mistaken
\* (encode_query_key, encode_query_val, build_query_str).
THEOREM QueriesReadBack == Spec => []QueryReadBack
<1>1. ASSUME tracker_url_utf8_ \in Urls, NEW hash \in InfoHashes, NEW n \in Counts
      PROVE  LET query == Query(tracker_url_utf8_.query, hash, Reverse(hash), ServerPort, 0, n, n)
             IN QueryRead(build_query_str(query)) = query
  <2> DEFINE own == tracker_url_utf8_.query
             port == Decimal(ServerPort)
             none == Decimal(0)
             amount == Decimal(n)
             one == Decimal(1)
             peer_id == Reverse(hash)
             query == Query(own, hash, peer_id, ServerPort, 0, n, n)
  <2>1. own \in Seq(QueryEntries) /\ hash \in Seq(Byte) /\ n \in Nat /\ ServerPort \in Nat
    <3>1. tracker_url_utf8_.query \in Seq([key : Seq(Byte), val : Seq(Byte)])
      BY <1>1, TrackerClientAssumption, Zenon
    <3>2. InfoHashes \subseteq Seq(Byte) /\ Counts \subseteq Nat
      BY TrackerClientAssumption, Zenon
    <3>3. ServerPort \in 0 .. Word16 - 1 /\ Word16 \in Nat
      BY TrackerClientAssumption, Zenon
    <3>4. ServerPort \in Nat
      BY <3>3, SMT
    <3> QED BY <1>1, <3>1, <3>2, <3>4, Zenon DEF QueryEntries
  <2>2. port \in Seq(Byte) /\ none \in Seq(Byte) /\ amount \in Seq(Byte) /\ one \in Seq(Byte)
    BY <2>1, DecimalBytes
  <2>3. peer_id \in Seq(Byte)
    BY <2>1 DEF Reverse
  <2> HIDE DEF port, none, amount, one, peer_id, own
  <2> DEFINE added == <<QueryEntry(<<105>>, hash), QueryEntry(<<112>>, peer_id),
                        QueryEntry(<<80>>, port), QueryEntry(<<117>>, none),
                        QueryEntry(<<100>>, amount), QueryEntry(<<108>>, amount),
                        QueryEntry(<<99>>, one)>>
  <2>4. query = own \o added
    BY Zenon DEF Query, port, none, amount, one
  <2>5. added \in Seq(QueryEntries) /\ Len(added) = 7
    <3>1. \A k \in {105, 112, 80, 117, 100, 108, 99} : \A v \in Seq(Byte) :
            QueryEntry(<<k>>, v) \in QueryEntries
      BY DEF QueryEntry, QueryEntries, Byte
    <3> HIDE DEF QueryEntries
    <3>2. /\ QueryEntry(<<105>>, hash) \in QueryEntries /\ QueryEntry(<<112>>, peer_id) \in QueryEntries
          /\ QueryEntry(<<80>>, port) \in QueryEntries /\ QueryEntry(<<117>>, none) \in QueryEntries
          /\ QueryEntry(<<100>>, amount) \in QueryEntries /\ QueryEntry(<<108>>, amount) \in QueryEntries
          /\ QueryEntry(<<99>>, one) \in QueryEntries
      BY <2>1, <2>2, <2>3, <3>1
    <3> QED BY <3>2
  <2> HIDE DEF added
  <2>6. query \in Seq(QueryEntries) /\ query # <<>>
    <3>1. own \o added \in Seq(QueryEntries) /\ Len(own \o added) = Len(own) + 7 /\ Len(own) \in Nat
      BY <2>1, <2>5, ConcatOf, SeqDomain
    <3>2. Len(own \o added) # 0
      BY <3>1
    <3> QED BY <2>4, <3>1, <3>2, EmptyIffNoLength, Zenon
  <2> HIDE DEF query
  <2>7. QueryRead(build_query_str(query)) = query
    BY <2>6, QueryReadIs
  <2> QED BY <2>7, Zenon DEF query, own, peer_id
<1>2. RequestInv => QueryReadBack
  <2>1. RequestInv => tracker_url_utf8_ \in Urls
    BY DEF RequestInv, RequestTypes
  <2> QED BY <1>1, <2>1, Zenon DEF QueryReadBack
<1> QED BY <1>2, RequestInvariant, PTL
=============================================================================
