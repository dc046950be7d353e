-------------------------- MODULE FilesOnDiskProofs --------------------------
(***************************************************************************)
(* What the files hold after any set of pieces, for every torrent whose    *)
(* pieces, laid end to end, fit in 32 bits: proofs of the invariants of    *)
(* FilesOnDisk from the one of DiskInv.                                    *)
(***************************************************************************)
EXTENDS FilesOnDisk, SequenceLemmas

-----------------------------------------------------------------------------
(* Induction: the least element of the set of counterexamples.             *)

\* LeastNumber, from any integer on.
LEMMA LeastFrom ==
  ASSUME NEW m \in Int, NEW S, \A k \in S : k \in Int /\ m <= k, S # {}
  PROVE  \E n \in S : \A k \in S : n <= k
<1> DEFINE T == {j \in Nat : m + j \in S}
<1>1. T # {}
  <2>1. PICK k \in S : TRUE
    OBVIOUS
  <2>2. k - m \in Nat /\ m + (k - m) = k
    BY <2>1
  <2> QED BY <2>2
<1>2. PICK j \in T : \A i \in T : j <= i
  <2> HIDE DEF T
  <2>1. T \in SUBSET Nat
    BY DEF T
  <2> QED BY <1>1, <2>1, LeastNumber
<1>3. \A k \in S : m + j <= k
  <2> TAKE k \in S
  <2>1. k - m \in Nat /\ m + (k - m) = k
    OBVIOUS
  <2>2. k - m \in T
    BY <2>1
  <2> QED BY <2>1, <2>2, <1>2
<1> QED BY <1>2, <1>3

-----------------------------------------------------------------------------
(* Running sums: the functions EndOfFile and data_offset are defined by    *)
(* recursion over an interval, and exist.                                  *)

\* f adds up a from m on.
RunningSum(f, a, m, n) == f = [k \in m .. n |-> IF k = m THEN 0 ELSE f[k - 1] + a[k]]

LEMMA RunningSumExists ==
  ASSUME NEW m \in Int, NEW n \in Int, m <= n, NEW a
  PROVE  \E f : RunningSum(f, a, m, n)
<1> DEFINE Missing == {j \in m .. n : ~\E f : RunningSum(f, a, m, j)}
<1> SUFFICES ASSUME Missing # {} PROVE FALSE
  OBVIOUS
<1>1. PICK j \in Missing : \A k \in Missing : j <= k
  <2>1. \A k \in Missing : k \in Int /\ m <= k
    OBVIOUS
  <2> HIDE DEF Missing
  <2> QED BY <2>1, LeastFrom
<1>2. j # m
  <2> DEFINE g == [k \in m .. m |-> 0]
  <2>1. RunningSum(g, a, m, m)
    BY DEF RunningSum
  <2> QED BY <2>1, <1>1
<1>3. j - 1 \in m .. n /\ j - 1 \notin Missing /\ j \in Int
  BY <1>1, <1>2
<1>4. PICK g : RunningSum(g, a, m, j - 1)
  BY <1>3
<1> DEFINE h == [k \in m .. j |-> IF k = j THEN g[j - 1] + a[j] ELSE g[k]]
<1>5. ASSUME NEW k \in m .. j PROVE h[k] = IF k = m THEN 0 ELSE h[k - 1] + a[k]
  <2>1. CASE k = j
    <3>1. j - 1 \in m .. j /\ j - 1 # j
      BY <1>2, <1>3
    <3> QED BY <2>1, <3>1, <1>2
  <2>2. CASE k # j
    <3>1. k \in m .. j - 1
      BY <2>2, <1>3
    <3>2. g[k] = IF k = m THEN 0 ELSE g[k - 1] + a[k]
      BY <3>1, <1>4 DEF RunningSum
    <3>3. h[k] = g[k]
      BY <2>2
    <3>4. CASE k = m
      BY <3>2, <3>3, <3>4
    <3>5. CASE k # m
      <4>1. k - 1 \in m .. j /\ k - 1 # j
        BY <3>1, <3>5
      <4> QED BY <3>2, <3>3, <3>5, <4>1
    <3> QED BY <3>4, <3>5
  <2> QED BY <2>1, <2>2
<1>6. RunningSum(h, a, m, j)
  <2>1. h = [k \in m .. j |-> h[k]]
    OBVIOUS
  <2> HIDE DEF h
  <2> QED BY <2>1, <1>5 DEF RunningSum
<1> QED BY <1>1, <1>6

\* Sums of lengths are lengths, and do not decrease.
LEMMA RunningSumNat ==
  ASSUME NEW m \in Int, NEW n \in Int, m <= n, NEW f, NEW a, RunningSum(f, a, m, n),
         \A k \in m + 1 .. n : a[k] \in Nat
  PROVE  /\ f[m] = 0
         /\ \A k \in m + 1 .. n : f[k] = f[k - 1] + a[k]
         /\ \A k \in m .. n : f[k] \in Nat
         /\ \A k \in m + 1 .. n : f[k - 1] <= f[k]
<1>1. f[m] = 0
  BY DEF RunningSum
<1>2. \A k \in m + 1 .. n : f[k] = f[k - 1] + a[k]
  <2> TAKE k \in m + 1 .. n
  <2>1. k \in m .. n /\ k # m
    OBVIOUS
  <2> QED BY <2>1 DEF RunningSum
<1>3. \A k \in m .. n : f[k] \in Nat
  <2> DEFINE Bad == {k \in m .. n : f[k] \notin Nat}
  <2> SUFFICES ASSUME Bad # {} PROVE FALSE
    OBVIOUS
  <2>1. PICK j \in Bad : \A k \in Bad : j <= k
    <3>1. \A k \in Bad : k \in Int /\ m <= k
      OBVIOUS
    <3> HIDE DEF Bad
    <3> QED BY <3>1, LeastFrom
  <2>2. j # m
    BY <1>1, <2>1
  <2>3. j \in m + 1 .. n /\ j - 1 \in m .. n /\ j - 1 \notin Bad
    BY <2>1, <2>2
  <2>4. f[j - 1] \in Nat /\ a[j] \in Nat /\ f[j] = f[j - 1] + a[j]
    BY <2>3, <1>2
  <2> QED BY <2>1, <2>4
<1>4. \A k \in m + 1 .. n : f[k - 1] <= f[k]
  <2> TAKE k \in m + 1 .. n
  <2>1. k \in m .. n /\ k - 1 \in m .. n
    OBVIOUS
  <2>2. f[k] \in Nat /\ f[k - 1] \in Nat /\ a[k] \in Nat /\ f[k] = f[k - 1] + a[k]
    BY <2>1, <1>2, <1>3
  <2> QED BY <2>2
<1> QED BY <1>1, <1>2, <1>3, <1>4

\* Steps that do not decrease add up to a function that does not decrease.
LEMMA Monotone ==
  ASSUME NEW m \in Int, NEW n \in Int, NEW f,
         \A k \in m .. n : f[k] \in Int,
         \A k \in m + 1 .. n : f[k - 1] <= f[k]
  PROVE  \A i, j \in m .. n : i <= j => f[i] <= f[j]
<1> SUFFICES ASSUME NEW i \in m .. n PROVE \A j \in m .. n : i <= j => f[i] <= f[j]
  OBVIOUS
<1> DEFINE Bad == {j \in m .. n : i <= j /\ ~(f[i] <= f[j])}
<1> SUFFICES ASSUME Bad # {} PROVE FALSE
  OBVIOUS
<1>1. PICK j \in Bad : \A k \in Bad : j <= k
  <2>1. \A k \in Bad : k \in Int /\ m <= k
    OBVIOUS
  <2> HIDE DEF Bad
  <2> QED BY <2>1, LeastFrom
<1>2. j # i
  BY <1>1
<1>3. j \in m + 1 .. n /\ j - 1 \in m .. n /\ i <= j - 1 /\ j - 1 \notin Bad
  BY <1>1, <1>2
<1>4. f[i] \in Int /\ f[j - 1] \in Int /\ f[j] \in Int
  BY <1>3
<1>5. f[i] <= f[j - 1] /\ f[j - 1] <= f[j]
  BY <1>3
<1> QED BY <1>1, <1>4, <1>5

-----------------------------------------------------------------------------
(* The files lie end to end.                                               *)

LEMMA EndOfFileSums ==
  ASSUME NEW lengths \in Seq(Nat)
  PROVE  RunningSum(EndOfFile(lengths), lengths, 0, Len(lengths))
<1>1. \E f : RunningSum(f, lengths, 0, Len(lengths))
  <2>1. Len(lengths) \in Int /\ 0 <= Len(lengths) /\ 0 \in Int
    OBVIOUS
  <2> QED BY <2>1, RunningSumExists, Zenon
<1> DEFINE R(f) == f = [k \in 0 .. Len(lengths) |-> IF k = 0 THEN 0 ELSE f[k - 1] + lengths[k]]
<1>2. \E f : R(f)
  BY <1>1 DEF RunningSum
<1>3. R(CHOOSE f : R(f))
  <2> HIDE DEF R
  <2> QED BY <1>2
<1>4. R(EndOfFile(lengths))
  BY <1>3, Zenon DEF EndOfFile
<1> QED BY <1>4 DEF RunningSum

\* Files that lie end to end from 0 on.
Contiguous(files) ==
  /\ files \in Seq([start : Nat, end : Nat])
  /\ files # <<>>
  /\ files[1].start = 0
  /\ \A k \in DOMAIN files : files[k].start <= files[k].end
  /\ \A k \in DOMAIN files : k + 1 \in DOMAIN files => files[k + 1].start = files[k].end

LEMMA MadeContiguous ==
  ASSUME NEW lengths \in Seq(Nat), lengths # <<>>
  PROVE  /\ Contiguous(FilesListMake(lengths))
         /\ DOMAIN FilesListMake(lengths) = DOMAIN lengths
         /\ Len(FilesListMake(lengths)) = Len(lengths)
         /\ FilesListMake(lengths)[Len(lengths)].end = get_total_size_bytes(lengths)
         /\ \A k \in DOMAIN lengths :
              FilesListMake(lengths)[k].end = FilesListMake(lengths)[k].start + lengths[k]
<1> DEFINE N == Len(lengths)
           E == EndOfFile(lengths)
           files == FilesListMake(lengths)
<1>1. N \in Nat \ {0} /\ DOMAIN lengths = 1 .. N /\ \A k \in 1 .. N : lengths[k] \in Nat
  OBVIOUS
<1>2. RunningSum(E, lengths, 0, N)
  BY EndOfFileSums
<1>3. /\ E[0] = 0
      /\ \A k \in 0 + 1 .. N : E[k] = E[k - 1] + lengths[k]
      /\ \A k \in 0 .. N : E[k] \in Nat
      /\ \A k \in 0 + 1 .. N : E[k - 1] <= E[k]
  <2>1. 0 \in Int /\ N \in Int /\ 0 <= N /\ \A k \in 0 + 1 .. N : lengths[k] \in Nat
    BY <1>1
  <2> HIDE DEF N, E
  <2> QED BY <1>2, <2>1, RunningSumNat, Zenon
<1>4. files = [k \in 1 .. N |-> [start |-> E[k - 1], end |-> E[k]]]
  BY <1>1 DEF FilesListMake
<1> HIDE DEF N, E, files
<1>5. \A k \in 1 .. N : files[k] = [start |-> E[k - 1], end |-> E[k]]
  BY <1>4
<1>6. \A k \in 1 .. N : /\ files[k].start = E[k - 1] /\ files[k].end = E[k]
                        /\ files[k] \in [start : Nat, end : Nat]
  <2> TAKE k \in 1 .. N
  <2>1. k - 1 \in 0 .. N /\ k \in 0 .. N
    BY <1>1
  <2>2. E[k - 1] \in Nat /\ E[k] \in Nat
    BY <2>1, <1>3
  <2>3. files[k] = [start |-> E[k - 1], end |-> E[k]]
    BY <1>5
  <2>4. files[k].start = E[k - 1] /\ files[k].end = E[k]
    BY <2>3
  <2>5. files[k] \in [start : Nat, end : Nat]
    BY <2>2, <2>3
  <2> QED BY <2>4, <2>5
<1>7. DOMAIN files = 1 .. N
  BY <1>4
<1>8. files \in Seq([start : Nat, end : Nat]) /\ Len(files) = N
  <2>1. files \in [1 .. N -> [start : Nat, end : Nat]]
    BY <1>4, <1>6, <1>7
  <2>2. N \in Nat
    BY <1>1
  <2> QED BY <2>1, <2>2, FunctionIsSeq, Zenon
<1>9. files # <<>>
  BY <1>8, <1>1
<1>10. files[1].start = 0
  BY <1>6, <1>1, <1>3
<1>11. \A k \in 1 .. N : files[k].start <= files[k].end
  BY <1>6, <1>3
<1>12. \A k \in 1 .. N : k + 1 \in 1 .. N => files[k + 1].start = files[k].end
  <2> SUFFICES ASSUME NEW k \in 1 .. N, k + 1 \in 1 .. N PROVE files[k + 1].start = files[k].end
    OBVIOUS
  <2>1. (k + 1) - 1 = k
    OBVIOUS
  <2> QED BY <2>1, <1>6
<1>13. Contiguous(files)
  BY <1>7, <1>8, <1>9, <1>10, <1>11, <1>12 DEF Contiguous
<1>14. files[N].end = get_total_size_bytes(lengths)
  BY <1>6, <1>1 DEF get_total_size_bytes, N, E
<1>15. \A k \in 1 .. N : files[k].end = files[k].start + lengths[k]
  BY <1>6, <1>3
<1> QED
  BY <1>1, <1>7, <1>8, <1>13, <1>14, <1>15 DEF N, files

\* The same as arithmetic: the starts and ends of the files, in order.
LEMMA InOrder ==
  ASSUME NEW files, Contiguous(files)
  PROVE  /\ Len(files) \in Nat \ {0} /\ DOMAIN files = 1 .. Len(files)
         /\ \A k \in 1 .. Len(files) :
              files[k].start \in Nat /\ files[k].end \in Nat /\ files[k].start <= files[k].end
         /\ \A i, j \in 1 .. Len(files) :
              /\ i <= j => files[i].start <= files[j].start /\ files[i].end <= files[j].end
              /\ i < j => files[i].end <= files[j].start
<1> DEFINE N == Len(files)
           S == [k \in 1 .. N |-> files[k].start]
           E == [k \in 1 .. N |-> files[k].end]
<1>1. N \in Nat \ {0} /\ DOMAIN files = 1 .. N
  <2>1. files \in Seq([start : Nat, end : Nat]) /\ files # <<>>
    BY DEF Contiguous
  <2>2. N \in Nat /\ DOMAIN files = 1 .. N
    BY <2>1, SeqDomain, Zenon
  <2>3. N # 0
    BY <2>1, EmptyIffNoLength, Zenon
  <2> QED BY <2>2, <2>3
<1>2. \A k \in 1 .. N : files[k].start \in Nat /\ files[k].end \in Nat /\ files[k].start <= files[k].end
  <2>1. files \in Seq([start : Nat, end : Nat])
    BY DEF Contiguous
  <2>2. \A k \in 1 .. N : files[k] \in [start : Nat, end : Nat]
    BY <2>1, SeqDomain, Zenon
  <2>3. \A k \in 1 .. N : files[k].start <= files[k].end
    BY <1>1 DEF Contiguous
  <2> QED BY <2>2, <2>3
<1>3. \A k \in 1 + 1 .. N : files[k].start = files[k - 1].end
  <2> TAKE k \in 1 + 1 .. N
  <2>1. k - 1 \in 1 .. N /\ k \in 1 .. N /\ (k - 1) + 1 = k
    BY <1>1
  <2> QED BY <2>1, <1>1 DEF Contiguous
<1>4. \A k \in 1 + 1 .. N : S[k - 1] <= S[k] /\ E[k - 1] <= E[k]
  <2> TAKE k \in 1 + 1 .. N
  <2>1. k - 1 \in 1 .. N /\ k \in 1 .. N
    BY <1>1
  <2> QED BY <2>1, <1>2, <1>3
<1>5. \A k \in 1 .. N : S[k] \in Int /\ E[k] \in Int /\ S[k] = files[k].start /\ E[k] = files[k].end
  BY <1>2
<1>6. 1 \in Int /\ N \in Int
  BY <1>1
<1> HIDE DEF N, S, E
<1>7. \A i, j \in 1 .. N : i <= j => S[i] <= S[j]
  BY <1>4, <1>5, <1>6, Monotone
<1>8. \A i, j \in 1 .. N : i <= j => E[i] <= E[j]
  BY <1>4, <1>5, <1>6, Monotone
<1>9. ASSUME NEW i \in 1 .. N, NEW j \in 1 .. N, i < j PROVE files[i].end <= files[j].start
  <2>1. i + 1 \in 1 + 1 .. N /\ i + 1 \in 1 .. N /\ i + 1 <= j /\ (i + 1) - 1 = i
    BY <1>6, <1>9
  <2>2. files[i + 1].start = files[i].end
    BY <2>1, <1>3
  <2> QED BY <2>1, <2>2, <1>5, <1>7
<1> QED BY <1>1, <1>2, <1>5, <1>7, <1>8, <1>9 DEF N

-----------------------------------------------------------------------------
(* The files of a range.                                                   *)

LEMMA LowerBoundFirst ==
  ASSUME NEW keys \in Seq(Nat), NEW lo \in 1 .. Len(keys) + 1, NEW value \in Nat
  PROVE  /\ LowerBound(keys, lo, value) \in lo .. Len(keys) + 1
         /\ LowerBound(keys, lo, value) <= Len(keys) => keys[LowerBound(keys, lo, value)] >= value
         /\ \A l \in lo .. LowerBound(keys, lo, value) - 1 : keys[l] < value
<1> DEFINE Fits == {k \in lo .. Len(keys) + 1 : k \in DOMAIN keys => keys[k] >= value}
           P(k) == /\ k \in DOMAIN keys => keys[k] >= value
                   /\ \A l \in lo .. k - 1 : keys[l] < value
<1>1. Len(keys) \in Nat /\ DOMAIN keys = 1 .. Len(keys) /\ lo \in Int
  OBVIOUS
<1>2. Len(keys) + 1 \in Fits
  BY <1>1
<1>3. PICK m \in Fits : \A k \in Fits : m <= k
  <2>1. \A k \in Fits : k \in Int /\ lo <= k
    BY <1>1
  <2> HIDE DEF Fits
  <2> QED BY <2>1, <1>1, <1>2, LeastFrom
<1>4. m \in lo .. Len(keys) + 1 /\ m \in Int
  BY <1>1, <1>3
<1>5. P(m)
  <2>1. ASSUME NEW l \in lo .. m - 1 PROVE keys[l] < value
    <3>1. l \in lo .. Len(keys) + 1 /\ l \notin Fits
      BY <1>3, <1>4, <1>1
    <3>2. l \in DOMAIN keys /\ ~(keys[l] >= value)
      BY <3>1
    <3>3. keys[l] \in Nat
      BY <3>2
    <3> QED BY <3>2, <3>3
  <2> QED BY <2>1, <1>3
<1>6. \E k \in lo .. Len(keys) + 1 : P(k)
  BY <1>4, <1>5
<1>7. LowerBound(keys, lo, value) = CHOOSE k \in lo .. Len(keys) + 1 : P(k)
  BY Zenon DEF LowerBound
<1>8. LowerBound(keys, lo, value) \in lo .. Len(keys) + 1 /\ P(LowerBound(keys, lo, value))
  <2> HIDE DEF P
  <2> QED BY <1>6, <1>7
<1> QED BY <1>1, <1>8

\* The file of start_bytes is the first that starts at it, or else the last
\* that starts before it.
LEMMA StartFileFacts ==
  ASSUME NEW files, Contiguous(files), NEW start \in Nat
  PROVE  LET s == StartFile(files, start)
         IN  /\ s \in 1 .. Len(files)
             /\ files[s].start <= start
             /\ \A k \in 1 .. Len(files) :
                  /\ k < s => files[k].start < start
                  /\ k > s => files[k].start >= start
             /\ \/ files[s].start = start
                \/ s = Len(files)
                \/ start < files[s + 1].start
<1> DEFINE N == Len(files)
           keys == Starts(files)
           found == LowerBound(keys, 1, start)
           inside == IF found > N THEN N ELSE found
           s == StartFile(files, start)
<1>1. /\ N \in Nat \ {0} /\ DOMAIN files = 1 .. N
      /\ \A k \in 1 .. N : files[k].start \in Nat
      /\ \A i, j \in 1 .. N : i <= j => files[i].start <= files[j].start
  BY InOrder, Zenon
<1>2. files[1].start = 0
  BY DEF Contiguous
<1>3. keys = [k \in 1 .. N |-> files[k].start]
  BY <1>1 DEF Starts
<1> HIDE DEF N, keys
<1>4. keys \in Seq(Nat) /\ Len(keys) = N /\ \A k \in 1 .. N : keys[k] = files[k].start
  <2>1. keys \in [1 .. N -> Nat] /\ N \in Nat
    BY <1>1, <1>3
  <2> QED BY <2>1, <1>3
<1>5. 1 \in 1 .. Len(keys) + 1
  BY <1>1, <1>4
<1>6. /\ found \in 1 .. N + 1
      /\ found <= N => keys[found] >= start
      /\ \A l \in 1 .. found - 1 : keys[l] < start
  BY <1>4, <1>5, LowerBoundFirst
<1>7. s = IF files[inside].start > start THEN inside - 1 ELSE inside
  BY DEF StartFile, N, keys
<1> HIDE DEF found, s
<1>8. /\ found <= N => files[found].start >= start
      /\ \A l \in 1 .. found - 1 : files[l].start < start
  <2>1. \A l \in 1 .. found - 1 : l \in 1 .. N
    BY <1>6, <1>1
  <2>2. found <= N => found \in 1 .. N
    BY <1>6, <1>1
  <2> QED BY <2>1, <2>2, <1>4, <1>6
<1>9. inside \in 1 .. N
  BY <1>1, <1>6
<1>10. CASE files[inside].start > start
  <2>1. inside # 1 /\ s = inside - 1
    BY <1>2, <1>7, <1>10
  <2>2. s \in 1 .. N /\ s \in 1 .. found - 1
    BY <2>1, <1>9, <1>6, <1>1
  <2>3. \A k \in 1 .. N : k < s => k \in 1 .. found - 1
    BY <2>2, <1>6, <1>1
  <2>4. \A k \in 1 .. N : k > s => inside <= k
    BY <2>1, <2>2, <1>9
  <2>5. \A k \in 1 .. N : k > s => files[k].start >= start
    BY <2>4, <1>1, <1>9, <1>10
  <2>6. s + 1 = inside
    BY <2>1, <1>9
  <2>7. files[s].start < start /\ start < files[s + 1].start
    BY <2>2, <2>6, <1>8, <1>9, <1>10, <1>1
  <2>8. files[s].start \in Nat
    BY <2>2, <1>1
  <2> QED BY <2>2, <2>3, <2>5, <2>7, <2>8, <1>8 DEF N, s
<1>11. CASE ~(files[inside].start > start)
  <2>1. s = inside
    BY <1>7, <1>11
  <2>2. files[s].start \in Nat /\ files[s].start <= start
    BY <2>1, <1>1, <1>9, <1>11
  <2>3. \A k \in 1 .. N : k < s => k \in 1 .. found - 1
    BY <2>1, <1>6, <1>1
  <2>4. CASE found > N
    <3>1. s = N
      BY <2>1, <2>4
    <3>2. \A k \in 1 .. N : ~(k > s)
      BY <3>1, <1>1
    <3> QED BY <3>1, <3>2, <2>1, <2>2, <2>3, <1>8, <1>9 DEF N, s
  <2>5. CASE ~(found > N)
    <3>1. s = found /\ found <= N
      BY <2>1, <2>5, <1>6, <1>1
    <3>2. files[s].start = start
      BY <3>1, <2>2, <1>8
    <3>3. \A k \in 1 .. N : k > s => files[k].start >= start
      BY <3>2, <2>1, <1>1, <1>9
    <3> QED BY <3>2, <3>3, <2>1, <2>2, <2>3, <1>8, <1>9 DEF N, s
  <2> QED BY <2>4, <2>5
<1> QED BY <1>10, <1>11

LEMMA EndFileFacts ==
  ASSUME NEW files, Contiguous(files), NEW start \in Nat, NEW end \in Nat
  PROVE  LET s == StartFile(files, start)
             e == EndFile(files, start, end)
         IN  /\ e \in s .. Len(files) + 1
             /\ e <= Len(files) => files[e].end >= end
             /\ \A k \in s .. e - 1 : files[k].end < end
<1> DEFINE N == Len(files)
           keys == Ends(files)
           s == StartFile(files, start)
           e == LowerBound(keys, s, end)
<1>1. /\ N \in Nat \ {0} /\ DOMAIN files = 1 .. N
      /\ \A k \in 1 .. N : files[k].end \in Nat
  BY InOrder, Zenon
<1>2. s \in 1 .. N
  BY StartFileFacts, Zenon
<1>3. keys = [k \in 1 .. N |-> files[k].end]
  BY <1>1 DEF Ends
<1> HIDE DEF N, keys, s
<1>4. keys \in Seq(Nat) /\ Len(keys) = N /\ \A k \in 1 .. N : keys[k] = files[k].end
  <2>1. keys \in [1 .. N -> Nat] /\ N \in Nat
    BY <1>1, <1>3
  <2> QED BY <2>1, <1>3
<1>5. s \in 1 .. Len(keys) + 1
  BY <1>1, <1>2, <1>4
<1>6. /\ e \in s .. N + 1
      /\ e <= N => keys[e] >= end
      /\ \A l \in s .. e - 1 : keys[l] < end
  BY <1>4, <1>5, LowerBoundFirst
<1>7. EndFile(files, start, end) = e
  BY DEF EndFile, keys, s
<1> HIDE DEF e
<1>8. \A l \in s .. e - 1 : l \in 1 .. N
  BY <1>6, <1>1, <1>2
<1>9. e <= N => e \in 1 .. N
  BY <1>6, <1>1, <1>2
<1> QED BY <1>4, <1>6, <1>7, <1>8, <1>9 DEF N, s, e

\* The part of file k in [start, end).
From(files, start, k) == IF files[k].start < start THEN start ELSE files[k].start
To(files, end, k) == IF files[k].end < end THEN files[k].end ELSE end

LEMMA PartsAre ==
  ASSUME NEW files, Contiguous(files), NEW start \in Nat, NEW end \in Nat,
         IterateAccepted(files, start, end)
  PROVE  LET s == StartFile(files, start)
             e == EndFile(files, start, end)
         IN  /\ s \in 1 .. Len(files) /\ e \in s .. Len(files) /\ start < end
             /\ \A k \in s .. e :
                  /\ From(files, start, k) \in start .. end - 1
                  /\ From(files, start, k) \in files[k].start .. files[k].end
                  /\ To(files, end, k) \in From(files, start, k) .. end
                  /\ To(files, end, k) \in files[k].start .. files[k].end
                  /\ k \in {s, e} => From(files, start, k) < To(files, end, k)
             /\ From(files, start, s) = start
             /\ To(files, end, e) = end
             /\ \A k \in s + 1 .. e : To(files, end, k - 1) = From(files, start, k)
<1> DEFINE N == Len(files)
           s == StartFile(files, start)
           e == EndFile(files, start, end)
           S(k) == files[k].start
           E(k) == files[k].end
<1>1. /\ N \in Nat \ {0}
      /\ \A k \in 1 .. N : S(k) \in Nat /\ E(k) \in Nat /\ S(k) <= E(k)
      /\ \A i, j \in 1 .. N : /\ i <= j => S(i) <= S(j) /\ E(i) <= E(j)
                              /\ i < j => E(i) <= S(j)
  BY InOrder, Zenon
<1>2. /\ s \in 1 .. N /\ S(s) <= start
      /\ \A k \in 1 .. N : k > s => S(k) >= start
  BY StartFileFacts, Zenon
<1>3. /\ e \in s .. N + 1
      /\ \A k \in s .. e - 1 : E(k) < end
  BY EndFileFacts, Zenon
<1>4. start < end /\ start < E(s) /\ e <= N /\ S(e) < end /\ end <= E(e)
  BY DEF IterateAccepted
<1>5. \A k \in 1 .. N - 1 : S(k + 1) = E(k)
  <2> TAKE k \in 1 .. N - 1
  <2>1. k \in 1 .. N /\ k + 1 \in 1 .. N
    BY <1>1
  <2>2. DOMAIN files = 1 .. N
    BY InOrder, Zenon
  <2> QED BY <2>1, <2>2 DEF Contiguous
<1> HIDE DEF N, s, e
<1>6. s \in Int /\ e \in s .. N /\ e \in 1 .. N /\ \A k \in s .. e : k \in 1 .. N
  BY <1>1, <1>2, <1>3, <1>4
<1>7. ASSUME NEW k \in s .. e
      PROVE  /\ From(files, start, k) = IF k = s THEN start ELSE S(k)
             /\ To(files, end, k) = IF k = e THEN end ELSE E(k)
             /\ k # s => S(k) >= start
             /\ k # e => E(k) < end
  <2>1. k \in 1 .. N /\ S(k) \in Nat /\ E(k) \in Nat
    BY <1>1, <1>6
  <2>2. k # s => S(k) >= start
    BY <2>1, <1>2, <1>6
  <2>3. k # e => k \in s .. e - 1
    BY <1>6
  <2>4. k # e => E(k) < end
    BY <2>3, <1>3
  <2>5. From(files, start, k) = IF k = s THEN start ELSE S(k)
    BY <2>1, <2>2, <1>2 DEF From
  <2>6. To(files, end, k) = IF k = e THEN end ELSE E(k)
    BY <2>1, <2>4, <1>4 DEF To
  <2> QED BY <2>2, <2>4, <2>5, <2>6
<1>8. ASSUME NEW k \in s .. e
      PROVE  /\ From(files, start, k) \in start .. end - 1
             /\ From(files, start, k) \in S(k) .. E(k)
             /\ To(files, end, k) \in From(files, start, k) .. end
             /\ To(files, end, k) \in S(k) .. E(k)
             /\ k \in {s, e} => From(files, start, k) < To(files, end, k)
  <2>1. k \in 1 .. N /\ S(k) \in Nat /\ E(k) \in Nat /\ S(k) <= E(k)
    BY <1>1, <1>6
  <2>2. k # e => S(k) < end
    BY <2>1, <1>7
  <2>3. k = e => S(k) < end
    BY <1>4
  <2> QED BY <2>1, <2>2, <2>3, <1>2, <1>4, <1>7
<1>9. From(files, start, s) = start /\ To(files, end, e) = end
  BY <1>6, <1>7
<1>10. ASSUME NEW k \in s + 1 .. e PROVE To(files, end, k - 1) = From(files, start, k)
  <2>1. k \in s .. e /\ k - 1 \in s .. e /\ k # s /\ k - 1 # e
    BY <1>6
  <2>2. k - 1 \in 1 .. N - 1 /\ (k - 1) + 1 = k
    BY <2>1, <1>1, <1>6
  <2>3. To(files, end, k - 1) = E(k - 1) /\ From(files, start, k) = S(k)
    BY <2>1, <1>7
  <2> QED BY <2>2, <2>3, <1>5
<1> QED BY <1>2, <1>4, <1>6, <1>8, <1>9, <1>10 DEF N, s, e

\* data_offset is the distance from start_bytes.
LEMMA PiecesOfFiles ==
  ASSUME NEW files, Contiguous(files), NEW start \in Nat, NEW end \in Nat,
         IterateAccepted(files, start, end)
  PROVE  LET s == StartFile(files, start)
             e == EndFile(files, start, end)
         IN  FilePieces(files, start, end) =
               [n \in 1 .. e - s + 1 |->
                  [file_index   |-> s + n - 1,
                   file_offset  |-> From(files, start, s + n - 1) - files[s + n - 1].start,
                   bytes_count  |-> To(files, end, s + n - 1) - From(files, start, s + n - 1),
                   piece_offset |-> From(files, start, s + n - 1) - start]]
<1> DEFINE first == StartFile(files, start)
           last == EndFile(files, start, end)
           from(k) == IF files[k].start < start THEN start ELSE files[k].start
           to(k) == IF files[k].end < end THEN files[k].end ELSE end
           step == [k \in first + 1 .. last |-> to(k - 1) - from(k - 1)]
           R(d) == d = [k \in first .. last |->
                          IF k = first THEN 0 ELSE d[k - 1] + (to(k - 1) - from(k - 1))]
           D == CHOOSE d : R(d)
<1>1. /\ first \in Int /\ last \in first .. Len(files)
      /\ \A k \in first .. last : from(k) \in Int /\ to(k) \in Int
      /\ from(first) = start
      /\ \A k \in first + 1 .. last : to(k - 1) = from(k)
  <2>1. /\ first \in 1 .. Len(files) /\ last \in first .. Len(files)
        /\ \A k \in first .. last :
                  /\ From(files, start, k) \in start .. end - 1
                  /\ To(files, end, k) \in From(files, start, k) .. end
        /\ From(files, start, first) = start
        /\ \A k \in first + 1 .. last : To(files, end, k - 1) = From(files, start, k)
    BY PartsAre
  <2> HIDE DEF first, last
  <2>2. \A k : From(files, start, k) = from(k) /\ To(files, end, k) = to(k)
    BY DEF From, To
  <2> HIDE DEF from, to
  <2> QED BY <2>1, <2>2
<1>2. FilePieces(files, start, end) =
        [n \in 1 .. last - first + 1 |->
           [file_index   |-> first + n - 1,
            file_offset  |-> from(first + n - 1) - files[first + n - 1].start,
            bytes_count  |-> to(first + n - 1) - from(first + n - 1),
            piece_offset |-> D[first + n - 1]]]
  BY Zenon DEF FilePieces
<1> HIDE DEF first, last, from, to
<1>3. \A k \in first .. last : k # first => step[k] = to(k - 1) - from(k - 1)
  BY <1>1
<1> HIDE DEF step
<1>4. \E d : R(d)
  <2>1. PICK d : RunningSum(d, step, first, last)
    <3>1. first \in Int /\ last \in Int /\ first <= last
      BY <1>1
    <3> QED BY <3>1, RunningSumExists, Zenon
  <2>2. \A k \in first .. last :
          (IF k = first THEN 0 ELSE d[k - 1] + step[k])
            = (IF k = first THEN 0 ELSE d[k - 1] + (to(k - 1) - from(k - 1)))
    BY <1>3, Zenon
  <2>3. R(d)
    BY <2>1, <2>2 DEF RunningSum
  <2> QED BY <2>3
<1>5. R(D)
  <2> HIDE DEF R
  <2> QED BY <1>4
<1> HIDE DEF D
<1>6. \A k \in first .. last : D[k] = from(k) - start
  <2> DEFINE Bad == {k \in first .. last : D[k] # from(k) - start}
  <2> SUFFICES ASSUME Bad # {} PROVE FALSE
    OBVIOUS
  <2>1. PICK j \in Bad : \A k \in Bad : j <= k
    <3>1. \A k \in Bad : k \in Int /\ first <= k
      BY <1>1
    <3> HIDE DEF Bad
    <3> QED BY <3>1, <1>1, LeastFrom
  <2>2. CASE j = first
    BY <2>1, <2>2, <1>1, <1>5
  <2>3. CASE j # first
    <3>1. j \in first + 1 .. last /\ j - 1 \in first .. last /\ j - 1 \notin Bad
      BY <2>1, <2>3, <1>1
    <3>2. D[j - 1] = from(j - 1) - start
      BY <3>1
    <3>3. D[j] = D[j - 1] + (to(j - 1) - from(j - 1))
      BY <3>1, <2>3, <1>5
    <3>4. from(j - 1) \in Int /\ to(j - 1) \in Int /\ to(j - 1) = from(j)
      BY <3>1, <1>1
    <3> QED BY <2>1, <3>2, <3>3, <3>4
  <2> QED BY <2>2, <2>3
<1>7. \A n \in 1 .. last - first + 1 : first + n - 1 \in first .. last
  BY <1>1
<1>8. \A n \in 1 .. last - first + 1 : D[first + n - 1] = from(first + n - 1) - start
  BY <1>6, <1>7
<1>9. \A k : From(files, start, k) = from(k) /\ To(files, end, k) = to(k)
  BY DEF From, To, from, to
<1> HIDE DEF D
<1> QED BY <1>2, <1>8, <1>9 DEF first, last

\* A call f(FilePiece) for the range [start, end): it has exactly the bytes of
\* the range that are in its file, at their place in the file and in the
\* piece, and is for no bytes only if its file is empty and another one after
\* it is not.
CallFor(files, start, end, fp) ==
  LET k == fp.file_index
      S == files[k].start
      E == files[k].end
  IN  /\ k \in 1 .. Len(files)
      /\ fp.file_offset \in Nat
      /\ fp.bytes_count \in Nat
      /\ fp.piece_offset \in 0 .. end - start - 1
      /\ S + fp.file_offset = start + fp.piece_offset
      /\ fp.piece_offset + fp.bytes_count <= end - start
      /\ S + fp.file_offset + fp.bytes_count <= E
      /\ \A o \in 0 .. E - S - 1 :
           o \in fp.file_offset .. fp.file_offset + fp.bytes_count - 1 <=> S + o \in start .. end - 1
      /\ \/ fp.bytes_count > 0
         \/ /\ S = E
            /\ \E j \in 1 .. Len(files) : k < j /\ files[j].start < files[j].end

\* iterate_files, whenever its first assertions hold, cuts [start, end) along
\* the files: one call for each file the range meets; a file without a call
\* has no byte of the range, and the last assertion holds.
THEOREM RangeCut ==
  ASSUME NEW files, Contiguous(files), NEW start \in Nat, NEW end \in Nat,
         IterateAccepted(files, start, end)
  PROVE  LET fps == FilePieces(files, start, end)
         IN  /\ Len(fps) \in Nat \ {0} /\ DOMAIN fps = 1 .. Len(fps)
             /\ \A n \in DOMAIN fps : CallFor(files, start, end, fps[n])
             /\ \A m, n \in DOMAIN fps : fps[m].file_index = fps[n].file_index => m = n
             /\ \A k \in 1 .. Len(files) :
                  \/ \E n \in DOMAIN fps : fps[n].file_index = k
                  \/ \A place \in files[k].start .. files[k].end - 1 : place \notin start .. end - 1
             /\ RangeConsumed(fps, start, end)
<1> DEFINE N == Len(files)
           s == StartFile(files, start)
           e == EndFile(files, start, end)
           S(k) == files[k].start
           E(k) == files[k].end
           fps == FilePieces(files, start, end)
           fr(k) == From(files, start, k)
           tt(k) == To(files, end, k)
<1>1. /\ N \in Nat \ {0}
      /\ \A k \in 1 .. N : S(k) \in Nat /\ E(k) \in Nat /\ S(k) <= E(k)
      /\ \A i, j \in 1 .. N : /\ i <= j => S(i) <= S(j) /\ E(i) <= E(j)
                              /\ i < j => E(i) <= S(j)
  BY InOrder, Zenon
<1>2. /\ s \in 1 .. N /\ e \in s .. N /\ start < end
      /\ \A k \in s .. e :
                  /\ fr(k) \in start .. end - 1
                  /\ fr(k) \in S(k) .. E(k)
                  /\ tt(k) \in fr(k) .. end
                  /\ tt(k) \in S(k) .. E(k)
                  /\ k \in {s, e} => fr(k) < tt(k)
      /\ fr(s) = start
      /\ tt(e) = end
  BY PartsAre
<1>3. fps = [n \in 1 .. e - s + 1 |->
                  [file_index   |-> s + n - 1,
                   file_offset  |-> fr(s + n - 1) - S(s + n - 1),
                   bytes_count  |-> tt(s + n - 1) - fr(s + n - 1),
                   piece_offset |-> fr(s + n - 1) - start]]
  BY PiecesOfFiles, Zenon
<1>4. /\ S(s) <= start
      /\ \A k \in 1 .. N : k > s => S(k) >= start
      /\ \A k \in 1 .. N : k < s => S(k) < start
      /\ S(s) = start \/ s = N \/ start < S(s + 1)
  BY StartFileFacts, Zenon
<1>5. e <= N => E(e) >= end
  BY EndFileFacts, Zenon
<1>6. \A k \in s .. e : /\ fr(k) = IF S(k) < start THEN start ELSE S(k)
                        /\ tt(k) = IF E(k) < end THEN E(k) ELSE end
  BY DEF From, To
<1>6a. start < E(s)
  BY DEF IterateAccepted
<1> HIDE DEF N, s, e, fr, tt, fps
<1>7. e - s + 1 \in Nat \ {0} /\ s \in Int /\ e \in Int /\ s \in s .. e /\ e \in s .. e
  BY <1>1, <1>2
<1>8. DOMAIN fps = 1 .. e - s + 1 /\ Len(fps) = e - s + 1
  <2>1. DOMAIN fps = 1 .. e - s + 1
    BY <1>3
  <2> QED BY <2>1, <1>7
<1>9. ASSUME NEW n \in 1 .. e - s + 1
      PROVE  /\ s + n - 1 \in s .. e /\ s + n - 1 \in 1 .. N
             /\ fps[n].file_index = s + n - 1
             /\ fps[n].file_offset = fr(s + n - 1) - S(s + n - 1)
             /\ fps[n].bytes_count = tt(s + n - 1) - fr(s + n - 1)
             /\ fps[n].piece_offset = fr(s + n - 1) - start
  <2>1. fps[n] = [file_index   |-> s + n - 1,
                   file_offset  |-> fr(s + n - 1) - S(s + n - 1),
                   bytes_count  |-> tt(s + n - 1) - fr(s + n - 1),
                   piece_offset |-> fr(s + n - 1) - start]
    BY <1>3
  <2>2. s + n - 1 \in s .. e /\ s + n - 1 \in 1 .. N
    BY <1>1, <1>2, <1>7
  <2> QED BY <2>1, <2>2
<1>10. ASSUME NEW n \in 1 .. e - s + 1
       PROVE  CallFor(files, start, end, fps[n])
  <2> DEFINE k == s + n - 1
             F == fr(k)
             T == tt(k)
             Sk == S(k)
             Ek == E(k)
  <2>1. /\ k \in s .. e /\ k \in 1 .. N
        /\ fps[n].file_index = k
        /\ fps[n].file_offset = F - Sk
        /\ fps[n].bytes_count = T - F
        /\ fps[n].piece_offset = F - start
    BY <1>9
  <2> HIDE DEF k
  <2>2. Sk \in Nat /\ Ek \in Nat /\ Sk <= Ek
    BY <2>1, <1>1
  <2>3. /\ F \in start .. end - 1 /\ F \in Sk .. Ek /\ T \in F .. end /\ T \in Sk .. Ek
        /\ k \in {s, e} => F < T
        /\ F = IF Sk < start THEN start ELSE Sk
        /\ T = IF Ek < end THEN Ek ELSE end
    BY <2>1, <1>2, <1>6
  <2>4. T - F > 0 \/ (Sk = Ek /\ \E j \in 1 .. N : k < j /\ S(j) < E(j))
    <3> SUFFICES ASSUME ~(T - F > 0) PROVE Sk = Ek /\ \E j \in 1 .. N : k < j /\ S(j) < E(j)
      OBVIOUS
    <3>1. k # s /\ k # e
      BY <2>2, <2>3
    <3>2. s < k /\ k < e /\ e \in 1 .. N
      BY <3>1, <2>1, <1>7, <1>2
    <3>3. Sk >= start
      BY <3>2, <2>1, <1>4
    <3>4. S(e) \in Nat /\ E(e) \in Nat /\ Ek <= S(e)
      BY <3>2, <2>1, <1>1
    <3>5. fr(e) < tt(e) /\ fr(e) \in S(e) .. E(e) /\ tt(e) \in S(e) .. E(e)
      BY <1>2, <1>7
    <3>6. S(e) < E(e)
      BY <3>4, <3>5
    <3>7. S(e) < end
      <4>1. fr(e) \in start .. end - 1
        BY <1>2, <1>7
      <4> QED BY <4>1, <3>4, <3>5
    <3>8. Sk = Ek
      BY <3>3, <3>4, <3>7, <2>2, <2>3
    <3> QED BY <3>2, <3>6, <3>8
  <2> HIDE DEF F, T, Sk, Ek
  <2>5. /\ F - Sk \in Nat
        /\ T - F \in Nat
        /\ F - start \in 0 .. end - start - 1
        /\ Sk + (F - Sk) = start + (F - start)
        /\ (F - start) + (T - F) <= end - start
        /\ Sk + (F - Sk) + (T - F) <= Ek
    BY <2>2, <2>3
  <2>6. \A o \in 0 .. Ek - Sk - 1 :
          o \in F - Sk .. (F - Sk) + (T - F) - 1 <=> Sk + o \in start .. end - 1
    BY <2>2, <2>3
  <2>7. S(fps[n].file_index) = Sk /\ E(fps[n].file_index) = Ek
    BY <2>1 DEF Sk, Ek
  <2> QED BY <2>1, <2>4, <2>5, <2>6, <2>7 DEF CallFor, N, Sk, Ek
<1>11. \A m, n \in 1 .. e - s + 1 : fps[m].file_index = fps[n].file_index => m = n
  BY <1>9, <1>7
<1>12. ASSUME NEW k \in 1 .. N, \A n \in 1 .. e - s + 1 : fps[n].file_index # k,
              NEW place \in S(k) .. E(k) - 1
       PROVE  place \notin start .. end - 1
  <2>0. S(k) \in Nat /\ E(k) \in Nat /\ place \in Int
    BY <1>1
  <2>1. k < s \/ k > e
    <3> SUFFICES ASSUME k \in s .. e PROVE FALSE
      BY <1>7
    <3>1. k - s + 1 \in 1 .. e - s + 1 /\ s + (k - s + 1) - 1 = k
      BY <1>7
    <3> QED BY <3>1, <1>9, <1>12
  <2>2. CASE k < s
    <3>1. E(k) <= S(s) /\ S(s) \in Nat
      BY <2>2, <1>1, <1>2
    <3> QED BY <3>1, <2>0, <1>4
  <2>3. CASE k > e
    <3>1. e \in 1 .. N /\ E(e) <= S(k) /\ E(e) \in Nat /\ e <= N
      BY <2>3, <1>1, <1>2
    <3> QED BY <3>1, <2>0, <1>5
  <2> QED BY <2>1, <2>2, <2>3
<1>13. RangeConsumed(fps, start, end)
  <2>1. e - s + 1 \in 1 .. e - s + 1 /\ s + (e - s + 1) - 1 = e
    BY <1>7
  <2>2. fps[Len(fps)].bytes_count = end - fr(e) /\ fps[Len(fps)].piece_offset = fr(e) - start
    BY <2>1, <1>2, <1>8, <1>9
  <2>3. fr(e) \in Int
    BY <1>2, <1>7
  <2> QED BY <2>2, <2>3 DEF RangeConsumed
<1> QED
  BY <1>7, <1>8, <1>10, <1>11, <1>12, <1>13 DEF N, fps

\* The first assertions of iterate_files hold for every range of the
\* torrent, unless a file of no bytes has a file of some bytes after it.
THEOREM RangeAccepted ==
  ASSUME NEW files, Contiguous(files), NEW start \in Nat, NEW end \in Nat,
         start < end, end <= files[Len(files)].end,
         \A f, g \in 1 .. Len(files) :
           f < g /\ files[g].start < files[g].end => files[f].start < files[f].end
  PROVE  IterateAccepted(files, start, end)
<1> DEFINE N == Len(files)
           s == StartFile(files, start)
           e == EndFile(files, start, end)
           S(k) == files[k].start
           E(k) == files[k].end
<1>1. /\ N \in Nat \ {0} /\ DOMAIN files = 1 .. N
      /\ \A k \in 1 .. N : S(k) \in Nat /\ E(k) \in Nat /\ S(k) <= E(k)
      /\ \A i, j \in 1 .. N : /\ i <= j => S(i) <= S(j) /\ E(i) <= E(j)
                              /\ i < j => E(i) <= S(j)
  BY InOrder, Zenon
<1>2. /\ s \in 1 .. N /\ S(s) <= start
      /\ S(s) = start \/ s = N \/ start < S(s + 1)
  BY StartFileFacts, Zenon
<1>3. /\ e \in s .. N + 1
      /\ e <= N => E(e) >= end
      /\ \A k \in s .. e - 1 : E(k) < end
  BY EndFileFacts, Zenon
<1>4. \A k \in 1 .. N - 1 : S(k + 1) = E(k)
  <2> TAKE k \in 1 .. N - 1
  <2>1. k \in 1 .. N /\ k + 1 \in 1 .. N
    BY <1>1
  <2> QED BY <2>1, <1>1 DEF Contiguous
<1>5. end <= E(N) /\ \A f, g \in 1 .. N : f < g /\ S(g) < E(g) => S(f) < E(f)
  OBVIOUS
<1> HIDE DEF N, s, e
<1>6. N \in 1 .. N /\ s \in Int /\ E(N) \in Nat
  BY <1>1, <1>2
<1>7. start < E(s)
  <2> SUFFICES ASSUME ~(start < E(s)) PROVE FALSE
    OBVIOUS
  <2>1. S(s) = start /\ E(s) = start /\ s # N
    <3>1. S(s) \in Nat /\ E(s) \in Nat /\ S(s) <= E(s)
      BY <1>1, <1>2
    <3>2. s # N
      BY <3>1, <1>5, <1>6
    <3>3. s \in 1 .. N - 1
      BY <3>2, <1>2, <1>1
    <3>4. S(s + 1) = E(s)
      BY <3>3, <1>4
    <3> QED BY <3>1, <3>2, <3>4, <1>2
  <2> DEFINE After == {k \in 1 .. N : E(k) > start}
  <2>2. N \in After
    BY <1>5, <1>6
  <2>3. PICK k \in After : \A j \in After : k <= j
    <3>1. \A j \in After : j \in Int /\ 1 <= j
      BY <1>1
    <3> HIDE DEF After
    <3> QED BY <3>1, <2>2, LeastFrom
  <2>4. s < k
    <3>1. k # s
      BY <2>1, <2>3
    <3>2. ~(k < s)
      <4> SUFFICES ASSUME k < s PROVE FALSE
        OBVIOUS
      <4>1. E(k) <= E(s) /\ E(k) \in Nat
        BY <1>1, <1>2, <2>3
      <4> QED BY <4>1, <2>1, <2>3
    <3> QED BY <3>1, <3>2, <1>6, <1>1, <2>3
  <2>5. k - 1 \in 1 .. N - 1 /\ k - 1 \in 1 .. N /\ (k - 1) + 1 = k /\ k - 1 \notin After
    BY <2>3, <2>4, <1>2, <1>1
  <2>6. S(k) = E(k - 1) /\ ~(E(k - 1) > start) /\ E(k - 1) \in Nat
    BY <2>5, <1>4, <1>1
  <2>7. S(k) < E(k)
    BY <2>3, <2>6, <1>1
  <2>8. S(s) < E(s)
    BY <2>3, <2>4, <2>7, <1>2, <1>5
  <2> QED BY <2>1, <2>8
<1>8. e <= N
  <2> SUFFICES ASSUME ~(e <= N) PROVE FALSE
    OBVIOUS
  <2>1. e = N + 1
    BY <1>1, <1>2, <1>3
  <2>2. N \in s .. e - 1
    BY <2>1, <1>1, <1>2
  <2> QED BY <2>2, <1>3, <1>5, <1>6
<1>9. end > S(e) /\ end <= E(e)
  <2>1. CASE e = s
    BY <2>1, <1>1, <1>2, <1>3, <1>8
  <2>2. CASE e # s
    <3>1. e \in 1 .. N /\ e - 1 \in 1 .. N - 1 /\ e - 1 \in s .. e - 1 /\ (e - 1) + 1 = e
      BY <2>2, <1>1, <1>2, <1>3, <1>8
    <3>2. S(e) = E(e - 1) /\ E(e - 1) < end /\ E(e) >= end /\ E(e) \in Nat /\ S(e) \in Nat
      BY <3>1, <1>1, <1>3, <1>4, <1>8
    <3> QED BY <3>2
  <2> QED BY <2>1, <2>2
<1>10. start >= S(s)
  BY <1>1, <1>2
<1> QED BY <1>7, <1>8, <1>9, <1>10 DEF IterateAccepted, N, s, e

-----------------------------------------------------------------------------
(* The range of a piece.                                                   *)

\* iterate_files(piece_index, f), when the products fit in 32 bits: the range
\* of a piece is not empty, is the bytes whose place divided by the piece
\* size is its index, and has as many bytes as get_piece_size says.
THEOREM PieceRange ==
  ASSUME NEW count, NEW size, NEW files, Contiguous(files),
         ValidLayout(count, size, files[Len(files)].end), count * size < Word,
         NEW i \in 0 .. count - 1
  PROVE  LET total == files[Len(files)].end
             end == PieceEnd(files, size, i)
         IN  /\ PieceStart(size, i) = i * size
             /\ i * size \in Nat /\ end \in Nat /\ i * size < end /\ end <= total
             /\ get_piece_size(count, size, total, i) = end - i * size
             /\ \A place \in 0 .. total - 1 :
                  place \div size = i <=> place \in i * size .. end - 1
<1> DEFINE total == files[Len(files)].end
           end == PieceEnd(files, size, i)
<1>1. /\ count \in Nat /\ size \in Nat \ {0} /\ total \in Nat /\ Word \in Nat \ {0}
      /\ size * (count - 1) < total
      /\ total - size * (count - 1) <= size
      /\ i \in Nat /\ i <= count - 1
  BY WordAssumption DEF ValidLayout
<1>2. get_piece_size(count, size, total, i) = PieceBytes(count, size, total, i)
  <2> DEFINE before == size * (count - 1)
  <2>1. /\ before \in Nat /\ count * size = before + size
        /\ before < total /\ total - before <= size
    BY <1>1
  <2> HIDE DEF before, total
  <2>2. /\ before \in 0 .. Word - 1 /\ total - before \in 0 .. Word - 1
        /\ \A n \in 0 .. Word - 1 : n % Word = n
    BY <1>1, <2>1
  <2>3. before % Word = before /\ (total - before) % Word = total - before
    BY <2>2
  <2> QED BY <2>3 DEF get_piece_size, PieceBytes, BytesBeforeLast, U32, before
<1> HIDE DEF total
<1>3. /\ i * size \in Nat /\ (i + 1) * size \in Nat /\ (i + 1) * size = i * size + size
      /\ count * size = size * (count - 1) + size /\ size * (count - 1) = (count - 1) * size
      /\ (count - 1) * size \in Int /\ count * size \in Int
  BY <1>1
<1>4. i * size <= (count - 1) * size
  BY <1>1, MulMonotone
<1>5. (i + 1) * size < Word /\ i * size < Word
  BY <1>1, <1>3, <1>4
<1>6. PieceStart(size, i) = i * size /\ U32((i + 1) * size) = (i + 1) * size
  <2>1. \A n \in Nat : n < Word => n % Word = n
    BY <1>1
  <2> QED BY <2>1, <1>3, <1>5 DEF PieceStart, U32
<1>7. end = IF (i + 1) * size < total THEN (i + 1) * size ELSE total
  BY <1>6 DEF PieceEnd, total
<1> HIDE DEF end
<1>8. CASE i < count - 1
  <2>1. (i + 1) * size <= (count - 1) * size
    BY <1>1, <1>8, MulMonotone
  <2>2. end = (i + 1) * size
    BY <2>1, <1>1, <1>3, <1>7
  <2>3. get_piece_size(count, size, total, i) = size
    BY <1>2, <1>8 DEF PieceBytes
  <2>4. \A place \in 0 .. total - 1 :
          place \div size = i <=> place \in i * size .. end - 1
    <3> TAKE place \in 0 .. total - 1
    <3>1. place \in Nat
      BY <1>1
    <3> QED BY <3>1, <2>2, <1>1, QuotientIs
  <2>5. /\ end \in Nat /\ i * size < end /\ end <= total
        /\ get_piece_size(count, size, total, i) = end - i * size
    BY <2>1, <2>2, <2>3, <1>1, <1>3
  <2> QED BY <2>4, <2>5, <1>3, <1>6, Zenon DEF total, end
<1>9. CASE ~(i < count - 1)
  <2>1. i = count - 1
    BY <1>1, <1>9
  <2>2. end = total /\ i * size < total /\ total <= (i + 1) * size
    BY <2>1, <1>1, <1>3, <1>7
  <2>3. get_piece_size(count, size, total, i) = total - i * size
    BY <2>1, <1>1, <1>2, <1>3 DEF PieceBytes
  <2>4. \A place \in 0 .. total - 1 :
          place \div size = i <=> place \in i * size .. end - 1
    <3> TAKE place \in 0 .. total - 1
    <3>1. place \in Nat
      BY <1>1
    <3>2. place \div size = i <=> place \in i * size .. (i + 1) * size - 1
      BY <3>1, <1>1, QuotientIs
    <3> QED BY <3>1, <3>2, <2>2, <1>1, <1>3
  <2>5. /\ end \in Nat /\ i * size < end /\ end <= total
        /\ get_piece_size(count, size, total, i) = end - i * size
    BY <2>2, <2>3, <1>1
  <2> QED BY <2>4, <2>5, <1>3, <1>6, Zenon DEF total, end
<1> QED BY <1>8, <1>9

-----------------------------------------------------------------------------
(* The inductive invariant.                                                *)

\* The torrents for which PiecesCount * PieceSize does not wrap around in
\* iterate_files.  For the others write_piece fails an assertion at once
\* (WriteAssertsHold is violated).
BelowWord == \A t \in Torrents : t.count * t.size < Word

\* What Init chooses and no step changes.
LayoutKept ==
  /\ torrent \in Torrents
  /\ files_offset_ = FilesListMake(torrent.lengths)
  /\ ValidLayout(torrent.count, torrent.size, total_size_)

Types ==
  /\ taken \subseteq File
  /\ file_ \in [File -> BOOLEAN]
  /\ written_ \in [File -> Nat]
  /\ \A f \in File : /\ DOMAIN disk[f] = 0 .. FileSize(f) - 1
                     /\ disk[f] = [o \in 0 .. FileSize(f) - 1 |-> disk[f][o]]
  /\ created \subseteq File
  /\ pieces \subseteq PieceIndex

\* A byte of a file is blank, is the one of its place, or was there before.
Places ==
  \A f \in File : \A o \in DOMAIN disk[f] :
    \/ disk[f][o] = Blank
    \/ disk[f][o] = BytePlace(f, o)
    \/ disk[f][o] = Other /\ f \in taken

\* Nothing is opened or written under a name that was taken.
TakenLeft == \A f \in taken : f \notin created /\ ~file_[f] /\ written_[f] = 0

\* A file is written only after it was created.
BlankUntilCreated ==
  \A f \in File \ (taken \union created) : \A o \in DOMAIN disk[f] : disk[f][o] = Blank

\* The bytes of file f that were written.
Filled(f) == {o \in DOMAIN disk[f] : disk[f][o] # Blank}

\* Between two pieces.
Progress ==
  /\ \A f \in File \ taken : \A o \in DOMAIN disk[f] :
       disk[f][o] = IF PieceOf(f, o) \in pieces THEN BytePlace(f, o) ELSE Blank
  /\ \A f \in File \ taken :
       /\ written_[f] = Cardinality(Filled(f))
       /\ file_[f] <=> f \in created /\ written_[f] < FileSize(f)
  /\ \A f \in taken : \A o \in DOMAIN disk[f] : PieceOf(f, o) \notin pieces
  /\ \A f \in created : FileSize(f) > 0

DiskInv ==
  /\ LayoutKept /\ Types /\ Places /\ TakenLeft /\ BlankUntilCreated
  /\ state # "aborted" => Progress

-----------------------------------------------------------------------------
(* The layout.                                                             *)

LEMMA LayoutFacts ==
  ASSUME LayoutKept
  PROVE  /\ Contiguous(files_offset_)
         /\ Len(files_offset_) \in Nat \ {0}
         /\ File = 1 .. Len(files_offset_)
         /\ total_size_ \in Nat
         /\ torrent.size \in Nat \ {0} /\ torrent.count \in Nat \ {0}
         /\ total_size_ <= torrent.count * torrent.size
         /\ \A f \in File :
              /\ files_offset_[f].start \in Nat
              /\ FileSize(f) \in Nat
              /\ files_offset_[f].end = files_offset_[f].start + FileSize(f)
              /\ files_offset_[f].end <= total_size_
              /\ \A o \in 0 .. FileSize(f) - 1 : BytePlace(f, o) \in 0 .. total_size_ - 1
<1> DEFINE files == files_offset_
           lengths == torrent.lengths
<1>1. lengths \in Seq(Nat) /\ lengths # <<>>
  BY FilesOnDiskAssumption DEF LayoutKept
<1>2. files = FilesListMake(lengths)
  BY DEF LayoutKept
<1>3. /\ Contiguous(files)
      /\ DOMAIN files = DOMAIN lengths
      /\ Len(files) = Len(lengths)
      /\ \A k \in DOMAIN lengths : files[k].end = files[k].start + lengths[k]
  BY <1>1, <1>2, MadeContiguous
<1>4. /\ Len(files) \in Nat \ {0} /\ DOMAIN files = 1 .. Len(files)
      /\ \A k \in 1 .. Len(files) : files[k].start \in Nat /\ files[k].end \in Nat
      /\ \A i, j \in 1 .. Len(files) : i <= j => files[i].end <= files[j].end
  BY <1>3, InOrder
<1>5. File = 1 .. Len(files)
  BY <1>3, <1>4 DEF File
<1>6. total_size_ = files[Len(files)].end /\ total_size_ \in Nat
  BY <1>4 DEF total_size_
<1>7. /\ torrent.size \in Nat \ {0} /\ torrent.count \in Nat \ {0}
      /\ total_size_ - torrent.size * (torrent.count - 1) <= torrent.size
  BY WordAssumption DEF LayoutKept, ValidLayout
<1>8. total_size_ <= torrent.count * torrent.size
  BY <1>6, <1>7
<1>9. ASSUME NEW f \in File
      PROVE  /\ files[f].start \in Nat
             /\ FileSize(f) \in Nat
             /\ files[f].end = files[f].start + FileSize(f)
             /\ files[f].end <= total_size_
  <2>1. f \in 1 .. Len(files) /\ Len(files) \in 1 .. Len(files) /\ f <= Len(files)
    BY <1>4, <1>5
  <2>2. lengths[f] \in Nat /\ FileSize(f) = lengths[f]
    BY <2>1, <1>1, <1>3, <1>4 DEF FileSize
  <2> QED BY <2>1, <2>2, <1>3, <1>4, <1>6
<1>10. ASSUME NEW f \in File, NEW o \in 0 .. FileSize(f) - 1
       PROVE  BytePlace(f, o) \in 0 .. total_size_ - 1
  <2> DEFINE first == files[f].start
             last == files[f].end
             size == FileSize(f)
             total == total_size_
  <2>1. first \in Nat /\ size \in Nat /\ last = first + size /\ last <= total
    BY <1>9, Zenon
  <2>2. total \in Nat /\ o \in 0 .. size - 1
    BY <1>6, <1>10
  <2>3. BytePlace(f, o) = first + o
    BY Zenon DEF BytePlace
  <2> HIDE DEF first, last, size, total, files
  <2>4. first + o \in 0 .. total - 1
    BY <2>1, <2>2, SMT
  <2> QED BY <2>3, <2>4, Zenon DEF total
<1> QED BY <1>3, <1>4, <1>5, <1>6, <1>7, <1>8, <1>9, <1>10

\* The range iterate_files gives piece i is the bytes of the files that
\* belong to it, and get_piece_size counts them.
LEMMA PieceFacts ==
  ASSUME LayoutKept, BelowWord, NEW i \in PieceIndex
  PROVE  LET start == PieceStart(torrent.size, i)
             end == PieceEnd(files_offset_, torrent.size, i)
         IN  /\ start = i * torrent.size
             /\ start \in Nat /\ end \in Nat /\ start < end /\ end <= total_size_
             /\ SizeOf(i) = end - start
             /\ \A f \in File : \A o \in 0 .. FileSize(f) - 1 :
                  PieceOf(f, o) = i <=> BytePlace(f, o) \in start .. end - 1
<1>1. /\ Contiguous(files_offset_)
      /\ ValidLayout(torrent.count, torrent.size, files_offset_[Len(files_offset_)].end)
      /\ torrent.count * torrent.size < Word
      /\ i \in 0 .. torrent.count - 1
  BY LayoutFacts DEF LayoutKept, BelowWord, PieceIndex, total_size_
<1>2. /\ PieceStart(torrent.size, i) = i * torrent.size
      /\ i * torrent.size \in Nat /\ PieceEnd(files_offset_, torrent.size, i) \in Nat
      /\ i * torrent.size < PieceEnd(files_offset_, torrent.size, i)
      /\ PieceEnd(files_offset_, torrent.size, i) <= total_size_
      /\ SizeOf(i) = PieceEnd(files_offset_, torrent.size, i) - i * torrent.size
      /\ \A place \in 0 .. total_size_ - 1 :
                  place \div torrent.size = i <=>
                    place \in i * torrent.size .. PieceEnd(files_offset_, torrent.size, i) - 1
  BY <1>1, PieceRange, Zenon DEF SizeOf, total_size_
<1>3. \A f \in File : \A o \in 0 .. FileSize(f) - 1 : BytePlace(f, o) \in 0 .. total_size_ - 1
  BY LayoutFacts
<1> QED BY <1>2, <1>3 DEF PieceOf

\* Every byte of the files belongs to a piece.
LEMMA PieceOfByte ==
  ASSUME LayoutKept, NEW f \in File, NEW o \in 0 .. FileSize(f) - 1
  PROVE  PieceOf(f, o) \in PieceIndex
<1> DEFINE place == BytePlace(f, o)
           q == place \div torrent.size
<1>1. /\ place \in 0 .. total_size_ - 1 /\ total_size_ \in Nat
      /\ torrent.size \in Nat \ {0} /\ torrent.count \in Nat \ {0}
      /\ total_size_ <= torrent.count * torrent.size
  BY LayoutFacts
<1> HIDE DEF place
<1>2. place \in Nat
  BY <1>1
<1>3. q \in Nat
  BY <1>1, <1>2
<1> HIDE DEF q
<1>4. place \in q * torrent.size .. (q + 1) * torrent.size - 1
  BY <1>1, <1>2, <1>3, QuotientIs DEF q
<1>5. ~(torrent.count <= q)
  <2> SUFFICES ASSUME torrent.count <= q PROVE FALSE
    OBVIOUS
  <2>1. torrent.count * torrent.size <= q * torrent.size
    BY <1>1, <1>3, MulMonotone
  <2>2. torrent.count * torrent.size \in Int /\ q * torrent.size \in Int
    BY <1>1, <1>3
  <2> QED BY <2>1, <2>2, <1>1, <1>4
<1> QED BY <1>1, <1>3, <1>5 DEF PieceOf, PieceIndex, q, place

-----------------------------------------------------------------------------
(* The write of one part of a piece.                                       *)

\* The bytes of a file that are Filled are at most its size, and all of
\* them when they are as many.
LEMMA FilledBound ==
  ASSUME LayoutKept, NEW f \in File, NEW bytes, DOMAIN bytes = 0 .. FileSize(f) - 1
  PROVE  LET F == {o \in DOMAIN bytes : bytes[o] # Blank}
         IN  /\ IsFiniteSet(F) /\ Cardinality(F) \in Nat
             /\ Cardinality(F) <= FileSize(f)
             /\ Cardinality(F) = FileSize(f) <=> F = 0 .. FileSize(f) - 1
<1> DEFINE F == {o \in DOMAIN bytes : bytes[o] # Blank}
           D == 0 .. FileSize(f) - 1
<1>1. FileSize(f) \in Nat
  BY LayoutFacts
<1>2. IsFiniteSet(D) /\ Cardinality(D) = FileSize(f)
  <2>1. 0 \in Int /\ FileSize(f) - 1 \in Int
    BY <1>1
  <2>2. IsFiniteSet(D) /\ Cardinality(D) = IF 0 > FileSize(f) - 1 THEN 0 ELSE FileSize(f) - 1 - 0 + 1
    BY <2>1, FS_Interval
  <2> QED BY <2>2, <1>1
<1>3. F \in SUBSET D
  OBVIOUS
<1> HIDE DEF F, D
<1>4. IsFiniteSet(F) /\ Cardinality(F) <= FileSize(f) /\ (FileSize(f) = Cardinality(F) => D = F)
  BY <1>2, <1>3, FS_Subset
<1>5. Cardinality(F) \in Nat
  BY <1>4, FS_CardinalityType
<1> QED BY <1>2, <1>4, <1>5 DEF F, D

\* The calls of iterate_files(i, f), and its first assertions.
Parts(i) ==
  FilePieces(files_offset_, PieceStart(torrent.size, i), PieceEnd(files_offset_, torrent.size, i))
RangeAsserts(i) ==
  IterateAccepted(files_offset_, PieceStart(torrent.size, i), PieceEnd(files_offset_, torrent.size, i))

\* A part of piece i, and the bytes of its file that belong to the piece.
PartIs(i, fp) ==
  LET f == fp.file_index
  IN  /\ f \in File
      /\ fp.file_offset \in Nat /\ fp.bytes_count \in Nat /\ fp.piece_offset \in Nat
      /\ fp.piece_offset < SizeOf(i)
      /\ i * torrent.size + fp.piece_offset = files_offset_[f].start + fp.file_offset
      /\ fp.file_offset + fp.bytes_count <= FileSize(f)
      /\ \A o \in 0 .. FileSize(f) - 1 :
           o \in fp.file_offset .. fp.file_offset + fp.bytes_count - 1 <=> PieceOf(f, o) = i
      /\ fp.bytes_count > 0 \/ HasInnerEmptyFile

LEMMA PartsCut ==
  ASSUME LayoutKept, BelowWord, NEW i \in PieceIndex, RangeAsserts(i)
  PROVE  /\ Len(Parts(i)) \in Nat /\ DOMAIN Parts(i) = 1 .. Len(Parts(i))
         /\ \A n \in DOMAIN Parts(i) : PartIs(i, Parts(i)[n])
         /\ \A m, n \in DOMAIN Parts(i) : Parts(i)[m].file_index = Parts(i)[n].file_index => m = n
         /\ \A f \in File :
              \/ \E n \in DOMAIN Parts(i) : Parts(i)[n].file_index = f
              \/ \A o \in 0 .. FileSize(f) - 1 : PieceOf(f, o) # i
         /\ RangeConsumed(Parts(i), PieceStart(torrent.size, i), PieceEnd(files_offset_, torrent.size, i))
<1> DEFINE start == PieceStart(torrent.size, i)
           end == PieceEnd(files_offset_, torrent.size, i)
           fps == FilePieces(files_offset_, start, end)
<1>1. /\ Contiguous(files_offset_)
      /\ File = 1 .. Len(files_offset_)
      /\ \A g \in File :
              /\ files_offset_[g].start \in Nat
              /\ FileSize(g) \in Nat
              /\ files_offset_[g].end = files_offset_[g].start + FileSize(g)
  BY LayoutFacts
<1>2. /\ start = i * torrent.size
      /\ start \in Nat /\ end \in Nat /\ start < end
      /\ SizeOf(i) = end - start
      /\ \A g \in File : \A o \in 0 .. FileSize(g) - 1 :
           PieceOf(g, o) = i <=> BytePlace(g, o) \in start .. end - 1
  BY PieceFacts
<1>3. IterateAccepted(files_offset_, start, end) /\ Parts(i) = fps
  BY DEF RangeAsserts, Parts
<1> HIDE DEF start, end
<1>4. /\ Len(fps) \in Nat \ {0} /\ DOMAIN fps = 1 .. Len(fps)
      /\ \A n \in DOMAIN fps : CallFor(files_offset_, start, end, fps[n])
      /\ \A m, n \in DOMAIN fps : fps[m].file_index = fps[n].file_index => m = n
      /\ \A k \in 1 .. Len(files_offset_) :
           \/ \E n \in DOMAIN fps : fps[n].file_index = k
           \/ \A place \in files_offset_[k].start .. files_offset_[k].end - 1 : place \notin start .. end - 1
      /\ RangeConsumed(fps, start, end)
  BY <1>1, <1>2, <1>3, RangeCut, Zenon
<1> HIDE DEF fps
<1>5. ASSUME NEW n \in DOMAIN fps PROVE PartIs(i, fps[n])
  <2> DEFINE fp == fps[n]
             f == fp.file_index
  <2>1. /\ f \in 1 .. Len(files_offset_)
        /\ fp.file_offset \in Nat
        /\ fp.bytes_count \in Nat
        /\ fp.piece_offset \in 0 .. end - start - 1
        /\ files_offset_[f].start + fp.file_offset = start + fp.piece_offset
        /\ files_offset_[f].start + fp.file_offset + fp.bytes_count <= files_offset_[f].end
        /\ \A o \in 0 .. files_offset_[f].end - files_offset_[f].start - 1 :
             o \in fp.file_offset .. fp.file_offset + fp.bytes_count - 1
               <=> files_offset_[f].start + o \in start .. end - 1
        /\ \/ fp.bytes_count > 0
           \/ /\ files_offset_[f].start = files_offset_[f].end
              /\ \E j \in 1 .. Len(files_offset_) : f < j /\ files_offset_[j].start < files_offset_[j].end
    BY <1>4, Zenon DEF CallFor
  <2> HIDE DEF fp
  <2>2. /\ f \in File /\ FileSize(f) \in Nat /\ files_offset_[f].start \in Nat
        /\ files_offset_[f].end = files_offset_[f].start + FileSize(f)
    BY <1>1, <2>1
  <2>3. files_offset_[f].end - files_offset_[f].start = FileSize(f)
    BY <2>2
  <2>4. \A o \in 0 .. FileSize(f) - 1 :
          o \in fp.file_offset .. fp.file_offset + fp.bytes_count - 1 <=> PieceOf(f, o) = i
    BY <1>2, <2>1, <2>2, <2>3 DEF BytePlace
  <2>5. fp.bytes_count > 0 \/ HasInnerEmptyFile
    <3> SUFFICES ASSUME ~(fp.bytes_count > 0) PROVE HasInnerEmptyFile
      OBVIOUS
    <3>1. PICK j \in 1 .. Len(files_offset_) : f < j /\ files_offset_[j].start < files_offset_[j].end
      BY <2>1
    <3>2. j \in File /\ FileSize(j) \in Nat /\ files_offset_[j].start \in Nat
          /\ files_offset_[j].end = files_offset_[j].start + FileSize(j)
      BY <3>1, <1>1
    <3>3. FileSize(j) > 0
      BY <3>1, <3>2
    <3>4. FileSize(f) = 0
      BY <2>1, <2>2
    <3> QED BY <3>1, <3>2, <3>3, <3>4, <2>2, Zenon DEF HasInnerEmptyFile
  <2>6. fp.piece_offset \in Nat /\ fp.piece_offset < SizeOf(i)
    BY <1>2, <2>1
  <2>7. i * torrent.size + fp.piece_offset = files_offset_[f].start + fp.file_offset
    BY <1>2, <2>1
  <2>8. fp.file_offset + fp.bytes_count <= FileSize(f)
    BY <2>1, <2>2
  <2> QED BY <2>1, <2>2, <2>4, <2>5, <2>6, <2>7, <2>8, Zenon DEF PartIs, fp
<1>6. ASSUME NEW f \in File, \A n \in DOMAIN fps : fps[n].file_index # f,
             NEW o \in 0 .. FileSize(f) - 1
      PROVE  PieceOf(f, o) # i
  <2>1. \A place \in files_offset_[f].start .. files_offset_[f].end - 1 : place \notin start .. end - 1
    BY <1>1, <1>4, <1>6
  <2>2. BytePlace(f, o) \in files_offset_[f].start .. files_offset_[f].end - 1
    BY <1>1 DEF BytePlace
  <2> QED BY <2>1, <2>2, <1>2
<1> QED BY <1>3, <1>4, <1>5, <1>6 DEF start, end

\* The first assertions of iterate_files hold unless an empty file has a
\* file of some bytes after it.
LEMMA RangeAssertsHold ==
  ASSUME LayoutKept, BelowWord, NEW i \in PieceIndex, ~HasInnerEmptyFile
  PROVE  RangeAsserts(i)
<1> DEFINE start == PieceStart(torrent.size, i)
           end == PieceEnd(files_offset_, torrent.size, i)
<1>1. /\ Contiguous(files_offset_)
      /\ File = 1 .. Len(files_offset_)
      /\ \A g \in File :
              /\ files_offset_[g].start \in Nat
              /\ FileSize(g) \in Nat
              /\ files_offset_[g].end = files_offset_[g].start + FileSize(g)
  BY LayoutFacts
<1>2. start \in Nat /\ end \in Nat /\ start < end /\ end <= files_offset_[Len(files_offset_)].end
  BY PieceFacts DEF total_size_
<1> HIDE DEF start, end
<1>3. \A f, g \in 1 .. Len(files_offset_) :
        f < g /\ files_offset_[g].start < files_offset_[g].end =>
          files_offset_[f].start < files_offset_[f].end
  <2> SUFFICES ASSUME NEW f \in File, NEW g \in File, f < g,
                      files_offset_[g].start < files_offset_[g].end
               PROVE  files_offset_[f].start < files_offset_[f].end
    BY <1>1
  <2>1. FileSize(g) > 0
    BY <1>1
  <2>2. FileSize(f) # 0
    BY <2>1 DEF HasInnerEmptyFile
  <2> QED BY <2>2, <1>1
<1> QED BY <1>1, <1>2, <1>3, RangeAccepted DEF RangeAsserts, start, end

\* A part that passes the assertions of on_write_file_piece puts the bytes of
\* its piece, which were blank, in place, and adds as many to written_.
LEMMA PartWritten ==
  ASSUME DiskInv, state # "aborted", NEW i, i \notin pieces, NEW fp, PartIs(i, fp),
         FilePieceAccepted(fp, SizeOf(i))
  PROVE  LET f == fp.file_index
             bytes == Written(i, fp)
         IN  /\ f \notin taken /\ FileSize(f) > 0
             /\ DOMAIN bytes = 0 .. FileSize(f) - 1
             /\ bytes = [o \in 0 .. FileSize(f) - 1 |-> bytes[o]]
             /\ \A o \in 0 .. FileSize(f) - 1 :
                  bytes[o] = IF PieceOf(f, o) = i THEN BytePlace(f, o) ELSE disk[f][o]
             /\ \A o \in 0 .. FileSize(f) - 1 : PieceOf(f, o) = i => disk[f][o] = Blank
             /\ written_[f] + fp.bytes_count \in Nat
             /\ written_[f] + fp.bytes_count = Cardinality({o \in DOMAIN bytes : bytes[o] # Blank})
             /\ written_[f] + fp.bytes_count <= FileSize(f)
<1> DEFINE f == fp.file_index
           D == 0 .. FileSize(f) - 1
           W == fp.file_offset .. fp.file_offset + fp.bytes_count - 1
           bytes == Written(i, fp)
           F == {o \in DOMAIN bytes : bytes[o] # Blank}
<1>1. LayoutKept /\ Types /\ TakenLeft /\ BlankUntilCreated /\ Progress
  BY DEF DiskInv
<1>2. /\ f \in File
      /\ fp.file_offset \in Nat /\ fp.bytes_count \in Nat /\ fp.piece_offset \in Nat
      /\ i * torrent.size + fp.piece_offset = files_offset_[f].start + fp.file_offset
      /\ fp.file_offset + fp.bytes_count <= FileSize(f)
      /\ \A o \in D : o \in W <=> PieceOf(f, o) = i
  BY DEF PartIs
<1>3. fp.bytes_count > 0 /\ CanOpen(f)
  BY DEF FilePieceAccepted
<1>4. f \notin taken
  BY <1>1, <1>3 DEF CanOpen, TakenLeft
<1>5. FileSize(f) \in Nat /\ files_offset_[f].start \in Nat
  BY <1>1, <1>2, LayoutFacts
<1>6. DOMAIN disk[f] = D
  BY <1>1, <1>2 DEF Types
<1>7. \A o \in D : try_create(f)[o] = disk[f][o]
  <2>1. CASE file_[f]
    BY <2>1 DEF try_create
  <2>2. CASE ~file_[f]
    <3>1. f \in File \ (taken \union created)
      BY <2>2, <1>2, <1>3 DEF CanOpen
    <3>2. \A o \in D : disk[f][o] = Blank
      BY <3>1, <1>1, <1>6 DEF BlankUntilCreated
    <3> QED BY <3>2, <2>2 DEF try_create, Full
  <2> QED BY <2>1, <2>2
<1>8. \A o \in D : bytes[o] = IF o \in W THEN i * torrent.size + fp.piece_offset + (o - fp.file_offset)
                                          ELSE disk[f][o]
  BY <1>6, <1>7 DEF Written
<1>9. DOMAIN bytes = D /\ bytes = [o \in D |-> bytes[o]]
  BY <1>6 DEF Written
<1> HIDE DEF bytes
<1>10. \A o \in D : bytes[o] = IF PieceOf(f, o) = i THEN BytePlace(f, o) ELSE disk[f][o]
  <2> TAKE o \in D
  <2>1. i * torrent.size + fp.piece_offset + (o - fp.file_offset) = files_offset_[f].start + o
    BY <1>2, <1>5
  <2> QED BY <2>1, <1>2, <1>8 DEF BytePlace
<1>11. \A o \in D : PieceOf(f, o) = i => disk[f][o] = Blank
  BY <1>1, <1>2, <1>4, <1>6 DEF Progress
<1>12. \A o \in D : BytePlace(f, o) # Blank
  BY <1>5, FilesOnDiskAssumption DEF BytePlace
<1>13. F = Filled(f) \union W /\ Filled(f) \intersect W = {}
  <2>1. W \subseteq D
    BY <1>2, <1>5
  <2>2. \A o \in D : o \in F <=> o \in Filled(f) \/ o \in W
    BY <1>2, <1>6, <1>9, <1>10, <1>11, <1>12 DEF Filled
  <2>3. Filled(f) \subseteq D /\ F \subseteq D
    BY <1>6, <1>9 DEF Filled
  <2>4. \A o \in W : o \notin Filled(f)
    BY <2>1, <1>2, <1>11 DEF Filled
  <2> HIDE DEF F, D, W
  <2> QED BY <2>1, <2>2, <2>3, <2>4
<1>14. written_[f] = Cardinality(Filled(f))
  BY <1>1, <1>2, <1>4 DEF Progress
<1>15. IsFiniteSet(Filled(f)) /\ Cardinality(Filled(f)) \in Nat
  BY <1>1, <1>2, <1>6, FilledBound DEF Filled
<1>16. IsFiniteSet(W) /\ Cardinality(W) = fp.bytes_count
  <2>1. fp.file_offset \in Int /\ fp.file_offset + fp.bytes_count - 1 \in Int
    BY <1>2
  <2>2. /\ IsFiniteSet(W)
        /\ Cardinality(W) = IF fp.file_offset > fp.file_offset + fp.bytes_count - 1 THEN 0
                            ELSE (fp.file_offset + fp.bytes_count - 1) - fp.file_offset + 1
    BY <2>1, FS_Interval
  <2> HIDE DEF W
  <2> QED BY <2>2, <1>2, <1>3
<1>17. Cardinality(F) = written_[f] + fp.bytes_count
  <2> HIDE DEF F, W
  <2>1. Cardinality(Filled(f) \union W) = Cardinality(Filled(f)) + Cardinality(W) - Cardinality({})
    BY <1>13, <1>15, <1>16, FS_Union
  <2>2. Cardinality({}) = 0
    BY FS_EmptySet
  <2> QED BY <2>1, <2>2, <1>2, <1>13, <1>14, <1>15, <1>16
<1>18. Cardinality(F) <= FileSize(f) /\ Cardinality(F) \in Nat
  BY <1>1, <1>2, <1>9, FilledBound
<1>19. FileSize(f) > 0
  BY <1>2, <1>3, <1>5
<1> QED BY <1>4, <1>9, <1>10, <1>11, <1>17, <1>18, <1>19 DEF bytes

\* The first call on a file fails only if its name was taken: a handle that
\* was closed is not needed again.
LEMMA OpensUnlessTaken ==
  ASSUME DiskInv, state # "aborted", NEW i, i \notin pieces, NEW fp, PartIs(i, fp),
         fp.bytes_count > 0, fp.file_index \notin taken
  PROVE  CanOpen(fp.file_index)
<1> DEFINE f == fp.file_index
           o == fp.file_offset
<1>1. LayoutKept /\ Types /\ Progress
  BY DEF DiskInv
<1>2. /\ f \in File /\ f \in File \ taken
      /\ fp.file_offset \in Nat /\ fp.bytes_count \in Nat
      /\ fp.file_offset + fp.bytes_count <= FileSize(f)
      /\ \A q \in 0 .. FileSize(f) - 1 :
           q \in fp.file_offset .. fp.file_offset + fp.bytes_count - 1 <=> PieceOf(f, q) = i
  BY DEF PartIs
<1>3. FileSize(f) \in Nat
  BY <1>1, <1>2, LayoutFacts
<1>4. o \in 0 .. FileSize(f) - 1 /\ o \in fp.file_offset .. fp.file_offset + fp.bytes_count - 1
  BY <1>2, <1>3
<1>5. PieceOf(f, o) = i
  BY <1>2, <1>4
<1> HIDE DEF o
<1>6. DOMAIN disk[f] = 0 .. FileSize(f) - 1
  BY <1>1, <1>2 DEF Types
<1>7. disk[f][o] = Blank
  BY <1>1, <1>2, <1>4, <1>5, <1>6 DEF Progress
<1>8. o \notin Filled(f)
  BY <1>7 DEF Filled
<1>9. /\ Cardinality(Filled(f)) \in Nat /\ Cardinality(Filled(f)) <= FileSize(f)
      /\ Cardinality(Filled(f)) = FileSize(f) => Filled(f) = 0 .. FileSize(f) - 1
  BY <1>1, <1>2, <1>6, FilledBound DEF Filled
<1>10. written_[f] < FileSize(f)
  <2>1. written_[f] = Cardinality(Filled(f))
    BY <1>1, <1>2 DEF Progress
  <2> QED BY <2>1, <1>3, <1>4, <1>8, <1>9
<1>11. file_[f] <=> f \in created
  BY <1>1, <1>2, <1>10 DEF Progress
<1> QED BY <1>2, <1>11 DEF CanOpen

-----------------------------------------------------------------------------
(* The write of a piece.                                                   *)

LeftAlone(f) ==
  /\ disk'[f] = disk[f] /\ written_'[f] = written_[f] /\ file_'[f] = file_[f]
  /\ f \in created' <=> f \in created

PartDone(i, fp) ==
  LET f == fp.file_index
  IN  /\ FilePieceAccepted(fp, SizeOf(i))
      /\ disk'[f] = Written(i, fp)
      /\ written_'[f] = written_[f] + fp.bytes_count
      /\ file_'[f] = StaysOpen(f, written_[f] + fp.bytes_count)
      /\ f \in created'

\* WriteAll, one file at a time.
LEMMA WriteAllEffect ==
  ASSUME DiskInv, BelowWord, NEW i \in PieceIndex, RangeAsserts(i), WriteAll(i, Parts(i))
  PROVE  /\ \A f \in File :
              \/ LeftAlone(f)
              \/ \E n \in DOMAIN Parts(i) : Parts(i)[n].file_index = f /\ PartDone(i, Parts(i)[n])
         /\ created' \subseteq File
         /\ DOMAIN disk' = File /\ DOMAIN written_' = File /\ DOMAIN file_' = File
         /\ file_' = [f \in File |-> file_'[f]] /\ written_' = [f \in File |-> written_'[f]]
         /\ \/ /\ state' = "aborted" /\ pieces' = pieces
               /\ \/ /\ failed_assert' = "on_write_file_piece"
                     /\ \E n \in DOMAIN Parts(i) : ~FilePieceAccepted(Parts(i)[n], SizeOf(i))
                  \/ /\ failed_assert' = "try_finalize"
                     /\ \E f \in File : written_'[f] > FileSize(f)
            \/ /\ state' = state /\ failed_assert' = failed_assert /\ pieces' = pieces \union {i}
               /\ \A n \in DOMAIN Parts(i) : PartDone(i, Parts(i)[n])
<1> DEFINE fps == Parts(i)
           done == {n \in DOMAIN fps : \A m \in 1 .. n : FilePieceAccepted(fps[m], SizeOf(i))}
           at(f) == {n \in done : fps[n].file_index = f}
           total(f) == written_[f] + (IF at(f) = {} THEN 0 ELSE fps[CHOOSE n \in at(f) : TRUE].bytes_count)
<1>1. /\ created' = created \union {fps[n].file_index : n \in done}
      /\ disk' = [f \in File |->
           IF at(f) = {} THEN disk[f] ELSE Written(i, fps[CHOOSE n \in at(f) : TRUE])]
      /\ written_' = [f \in File |-> total(f)]
      /\ file_' = [f \in File |-> IF at(f) = {} THEN file_[f] ELSE StaysOpen(f, total(f))]
      /\ IF done # DOMAIN fps THEN Stop("on_write_file_piece") /\ UNCHANGED pieces
         ELSE IF \E f \in File : total(f) > FileSize(f)
           THEN Stop("try_finalize") /\ UNCHANGED pieces
         ELSE pieces' = pieces \union {i} /\ UNCHANGED <<state, failed_assert>>
  BY DEF WriteAll
<1>2. /\ Len(fps) \in Nat /\ DOMAIN fps = 1 .. Len(fps)
      /\ \A n \in DOMAIN fps : fps[n].file_index \in File
      /\ \A m, n \in DOMAIN fps : fps[m].file_index = fps[n].file_index => m = n
  <2>1. LayoutKept
    BY DEF DiskInv
  <2> QED BY <2>1, PartsCut DEF PartIs
<1> HIDE DEF fps
<1>3. ASSUME NEW n \in done PROVE at(fps[n].file_index) = {n}
  BY <1>2
<1>4. \A f \in File : written_[f] \in Nat
  BY DEF DiskInv, Types
<1>5. ASSUME NEW f \in File, at(f) = {}
      PROVE  LeftAlone(f)
  <2>1. disk'[f] = disk[f] /\ file_'[f] = file_[f]
    BY <1>1, <1>5
  <2>2. total(f) = written_[f]
    BY <1>4, <1>5
  <2>3. written_'[f] = written_[f]
    BY <1>1, <2>2
  <2>4. \A n \in done : fps[n].file_index # f
    BY <1>5
  <2> QED BY <1>1, <2>1, <2>3, <2>4 DEF LeftAlone
<1>6. ASSUME NEW n \in done PROVE PartDone(i, fps[n])
  <2> DEFINE f == fps[n].file_index
  <2>1. f \in File /\ at(f) = {n} /\ (CHOOSE m \in at(f) : TRUE) = n /\ at(f) # {}
    BY <1>2, <1>3
  <2>2. total(f) = written_[f] + fps[n].bytes_count
    BY <2>1
  <2>3. n \in 1 .. n
    BY <1>2
  <2>4. FilePieceAccepted(fps[n], SizeOf(i))
    BY <2>3
  <2>5. f \in created'
    BY <1>1
  <2> HIDE DEF f, at, done
  <2>6. disk'[f] = Written(i, fps[n])
    BY <1>1, <2>1
  <2>7. written_'[f] = written_[f] + fps[n].bytes_count
    BY <1>1, <2>1, <2>2
  <2>8. file_'[f] = StaysOpen(f, written_[f] + fps[n].bytes_count)
    BY <1>1, <2>1, <2>2
  <2> QED BY <2>4, <2>5, <2>6, <2>7, <2>8 DEF PartDone, f
<1>7. ASSUME NEW f \in File
      PROVE  LeftAlone(f) \/ \E n \in DOMAIN fps : fps[n].file_index = f /\ PartDone(i, fps[n])
  <2>1. CASE at(f) = {}
    BY <2>1, <1>5
  <2>2. CASE at(f) # {}
    <3>1. PICK n \in done : fps[n].file_index = f
      BY <2>2
    <3> QED BY <3>1, <1>6
  <2> QED BY <2>1, <2>2
<1>8. created' \subseteq File
  <2>1. created \subseteq File
    BY DEF DiskInv, Types
  <2> QED BY <2>1, <1>1, <1>2
<1>9. /\ DOMAIN disk' = File /\ DOMAIN written_' = File /\ DOMAIN file_' = File
      /\ file_' = [f \in File |-> file_'[f]] /\ written_' = [f \in File |-> written_'[f]]
  <2> HIDE DEF at, total
  <2> QED BY <1>1
<1>10. \A f \in File : written_'[f] = total(f)
  <2> HIDE DEF at, total
  <2> QED BY <1>1
<1>11. CASE done # DOMAIN fps
  <2>1. state' = "aborted" /\ failed_assert' = "on_write_file_piece" /\ pieces' = pieces
    BY <1>1, <1>11 DEF Stop
  <2>2. \E n \in DOMAIN fps : ~FilePieceAccepted(fps[n], SizeOf(i))
    BY <1>2, <1>11
  <2> QED BY <2>1, <2>2, <1>7, <1>8, <1>9 DEF fps
<1>12. CASE done = DOMAIN fps /\ \E f \in File : total(f) > FileSize(f)
  <2>1. state' = "aborted" /\ failed_assert' = "try_finalize" /\ pieces' = pieces
    <3> HIDE DEF total, done
    <3> QED BY <1>1, <1>12 DEF Stop
  <2>2. \E f \in File : written_'[f] > FileSize(f)
    <3> HIDE DEF total, done
    <3> QED BY <1>10, <1>12
  <2> QED BY <2>1, <2>2, <1>7, <1>8, <1>9 DEF fps
<1>13. CASE done = DOMAIN fps /\ ~\E f \in File : total(f) > FileSize(f)
  <2>1. state' = state /\ failed_assert' = failed_assert /\ pieces' = pieces \union {i}
    <3> HIDE DEF total, done
    <3> QED BY <1>1, <1>13
  <2>2. \A n \in DOMAIN fps : PartDone(i, fps[n])
    BY <1>6, <1>13
  <2> QED BY <2>1, <2>2, <1>7, <1>8, <1>9 DEF fps
<1> QED BY <1>11, <1>12, <1>13

\* No more bytes are written to a file than it has: the assertion of
\* try_finalize holds.
LEMMA NeverTooManyBytes ==
  ASSUME DiskInv, BelowWord, state # "aborted", NEW i \in PieceIndex, i \notin pieces,
         RangeAsserts(i), WriteAll(i, Parts(i)), NEW f \in File
  PROVE  written_'[f] <= FileSize(f)
<1>1. LayoutKept /\ Types /\ Progress /\ TakenLeft
  BY DEF DiskInv
<1>2. FileSize(f) \in Nat
  BY <1>1, LayoutFacts
<1>3. CASE LeftAlone(f)
  <2>1. CASE f \in taken
    BY <1>1, <1>2, <1>3, <2>1 DEF LeftAlone, TakenLeft
  <2>2. CASE f \notin taken
    <3>1. written_[f] = Cardinality(Filled(f))
      BY <1>1, <2>2 DEF Progress
    <3>2. DOMAIN disk[f] = 0 .. FileSize(f) - 1
      BY <1>1 DEF Types
    <3>3. Cardinality(Filled(f)) <= FileSize(f)
      BY <1>1, <3>2, FilledBound DEF Filled
    <3> QED BY <1>3, <3>1, <3>3 DEF LeftAlone
  <2> QED BY <2>1, <2>2
<1>4. CASE \E n \in DOMAIN Parts(i) : Parts(i)[n].file_index = f /\ PartDone(i, Parts(i)[n])
  <2>1. PICK n \in DOMAIN Parts(i) : Parts(i)[n].file_index = f /\ PartDone(i, Parts(i)[n])
    BY <1>4
  <2>2. PartIs(i, Parts(i)[n])
    BY <1>1, PartsCut
  <2>3. FilePieceAccepted(Parts(i)[n], SizeOf(i)) /\ written_'[f] = written_[f] + Parts(i)[n].bytes_count
    BY <2>1 DEF PartDone
  <2>4. written_[f] + Parts(i)[n].bytes_count <= FileSize(f)
    BY <2>1, <2>2, <2>3, PartWritten
  <2> QED BY <2>3, <2>4
<1> QED BY <1>3, <1>4, WriteAllEffect

\* What a part that is done means for its file.
Put(i, f) ==
  /\ f \notin taken /\ FileSize(f) > 0 /\ f \in created'
  /\ DOMAIN disk'[f] = 0 .. FileSize(f) - 1
  /\ disk'[f] = [o \in 0 .. FileSize(f) - 1 |-> disk'[f][o]]
  /\ \A o \in 0 .. FileSize(f) - 1 :
       disk'[f][o] = IF PieceOf(f, o) = i THEN BytePlace(f, o) ELSE disk[f][o]
  /\ \A o \in 0 .. FileSize(f) - 1 : PieceOf(f, o) = i => disk[f][o] = Blank
  /\ written_'[f] \in Nat
  /\ written_'[f] = Cardinality({o \in DOMAIN disk'[f] : disk'[f][o] # Blank})
  /\ file_'[f] <=> written_'[f] < FileSize(f)
  /\ file_'[f] \in BOOLEAN

\* The write of a piece, whether it ends or stops at an assertion, keeps the
\* invariant, and changes nothing on the disk but blank bytes into the ones
\* of their place.
LEMMA WriteAllKeeps ==
  ASSUME DiskInv, BelowWord, state = "writing", NEW i \in PieceIndex, i \notin pieces,
         RangeAsserts(i), WriteAll(i, Parts(i)), SameTorrent, taken' = taken
  PROVE  /\ DiskInv'
         /\ \A f \in File : \A o \in DOMAIN disk[f] :
              disk'[f][o] # disk[f][o] => disk[f][o] = Blank /\ disk'[f][o] = BytePlace(f, o)
<1>1. LayoutKept /\ Types /\ Places /\ TakenLeft /\ BlankUntilCreated /\ Progress /\ state # "aborted"
  BY DEF DiskInv
<1>2. /\ torrent' = torrent /\ files_offset_' = files_offset_ /\ taken' = taken
  BY DEF SameTorrent
<1>3. /\ File' = File /\ PieceIndex' = PieceIndex
      /\ \A f : FileSize(f)' = FileSize(f)
      /\ \A f, o : BytePlace(f, o)' = BytePlace(f, o) /\ PieceOf(f, o)' = PieceOf(f, o)
  BY <1>2 DEF File, PieceIndex, FileSize, BytePlace, PieceOf
<1>4. LayoutKept'
  BY <1>1, <1>2 DEF LayoutKept, total_size_
<1>5. /\ \A n \in DOMAIN Parts(i) : PartIs(i, Parts(i)[n])
      /\ \A f \in File :
           \/ \E n \in DOMAIN Parts(i) : Parts(i)[n].file_index = f
           \/ \A o \in 0 .. FileSize(f) - 1 : PieceOf(f, o) # i
  BY <1>1, PartsCut
<1>6. /\ \A f \in File :
           \/ LeftAlone(f)
           \/ \E n \in DOMAIN Parts(i) : Parts(i)[n].file_index = f /\ PartDone(i, Parts(i)[n])
      /\ created' \subseteq File
      /\ file_' = [f \in File |-> file_'[f]] /\ written_' = [f \in File |-> written_'[f]]
      /\ \/ state' = "aborted" /\ pieces' = pieces
         \/ /\ state' = state /\ pieces' = pieces \union {i}
            /\ \A n \in DOMAIN Parts(i) : PartDone(i, Parts(i)[n])
  BY WriteAllEffect
<1>7. ASSUME NEW n \in DOMAIN Parts(i), PartDone(i, Parts(i)[n])
      PROVE  Put(i, Parts(i)[n].file_index)
  <2> DEFINE fp == Parts(i)[n]
             f == fp.file_index
  <2>1. /\ FilePieceAccepted(fp, SizeOf(i))
        /\ disk'[f] = Written(i, fp)
        /\ written_'[f] = written_[f] + fp.bytes_count
        /\ file_'[f] = StaysOpen(f, written_[f] + fp.bytes_count)
        /\ f \in created'
    BY <1>7 DEF PartDone
  <2>2. PartIs(i, fp)
    BY <1>5
  <2> HIDE DEF fp
  <2>3. /\ f \notin taken /\ FileSize(f) > 0
        /\ DOMAIN Written(i, fp) = 0 .. FileSize(f) - 1
        /\ Written(i, fp) = [o \in 0 .. FileSize(f) - 1 |-> Written(i, fp)[o]]
        /\ \A o \in 0 .. FileSize(f) - 1 :
             Written(i, fp)[o] = IF PieceOf(f, o) = i THEN BytePlace(f, o) ELSE disk[f][o]
        /\ \A o \in 0 .. FileSize(f) - 1 : PieceOf(f, o) = i => disk[f][o] = Blank
        /\ written_[f] + fp.bytes_count \in Nat
        /\ written_[f] + fp.bytes_count =
             Cardinality({o \in DOMAIN Written(i, fp) : Written(i, fp)[o] # Blank})
    BY <1>1, <2>1, <2>2, PartWritten
  <2>4. file_'[f] = (written_'[f] < FileSize(f))
    BY <2>1, Zenon DEF StaysOpen
  <2>5. file_'[f] \in BOOLEAN /\ (file_'[f] <=> written_'[f] < FileSize(f))
    <3> DEFINE a == file_'[f]
               b == written_'[f] < FileSize(f)
    <3>1. a = b /\ b \in BOOLEAN
      BY <2>4
    <3> HIDE DEF a, b
    <3>2. a \in BOOLEAN /\ (a <=> b)
      BY <3>1, Zenon
    <3> QED BY <3>2 DEF a, b
  <2> QED BY <2>1, <2>3, <2>5, Zenon DEF fp, Put
<1>8. \A f \in File : LeftAlone(f) \/ Put(i, f)
  BY <1>6, <1>7, Zenon
<1>9. \A f \in taken : f \in File /\ LeftAlone(f)
  BY <1>1, <1>8 DEF Types, Put
<1>10. \A f \in File : DOMAIN disk[f] = 0 .. FileSize(f) - 1
  BY <1>1 DEF Types
<1>11. Types'
  <2>1. taken' \subseteq File' /\ created' \subseteq File'
    BY <1>1, <1>2, <1>3, <1>6 DEF Types
  <2>2. \A f \in File : file_'[f] \in BOOLEAN
    BY <1>1, <1>8 DEF LeftAlone, Types, Put
  <2>3. file_' \in [File' -> BOOLEAN]
    BY <1>3, <1>6, <2>2
  <2>4. \A f \in File : written_'[f] \in Nat
    BY <1>1, <1>8 DEF LeftAlone, Types, Put
  <2>5. written_' \in [File' -> Nat]
    BY <1>3, <1>6, <2>4
  <2>6. \A f \in File : /\ DOMAIN disk'[f] = 0 .. FileSize(f) - 1
                        /\ disk'[f] = [o \in 0 .. FileSize(f) - 1 |-> disk'[f][o]]
    <3> TAKE f \in File
    <3>1. CASE LeftAlone(f)
      BY <1>1, <3>1 DEF LeftAlone, Types
    <3>2. CASE Put(i, f)
      BY <3>2, Zenon DEF Put
    <3> QED BY <3>1, <3>2, <1>8
  <2>7. pieces' \subseteq PieceIndex'
    BY <1>1, <1>3, <1>6 DEF Types
  <2>8. \A f \in File' : /\ DOMAIN disk'[f] = 0 .. FileSize(f)' - 1
                         /\ disk'[f] = [o \in 0 .. FileSize(f)' - 1 |-> disk'[f][o]]
    BY <2>6, <1>3, Zenon
  <2> QED BY <2>1, <2>3, <2>5, <2>7, <2>8 DEF Types
<1>12. Places'
  <2> SUFFICES ASSUME NEW f \in File, NEW o \in 0 .. FileSize(f) - 1
               PROVE  \/ disk'[f][o] = Blank
                      \/ disk'[f][o] = BytePlace(f, o)
                      \/ disk'[f][o] = Other /\ f \in taken
    <3>1. \A f \in File : DOMAIN disk'[f] = 0 .. FileSize(f) - 1
      BY <1>8, <1>10 DEF LeftAlone, Put
    <3> QED BY <3>1, <1>2, <1>3 DEF Places
  <2>1. \/ disk[f][o] = Blank
        \/ disk[f][o] = BytePlace(f, o)
        \/ disk[f][o] = Other /\ f \in taken
    BY <1>1, <1>10 DEF Places
  <2>2. CASE LeftAlone(f)
    BY <2>1, <2>2 DEF LeftAlone
  <2>3. CASE Put(i, f)
    BY <2>1, <2>3 DEF Put
  <2> QED BY <2>2, <2>3, <1>8
<1>13. TakenLeft'
  BY <1>1, <1>2, <1>9 DEF TakenLeft, LeftAlone
<1>14. BlankUntilCreated'
  <2> SUFFICES ASSUME NEW f \in File, f \notin taken, f \notin created', NEW o \in DOMAIN disk'[f]
               PROVE  disk'[f][o] = Blank
    BY <1>2, <1>3 DEF BlankUntilCreated
  <2>1. LeftAlone(f)
    BY <1>8 DEF Put
  <2> QED BY <2>1, <1>1 DEF LeftAlone, BlankUntilCreated
<1>15. ASSUME state' # "aborted" PROVE Progress'
  <2>1. pieces' = pieces \union {i} /\ \A n \in DOMAIN Parts(i) : PartDone(i, Parts(i)[n])
    BY <1>6, <1>15
  <2>2. \A f \in File : \/ Put(i, f)
                        \/ LeftAlone(f) /\ \A o \in 0 .. FileSize(f) - 1 : PieceOf(f, o) # i
    BY <2>1, <1>5, <1>7, <1>8, Zenon
  <2>3. ASSUME NEW f \in File, f \notin taken, NEW o \in 0 .. FileSize(f) - 1
        PROVE  disk'[f][o] = IF PieceOf(f, o) \in pieces' THEN BytePlace(f, o) ELSE Blank
    <3>1. disk[f][o] = IF PieceOf(f, o) \in pieces THEN BytePlace(f, o) ELSE Blank
      BY <2>3, <1>1, <1>10 DEF Progress
    <3>2. CASE Put(i, f)
      BY <3>1, <3>2, <2>1 DEF Put
    <3>3. CASE LeftAlone(f) /\ \A q \in 0 .. FileSize(f) - 1 : PieceOf(f, q) # i
      BY <3>1, <3>3, <2>1 DEF LeftAlone
    <3> QED BY <2>2, <3>2, <3>3
  <2>4. ASSUME NEW f \in File, f \notin taken
        PROVE  /\ written_'[f] = Cardinality({o \in DOMAIN disk'[f] : disk'[f][o] # Blank})
               /\ file_'[f] <=> f \in created' /\ written_'[f] < FileSize(f)
    <3>1. CASE Put(i, f)
      BY <3>1 DEF Put
    <3>2. CASE LeftAlone(f)
      <4>1. written_[f] = Cardinality({o \in DOMAIN disk[f] : disk[f][o] # Blank})
            /\ (file_[f] <=> f \in created /\ written_[f] < FileSize(f))
        BY <2>4, <1>1 DEF Progress, Filled
      <4> QED BY <3>2, <4>1 DEF LeftAlone
    <3> QED BY <3>1, <3>2, <1>8
  <2>5. ASSUME NEW f \in taken, NEW o \in 0 .. FileSize(f) - 1
        PROVE  PieceOf(f, o) \notin pieces'
    <3>1. f \in File /\ PieceOf(f, o) # i
      BY <2>2, <1>9 DEF Put
    <3>2. PieceOf(f, o) \notin pieces
      BY <3>1, <1>1, <1>10 DEF Progress
    <3> QED BY <3>1, <3>2, <2>1
  <2>6. ASSUME NEW f \in created' PROVE FileSize(f) > 0
    <3>1. f \in File
      BY <1>6
    <3> QED BY <3>1, <1>1, <1>8 DEF LeftAlone, Progress, Put
  <2>7. \A f \in File : DOMAIN disk'[f] = 0 .. FileSize(f) - 1
    BY <1>8, <1>10 DEF LeftAlone, Put
  <2>8. \A f \in taken : f \in File
    BY <1>9
  <2>9. \A f \in File' \ taken' : \A o \in DOMAIN disk'[f] :
          disk'[f][o] = IF PieceOf(f, o)' \in pieces' THEN BytePlace(f, o)' ELSE Blank
    BY <2>3, <2>7, <1>2, <1>3
  <2>10. \A f \in File' \ taken' :
           /\ written_'[f] = Cardinality(Filled(f)')
           /\ file_'[f] <=> f \in created' /\ written_'[f] < FileSize(f)'
    BY <2>4, <1>2, <1>3 DEF Filled
  <2>11. \A f \in taken' : \A o \in DOMAIN disk'[f] : PieceOf(f, o)' \notin pieces'
    BY <2>5, <2>7, <2>8, <1>2, <1>3
  <2>12. \A f \in created' : FileSize(f)' > 0
    BY <2>6, <1>3
  <2> QED BY <2>9, <2>10, <2>11, <2>12, Zenon DEF Progress
<1>16. DiskInv'
  BY <1>4, <1>11, <1>12, <1>13, <1>14, <1>15 DEF DiskInv
<1>17. ASSUME NEW f \in File, NEW o \in DOMAIN disk[f], disk'[f][o] # disk[f][o]
       PROVE  disk[f][o] = Blank /\ disk'[f][o] = BytePlace(f, o)
  <2>1. Put(i, f)
    BY <1>8, <1>17 DEF LeftAlone
  <2> QED BY <2>1, <1>10, <1>17 DEF Put
<1> QED BY <1>16, <1>17

\* Nothing but the state changes.
LEMMA SameDiskKeeps ==
  ASSUME DiskInv, SameTorrent, UNCHANGED <<taken, file_, written_, disk, created, pieces>>,
         state' # "aborted" => state # "aborted"
  PROVE  DiskInv'
<1>1. /\ torrent' = torrent /\ files_offset_' = files_offset_ /\ taken' = taken
      /\ file_' = file_ /\ written_' = written_ /\ disk' = disk
      /\ created' = created /\ pieces' = pieces
  BY DEF SameTorrent
<1>2. /\ File' = File /\ PieceIndex' = PieceIndex
      /\ \A f : FileSize(f)' = FileSize(f) /\ Filled(f)' = Filled(f)
      /\ \A f, o : BytePlace(f, o)' = BytePlace(f, o) /\ PieceOf(f, o)' = PieceOf(f, o)
  BY <1>1 DEF File, PieceIndex, FileSize, BytePlace, PieceOf, Filled
<1>3. LayoutKept' /\ Types' /\ Places' /\ TakenLeft' /\ BlankUntilCreated'
  BY <1>1, <1>2 DEF DiskInv, LayoutKept, total_size_, Types, Places, TakenLeft, BlankUntilCreated
<1>4. Progress => Progress'
  BY <1>1, <1>2 DEF Progress
<1> QED BY <1>3, <1>4 DEF DiskInv

\* A run that starts on the disk an earlier one left behind at any point, with
\* the names created until then taken.
LEMMA StartAgainKeeps ==
  ASSUME DiskInv, SameTorrent, disk' = disk, taken' = taken \union created,
         created' = {}, pieces' = {},
         file_' = [f \in File |-> FALSE], written_' = [f \in File |-> 0]
  PROVE  DiskInv'
<1>1. /\ torrent' = torrent /\ files_offset_' = files_offset_
      /\ LayoutKept /\ Types /\ Places /\ TakenLeft /\ BlankUntilCreated
  BY DEF SameTorrent, DiskInv
<1>2. /\ File' = File /\ PieceIndex' = PieceIndex
      /\ \A f : FileSize(f)' = FileSize(f) /\ Filled(f)' = Filled(f)
      /\ \A f, o : BytePlace(f, o)' = BytePlace(f, o) /\ PieceOf(f, o)' = PieceOf(f, o)
  BY <1>1 DEF File, PieceIndex, FileSize, BytePlace, PieceOf, Filled
<1>3. LayoutKept'
  BY <1>1 DEF LayoutKept, total_size_
<1>4. Types'
  BY <1>1, <1>2 DEF Types
<1>5. Places'
  BY <1>1, <1>2 DEF Places
<1>6. TakenLeft'
  BY <1>1, <1>2 DEF Types, TakenLeft
<1>7. \A f \in File \ taken' : \A o \in DOMAIN disk[f] : disk[f][o] = Blank
  BY <1>1 DEF BlankUntilCreated
<1>8. BlankUntilCreated'
  BY <1>2, <1>7 DEF BlankUntilCreated
<1>9. Progress'
  <2>1. \A f \in File \ taken' : written_'[f] = Cardinality(Filled(f))
    <3> SUFFICES ASSUME NEW f \in File \ taken' PROVE written_'[f] = Cardinality(Filled(f))
      OBVIOUS
    <3>1. Filled(f) = {}
      BY <1>7 DEF Filled
    <3> QED BY <3>1, FS_EmptySet
  <2> QED BY <2>1, <1>2, <1>7 DEF Progress
<1> QED BY <1>3, <1>4, <1>5, <1>6, <1>8, <1>9 DEF DiskInv

\* write_piece as a whole.  It stops the program only where a name was taken
\* or the torrent has an empty file with a file of some bytes after it.
LEMMA WritePieceKeeps ==
  ASSUME DiskInv, BelowWord, NEW i \in PieceIndex, write_piece(i)
  PROVE  /\ DiskInv'
         /\ \A f \in File : \A o \in DOMAIN disk[f] :
              disk'[f][o] # disk[f][o] => disk[f][o] = Blank /\ disk'[f][o] = BytePlace(f, o)
         /\ \A f \in taken : disk'[f] = disk[f]
         /\ \/ state' = state /\ failed_assert' = failed_assert /\ pieces' = pieces \union {i}
            \/ /\ state' = "aborted"
               /\ \/ failed_assert' = "on_write_file_piece" /\ taken # {}
                  \/ failed_assert' \in {"iterate_files", "on_write_file_piece"} /\ HasInnerEmptyFile
<1> DEFINE start == PieceStart(torrent.size, i)
           end == PieceEnd(files_offset_, torrent.size, i)
<1>1. LayoutKept /\ Types /\ Progress /\ state # "aborted"
  BY DEF DiskInv, write_piece
<1>2. state = "writing" /\ i \notin pieces /\ SameTorrent /\ taken' = taken
  BY DEF write_piece
<1>3. CASE RangeAsserts(i)
  <2>1. RangeConsumed(Parts(i), start, end)
    BY <1>1, <1>3, PartsCut
  <2>2. WriteAll(i, Parts(i))
    BY <1>3, <2>1 DEF write_piece, RangeAsserts, Parts
  <2>3. /\ DiskInv'
        /\ \A f \in File : \A o \in DOMAIN disk[f] :
             disk'[f][o] # disk[f][o] => disk[f][o] = Blank /\ disk'[f][o] = BytePlace(f, o)
    BY <1>2, <1>3, <2>2, WriteAllKeeps
  <2>4. /\ \A f \in File :
             \/ LeftAlone(f)
             \/ \E n \in DOMAIN Parts(i) : Parts(i)[n].file_index = f /\ PartDone(i, Parts(i)[n])
        /\ \/ /\ state' = "aborted"
              /\ \/ /\ failed_assert' = "on_write_file_piece"
                    /\ \E n \in DOMAIN Parts(i) : ~FilePieceAccepted(Parts(i)[n], SizeOf(i))
                 \/ /\ failed_assert' = "try_finalize"
                    /\ \E f \in File : written_'[f] > FileSize(f)
           \/ state' = state /\ failed_assert' = failed_assert /\ pieces' = pieces \union {i}
    BY <1>3, <2>2, WriteAllEffect
  <2>5. \A n \in DOMAIN Parts(i) : PartIs(i, Parts(i)[n])
    BY <1>1, <1>3, PartsCut
  <2>6. ASSUME NEW f \in taken PROVE disk'[f] = disk[f]
    <3>1. f \in File
      BY <1>1 DEF Types
    <3>2. ~\E n \in DOMAIN Parts(i) : Parts(i)[n].file_index = f /\ PartDone(i, Parts(i)[n])
      <4> SUFFICES ASSUME NEW n \in DOMAIN Parts(i), Parts(i)[n].file_index = f, PartDone(i, Parts(i)[n])
                   PROVE  FALSE
        OBVIOUS
      <4>1. FilePieceAccepted(Parts(i)[n], SizeOf(i))
        BY DEF PartDone
      <4>2. PartIs(i, Parts(i)[n])
        BY <2>5
      <4>3. Parts(i)[n].file_index \notin taken
        BY <1>1, <1>2, <4>1, <4>2, PartWritten
      <4> QED BY <4>3
    <3> QED BY <2>4, <3>1, <3>2 DEF LeftAlone
  <2>7. ASSUME NEW n \in DOMAIN Parts(i), ~FilePieceAccepted(Parts(i)[n], SizeOf(i))
        PROVE  taken # {} \/ HasInnerEmptyFile
    <3> DEFINE fp == Parts(i)[n]
    <3>1. PartIs(i, fp)
      BY <2>5
    <3> HIDE DEF fp
    <3>2. fp.piece_offset < SizeOf(i) /\ (fp.bytes_count > 0 \/ HasInnerEmptyFile)
      BY <3>1 DEF PartIs
    <3>3. fp.bytes_count > 0 /\ fp.file_index \notin taken => CanOpen(fp.file_index)
      BY <1>1, <1>2, <3>1, OpensUnlessTaken
    <3> QED BY <2>7, <3>2, <3>3 DEF FilePieceAccepted, fp
  <2>8. \A f \in File : ~(written_'[f] > FileSize(f))
    <3> TAKE f \in File
    <3>1. written_'[f] <= FileSize(f)
      BY <1>1, <1>2, <1>3, <2>2, NeverTooManyBytes
    <3>2. FileSize(f) \in Nat
      BY <1>1, LayoutFacts
    <3>3. written_'[f] \in Nat
      <4>1. Types' /\ File' = File
        BY <2>3, <1>2 DEF DiskInv, SameTorrent, File
      <4> QED BY <4>1 DEF Types
    <3> QED BY <3>1, <3>2, <3>3
  <2> QED BY <2>3, <2>4, <2>6, <2>7, <2>8
<1>4. CASE ~RangeAsserts(i)
  <2>1. /\ state' = "aborted" /\ failed_assert' = "iterate_files"
        /\ UNCHANGED <<file_, written_, disk, created, pieces>>
    BY <1>4 DEF write_piece, RangeAsserts, Stop
  <2>2. HasInnerEmptyFile
    BY <1>1, <1>4, RangeAssertsHold
  <2>3. DiskInv'
    BY <1>1, <1>2, <2>1, SameDiskKeeps
  <2> QED BY <2>1, <2>2, <2>3
<1> QED BY <1>3, <1>4

\* When all pieces are there, every file of some bytes is created, complete
\* and closed, and no such file's name was taken.
LEMMA AllPiecesThere ==
  ASSUME DiskInv, state # "aborted", pieces = PieceIndex
  PROVE  /\ \A f \in taken : FileSize(f) = 0
         /\ \A f \in File \ taken : \A o \in DOMAIN disk[f] : disk[f][o] = BytePlace(f, o)
         /\ \A f \in File : written_[f] = FileSize(f) /\ ~file_[f]
         /\ created = {f \in File : FileSize(f) > 0}
<1>1. LayoutKept /\ Types /\ TakenLeft /\ BlankUntilCreated /\ Progress
  BY DEF DiskInv
<1>2. \A f \in File : FileSize(f) \in Nat /\ DOMAIN disk[f] = 0 .. FileSize(f) - 1
  BY <1>1, LayoutFacts DEF Types
<1>3. \A f \in File : \A o \in 0 .. FileSize(f) - 1 : PieceOf(f, o) \in pieces
  BY <1>1, PieceOfByte
<1>4. \A f \in taken : f \in File /\ FileSize(f) = 0
  <2> TAKE f \in taken
  <2>1. f \in File
    BY <1>1 DEF Types
  <2>2. \A o \in 0 .. FileSize(f) - 1 : FALSE
    BY <1>1, <1>2, <1>3, <2>1 DEF Progress
  <2>3. ~(FileSize(f) > 0)
    <3> SUFFICES ASSUME FileSize(f) > 0 PROVE FALSE
      OBVIOUS
    <3>1. 0 \in 0 .. FileSize(f) - 1
      BY <1>2, <2>1
    <3> QED BY <3>1, <2>2
  <2> QED BY <2>1, <2>3, <1>2
<1>5. \A f \in File \ taken : \A o \in DOMAIN disk[f] : disk[f][o] = BytePlace(f, o)
  BY <1>1, <1>2, <1>3 DEF Progress
<1>6. ASSUME NEW f \in File \ taken
      PROVE  written_[f] = FileSize(f) /\ ~file_[f]
  <2>1. \A o \in 0 .. FileSize(f) - 1 : BytePlace(f, o) # Blank
    <3>1. \A o \in 0 .. FileSize(f) - 1 : BytePlace(f, o) \in Int
      BY <1>1, LayoutFacts
    <3> QED BY <3>1, FilesOnDiskAssumption
  <2>2. Filled(f) = 0 .. FileSize(f) - 1
    BY <1>2, <1>5, <2>1 DEF Filled
  <2>3. Cardinality(Filled(f)) = FileSize(f)
    BY <1>1, <1>2, <2>2, FilledBound DEF Filled
  <2>4. written_[f] = FileSize(f)
    BY <1>1, <2>3 DEF Progress
  <2>5. ~(written_[f] < FileSize(f))
    BY <1>2, <2>4
  <2> QED BY <1>1, <2>4, <2>5 DEF Progress
<1>7. \A f \in taken : written_[f] = FileSize(f) /\ ~file_[f]
  BY <1>1, <1>4 DEF TakenLeft
<1>8. ASSUME NEW f \in File, FileSize(f) > 0 PROVE f \in created
  <2> SUFFICES ASSUME f \notin created PROVE FALSE
    OBVIOUS
  <2>1. f \in File \ taken
    BY <1>2, <1>4, <1>8
  <2>2. 0 \in DOMAIN disk[f]
    BY <1>2, <1>8
  <2>3. disk[f][0] = Blank
    BY <1>1, <2>1, <2>2 DEF BlankUntilCreated
  <2>4. BytePlace(f, 0) \in Int
    BY <1>1, <1>2, <2>2, LayoutFacts
  <2> QED BY <1>5, <2>1, <2>2, <2>3, <2>4, FilesOnDiskAssumption
<1>9. \A f \in created : f \in File /\ FileSize(f) > 0
  BY <1>1 DEF Types, Progress
<1> QED BY <1>4, <1>5, <1>6, <1>7, <1>8, <1>9

\* main's last assertion holds.
LEMMA TotalsAgree ==
  ASSUME DiskInv, state # "aborted", pieces = PieceIndex
  PROVE  total_written = total_size_
<1>1. LayoutKept /\ Types
  BY DEF DiskInv
<1>2. torrent.lengths \in Seq(Nat) /\ torrent.lengths # <<>>
  BY <1>1, FilesOnDiskAssumption DEF LayoutKept
<1>3. written_ = torrent.lengths
  <2>1. \A f \in File : written_[f] = torrent.lengths[f]
    BY AllPiecesThere DEF FileSize
  <2>2. written_ \in [DOMAIN torrent.lengths -> Nat]
    BY <1>1 DEF Types, File
  <2>3. torrent.lengths \in [DOMAIN torrent.lengths -> Nat]
    BY <1>2
  <2> QED BY <2>1, <2>2, <2>3 DEF File
<1>4. files_offset_[Len(files_offset_)].end = get_total_size_bytes(torrent.lengths)
  <2>1. files_offset_ = FilesListMake(torrent.lengths)
    BY <1>1 DEF LayoutKept
  <2> QED BY <2>1, <1>2, MadeContiguous
<1> QED BY <1>3, <1>4 DEF total_written, total_size_

-----------------------------------------------------------------------------
(* The theorems of the specification.                                      *)

Inv ==
  /\ DiskInv
  /\ state \in {"writing", "exited", "aborted"}
  /\ failed_assert \in {"none", "iterate_files", "on_write_file_piece", "try_finalize", "exit"}
  /\ TakenFilesKept
  /\ AbortsOnlyForCause

LEMMA InitInv == Init => Inv
<1> SUFFICES ASSUME Init PROVE Inv
  OBVIOUS
<1>1. LayoutKept
  BY DEF Init, LayoutKept
<1>2. \A f \in File : FileSize(f) \in Nat
  BY <1>1, LayoutFacts
<1>3. /\ taken \subseteq File
      /\ file_ = [f \in File |-> FALSE]
      /\ written_ = [f \in File |-> 0]
      /\ disk = [f \in File |-> Full(f, IF f \in taken THEN Other ELSE Blank)]
      /\ created = {} /\ pieces = {}
      /\ state = "writing" /\ failed_assert = "none"
  BY DEF Init
<1>4. \A f \in File : /\ disk[f] = Full(f, IF f \in taken THEN Other ELSE Blank)
                      /\ DOMAIN disk[f] = 0 .. FileSize(f) - 1
                      /\ disk[f] = [o \in 0 .. FileSize(f) - 1 |-> disk[f][o]]
                      /\ \A o \in DOMAIN disk[f] : disk[f][o] = IF f \in taken THEN Other ELSE Blank
  <2> SUFFICES ASSUME NEW f \in File
               PROVE  /\ disk[f] = Full(f, IF f \in taken THEN Other ELSE Blank)
                      /\ DOMAIN disk[f] = 0 .. FileSize(f) - 1
                      /\ disk[f] = [o \in 0 .. FileSize(f) - 1 |-> disk[f][o]]
                      /\ \A o \in DOMAIN disk[f] : disk[f][o] = IF f \in taken THEN Other ELSE Blank
    OBVIOUS
  <2>1. disk[f] = Full(f, IF f \in taken THEN Other ELSE Blank)
    BY <1>3
  <2>2. disk[f] = [o \in 0 .. FileSize(f) - 1 |-> IF f \in taken THEN Other ELSE Blank]
    BY <2>1 DEF Full
  <2> QED BY <2>1, <2>2
<1>5. Types
  <2>1. file_ \in [File -> BOOLEAN] /\ written_ \in [File -> Nat]
    BY <1>3
  <2> QED BY <2>1, <1>3, <1>4 DEF Types
<1>6. Places /\ TakenLeft /\ BlankUntilCreated
  BY <1>3, <1>4 DEF Places, TakenLeft, BlankUntilCreated
<1>7. Progress
  <2>1. ASSUME NEW f \in File \ taken
        PROVE  /\ \A o \in DOMAIN disk[f] : disk[f][o] = Blank
               /\ written_[f] = Cardinality(Filled(f))
               /\ ~file_[f]
    <3>1. \A o \in DOMAIN disk[f] : disk[f][o] = Blank
      BY <1>4
    <3>2. Filled(f) = {}
      BY <3>1 DEF Filled
    <3> QED BY <3>1, <3>2, <1>3, FS_EmptySet
  <2> QED BY <2>1, <1>3 DEF Progress
<1>8. TakenFilesKept
  BY <1>3, <1>4 DEF TakenFilesKept
<1>9. AbortsOnlyForCause
  BY <1>3 DEF AbortsOnlyForCause
<1> QED BY <1>1, <1>3, <1>5, <1>6, <1>7, <1>8, <1>9 DEF Inv, DiskInv

LEMMA NextInv ==
  ASSUME BelowWord, Inv, [Next]_vars
  PROVE  /\ Inv'
         /\ \A f \in File : \A o \in DOMAIN disk[f] :
              disk'[f][o] # disk[f][o] => disk[f][o] = Blank /\ disk'[f][o] = BytePlace(f, o)
<1>1. DiskInv /\ LayoutKept /\ Types
  BY DEF Inv, DiskInv
<1>2. CASE UNCHANGED vars
  <2>1. DiskInv'
    <3>1. SameTorrent /\ UNCHANGED <<taken, file_, written_, disk, created, pieces>> /\ state' = state
      BY <1>2 DEF vars, SameTorrent
    <3> QED BY <3>1, <1>1, SameDiskKeeps
  <2>2. /\ torrent' = torrent /\ taken' = taken /\ disk' = disk
        /\ state' = state /\ failed_assert' = failed_assert
    BY <1>2 DEF vars
  <2>3. TakenFilesKept' /\ AbortsOnlyForCause'
    BY <2>2 DEF Inv, TakenFilesKept, AbortsOnlyForCause, Full, FileSize, HasInnerEmptyFile, File
  <2> QED BY <2>1, <2>2, <2>3 DEF Inv
<1>3. ASSUME NEW i \in PieceIndex, write_piece(i)
      PROVE  /\ Inv'
             /\ \A f \in File : \A o \in DOMAIN disk[f] :
                  disk'[f][o] # disk[f][o] => disk[f][o] = Blank /\ disk'[f][o] = BytePlace(f, o)
  <2>1. /\ DiskInv'
        /\ \A f \in File : \A o \in DOMAIN disk[f] :
             disk'[f][o] # disk[f][o] => disk[f][o] = Blank /\ disk'[f][o] = BytePlace(f, o)
        /\ \A f \in taken : disk'[f] = disk[f]
        /\ \/ state' = state /\ failed_assert' = failed_assert
           \/ /\ state' = "aborted"
              /\ \/ failed_assert' = "on_write_file_piece" /\ taken # {}
                 \/ failed_assert' \in {"iterate_files", "on_write_file_piece"} /\ HasInnerEmptyFile
    BY <1>1, <1>3, WritePieceKeeps, Zenon
  <2>2. torrent' = torrent /\ taken' = taken
    BY <1>3 DEF write_piece, SameTorrent
  <2>3. TakenFilesKept'
    BY <2>1, <2>2 DEF Inv, TakenFilesKept, Full, FileSize
  <2>4. HasInnerEmptyFile' = HasInnerEmptyFile
    BY <2>2 DEF HasInnerEmptyFile, File, FileSize
  <2>5. AbortsOnlyForCause'
    BY <2>1, <2>2, <2>4 DEF Inv, AbortsOnlyForCause
  <2>6. /\ state' \in {"writing", "exited", "aborted"}
        /\ failed_assert' \in {"none", "iterate_files", "on_write_file_piece", "try_finalize", "exit"}
    BY <2>1 DEF Inv
  <2> QED BY <2>1, <2>3, <2>5, <2>6 DEF Inv
<1>4. CASE Exit
  <2>1. total_written = total_size_
    BY <1>1, <1>4, TotalsAgree DEF Exit
  <2>2. /\ state = "writing" /\ state' = "exited" /\ failed_assert' = failed_assert
        /\ SameTorrent /\ UNCHANGED <<taken, file_, written_, disk, created, pieces>>
    BY <1>4, <2>1 DEF Exit
  <2>3. DiskInv'
    BY <1>1, <2>2, SameDiskKeeps
  <2>4. TakenFilesKept' /\ AbortsOnlyForCause'
    BY <2>2 DEF Inv, SameTorrent, TakenFilesKept, AbortsOnlyForCause, Full, FileSize
  <2> QED BY <2>2, <2>3, <2>4 DEF Inv
<1> QED BY <1>2, <1>3, <1>4 DEF Next, Terminated

THEOREM InvHolds ==
  ASSUME BelowWord
  PROVE  Spec => []Inv
<1>1. Init => Inv
  BY InitInv
<1>2. Inv /\ [Next]_vars => Inv'
  BY NextInv
<1> QED BY <1>1, <1>2, PTL DEF Spec

\* The type invariant.
THEOREM TypeCorrect ==
  ASSUME BelowWord
  PROVE  Spec => []TypeOK
<1>1. Inv => TypeOK
  <2> SUFFICES ASSUME Inv PROVE TypeOK
    OBVIOUS
  <2>1. LayoutKept /\ Types /\ Places
    BY DEF Inv, DiskInv
  <2>2. files_offset_ \in Seq([start : Nat, end : Nat])
    BY <2>1, LayoutFacts DEF Contiguous
  <2>3. ASSUME NEW f \in File
        PROVE  disk[f] \in [0 .. FileSize(f) - 1 -> (0 .. total_size_) \union {Blank, Other}]
    <3>1. \A o \in 0 .. FileSize(f) - 1 : BytePlace(f, o) \in 0 .. total_size_
      <4>1. total_size_ \in Nat /\ \A o \in 0 .. FileSize(f) - 1 : BytePlace(f, o) \in 0 .. total_size_ - 1
        BY <2>1, LayoutFacts
      <4> QED BY <4>1
    <3>2. \A o \in 0 .. FileSize(f) - 1 : disk[f][o] \in (0 .. total_size_) \union {Blank, Other}
      BY <2>1, <3>1 DEF Types, Places
    <3>3. disk[f] = [o \in 0 .. FileSize(f) - 1 |-> disk[f][o]]
      BY <2>1 DEF Types
    <3> QED BY <3>2, <3>3
  <2> QED BY <2>1, <2>2, <2>3 DEF TypeOK, Inv, Types, LayoutKept
<1> QED BY <1>1, InvHolds, PTL

\* However the pieces straddle the files and in whatever order they arrive,
\* the files hold exactly their bytes, each at its place.
THEOREM FilesHoldExactlyThePieces ==
  ASSUME BelowWord
  PROVE  Spec => []DiskExact
<1>1. Inv => DiskExact
  BY DEF Inv, DiskInv, Progress, DiskExact
<1> QED BY <1>1, InvHolds, PTL

\* written_ counts the bytes on the disk and the handle is open exactly
\* while the file is created and incomplete.
THEOREM HandlesMatchProgress ==
  ASSUME BelowWord
  PROVE  Spec => []HandleMatchesProgress
<1>1. Inv => HandleMatchesProgress
  BY DEF Inv, DiskInv, Progress, Filled, HandleMatchesProgress
<1> QED BY <1>1, InvHolds, PTL

\* No piece, not even one that fails half-way, touches a file that was there.
THEOREM TakenFilesUntouched ==
  ASSUME BelowWord
  PROVE  Spec => []TakenFilesKept
<1>1. Inv => TakenFilesKept
  BY DEF Inv
<1> QED BY <1>1, InvHolds, PTL

\* Only a taken name or an empty file with another one after it stops the
\* program: the other assertions, main's last one among them, hold.
THEOREM StopsForCause ==
  ASSUME BelowWord
  PROVE  Spec => []AbortsOnlyForCause
<1>1. Inv => AbortsOnlyForCause
  BY DEF Inv
<1> QED BY <1>1, InvHolds, PTL

\* The buffer of a piece is as long as the range iterate_files gives it.
THEOREM BuffersMatchRanges ==
  ASSUME BelowWord
  PROVE  Spec => []BufferMatchesRange
<1>1. Inv => BufferMatchesRange
  <2> SUFFICES ASSUME Inv, NEW i \in PieceIndex
               PROVE  SizeOf(i) = PieceEnd(files_offset_, torrent.size, i) - PieceStart(torrent.size, i)
    BY DEF BufferMatchesRange
  <2>1. LayoutKept
    BY DEF Inv, DiskInv
  <2> QED BY <2>1, PieceFacts
<1> QED BY <1>1, InvHolds, PTL

\* A byte on the disk stays as it is: a step only turns blank bytes into the
\* bytes of their place, the steps that end in a failed assertion included.
BytesOnceAndInPlace ==
  \A f \in File : \A o \in DOMAIN disk[f] :
    disk'[f][o] # disk[f][o] => disk[f][o] = Blank /\ disk'[f][o] = BytePlace(f, o)

THEOREM BytesPutForGood ==
  ASSUME BelowWord
  PROVE  Spec => [][BytesOnceAndInPlace]_vars
<1>1. Inv /\ [Next]_vars => [BytesOnceAndInPlace]_vars
  BY NextInv DEF BytesOnceAndInPlace
<1> QED BY <1>1, InvHolds, PTL DEF Spec
=============================================================================
