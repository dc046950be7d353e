--------------------------- MODULE PeerWireProofs ---------------------------
(***************************************************************************)
(* That ReadAnyMessage finds the borders of the messages, whatever a peer  *)
(* sends and wherever the connection is cut, and what follows from it for  *)
(* the code above.                                                         *)
(***************************************************************************)
EXTENDS PeerWire, SequenceLemmas

-----------------------------------------------------------------------------
(* Sequences.                                                              *)

\* A sequence is the part it is cut to, then the part dropped.
LEMMA CutAt ==
  ASSUME NEW T, NEW s \in Seq(T), NEW n \in 0 .. Len(s)
  PROVE  /\ SubSeq(s, 1, n) \in Seq(T) /\ Len(SubSeq(s, 1, n)) = n
         /\ Drop(s, n) \in Seq(T) /\ Len(Drop(s, n)) = Len(s) - n
         /\ SubSeq(s, 1, n) \o Drop(s, n) = s
<1>1. Len(s) \in Nat /\ \A k \in 1 .. Len(s) : s[k] \in T
  BY SeqDomain, Zenon
<1>2. /\ \A i \in 1 .. n : s[i] \in T
      /\ \A i \in n + 1 .. Len(s) : s[i] \in T
      /\ n \in Int /\ n + 1 \in Int /\ Len(s) \in Int /\ 1 \in Int
  BY <1>1
<1>3. /\ SubSeq(s, 1, n) \in Seq(T) /\ Len(SubSeq(s, 1, n)) = IF 1 <= n THEN n - 1 + 1 ELSE 0
  BY <1>1
<1>4. /\ SubSeq(s, n + 1, Len(s)) \in Seq(T)
      /\ Len(SubSeq(s, n + 1, Len(s))) = IF n + 1 <= Len(s) THEN Len(s) - (n + 1) + 1 ELSE 0
  BY <1>1
<1>5. SubSeq(s, 1, n) \o SubSeq(s, n + 1, Len(s)) = SubSeq(s, 1, Len(s))
  <2>1. 1 \in 1 .. Len(s) + 1 /\ n \in 1 - 1 .. Len(s) /\ Len(s) \in n .. Len(s)
    BY <1>1
  <2> QED BY <2>1, ConcatAdjacentSubSeq, Zenon
<1>6. SubSeq(s, 1, Len(s)) = s
  BY SubSeqFull, Zenon
<1>7. /\ Len(SubSeq(s, 1, n)) = n
      /\ Len(SubSeq(s, n + 1, Len(s))) = Len(s) - n
  <2>1. (IF 1 <= n THEN n - 1 + 1 ELSE 0) = n
    BY <1>1
  <2>2. (IF n + 1 <= Len(s) THEN Len(s) - (n + 1) + 1 ELSE 0) = Len(s) - n
    BY <1>1
  <2>3. Len(SubSeq(s, 1, n)) = n
    BY <1>3, <2>1
  <2>4. Len(SubSeq(s, n + 1, Len(s))) = Len(s) - n
    BY <1>4, <2>2
  <2> QED BY <2>3, <2>4
<1> QED BY <1>3, <1>4, <1>5, <1>6, <1>7, Zenon DEF Drop

\* Dropping what was put in front.
LEMMA DropFront ==
  ASSUME NEW T, NEW s \in Seq(T), NEW t \in Seq(T)
  PROVE  /\ SubSeq(s \o t, 1, Len(s)) = s
         /\ Drop(s \o t, Len(s)) = t
<1>1. s \o t \in Seq(T) /\ Len(s \o t) = Len(s) + Len(t) /\ Len(s) \in Nat /\ Len(t) \in Nat
  BY ConcatOf, SeqDomain, Zenon
<1>2. Len(s) \in 0 .. Len(s \o t)
  BY <1>1
<1>3. /\ SubSeq(s \o t, 1, Len(s)) \in Seq(T) /\ Len(SubSeq(s \o t, 1, Len(s))) = Len(s)
      /\ Drop(s \o t, Len(s)) \in Seq(T)
      /\ SubSeq(s \o t, 1, Len(s)) \o Drop(s \o t, Len(s)) = s \o t
  BY <1>1, <1>2, CutAt, Zenon
<1> QED
  <2> DEFINE a == SubSeq(s \o t, 1, Len(s))
             b == Drop(s \o t, Len(s))
  <2>1. a \in Seq(T) /\ b \in Seq(T) /\ a \o b = s \o t /\ Len(a) = Len(s)
    BY <1>3
  <2> HIDE DEF a, b
  <2>2. a = s /\ b = t
    BY <2>1, CutAlike, Zenon
  <2> QED BY <2>2 DEF a, b
-----------------------------------------------------------------------------
(* Numbers and fields.                                                     *)

LEMMA WordBytes ==
  ASSUME NEW n, FitsWord(n)
  PROVE  native_to_big(n) \in Seq(Byte) /\ Len(native_to_big(n)) = WordSize
<1>1. /\ n \div 16777216 \in Byte /\ (n \div 65536) % 256 \in Byte
      /\ (n \div 256) % 256 \in Byte /\ n % 256 \in Byte
  BY DEF FitsWord, Byte
<1> HIDE DEF Byte
<1> QED BY <1>1 DEF native_to_big, WordSize

\* Four bytes are read as the number they were written for.
LEMMA WordBack ==
  ASSUME NEW n \in Nat
  PROVE  big_to_native(native_to_big(n)) = n
<1> DEFINE a == n \div 256
           b == n \div 65536
           c == n \div 16777216
<1>1. /\ a \in Nat /\ b \in Nat /\ c \in Nat
      /\ n = 256 * a + (n % 256) /\ a = 256 * b + (a % 256) /\ b = 256 * c + (b % 256)
  OBVIOUS
<1>2. ((c * 256 + (b % 256)) * 256 + (a % 256)) * 256 + (n % 256) = n
  <2> HIDE DEF a, b, c
  <2> QED BY <1>1
<1>3. /\ native_to_big(n)[1] = c /\ native_to_big(n)[2] = b % 256
      /\ native_to_big(n)[3] = a % 256 /\ native_to_big(n)[4] = n % 256
  BY DEF native_to_big
<1> QED BY <1>2, <1>3 DEF big_to_native

\* The ends of the fields, as far as the n-th.
EndsUpTo(end, sizes, n) == end = [k \in 0 .. n |-> IF k = 0 THEN 0 ELSE end[k - 1] + sizes[k]]
HaveEnds(sizes, n) == \E end : EndsUpTo(end, sizes, n)

LEMMA FieldEndsExist ==
  ASSUME NEW sizes, NEW N \in Nat
  PROVE  HaveEnds(sizes, N)
<1> DEFINE Missing == {n \in 0 .. N : ~HaveEnds(sizes, n)}
<1> SUFFICES ASSUME Missing # {} PROVE FALSE
  OBVIOUS
<1>1. PICK n \in Missing : \A k \in Missing : n <= k
  <2>1. Missing \in SUBSET Nat
    OBVIOUS
  <2> HIDE DEF Missing
  <2> QED BY <2>1, LeastNumber
<1>2. n \in 0 .. N /\ ~HaveEnds(sizes, n)
  BY <1>1
<1>3. n # 0
  <2>1. EndsUpTo([k \in 0 .. 0 |-> 0], sizes, 0)
    BY DEF EndsUpTo
  <2> QED BY <2>1, <1>2 DEF HaveEnds
<1>4. n - 1 \in 0 .. N /\ n - 1 \notin Missing
  BY <1>1, <1>2, <1>3
<1>5. PICK g : EndsUpTo(g, sizes, n - 1)
  BY <1>4 DEF HaveEnds
<1> DEFINE h == [k \in 0 .. n |-> IF k = n THEN g[n - 1] + sizes[n] ELSE g[k]]
<1>6. ASSUME NEW k \in 0 .. n PROVE h[k] = IF k = 0 THEN 0 ELSE h[k - 1] + sizes[k]
  <2>1. CASE k = n
    <3>1. n - 1 \in 0 .. n /\ n - 1 # n
      BY <1>2, <1>3
    <3> QED BY <2>1, <3>1, <1>3
  <2>2. CASE k # n
    <3>1. k \in 0 .. n - 1
      BY <2>2, <1>2
    <3>2. g[k] = IF k = 0 THEN 0 ELSE g[k - 1] + sizes[k]
      <4>1. g = [i \in 0 .. n - 1 |-> IF i = 0 THEN 0 ELSE g[i - 1] + sizes[i]]
        BY <1>5 DEF EndsUpTo
      <4> QED BY <3>1, <4>1, Zenon
    <3>3. k # 0 => k - 1 \in 0 .. n /\ k - 1 # n
      BY <1>2, <2>2
    <3>4. h[k] = g[k] /\ (k # 0 => h[k - 1] = g[k - 1])
      BY <2>2, <3>3
    <3> QED BY <3>2, <3>4
  <2> QED BY <2>1, <2>2
<1>7. EndsUpTo(h, sizes, n)
  <2>1. h = [k \in 0 .. n |-> h[k]]
    OBVIOUS
  <2> HIDE DEF h
  <2> QED BY <2>1, <1>6 DEF EndsUpTo
<1> QED BY <1>2, <1>7 DEF HaveEnds

LEMMA FieldEndsAre ==
  ASSUME NEW sizes, Len(sizes) \in Nat
  PROVE  /\ FieldEnds(sizes)[0] = 0
         /\ \A k \in 1 .. Len(sizes) : FieldEnds(sizes)[k] = FieldEnds(sizes)[k - 1] + sizes[k]
<1> DEFINE N == Len(sizes)
           end == FieldEnds(sizes)
<1>1. end = CHOOSE e : EndsUpTo(e, sizes, N)
  BY DEF FieldEnds, EndsUpTo
<1>2. EndsUpTo(end, sizes, N)
  BY <1>1, FieldEndsExist, Zenon DEF HaveEnds
<1> HIDE DEF end
<1>3. end = [k \in 0 .. N |-> IF k = 0 THEN 0 ELSE end[k - 1] + sizes[k]]
  BY <1>2 DEF EndsUpTo
<1>4. \A k \in 0 .. N : end[k] = IF k = 0 THEN 0 ELSE end[k - 1] + sizes[k]
  <2> TAKE k \in 0 .. N
  <2> QED BY <1>3, Zenon
<1>5. end[0] = 0
  BY <1>4
<1>6. \A k \in 1 .. N : end[k] = end[k - 1] + sizes[k]
  BY <1>4
<1> QED BY <1>5, <1>6 DEF end

\* What is left of a reader, and whether it is valid.
LEMMA ReadsRest ==
  ASSUME NEW sizes, NEW data, data # <<>>
  PROVE  /\ Reads(data, sizes).valid_ <=> FieldEnds(sizes)[Len(sizes)] <= Len(data)
         /\ Reads(data, sizes).fields = Fields(data, sizes)
         /\ Reads(data, sizes).rest = Drop(data, FieldEnds(sizes)[Len(sizes)])
<1> DEFINE size == FieldEnds(sizes)[Len(sizes)]
           r == [valid_ |-> data # <<>> /\ size <= Len(data),
                 fields |-> Fields(data, sizes),
                 rest |-> SubSeq(data, size + 1, Len(data))]
<1>1. Reads(data, sizes) = r
  BY Zenon DEF Reads
<1>2. /\ r.valid_ <=> size <= Len(data)
      /\ r.fields = Fields(data, sizes)
      /\ r.rest = SubSeq(data, size + 1, Len(data))
  <2> HIDE DEF size
  <2> QED BY Zenon
<1> QED BY <1>1, <1>2, Zenon DEF Drop

\* A reader whose fields all fit.
LEMMA ReadsAll ==
  ASSUME NEW sizes \in Seq(Nat), sizes # <<>>, NEW data, data # <<>>,
         \A k \in 1 .. Len(sizes) : FieldEnds(sizes)[k] <= Len(data)
  PROVE  LET r == Reads(data, sizes)
             end == FieldEnds(sizes)
         IN  /\ r.valid_ /\ Len(r.fields) = Len(sizes)
             /\ \A n \in 1 .. Len(sizes) : r.fields[n] = SubSeq(data, end[n - 1] + 1, end[n])
             /\ r.rest = Drop(data, end[Len(sizes)])
<1> DEFINE end == FieldEnds(sizes)
           N == Len(sizes)
<1>1. N \in Nat \ {0} /\ DOMAIN sizes = 1 .. N
  BY EmptySeq
<1> HIDE DEF end, N
<1>2. {k \in DOMAIN sizes : end[k] <= Len(data)} = 1 .. N
  BY <1>1 DEF end, N
<1>3. Fields(data, sizes) = [n \in 1 .. N |-> SubSeq(data, end[n - 1] + 1, end[n])]
  BY <1>2 DEF Fields, end
<1>4. Len(Fields(data, sizes)) = N
  BY <1>1, <1>3
<1>5. N \in 1 .. N
  BY <1>1
<1>6. end[N] <= Len(data)
  BY <1>5 DEF end, N
<1>8. \A n \in 1 .. N : Fields(data, sizes)[n] = SubSeq(data, end[n - 1] + 1, end[n])
  BY <1>3
<1>9. /\ Reads(data, sizes).valid_ /\ Reads(data, sizes).fields = Fields(data, sizes)
      /\ Reads(data, sizes).rest = Drop(data, end[N])
  BY <1>6, ReadsRest, Zenon DEF end, N
<1> QED BY <1>4, <1>8, <1>9 DEF end, N

LEMMA HaveEndsAre ==
  /\ HaveFields \in Seq(Nat) /\ HaveFields # <<>> /\ Len(HaveFields) = 2
  /\ FieldEnds(HaveFields)[0] = 0 /\ FieldEnds(HaveFields)[1] = 1 /\ FieldEnds(HaveFields)[2] = 5
<1>1. /\ HaveFields \in Seq(Nat) /\ HaveFields # <<>> /\ Len(HaveFields) = 2
      /\ HaveFields[1] = 1 /\ HaveFields[2] = 4
  BY DEF HaveFields, WordSize
<1>2. /\ FieldEnds(HaveFields)[0] = 0
      /\ \A k \in 1 .. 2 : FieldEnds(HaveFields)[k] = FieldEnds(HaveFields)[k - 1] + HaveFields[k]
  BY <1>1, FieldEndsAre
<1>3. FieldEnds(HaveFields)[1] = 1
  BY <1>1, <1>2
<1>4. FieldEnds(HaveFields)[2] = 5
  BY <1>1, <1>2, <1>3
<1> QED BY <1>1, <1>2, <1>3, <1>4

LEMMA PieceEndsAre ==
  /\ PieceFields \in Seq(Nat) /\ PieceFields # <<>> /\ Len(PieceFields) = 3
  /\ FieldEnds(PieceFields)[0] = 0 /\ FieldEnds(PieceFields)[1] = 1
  /\ FieldEnds(PieceFields)[2] = 5 /\ FieldEnds(PieceFields)[3] = 9
<1>1. /\ PieceFields \in Seq(Nat) /\ PieceFields # <<>> /\ Len(PieceFields) = 3
      /\ PieceFields[1] = 1 /\ PieceFields[2] = 4 /\ PieceFields[3] = 4
  BY DEF PieceFields, WordSize
<1>2. /\ FieldEnds(PieceFields)[0] = 0
      /\ \A k \in 1 .. 3 : FieldEnds(PieceFields)[k] = FieldEnds(PieceFields)[k - 1] + PieceFields[k]
  <2>1. Len(PieceFields) \in Nat
    BY <1>1
  <2>2. /\ FieldEnds(PieceFields)[0] = 0
        /\ \A k \in 1 .. Len(PieceFields) :
             FieldEnds(PieceFields)[k] = FieldEnds(PieceFields)[k - 1] + PieceFields[k]
    BY <2>1, FieldEndsAre, Zenon
  <2> QED BY <2>2, <1>1, Zenon
<1>3. FieldEnds(PieceFields)[1] = 1
  BY <1>1, <1>2
<1>4. FieldEnds(PieceFields)[2] = 5
  BY <1>1, <1>2, <1>3
<1>5. FieldEnds(PieceFields)[3] = 9
  BY <1>1, <1>2, <1>4
<1> QED BY <1>1, <1>2, <1>3, <1>4, <1>5

-----------------------------------------------------------------------------
(* Messages.                                                               *)

Id(m) == IF m.type \in Types THEN MessageId[m.type] ELSE 20
WordsOf(m) == [k \in DOMAIN m.words |-> native_to_big(m.words[k])]

LEMMA TypesAre ==
  Types = {"Choke", "Unchoke", "Interested", "NotInterested", "Have", "Bitfield", "Request", "Piece", "Cancel"}
BY DEF Types, MessageId

LEMMA TypeOfId ==
  /\ \A t \in Types : MessageId[t] \in Byte /\ TypeOf(MessageId[t]) = t
  /\ TypeOf(20) = "Unknown"
<1>1. \A t \in Types : MessageId[t] \in 0 .. 8
  BY TypesAre DEF MessageId
<1>2. \A t, u \in Types : MessageId[t] = MessageId[u] => t = u
  BY TypesAre DEF MessageId
<1>3. TypeOf(20) = "Unknown"
  BY <1>1 DEF TypeOf
<1>4. ASSUME NEW t \in Types PROVE TypeOf(MessageId[t]) = t
  <2>1. \E u \in Types : MessageId[u] = MessageId[t]
    OBVIOUS
  <2>2. (CHOOSE u \in Types : MessageId[u] = MessageId[t]) = t
    BY <1>2
  <2> QED BY <2>1, <2>2, Zenon DEF TypeOf
<1> QED BY <1>1, <1>3, <1>4 DEF Byte

\* The parts of a message as they are sent.
LEMMA PayloadParts ==
  ASSUME NEW m, WellFormed(m)
  PROVE  /\ Id(m) \in Byte /\ m.bytes \in Seq(Byte)
         /\ WordsOf(m) \in Seq(Seq(Byte)) /\ Len(WordsOf(m)) = Len(m.words)
         /\ FlattenSeq(WordsOf(m)) \in Seq(Byte)
         /\ m.type = "KeepAlive" => Payload(m) = <<>>
         /\ m.type # "KeepAlive" => Payload(m) = <<Id(m)>> \o (FlattenSeq(WordsOf(m)) \o m.bytes)
<1>1. Id(m) \in Byte
  BY TypeOfId DEF Id, Byte
<1>2. m.bytes \in Seq(Byte) /\ m.words \in Seq(Nat) /\ \A k \in DOMAIN m.words : FitsWord(m.words[k])
  BY DEF WellFormed
<1>3. WordsOf(m) \in Seq(Seq(Byte)) /\ Len(WordsOf(m)) = Len(m.words)
  <2> DEFINE Elements == Seq(Byte)
  <2>1. Len(m.words) \in Nat /\ DOMAIN m.words = 1 .. Len(m.words)
    BY <1>2
  <2>2. \A k \in 1 .. Len(m.words) : native_to_big(m.words[k]) \in Elements
    BY <1>2, <2>1, WordBytes
  <2> HIDE DEF Elements
  <2>3. WordsOf(m) \in [1 .. Len(m.words) -> Elements]
    BY <2>1, <2>2 DEF WordsOf
  <2> QED BY <2>1, <2>3, FunctionIsSeq, Zenon DEF Elements
<1>4. FlattenSeq(WordsOf(m)) \in Seq(Byte)
  BY <1>3, FlattenInSeq, Zenon
<1>5. ASSUME m.type # "KeepAlive"
      PROVE  Payload(m) = <<Id(m)>> \o (FlattenSeq(WordsOf(m)) \o m.bytes)
  <2>1. Payload(m) = (<<Id(m)>> \o FlattenSeq(WordsOf(m))) \o m.bytes
    BY <1>5 DEF Payload, Id, WordsOf
  <2>2. <<Id(m)>> \in Seq(Byte)
    BY <1>1
  <2>3. \A a, b, c \in Seq(Byte) : (a \o b) \o c = a \o (b \o c)
    BY ConcatAssociative
  <2> QED BY <2>1, <2>2, <2>3, <1>2, <1>4, Zenon
<1> QED BY <1>1, <1>2, <1>3, <1>4, <1>5 DEF Payload

LEMMA PayloadFacts ==
  ASSUME NEW m, WellFormed(m)
  PROVE  /\ Payload(m) \in Seq(Byte)
         /\ m.type = "KeepAlive" <=> Payload(m) = <<>>
         /\ m.type # "KeepAlive" =>
              /\ Payload(m)[1] = Id(m)
              /\ Tail(Payload(m)) = FlattenSeq(WordsOf(m)) \o m.bytes
              /\ Len(Payload(m)) = 1 + Len(FlattenSeq(WordsOf(m))) + Len(m.bytes)
<1> DEFINE rest == FlattenSeq(WordsOf(m)) \o m.bytes
<1>1. rest \in Seq(Byte) /\ Len(rest) = Len(FlattenSeq(WordsOf(m))) + Len(m.bytes)
  BY PayloadParts, ConcatOf, Zenon
<1>2. CASE m.type = "KeepAlive"
  BY <1>2, PayloadParts, EmptySeq
<1>3. CASE m.type # "KeepAlive"
  <2>1. Payload(m) = <<Id(m)>> \o rest /\ Id(m) \in Byte
    BY <1>3, PayloadParts
  <2>2. Len(FlattenSeq(WordsOf(m))) \in Nat /\ Len(m.bytes) \in Nat
    BY PayloadParts, SeqDomain
  <2> HIDE DEF rest
  <2>3. <<Id(m)>> \in Seq(Byte) /\ Len(<<Id(m)>>) = 1 /\ <<Id(m)>>[1] = Id(m)
    BY <2>1
  <2>4. Payload(m) \in Seq(Byte) /\ Len(Payload(m)) = 1 + Len(rest)
    BY <2>1, <2>3, <1>1, ConcatOf
  <2>5. Payload(m)[1] = Id(m)
    BY <2>1, <2>3, <1>1
  <2>6. Payload(m) # <<>>
    BY <2>4, <1>1, <2>2
  <2>7. Tail(Payload(m)) = rest
    BY <2>1, <2>3, <1>1
  <2>8. Len(Payload(m)) = 1 + Len(FlattenSeq(WordsOf(m))) + Len(m.bytes)
    <3>1. \A a, b \in Nat : 1 + (a + b) = 1 + a + b
      OBVIOUS
    <3> QED BY <3>1, <2>2, <2>4, <1>1, Zenon
  <2> QED BY <2>4, <2>5, <2>6, <2>7, <2>8, <1>3, Zenon DEF rest
<1> QED BY <1>2, <1>3

LEMMA OneWord ==
  ASSUME NEW m, WellFormed(m), Len(m.words) = 1
  PROVE  m.words[1] \in Nat /\ FitsWord(m.words[1]) /\ m.words = <<m.words[1]>>
         /\ FlattenSeq(WordsOf(m)) = native_to_big(m.words[1])
<1>1. m.words \in Seq(Nat) /\ \A k \in DOMAIN m.words : FitsWord(m.words[k])
  BY DEF WellFormed
<1>2. m.words[1] \in Nat /\ FitsWord(m.words[1]) /\ m.words = <<m.words[1]>>
  BY <1>1
<1>3. WordsOf(m) \in Seq(Seq(Byte)) /\ Len(WordsOf(m)) = 1 /\ WordsOf(m) # <<>>
  <2>1. WordsOf(m) \in Seq(Seq(Byte)) /\ Len(WordsOf(m)) = 1
    BY PayloadParts, Zenon
  <2>2. WordsOf(m) = <<>> <=> Len(WordsOf(m)) = 0
    BY <2>1, EmptyIffNoLength, Zenon
  <2> QED BY <2>1, <2>2
<1>4. WordsOf(m)[1] = native_to_big(m.words[1])
  BY <1>2 DEF WordsOf
<1>5. Tail(WordsOf(m)) = <<>>
  <2>1. Tail(WordsOf(m)) \in Seq(Seq(Byte)) /\ Len(Tail(WordsOf(m))) = 0
    BY <1>3, HeadTailProperties
  <2> QED BY <2>1, EmptyIffNoLength, Zenon
<1>6. FlattenSeq(WordsOf(m)) = native_to_big(m.words[1]) \o <<>>
  BY <1>3, <1>4, <1>5, FlattenTail, FlattenEmpty, Zenon
<1>7. native_to_big(m.words[1]) \in Seq(Byte)
  BY <1>2, WordBytes
<1> QED BY <1>2, <1>6, <1>7, ConcatEmptySeq

LEMMA TwoWords ==
  ASSUME NEW m, WellFormed(m), Len(m.words) = 2
  PROVE  /\ m.words[1] \in Nat /\ FitsWord(m.words[1])
         /\ m.words[2] \in Nat /\ FitsWord(m.words[2]) /\ m.words = <<m.words[1], m.words[2]>>
         /\ FlattenSeq(WordsOf(m)) = native_to_big(m.words[1]) \o native_to_big(m.words[2])
<1> DEFINE a == native_to_big(m.words[1])
           b == native_to_big(m.words[2])
           w == WordsOf(m)
<1>1. m.words \in Seq(Nat) /\ \A k \in DOMAIN m.words : FitsWord(m.words[k])
  BY DEF WellFormed
<1>2. /\ m.words[1] \in Nat /\ FitsWord(m.words[1])
      /\ m.words[2] \in Nat /\ FitsWord(m.words[2]) /\ m.words = <<m.words[1], m.words[2]>>
  BY <1>1
<1>3. w \in Seq(Seq(Byte)) /\ Len(w) = 2 /\ w # <<>>
  <2>1. w \in Seq(Seq(Byte)) /\ Len(w) = 2
    BY PayloadParts, Zenon
  <2> HIDE DEF w
  <2>2. w = <<>> <=> Len(w) = 0
    BY <2>1, EmptyIffNoLength, Zenon
  <2> QED BY <2>1, <2>2
<1>4. w[1] = a /\ w[2] = b
  BY <1>2 DEF WordsOf
<1>5. a \in Seq(Byte) /\ b \in Seq(Byte)
  BY <1>2, WordBytes
<1> HIDE DEF w, a, b
<1>6. /\ Tail(w) \in Seq(Seq(Byte)) /\ Len(Tail(w)) = 1 /\ Tail(w)[1] = b /\ Tail(w) # <<>>
  <2>1. /\ Tail(w) \in Seq(Seq(Byte)) /\ Len(Tail(w)) = Len(w) - 1
        /\ \A i \in 1 .. Len(Tail(w)) : Tail(w)[i] = w[i + 1]
    BY <1>3, HeadTailProperties, Zenon
  <2>2. Len(Tail(w)) = 1
    BY <2>1, <1>3
  <2>3. Tail(w)[1] = w[2]
    <3>1. 1 \in 1 .. Len(Tail(w)) /\ 1 + 1 = 2
      BY <2>2
    <3> QED BY <2>1, <3>1, Zenon
  <2>4. Tail(w) # <<>>
    <3>1. Tail(w) = <<>> <=> Len(Tail(w)) = 0
      BY <2>1, EmptyIffNoLength, Zenon
    <3> QED BY <2>2, <3>1
  <2> QED BY <2>1, <2>2, <2>3, <2>4, <1>4
<1>7. Tail(Tail(w)) = <<>>
  <2>1. Tail(Tail(w)) \in Seq(Seq(Byte)) /\ Len(Tail(Tail(w))) = 0
    BY <1>6, HeadTailProperties
  <2> QED BY <2>1, EmptyIffNoLength, Zenon
<1>8. FlattenSeq(Tail(w)) = b
  <2>1. FlattenSeq(Tail(w)) = b \o <<>>
    BY <1>6, <1>7, FlattenTail, FlattenEmpty, Zenon
  <2> QED BY <2>1, <1>5, ConcatEmptySeq
<1>9. FlattenSeq(w) = a \o b
  BY <1>3, <1>4, <1>8, FlattenTail, Zenon
<1> QED BY <1>2, <1>9 DEF w, a, b

\* A message that is well-formed is parsed as what it is.
LEMMA HaveParsed ==
  ASSUME NEW m, WellFormed(m), m.type = "Have"
  PROVE  MakeMessage(Payload(m)) = {m}
<1> DEFINE data == Payload(m)
           w == native_to_big(m.words[1])
           r == Reads(data, HaveFields)
<1>1. Len(m.words) = 1 /\ m.bytes = <<>> /\ m = Message("Have", m.words, <<>>)
  BY DEF WellFormed, Message
<1>2. /\ m.words[1] \in Nat /\ FitsWord(m.words[1]) /\ m.words = <<m.words[1]>>
      /\ FlattenSeq(WordsOf(m)) = w
  BY <1>1, OneWord
<1>3. w \in Seq(Byte) /\ Len(w) = 4 /\ big_to_native(w) = m.words[1]
  BY <1>2, WordBytes, WordBack DEF WordSize
<1>4. Id(m) = 4 /\ m.type # "KeepAlive" /\ TypeOf(4) = "Have"
  <2>1. m.type \in Types /\ MessageId["Have"] = 4
    BY TypesAre DEF MessageId
  <2> QED BY <2>1, TypeOfId DEF Id
<1>5. /\ data \in Seq(Byte) /\ data # <<>> /\ data[1] = 4
      /\ Tail(data) = FlattenSeq(WordsOf(m)) \o m.bytes
      /\ Len(data) = 1 + Len(FlattenSeq(WordsOf(m))) + Len(m.bytes)
  BY <1>4, PayloadFacts
<1>6. Tail(data) = w /\ Len(data) = 5
  BY <1>1, <1>2, <1>3, <1>5, ConcatEmptySeq, EmptySeq
<1> HIDE DEF data, w
<1>7. /\ r.valid_ /\ Len(r.fields) = 2
      /\ r.fields[2] = SubSeq(data, FieldEnds(HaveFields)[2 - 1] + 1, FieldEnds(HaveFields)[2])
      /\ r.rest = Drop(data, FieldEnds(HaveFields)[2])
  <2>1. \A k \in 1 .. Len(HaveFields) : FieldEnds(HaveFields)[k] <= Len(data)
    BY HaveEndsAre, <1>6
  <2>2. /\ r.valid_ /\ Len(r.fields) = Len(HaveFields)
        /\ \A n \in 1 .. Len(HaveFields) :
             r.fields[n] = SubSeq(data, FieldEnds(HaveFields)[n - 1] + 1, FieldEnds(HaveFields)[n])
        /\ r.rest = Drop(data, FieldEnds(HaveFields)[Len(HaveFields)])
    BY <2>1, <1>5, HaveEndsAre, ReadsAll, Zenon
  <2> HIDE DEF r
  <2>3. 2 \in 1 .. Len(HaveFields) /\ Len(HaveFields) = 2
    BY HaveEndsAre
  <2> QED BY <2>2, <2>3, Zenon
<1>8. r.rest = <<>>
  <2>1. Len(data) \in 0 .. Len(data)
    BY <1>6
  <2>2. Drop(data, Len(data)) \in Seq(Byte) /\ Len(Drop(data, Len(data))) = Len(data) - Len(data)
    BY <2>1, <1>5, CutAt, Zenon
  <2>3. Drop(data, Len(data)) = <<>>
    BY <2>2, <1>6, EmptyIffNoLength
  <2> QED BY <2>3, <1>6, <1>7, HaveEndsAre, Zenon
<1>9. Last(r.fields) = w
  <2>1. SubSeq(data, 2, Len(data)) = w
    BY <1>5, <1>6, TailIsSubSeq, Zenon
  <2>2. FieldEnds(HaveFields)[2 - 1] + 1 = 2 /\ FieldEnds(HaveFields)[2] = Len(data)
    BY HaveEndsAre, <1>6
  <2> QED BY <2>1, <2>2, <1>7, Zenon DEF Last
<1> HIDE DEF r
<1>10. finalize(r)
  BY <1>7, <1>8, Zenon DEF finalize
<1>11. MakeMessage(data) = {Message("Have", <<big_to_native(Last(r.fields))>>, <<>>)}
  BY <1>4, <1>5, <1>10 DEF MakeMessage, r
<1> QED BY <1>1, <1>2, <1>3, <1>9, <1>11, Zenon DEF data

\* The part of a sequence between two others.
LEMMA MiddlePart ==
  ASSUME NEW T, NEW a \in Seq(T), NEW b \in Seq(T), NEW c \in Seq(T), b # <<>>
  PROVE  SubSeq((a \o b) \o c, Len(a) + 1, Len(a) + Len(b)) = b
<1>1. /\ Len(a) \in Nat /\ Len(b) \in Nat /\ Len(c) \in Nat
      /\ a \o b \in Seq(T) /\ Len(a \o b) = Len(a) + Len(b)
  BY ConcatOf, SeqDomain, Zenon
<1>2. Len(b) # 0
  BY EmptyIffNoLength, Zenon
<1> DEFINE m == Len(a) + 1
           n == Len(a) + Len(b)
<1>3. /\ m \in 1 .. Len(a \o b) /\ n \in 1 .. Len(a \o b)
      /\ m \in Len(a) + 1 .. Len(a) + Len(b) /\ n \in Len(a) + 1 .. Len(a) + Len(b)
      /\ m - Len(a) = 1 /\ n - Len(a) = Len(b)
  BY <1>1, <1>2
<1> HIDE DEF m, n
<1>4. SubSeq((a \o b) \o c, m, n) = SubSeq(a \o b, m, n)
  BY <1>1, <1>3, SubSeqOfConcat1, Zenon
<1>5. SubSeq(a \o b, m, n) = SubSeq(b, m - Len(a), n - Len(a))
  BY <1>3, SubSeqOfConcat2, Zenon
<1>6. SubSeq(b, 1, Len(b)) = b
  BY SubSeqFull, Zenon
<1> QED BY <1>3, <1>4, <1>5, <1>6, Zenon DEF m, n

LEMMA PieceParsed ==
  ASSUME NEW m, WellFormed(m), m.type = "Piece"
  PROVE  MakeMessage(Payload(m)) = {m}
<1> DEFINE data == Payload(m)
           a == native_to_big(m.words[1])
           b == native_to_big(m.words[2])
           id == <<7>>
           r == Reads(data, PieceFields)
<1>1. Len(m.words) = 2 /\ m.bytes # <<>> /\ m.bytes \in Seq(Byte) /\ m = Message("Piece", m.words, m.bytes)
  BY DEF WellFormed, Message
<1>2. /\ m.words[1] \in Nat /\ FitsWord(m.words[1]) /\ m.words[2] \in Nat /\ FitsWord(m.words[2])
      /\ m.words = <<m.words[1], m.words[2]>>
      /\ FlattenSeq(WordsOf(m)) = a \o b
  BY <1>1, TwoWords, Zenon
<1>3. /\ a \in Seq(Byte) /\ Len(a) = 4 /\ big_to_native(a) = m.words[1]
      /\ b \in Seq(Byte) /\ Len(b) = 4 /\ big_to_native(b) = m.words[2]
  BY <1>2, WordBytes, WordBack DEF WordSize
<1>4. Id(m) = 7 /\ m.type # "KeepAlive" /\ TypeOf(7) = "Piece"
  <2>1. m.type \in Types /\ MessageId["Piece"] = 7
    BY TypesAre DEF MessageId
  <2> QED BY <2>1, TypeOfId DEF Id
<1>5. id \in Seq(Byte) /\ Len(id) = 1
  BY DEF Byte
<1>6. data \in Seq(Byte) /\ data[1] = 7 /\ data # <<>> /\ data = id \o ((a \o b) \o m.bytes)
  BY <1>2, <1>4, PayloadFacts, PayloadParts, Zenon
<1> HIDE DEF data, a, b, id
<1>7. /\ id \o a \in Seq(Byte) /\ Len(id \o a) = 5
      /\ (id \o a) \o b \in Seq(Byte) /\ Len((id \o a) \o b) = 9
      /\ a \o b \in Seq(Byte) /\ b \o m.bytes \in Seq(Byte)
      /\ Len(((id \o a) \o b) \o m.bytes) = 9 + Len(m.bytes)
  <2>1. id \o a \in Seq(Byte) /\ Len(id \o a) = Len(id) + Len(a)
    BY <1>3, <1>5, ConcatOf, Zenon
  <2>2. (id \o a) \o b \in Seq(Byte) /\ Len((id \o a) \o b) = Len(id \o a) + Len(b)
    BY <1>3, <2>1, ConcatOf, Zenon
  <2>3. Len(((id \o a) \o b) \o m.bytes) = Len((id \o a) \o b) + Len(m.bytes)
    <3> DEFINE p == (id \o a) \o b
    <3>1. p \in Seq(Byte)
      BY <2>2
    <3> HIDE DEF p
    <3>2. Len(p \o m.bytes) = Len(p) + Len(m.bytes)
      BY <1>1, <3>1, ConcatOf, Zenon
    <3> QED BY <3>2 DEF p
  <2>4. a \o b \in Seq(Byte) /\ b \o m.bytes \in Seq(Byte)
    BY <1>1, <1>3, ConcatOf, Zenon
  <2> QED BY <2>1, <2>2, <2>3, <2>4, <1>3, <1>5
<1>8. data = (id \o a) \o (b \o m.bytes) /\ data = ((id \o a) \o b) \o m.bytes
  <2>1. \A x, y, z \in Seq(Byte) : (x \o y) \o z = x \o (y \o z)
    BY ConcatAssociative
  <2>2. (a \o b) \o m.bytes = a \o (b \o m.bytes)
    BY <2>1, <1>1, <1>3, Zenon
  <2>3. id \o (a \o (b \o m.bytes)) = (id \o a) \o (b \o m.bytes)
    BY <2>1, <1>3, <1>5, <1>7, Zenon
  <2>4. ((id \o a) \o b) \o m.bytes = (id \o a) \o (b \o m.bytes)
    <3> DEFINE q == id \o a
    <3>1. q \in Seq(Byte)
      BY <1>7
    <3> HIDE DEF q
    <3>2. (q \o b) \o m.bytes = q \o (b \o m.bytes)
      BY <2>1, <3>1, <1>1, <1>3, Zenon
    <3> QED BY <3>2 DEF q
  <2> QED BY <2>2, <2>3, <2>4, <1>6, Zenon
<1>9. Len(m.bytes) \in Nat \ {0} /\ Len(data) = 9 + Len(m.bytes)
  BY <1>1, <1>7, <1>8, EmptySeq
<1>10. a # <<>> /\ b # <<>>
  BY <1>3, EmptySeq
<1>11. SubSeq(data, 2, 5) = a
  <2>1. SubSeq((id \o a) \o (b \o m.bytes), Len(id) + 1, Len(id) + Len(a)) = a
    BY <1>3, <1>5, <1>7, <1>10, MiddlePart, Zenon
  <2>2. Len(id) + 1 = 2 /\ Len(id) + Len(a) = 5
    BY <1>3, <1>5
  <2> QED BY <2>1, <2>2, <1>8, Zenon
<1>12. SubSeq(data, 6, 9) = b
  <2>1. SubSeq(((id \o a) \o b) \o m.bytes, Len(id \o a) + 1, Len(id \o a) + Len(b)) = b
    BY <1>1, <1>3, <1>7, <1>10, MiddlePart, Zenon
  <2>2. Len(id \o a) + 1 = 6 /\ Len(id \o a) + Len(b) = 9
    BY <1>3, <1>7
  <2> QED BY <2>1, <2>2, <1>8, Zenon
<1>13. Drop(data, 9) = m.bytes
  <2> DEFINE p == (id \o a) \o b
  <2>1. p \in Seq(Byte) /\ Len(p) = 9 /\ data = p \o m.bytes
    BY <1>7, <1>8
  <2> HIDE DEF p
  <2>2. Drop(p \o m.bytes, Len(p)) = m.bytes
    BY <2>1, <1>1, DropFront, Zenon
  <2> QED BY <2>1, <2>2, Zenon
<1>14. /\ r.valid_
       /\ r.fields[2] = SubSeq(data, FieldEnds(PieceFields)[2 - 1] + 1, FieldEnds(PieceFields)[2])
       /\ r.fields[3] = SubSeq(data, FieldEnds(PieceFields)[3 - 1] + 1, FieldEnds(PieceFields)[3])
       /\ r.rest = Drop(data, FieldEnds(PieceFields)[3])
  <2>1. \A k \in 1 .. Len(PieceFields) : FieldEnds(PieceFields)[k] <= Len(data)
    BY PieceEndsAre, <1>9
  <2>2. /\ r.valid_
        /\ \A n \in 1 .. Len(PieceFields) :
             r.fields[n] = SubSeq(data, FieldEnds(PieceFields)[n - 1] + 1, FieldEnds(PieceFields)[n])
        /\ r.rest = Drop(data, FieldEnds(PieceFields)[Len(PieceFields)])
    BY <2>1, <1>6, PieceEndsAre, ReadsAll, Zenon
  <2> HIDE DEF r
  <2>3. 2 \in 1 .. Len(PieceFields) /\ 3 \in 1 .. Len(PieceFields) /\ Len(PieceFields) = 3
    BY PieceEndsAre
  <2> QED BY <2>2, <2>3, Zenon
<1>15. r.fields[2] = a /\ r.fields[3] = b /\ r.rest = m.bytes
  <2>1. /\ FieldEnds(PieceFields)[2 - 1] + 1 = 2 /\ FieldEnds(PieceFields)[2] = 5
        /\ FieldEnds(PieceFields)[3 - 1] + 1 = 6 /\ FieldEnds(PieceFields)[3] = 9
    BY PieceEndsAre
  <2> HIDE DEF r
  <2> QED BY <2>1, <1>11, <1>12, <1>13, <1>14, Zenon
<1>16. get_remaining(r) \notin {0, -1}
  <2> HIDE DEF r
  <2>1. get_remaining(r) = Len(m.bytes)
    BY <1>14, <1>15, Zenon DEF get_remaining
  <2> QED BY <2>1, <1>9
<1> HIDE DEF r
<1>17. MakeMessage(data) =
         {Message("Piece", <<big_to_native(r.fields[2]), big_to_native(r.fields[3])>>, r.rest)}
  BY <1>4, <1>6, <1>16 DEF MakeMessage, r
<1> QED BY <1>1, <1>2, <1>3, <1>15, <1>17, Zenon DEF data

\* The bytes of every well-formed message are read as that message, whatever
\* its numbers and its data (MakeMessage and the ParseNetwork it calls).
THEOREM WellFormedParsed ==
  ASSUME NEW m, WellFormed(m), m.type # "KeepAlive"
  PROVE  MakeMessage(Payload(m)) = {Parsed(m)}
<1> DEFINE data == Payload(m)
<1>1. m.type # "malformed" /\ m = Message(m.type, m.words, m.bytes)
  BY DEF WellFormed
<1>2. /\ data[1] = Id(m) /\ data \in Seq(Byte) /\ data # <<>>
      /\ Tail(data) = FlattenSeq(WordsOf(m)) \o m.bytes
  BY PayloadFacts, Zenon
<1>3. CASE m.type = "Have"
  BY <1>3, HaveParsed DEF Parsed
<1>4. CASE m.type = "Piece"
  BY <1>4, PieceParsed DEF Parsed
<1>5. CASE m.type = "Bitfield"
  <2>1. Id(m) = 5 /\ TypeOf(5) = "Bitfield"
    <3>1. m.type \in Types /\ MessageId["Bitfield"] = 5
      BY <1>5, TypesAre DEF MessageId
    <3> QED BY <3>1, <1>5, TypeOfId DEF Id
  <2>2. m.words = <<>> /\ m.bytes \in Seq(Byte)
    BY <1>5 DEF WellFormed
  <2>3. Tail(data) = m.bytes
    <3>1. WordsOf(m) = <<>>
      <4>1. WordsOf(m) \in Seq(Seq(Byte)) /\ Len(WordsOf(m)) = 0
        BY <2>2, PayloadParts
      <4> QED BY <4>1, EmptyIffNoLength, Zenon
    <3>2. FlattenSeq(WordsOf(m)) = <<>>
      BY <3>1, FlattenEmpty, Zenon
    <3> QED BY <3>2, <1>2, <2>2, ConcatEmptySeq, Zenon
  <2> HIDE DEF data
  <2>4. MakeMessage(data) = {Message("Bitfield", <<>>, Tail(data))}
    BY <2>1, <1>2 DEF MakeMessage
  <2> QED BY <2>2, <2>3, <2>4, <1>1, <1>5 DEF Parsed, data
<1>6. CASE m.type \notin {"Have", "Piece", "Bitfield"}
  <2>1. TypeOf(Id(m)) = IF m.type \in Types THEN m.type ELSE "Unknown"
    BY TypeOfId DEF Id
  <2>2. "Unknown" \notin {"Have", "Piece", "Bitfield"}
    OBVIOUS
  <2> HIDE DEF data
  <2>3. MakeMessage(data) = {Message(TypeOf(Id(m)), <<>>, <<>>)}
    BY <2>1, <2>2, <1>2, <1>6 DEF MakeMessage
  <2> QED BY <2>1, <2>3, <1>1, <1>6 DEF Parsed, data
<1> QED BY <1>3, <1>4, <1>5, <1>6

\* A Have, or a Piece, of another size is not taken for a message.
THEOREM IllFormedNotParsed ==
  ASSUME NEW data, IllFormed(data)
  PROVE  MakeMessage(data) = {}
<1>1. data \in Seq(Byte) /\ data # <<>> /\ Len(data) \in Nat
  BY DEF IllFormed
<1>2. MessageId.Have = 4 /\ MessageId.Piece = 7 /\ TypeOf(4) = "Have" /\ TypeOf(7) = "Piece"
  <2>1. MessageId["Have"] = 4 /\ MessageId["Piece"] = 7 /\ "Have" \in Types /\ "Piece" \in Types
    BY TypesAre DEF MessageId
  <2> QED BY <2>1, TypeOfId
<1>3. CASE data[1] = 4 /\ Len(data) # 5
  <2> DEFINE r == Reads(data, HaveFields)
  <2>1. /\ r.valid_ <=> 5 <= Len(data)
        /\ r.rest = Drop(data, 5)
    <3> HIDE DEF r
    <3> QED BY <1>1, HaveEndsAre, ReadsRest, Zenon DEF r
  <2>2. ASSUME 5 <= Len(data) PROVE Drop(data, 5) # <<>>
    <3>1. 5 \in 0 .. Len(data)
      BY <2>2, <1>1
    <3>2. Drop(data, 5) \in Seq(Byte) /\ Len(Drop(data, 5)) = Len(data) - 5
      BY <3>1, <1>1, CutAt, Zenon
    <3>3. Len(data) - 5 # 0
      BY <1>1, <1>3
    <3> QED BY <3>2, <3>3, EmptyIffNoLength, Zenon
  <2> HIDE DEF r
  <2>3. ~finalize(r)
    BY <2>1, <2>2, Zenon DEF finalize
  <2> QED BY <2>3, <1>2, <1>3 DEF MakeMessage, r
<1>4. CASE data[1] = 7 /\ Len(data) <= 9
  <2> DEFINE r == Reads(data, PieceFields)
  <2>1. /\ r.valid_ <=> 9 <= Len(data)
        /\ r.rest = Drop(data, 9)
    BY <1>1, PieceEndsAre, ReadsRest, Zenon
  <2>2. ASSUME 9 <= Len(data) PROVE Len(Drop(data, 9)) = 0
    <3>1. 9 \in 0 .. Len(data)
      BY <2>2, <1>1
    <3>2. Len(Drop(data, 9)) = Len(data) - 9
      BY <3>1, <1>1, CutAt, Zenon
    <3> QED BY <3>2, <2>2, <1>1, <1>4
  <2> HIDE DEF r
  <2>3. get_remaining(r) = 0 \/ get_remaining(r) = -1
    BY <2>1, <2>2, Zenon DEF get_remaining
  <2> QED BY <2>3, <1>2, <1>4 DEF MakeMessage, r
<1> QED BY <1>2, <1>3, <1>4 DEF IllFormed, WordSize

-----------------------------------------------------------------------------
(* Handshakes.                                                             *)

LEMMA FillIs ==
  ASSUME NEW b \in Byte, NEW n \in Nat
  PROVE  /\ Fill(b, n) \in Seq(Byte) /\ Len(Fill(b, n)) = n
         /\ \A k \in 1 .. n : Fill(b, n)[k] = b
BY DEF Fill

LEMMA ProtocolIs ==
  /\ k_protocol \in Seq(Byte) /\ Len(k_protocol) = 19
  /\ k_protocol[1] = 66 /\ k_protocol[2] = 105
BY DEF k_protocol, Byte

LEMMA SizesAre ==
  HandshakeSize = 68 /\ ReservedSize = 8 /\ HashSize = 20 /\ PeerIdSize = 20
BY ProtocolIs DEF HandshakeSize, ReservedSize, HashSize, PeerIdSize

\* Five parts, put together from either end.
PartsJoined(T, a, b, c, d, e) ==
  /\ (a \o b) \o c \in Seq(T) /\ Len((a \o b) \o c) = Len(a) + Len(b) + Len(c)
  /\ c \o (d \o e) \in Seq(T) /\ b \o (c \o (d \o e)) \in Seq(T)
  /\ (((a \o b) \o c) \o d) \o e \in Seq(T)
  /\ Len((((a \o b) \o c) \o d) \o e) = Len(a) + Len(b) + Len(c) + Len(d) + Len(e)
  /\ (((a \o b) \o c) \o d) \o e = (a \o b) \o (c \o (d \o e))
  /\ (((a \o b) \o c) \o d) \o e = a \o (b \o (c \o (d \o e)))

LEMMA FivePartsJoined ==
  ASSUME NEW T, NEW a \in Seq(T), NEW b \in Seq(T), NEW c \in Seq(T), NEW d \in Seq(T), NEW e \in Seq(T)
  PROVE  PartsJoined(T, a, b, c, d, e)
<1> DEFINE ab == a \o b
           abc == ab \o c
           abcd == abc \o d
           de == d \o e
           cde == c \o de
<1>1. ab \in Seq(T) /\ Len(ab) = Len(a) + Len(b)
  BY ConcatOf, Zenon
<1>2. de \in Seq(T)
  BY ConcatOf, Zenon
<1> HIDE DEF ab, de
<1>3. abc \in Seq(T) /\ Len(abc) = Len(ab) + Len(c)
  BY <1>1, ConcatOf, Zenon
<1>4. cde \in Seq(T)
  BY <1>2, ConcatOf, Zenon
<1> HIDE DEF abc, cde
<1>5. abcd \in Seq(T) /\ Len(abcd) = Len(abc) + Len(d)
  BY <1>3, ConcatOf, Zenon
<1>6. b \o cde \in Seq(T)
  BY <1>4, ConcatOf, Zenon
<1> HIDE DEF abcd
<1>7. abcd \o e \in Seq(T) /\ Len(abcd \o e) = Len(abcd) + Len(e)
  BY <1>5, ConcatOf, Zenon
<1>8. (abc \o d) \o e = abc \o (d \o e)
  <2>1. Associates(abc, d, e)
    BY <1>3, Assoc, Zenon
  <2> QED BY <2>1 DEF Associates
<1>9. (ab \o c) \o de = ab \o (c \o de)
  <2>1. Associates(ab, c, de)
    BY <1>1, <1>2, Assoc, Zenon
  <2> QED BY <2>1 DEF Associates
<1>10. (a \o b) \o cde = a \o (b \o cde)
  <2>1. Associates(a, b, cde)
    BY <1>4, Assoc, Zenon
  <2> QED BY <2>1 DEF Associates
<1>11. abcd \o e = ab \o cde
  BY <1>8, <1>9, Zenon DEF abcd, abc, cde, de
<1>12. abcd \o e = a \o (b \o cde)
  BY <1>10, <1>11, Zenon DEF ab
<1>13. /\ Len(abc) = Len(a) + Len(b) + Len(c)
       /\ Len(abcd \o e) = Len(a) + Len(b) + Len(c) + Len(d) + Len(e)
  <2>1. Len(a) \in Nat /\ Len(b) \in Nat /\ Len(c) \in Nat /\ Len(d) \in Nat /\ Len(e) \in Nat
    BY SeqDomain, Zenon
  <2> DEFINE l == Len(abcd \o e)
  <2>2. l = Len(abcd) + Len(e)
    BY <1>7
  <2> HIDE DEF l
  <2>3. l = Len(a) + Len(b) + Len(c) + Len(d) + Len(e)
    BY <2>1, <2>2, <1>1, <1>3, <1>5
  <2>4. Len(abc) = Len(a) + Len(b) + Len(c)
    BY <2>1, <1>1, <1>3
  <2> QED BY <2>3, <2>4 DEF l
<1> QED BY <1>3, <1>4, <1>6, <1>7, <1>11, <1>12, <1>13, Zenon DEF abcd, abc, ab, cde, de, PartsJoined

\* Where they are.
PartsAt(all, a, b, d, n) ==
  /\ SubSeq(all, 1, Len(a)) = a
  /\ Len(a) # 0 => all[1] = a[1]
  /\ b # <<>> => SubSeq(all, Len(a) + 1, Len(a) + Len(b)) = b
  /\ d # <<>> => SubSeq(all, n + 1, n + Len(d)) = d

LEMMA FiveParts ==
  ASSUME NEW T, NEW a \in Seq(T), NEW b \in Seq(T), NEW c \in Seq(T), NEW d \in Seq(T), NEW e \in Seq(T)
  PROVE  PartsAt((((a \o b) \o c) \o d) \o e, a, b, d, Len(a) + Len(b) + Len(c))
<1> DEFINE abc == (a \o b) \o c
           cde == c \o (d \o e)
           bcde == b \o cde
           all == (abc \o d) \o e
           n == Len(a) + Len(b) + Len(c)
<1>0. PartsJoined(T, a, b, c, d, e)
  BY FivePartsJoined, Zenon
<1>1. abc \in Seq(T) /\ Len(abc) = n /\ cde \in Seq(T) /\ bcde \in Seq(T)
  BY <1>0, Zenon DEF PartsJoined
<1>2. all = (a \o b) \o cde /\ all = a \o bcde
  BY <1>0, Zenon DEF PartsJoined
<1> HIDE DEF n, abc, cde, bcde
<1>3. SubSeq(all, 1, Len(a)) = a
  <2>1. SubSeq(a \o bcde, 1, Len(a)) = a
    BY <1>1, DropFront, Zenon
  <2> HIDE DEF all
  <2> QED BY <1>2, <2>1
<1>4. ASSUME Len(a) # 0 PROVE all[1] = a[1]
  <2>1. (a \o bcde)[1] = a[1]
    BY <1>1, <1>4, ConcatFirst
  <2> HIDE DEF all
  <2> QED BY <1>2, <2>1
<1>5. ASSUME b # <<>> PROVE SubSeq(all, Len(a) + 1, Len(a) + Len(b)) = b
  <2>1. SubSeq((a \o b) \o cde, Len(a) + 1, Len(a) + Len(b)) = b
    BY <1>1, <1>5, MiddlePart
  <2> HIDE DEF all
  <2> QED BY <1>2, <2>1
<1>6. ASSUME d # <<>> PROVE SubSeq(all, n + 1, n + Len(d)) = d
  <2>1. SubSeq((abc \o d) \o e, Len(abc) + 1, Len(abc) + Len(d)) = d
    BY <1>1, <1>6, MiddlePart
  <2> QED BY <2>1, <1>1
<1>7. PartsAt(all, a, b, d, n)
  <2> HIDE DEF all
  <2> QED BY <1>3, <1>4, <1>5, <1>6 DEF PartsAt
<1> QED BY <1>7 DEF n, all, abc

\* The bytes of a handshake.
IsHandshake(data, p, hash) ==
  /\ data \in Seq(Byte) /\ Len(data) = Len(p) + 49 /\ data[1] = Len(p)
  /\ SubSeq(data, 1, 1) = <<Len(p)>>
  /\ SubSeq(data, 2, Len(p) + 1) = p
  /\ SubSeq(data, Len(p) + 10, Len(p) + 29) = Fill(hash, HashSize)

LEMMA SerializeHandshakeIs ==
  ASSUME NEW p \in Seq(Byte), Len(p) # 0, Len(p) \in Byte, NEW reserved \in Byte, NEW hash \in Byte
  PROVE  IsHandshake(SerializeHandshake(p, reserved, hash), p, hash)
<1> DEFINE a == <<Len(p)>>
           c == Fill(reserved, ReservedSize)
           d == Fill(hash, HashSize)
           e == Fill(PeerId, PeerIdSize)
           n == Len(a) + Len(p) + Len(c)
           data == (((a \o p) \o c) \o d) \o e
<1>1. a \in Seq(Byte) /\ Len(a) = 1 /\ a[1] = Len(p)
  OBVIOUS
<1>2. /\ c \in Seq(Byte) /\ Len(c) = ReservedSize
      /\ d \in Seq(Byte) /\ Len(d) = HashSize
      /\ e \in Seq(Byte) /\ Len(e) = PeerIdSize
  <2>1. PeerId \in Byte
    BY DEF PeerId, Byte
  <2>2. ReservedSize \in Nat /\ HashSize \in Nat /\ PeerIdSize \in Nat
    BY SizesAre
  <2> QED BY <2>1, <2>2, FillIs, Zenon
<1>3. Len(c) = 8 /\ Len(d) = 20 /\ Len(e) = 20
  BY <1>2, SizesAre
<1>5. Len(p) \in Nat
  BY SeqDomain, Zenon
<1>6. SerializeHandshake(p, reserved, hash) = data
  BY Zenon DEF SerializeHandshake
<1> HIDE DEF a, c, d, e
<1>7. Len(a) # 0 /\ Len(d) # 0
  BY <1>1, <1>3
<1>8. /\ data \in Seq(Byte) /\ Len(data) = n + Len(d) + Len(e)
      /\ data[1] = a[1] /\ SubSeq(data, 1, Len(a)) = a
      /\ SubSeq(data, Len(a) + 1, Len(a) + Len(p)) = p
      /\ SubSeq(data, n + 1, n + Len(d)) = d
  <2>1. a \in Seq(Byte) /\ c \in Seq(Byte) /\ d \in Seq(Byte) /\ e \in Seq(Byte)
    BY <1>1, <1>2
  <2>2. PartsAt(data, a, p, d, n)
    BY <2>1, FiveParts, Zenon
  <2>3. data \in Seq(Byte) /\ Len(data) = n + Len(d) + Len(e)
    <3>1. PartsJoined(Byte, a, p, c, d, e)
      BY <2>1, FivePartsJoined, Zenon
    <3> QED BY <3>1, Zenon DEF PartsJoined
  <2> HIDE DEF data, n
  <2>4. p # <<>> /\ d # <<>>
    <3>1. (p = <<>> <=> Len(p) = 0) /\ (d = <<>> <=> Len(d) = 0)
      BY <2>1, EmptyIffNoLength, Zenon
    <3> QED BY <3>1, <1>7
  <2> QED BY <2>2, <2>3, <2>4, <1>7, Zenon DEF PartsAt
<1>9. /\ n + Len(d) + Len(e) = Len(p) + 49 /\ n + 1 = Len(p) + 10 /\ n + Len(d) = Len(p) + 29
      /\ Len(a) + 1 = 2 /\ Len(a) + Len(p) = Len(p) + 1
  BY <1>1, <1>3, <1>5
<1> HIDE DEF data, n
<1>10. /\ Len(data) = Len(p) + 49 /\ data[1] = Len(p) /\ SubSeq(data, 1, 1) = a
       /\ SubSeq(data, 2, Len(p) + 1) = p
       /\ SubSeq(data, Len(p) + 10, Len(p) + 29) = d
  BY <1>1, <1>8, <1>9
<1> QED BY <1>6, <1>8, <1>10, Zenon DEF a, d, IsHandshake

HandshakeSizes(size) == <<1, size, ReservedSize, HashSize, PeerIdSize>>

LEMMA HandshakeEndsAre ==
  ASSUME NEW l \in Nat
  PROVE  /\ HandshakeSizes(l) \in Seq(Nat) /\ HandshakeSizes(l) # <<>> /\ Len(HandshakeSizes(l)) = 5
         /\ FieldEnds(HandshakeSizes(l))[0] = 0 /\ FieldEnds(HandshakeSizes(l))[1] = 1
         /\ FieldEnds(HandshakeSizes(l))[2] = l + 1 /\ FieldEnds(HandshakeSizes(l))[3] = l + 9
         /\ FieldEnds(HandshakeSizes(l))[4] = l + 29 /\ FieldEnds(HandshakeSizes(l))[5] = l + 49
<1> DEFINE sizes == HandshakeSizes(l)
           end == FieldEnds(sizes)
<1>1. /\ sizes \in Seq(Nat) /\ sizes # <<>> /\ Len(sizes) = 5
      /\ sizes[1] = 1 /\ sizes[2] = l /\ sizes[3] = 8 /\ sizes[4] = 20 /\ sizes[5] = 20
  BY SizesAre DEF HandshakeSizes
<1> HIDE DEF sizes
<1>2. end[0] = 0 /\ \A k \in 1 .. 5 : end[k] = end[k - 1] + sizes[k]
  <2>1. Len(sizes) \in Nat
    BY <1>1
  <2>2. end[0] = 0 /\ \A k \in 1 .. Len(sizes) : end[k] = end[k - 1] + sizes[k]
    BY <2>1, FieldEndsAre, Zenon
  <2> HIDE DEF end
  <2> QED BY <2>2, <1>1
<1> HIDE DEF end
<1>3. end[1] = 1
  BY <1>1, <1>2
<1>4. end[2] = l + 1
  BY <1>1, <1>2, <1>3
<1>5. end[3] = l + 9
  BY <1>1, <1>2, <1>4
<1>6. end[4] = l + 29
  BY <1>1, <1>2, <1>5
<1>7. end[5] = l + 49
  BY <1>1, <1>2, <1>6
<1> QED BY <1>1, <1>2, <1>3, <1>4, <1>5, <1>6, <1>7 DEF end, sizes

\* The parts of a handshake with a name of the right length are found.
IsParsed(r, p, hash) ==
  /\ finalize(r)
  /\ r.fields[1] = <<Len(p)>> /\ r.fields[2] = p /\ r.fields[4] = Fill(hash, HashSize)

\* What is parsed of a handshake whose protocol has the right length.
LEMMA HandshakeParsed ==
  ASSUME NEW p \in Seq(Byte), Len(p) = Len(k_protocol), NEW data, NEW hash, IsHandshake(data, p, hash)
  PROVE  IsParsed(ParseHandshake(SubSeq(data, 1, HandshakeSize)), p, hash)
<1> DEFINE sizes == HandshakeSizes(Len(p))
           end == FieldEnds(sizes)
           r == Reads(data, sizes)
<1>1. Len(p) = 19 /\ HandshakeSize = 68
  BY ProtocolIs, SizesAre
<1>2. /\ data \in Seq(Byte) /\ Len(data) = 68 /\ data[1] = Len(p)
      /\ SubSeq(data, 1, 1) = <<Len(p)>> /\ SubSeq(data, 2, 20) = p
      /\ SubSeq(data, 29, 48) = Fill(hash, HashSize)
  BY <1>1 DEF IsHandshake
<1>3. SubSeq(data, 1, HandshakeSize) = data
  <2>1. HandshakeSize = Len(data) /\ data \in Seq(Byte)
    BY <1>1, <1>2
  <2> QED BY <2>1, SubSeqFull, Zenon
<1>4. ParseHandshake(SubSeq(data, 1, HandshakeSize)) = r
  BY <1>2, <1>3, Zenon DEF ParseHandshake, HandshakeSizes
<1>5. /\ sizes \in Seq(Nat) /\ sizes # <<>> /\ Len(sizes) = 5
      /\ end[0] = 0 /\ end[1] = 1 /\ end[2] = 20 /\ end[3] = 28 /\ end[4] = 48 /\ end[5] = 68
  <2>1. Len(p) \in Nat
    BY <1>1
  <2>2. /\ sizes \in Seq(Nat) /\ sizes # <<>> /\ Len(sizes) = 5
        /\ end[0] = 0 /\ end[1] = 1 /\ end[2] = Len(p) + 1 /\ end[3] = Len(p) + 9
        /\ end[4] = Len(p) + 29 /\ end[5] = Len(p) + 49
    BY <2>1, HandshakeEndsAre
  <2> HIDE DEF sizes, end
  <2> QED BY <2>2, <1>1
<1>6. data # <<>>
  <2>1. data = <<>> <=> Len(data) = 0
    BY <1>2, EmptyIffNoLength
  <2> QED BY <2>1, <1>2
<1> HIDE DEF sizes
<1>7. \A k \in 1 .. Len(sizes) : end[k] <= Len(data)
  <2> SUFFICES ASSUME NEW k \in 1 .. Len(sizes) PROVE end[k] <= Len(data)
    OBVIOUS
  <2> HIDE DEF end
  <2>1. k = 1 \/ k = 2 \/ k = 3 \/ k = 4 \/ k = 5
    BY <1>5
  <2>2. Len(data) = 68
    BY <1>2, Zenon
  <2> DEFINE D == {1, 20, 28, 48, 68}
  <2>3. end[1] \in D /\ end[2] \in D /\ end[3] \in D /\ end[4] \in D /\ end[5] \in D
    BY <1>5
  <2>4. \A e \in D : e <= Len(data)
    BY <2>2
  <2> HIDE DEF D
  <2>5. end[k] \in D
    BY <2>1, <2>3, Zenon
  <2> QED BY <2>4, <2>5, Zenon
<1>8. /\ r.valid_
      /\ \A n \in 1 .. Len(sizes) : r.fields[n] = SubSeq(data, end[n - 1] + 1, end[n])
      /\ r.rest = Drop(data, end[Len(sizes)])
  BY <1>5, <1>6, <1>7, ReadsAll, Zenon
<1> HIDE DEF end, r
<1>9. /\ r.fields[1] = SubSeq(data, end[1 - 1] + 1, end[1])
      /\ r.fields[2] = SubSeq(data, end[2 - 1] + 1, end[2])
      /\ r.fields[4] = SubSeq(data, end[4 - 1] + 1, end[4])
  <2>1. 1 \in 1 .. Len(sizes) /\ 2 \in 1 .. Len(sizes) /\ 4 \in 1 .. Len(sizes)
    BY <1>5
  <2> QED BY <2>1, <1>8, Zenon
<1>10. r.fields[1] = <<Len(p)>> /\ r.fields[2] = p /\ r.fields[4] = Fill(hash, HashSize)
  <2>1. end[1 - 1] + 1 = 1 /\ end[2 - 1] + 1 = 2 /\ end[4 - 1] + 1 = 29
    BY <1>5
  <2>2. end[1] = 1 /\ end[2] = 20 /\ end[4] = 48
    BY <1>5
  <2> QED BY <2>1, <2>2, <1>2, <1>9
<1>11. r.rest = <<>>
  <2>1. Len(data) \in 0 .. Len(data) /\ Len(data) - Len(data) = 0 /\ data \in Seq(Byte)
    BY <1>2
  <2>2. Drop(data, Len(data)) \in Seq(Byte) /\ Len(Drop(data, Len(data))) = Len(data) - Len(data)
    BY <2>1, CutAt, Zenon
  <2>3. Drop(data, Len(data)) = <<>>
    BY <2>1, <2>2, EmptyIffNoLength, Zenon
  <2>4. end[Len(sizes)] = Len(data)
    BY <1>2, <1>5
  <2> QED BY <2>3, <2>4, <1>8, Zenon
<1>12. IsParsed(r, p, hash)
  BY <1>8, <1>10, <1>11, Zenon DEF finalize, IsParsed
<1> QED BY <1>4, <1>12, Zenon

Accepted(data) ==
  LET parsed == ParseHandshake(SubSeq(data, 1, HandshakeSize))
  IN finalize(parsed) /\ IsValidHandshakeResponse(parsed.fields)

\* Of two handshakes of the right length only that with the protocol and the
\* hash is taken.
LEMMA AcceptedIff ==
  ASSUME NEW p \in Seq(Byte), Len(p) = Len(k_protocol), NEW data, NEW hash, IsHandshake(data, p, hash)
  PROVE  Accepted(data) <=> p = k_protocol /\ Fill(hash, HashSize) = Fill(TorrentHash, HashSize)
<1> DEFINE r == ParseHandshake(SubSeq(data, 1, HandshakeSize))
<1>1. IsParsed(r, p, hash)
  BY HandshakeParsed, Zenon
<1>2. Accepted(data) <=> finalize(r) /\ IsValidHandshakeResponse(r.fields)
  BY Zenon DEF Accepted
<1> HIDE DEF r
<1>3. /\ finalize(r)
      /\ r.fields[1] = <<Len(k_protocol)>> /\ r.fields[2] = p /\ r.fields[4] = Fill(hash, HashSize)
  BY <1>1, Zenon DEF IsParsed
<1> QED BY <1>2, <1>3, Zenon DEF IsValidHandshakeResponse

\* A name that is longer is not taken, whatever the rest.
LEMMA LongerNotAccepted ==
  ASSUME NEW p \in Seq(Byte), Len(p) = 1 + Len(k_protocol), NEW data, NEW hash, IsHandshake(data, p, hash)
  PROVE  ~Accepted(data)
<1> DEFINE buffer == SubSeq(data, 1, HandshakeSize)
           sizes == HandshakeSizes(buffer[1])
           end == FieldEnds(sizes)
           r == Reads(buffer, sizes)
<1>1. Len(p) = 20 /\ HandshakeSize = 68
  BY ProtocolIs, SizesAre
<1>2. data \in Seq(Byte) /\ Len(data) = 69 /\ data[1] = 20
  <2>1. data \in Seq(Byte) /\ Len(data) = Len(p) + 49 /\ data[1] = Len(p)
    BY Zenon DEF IsHandshake
  <2> QED BY <1>1, <2>1
<1>3. buffer \in Seq(Byte) /\ Len(buffer) = 68 /\ buffer[1] = 20
  <2>1. HandshakeSize \in 0 .. Len(data)
    BY <1>1, <1>2
  <2>2. /\ buffer \in Seq(Byte) /\ Len(buffer) = HandshakeSize
        /\ Drop(data, HandshakeSize) \in Seq(Byte)
        /\ buffer \o Drop(data, HandshakeSize) = data
    <3>1. data \in Seq(Byte)
      BY <1>2
    <3> QED BY <2>1, <3>1, CutAt
  <2> HIDE DEF buffer
  <2>3. (buffer \o Drop(data, HandshakeSize))[1] = buffer[1]
    <3>1. Len(buffer) # 0
      BY <2>2, <1>1
    <3> QED BY <3>1, <2>2, ConcatFirst
  <2> QED BY <2>2, <2>3, <1>1, <1>2
<1> HIDE DEF buffer
<1>4. DOMAIN sizes = 1 .. 5 /\ end[0] = 0 /\ end[1] = 1
  <2>1. buffer[1] \in Nat
    BY <1>3
  <2>2. DOMAIN sizes = 1 .. 5
    BY DEF HandshakeSizes
  <2> QED BY <2>1, <2>2, HandshakeEndsAre
<1>5. r.fields = Fields(buffer, sizes)
  <2>1. buffer # <<>>
    <3>1. buffer \in Seq(Byte)
      BY <1>3, Zenon
    <3>2. buffer = <<>> <=> Len(buffer) = 0
      BY <3>1, EmptyIffNoLength, Zenon
    <3> QED BY <3>2, <1>3
  <2> QED BY <2>1, ReadsRest, Zenon
<1>6. Accepted(data) => IsValidHandshakeResponse(r.fields)
  BY Zenon DEF Accepted, ParseHandshake, HandshakeSizes, buffer
<1> HIDE DEF sizes, r
<1>7. Fields(buffer, sizes)[1] = SubSeq(buffer, end[1 - 1] + 1, end[1])
  <2> DEFINE fits == {k \in DOMAIN sizes : end[k] <= Len(buffer)}
  <2>1. Fields(buffer, sizes) = [n \in fits |-> SubSeq(buffer, end[n - 1] + 1, end[n])]
    BY Zenon DEF Fields
  <2>2. 1 \in fits
    <3> HIDE DEF end
    <3> QED BY <1>3, <1>4
  <2> HIDE DEF fits
  <2> QED BY <2>1, <2>2, Zenon
<1> HIDE DEF end
<1>8. r.fields[1][1] = 20
  <2>1. SubSeq(buffer, 1, 1)[1] = 20
    BY <1>3
  <2>2. end[1 - 1] + 1 = 1 /\ end[1] = 1
    BY <1>4
  <2>3. r.fields[1] = SubSeq(buffer, 1, 1)
    BY <2>2, <1>5, <1>7
  <2> QED BY <2>1, <2>3
<1>9. r.fields[1] # <<Len(k_protocol)>>
  <2>1. <<Len(k_protocol)>>[1] = 19
    BY ProtocolIs
  <2> DEFINE f == r.fields[1]
  <2>2. f[1] = 20
    BY <1>8
  <2> DEFINE g == <<Len(k_protocol)>>
  <2> HIDE DEF f, g
  <2>3. f # g
    <3>1. g[1] = 19
      BY <2>1 DEF g
    <3> QED BY <3>1, <2>2
  <2> QED BY <2>3, Zenon DEF f, g
<1> QED BY <1>6, <1>9, Zenon DEF IsValidHandshakeResponse

\* Of the handshakes only that of a peer of this torrent is taken
\* (IsValidHandshakeResponse), although it may have other extensions.
THEOREM ValidHandshakesAre ==
  ValidHandshakes = {"torrent"} /\ "torrent" \in Handshakes /\ NoHandshake \notin Handshakes
<1>1. /\ Handshakes = {"torrent", "other_torrent", "other_protocol", "longer_protocol"}
      /\ Handshake["torrent"] = SerializeHandshake(k_protocol, 16, TorrentHash)
      /\ Handshake["other_torrent"] = SerializeHandshake(k_protocol, 0, TorrentHash + 1)
      /\ Handshake["other_protocol"] = SerializeHandshake(Tail(k_protocol) \o <<0>>, 0, TorrentHash)
      /\ Handshake["longer_protocol"] = SerializeHandshake(k_protocol \o <<0>>, 0, TorrentHash)
  BY DEF Handshakes, Handshake
<1>2. /\ 0 \in Byte /\ 16 \in Byte /\ TorrentHash \in Byte /\ TorrentHash + 1 \in Byte
      /\ TorrentHash + 1 # TorrentHash /\ <<0>> \in Seq(Byte) /\ Len(<<0>>) = 1
      /\ 19 \in Byte /\ 20 \in Byte
  BY DEF Byte, TorrentHash
<1>3. k_protocol \in Seq(Byte) /\ Len(k_protocol) = 19 /\ k_protocol[1] = 66 /\ k_protocol[2] = 105
  BY ProtocolIs
<1>4. Accepted(Handshake["torrent"])
  <2> DEFINE data == SerializeHandshake(k_protocol, 16, TorrentHash)
  <2>1. IsHandshake(data, k_protocol, TorrentHash)
    <3>1. Len(k_protocol) # 0 /\ Len(k_protocol) \in Byte
      BY <1>2, <1>3
    <3> QED BY <3>1, <1>2, <1>3, SerializeHandshakeIs
  <2> HIDE DEF data
  <2>2. Accepted(data)
    BY <2>1, <1>3, AcceptedIff
  <2> QED BY <1>1, <2>2 DEF data
<1>5. ~Accepted(Handshake["other_torrent"])
  <2> DEFINE hash == TorrentHash + 1
             data == SerializeHandshake(k_protocol, 0, hash)
  <2>1. hash \in Byte /\ Fill(hash, HashSize)[1] = hash /\ hash # TorrentHash
        /\ Fill(TorrentHash, HashSize)[1] = TorrentHash
    BY <1>2, SizesAre DEF Fill
  <2> HIDE DEF hash
  <2>2. IsHandshake(data, k_protocol, hash)
    <3>1. Len(k_protocol) # 0 /\ Len(k_protocol) \in Byte
      BY <1>2, <1>3
    <3> QED BY <3>1, <2>1, <1>2, <1>3, SerializeHandshakeIs
  <2> HIDE DEF data
  <2>3. Fill(hash, HashSize) # Fill(TorrentHash, HashSize)
    BY <2>1
  <2>4. ~Accepted(data)
    BY <2>2, <2>3, <1>3, AcceptedIff
  <2> QED BY <1>1, <2>4 DEF data, hash
<1>6. ~Accepted(Handshake["other_protocol"])
  <2> DEFINE t == Tail(k_protocol)
             z == <<0>>
             p == t \o z
             data == SerializeHandshake(p, 0, TorrentHash)
  <2>1. t \in Seq(Byte) /\ Len(t) = 18 /\ t[1] = 105
    <3>0. k_protocol = <<>> <=> Len(k_protocol) = 0
      <4>1. k_protocol \in Seq(Byte)
        BY <1>3, Zenon
      <4> QED BY <4>1, EmptyIffNoLength, Zenon
    <3>1. k_protocol # <<>>
      BY <3>0, <1>3
    <3>2. /\ t \in Seq(Byte) /\ Len(t) = Len(k_protocol) - 1
          /\ \A i \in 1 .. Len(t) : t[i] = k_protocol[i + 1]
      BY <3>1, <1>3, HeadTailProperties
    <3> HIDE DEF t
    <3>3. Len(t) = 18 /\ 1 \in 1 .. Len(t)
      BY <3>2, <1>3
    <3>4. t[1] = k_protocol[1 + 1]
      BY <3>2, <3>3
    <3> QED BY <3>2, <3>3, <3>4, <1>3
  <2>2. z \in Seq(Byte) /\ Len(z) = 1
    BY <1>2
  <2> HIDE DEF t, z
  <2>3. p \in Seq(Byte) /\ Len(p) = 19 /\ p[1] = 105
    <3>1. t \in Seq(Byte) /\ z \in Seq(Byte)
      BY <2>1, <2>2, Zenon
    <3>2. p \in Seq(Byte) /\ Joins(t, z)
      BY <3>1, Joining, Zenon
    <3>3. Len(p) = Len(t) + Len(z) /\ (Len(t) # 0 => p[1] = t[1])
      BY <3>2, Zenon DEF Joins
    <3> HIDE DEF p
    <3> QED BY <3>2, <3>3, <2>1, <2>2
  <2> HIDE DEF p
  <2>4. IsHandshake(data, p, TorrentHash)
    <3>1. Len(p) # 0 /\ Len(p) \in Byte /\ 0 \in Byte /\ TorrentHash \in Byte
      BY <1>2, <2>3
    <3>2. p \in Seq(Byte)
      BY <2>3
    <3> QED BY <3>1, <3>2, SerializeHandshakeIs, Zenon
  <2> HIDE DEF data
  <2>5. p # k_protocol /\ Len(p) = Len(k_protocol)
    BY <2>3, <1>3
  <2>6. ~Accepted(data)
    BY <2>3, <2>4, <2>5, AcceptedIff
  <2> QED BY <2>6, <1>1 DEF data, p, t, z
<1>7. ~Accepted(Handshake["longer_protocol"])
  <2> DEFINE z == <<0>>
             p == k_protocol \o z
             data == SerializeHandshake(p, 0, TorrentHash)
  <2>1. z \in Seq(Byte) /\ Len(z) = 1
    BY <1>2
  <2> HIDE DEF z
  <2>2. p \in Seq(Byte) /\ Len(p) = 20 /\ Len(p) = 1 + Len(k_protocol)
    <3>1. k_protocol \in Seq(Byte) /\ z \in Seq(Byte)
      BY <1>3, <2>1, Zenon
    <3>2. p \in Seq(Byte) /\ Joins(k_protocol, z)
      BY <3>1, Joining, Zenon
    <3>3. Len(p) = Len(k_protocol) + Len(z)
      BY <3>2, Zenon DEF Joins
    <3> HIDE DEF p
    <3> QED BY <3>2, <3>3, <2>1, <1>3
  <2> HIDE DEF p
  <2>3. IsHandshake(data, p, TorrentHash)
    <3>1. Len(p) # 0 /\ Len(p) \in Byte
      BY <1>2, <2>2
    <3> QED BY <3>1, <2>2, <1>2, SerializeHandshakeIs
  <2> HIDE DEF data
  <2>4. ~Accepted(data)
    BY <2>2, <2>3, LongerNotAccepted
  <2> QED BY <2>4, <1>1 DEF data, p, z
<1>8. ValidHandshakes = {h \in Handshakes : Accepted(Handshake[h])}
  BY Zenon DEF ValidHandshakes, Accepted
<1>9. ValidHandshakes = {"torrent"}
  <2> DEFINE A(h) == Accepted(Handshake[h])
  <2>1. A("torrent") /\ ~A("other_torrent") /\ ~A("other_protocol") /\ ~A("longer_protocol")
    BY <1>4, <1>5, <1>6, <1>7, Zenon
  <2>2. ValidHandshakes = {h \in Handshakes : A(h)}
    BY <1>8, Zenon
  <2> HIDE DEF A
  <2> QED BY <1>1, <2>1, <2>2
<1> QED BY <1>1, <1>9 DEF NoHandshake

-----------------------------------------------------------------------------
(* Messages in a row.                                                      *)

Payloads == {p \in Seq(Byte) : FitsWord(Len(p))}

Frames(u) == [k \in DOMAIN u |-> Frame(u[k])]
Flat(u) == FlattenSeq(Frames(u))

\* What is waited for of the messages u when the length of the first is l, 0
\* before it is known.
Waiting(u, l) == IF l = 0 THEN Flat(u) ELSE u[1] \o Flat(Tail(u))

\* s and what is lost after it are that.
Holds(s, lost, u, l) == s \o lost = Waiting(u, l)

LEMMA AppendKeepsFirst ==
  ASSUME NEW T, NEW s \in Seq(T), s # <<>>, NEW x \in T
  PROVE  Append(s, x)[1] = s[1]
<1>1. Len(s) \in Nat /\ (s = <<>> <=> Len(s) = 0)
  BY SeqDomain, EmptyIffNoLength, Zenon
<1>2. 1 \in 1 .. Len(s)
  BY <1>1
<1> QED BY <1>2, AppendProperties

LEMMA FrameIs ==
  ASSUME NEW p \in Payloads
  PROVE  /\ p \in Seq(Byte) /\ Len(p) \in Nat /\ Frame(p) \in Seq(Byte)
         /\ native_to_big(Len(p)) \in Seq(Byte) /\ Len(native_to_big(Len(p))) = WordSize
<1>1. p \in Seq(Byte) /\ FitsWord(Len(p))
  BY Zenon DEF Payloads
<1>2. native_to_big(Len(p)) \in Seq(Byte) /\ Len(native_to_big(Len(p))) = WordSize
  BY <1>1, WordBytes, Zenon
<1>3. Frame(p) \in Seq(Byte)
  BY <1>1, <1>2, ConcatOf, Zenon DEF Frame
<1> QED BY <1>1, <1>2, <1>3, SeqDomain, Zenon

LEMMA FramesIn ==
  ASSUME NEW u \in Seq(Payloads)
  PROVE  Frames(u) \in Seq(Seq(Byte)) /\ Len(Frames(u)) = Len(u)
<1> DEFINE Elements == Seq(Byte)
           F(k) == Frame(u[k])
<1>1. Len(u) \in Nat /\ DOMAIN u = 1 .. Len(u) /\ \A k \in 1 .. Len(u) : u[k] \in Payloads
  BY SeqDomain, Zenon
<1>2. \A k \in 1 .. Len(u) : F(k) \in Elements
  BY <1>1, FrameIs, Zenon
<1>3. Frames(u) = [k \in 1 .. Len(u) |-> F(k)]
  BY <1>1, Zenon DEF Frames
<1> HIDE DEF Elements, F
<1>4. Frames(u) \in [1 .. Len(u) -> Elements]
  BY <1>2, <1>3, Zenon
<1>5. Frames(u) \in Seq(Elements) /\ Len(Frames(u)) = Len(u)
  BY <1>1, <1>4, FunctionIsSeq, Zenon
<1> QED BY <1>5, Zenon DEF Elements

LEMMA FlatIn ==
  ASSUME NEW u \in Seq(Payloads)
  PROVE  Flat(u) \in Seq(Byte)
BY FramesIn, FlattenInSeq, Zenon DEF Flat

LEMMA FramesAppend ==
  ASSUME NEW u \in Seq(Payloads), NEW p \in Payloads
  PROVE  Frames(Append(u, p)) = Append(Frames(u), Frame(p))
<1> DEFINE v == Append(u, p)
           n == Len(u)
           Elements == Seq(Byte)
<1>1. /\ v \in Seq(Payloads) /\ Len(v) = n + 1 /\ v[n + 1] = p
      /\ \A k \in 1 .. n : v[k] = u[k]
  BY AppendProperties
<1>2. n \in Nat /\ DOMAIN u = 1 .. n
  BY SeqDomain, Zenon
<1>3. DOMAIN v = 1 .. n + 1
  BY <1>1, SeqDomain, Zenon
<1> HIDE DEF v, n
<1>4. Frames(u) \in Seq(Elements) /\ Len(Frames(u)) = n /\ Frame(p) \in Elements
  BY FramesIn, FrameIs, Zenon DEF n
<1> HIDE DEF Elements
<1> DEFINE f == Frames(u)
           g == Frame(p)
<1>5. \A k \in 1 .. n : f[k] = Frame(u[k])
  BY <1>2, Zenon DEF Frames
<1>6. Frames(v) = [k \in 1 .. n + 1 |-> Frame(v[k])]
  BY <1>3, Zenon DEF Frames
<1>7. /\ Append(f, g) \in Seq(Elements) /\ Len(Append(f, g)) = n + 1 /\ Append(f, g)[n + 1] = g
      /\ \A k \in 1 .. n : Append(f, g)[k] = f[k]
  <2> HIDE DEF f, g
  <2>1. f \in Seq(Elements) /\ g \in Elements /\ Len(f) = n
    BY <1>4, Zenon DEF f, g
  <2> QED BY <2>1, AppendProperties
<1> DEFINE a == Append(f, g)
<1> HIDE DEF f, g, a
<1>8. a \in Seq(Elements) /\ Frames(v) \in Seq(Elements) /\ Len(a) = Len(Frames(v))
  <2>1. Frames(v) \in Seq(Elements) /\ Len(Frames(v)) = Len(v)
    BY <1>1, FramesIn, Zenon DEF Elements
  <2> QED BY <2>1, <1>1, <1>7, Zenon DEF a
<1>9. \A k \in 1 .. Len(a) : a[k] = Frames(v)[k]
  <2> SUFFICES ASSUME NEW k \in 1 .. Len(a) PROVE a[k] = Frames(v)[k]
    OBVIOUS
  <2>1. Len(a) = n + 1
    BY <1>7, Zenon DEF a
  <2>2. Frames(v)[k] = Frame(v[k])
    BY <2>1, <1>6
  <2>3. CASE k = n + 1
    BY <2>2, <2>3, <1>1, <1>7, Zenon DEF a, g
  <2>4. CASE k # n + 1
    <3>1. k \in 1 .. n
      BY <2>1, <2>4, <1>2
    <3> QED BY <3>1, <2>2, <1>1, <1>5, <1>7, Zenon DEF a
  <2> QED BY <2>3, <2>4
<1>10. Frames(v) = a
  BY <1>8, <1>9, SeqEqual
<1> QED BY <1>10, Zenon DEF a, v, f, g

LEMMA FramesTail ==
  ASSUME NEW u \in Seq(Payloads), u # <<>>
  PROVE  /\ u[1] \in Payloads /\ Tail(u) \in Seq(Payloads) /\ Frames(u) # <<>>
         /\ Frames(u)[1] = Frame(u[1]) /\ Tail(Frames(u)) = Frames(Tail(u))
<1> DEFINE v == Tail(u)
           n == Len(u)
           Elements == Seq(Byte)
           f == Frames(u)
<1>1. v \in Seq(Payloads) /\ Len(v) = n - 1 /\ \A k \in 1 .. Len(v) : v[k] = u[k + 1]
  BY HeadTailProperties
<1>2. n \in Nat /\ DOMAIN u = 1 .. n /\ \A k \in 1 .. n : u[k] \in Payloads
  BY SeqDomain, Zenon
<1>3. n # 0
  BY EmptyIffNoLength, Zenon
<1>4. DOMAIN v = 1 .. n - 1
  BY <1>1, SeqDomain, Zenon
<1>5. f \in Seq(Elements) /\ Len(f) = n
  BY FramesIn, Zenon
<1> HIDE DEF Elements, v, n
<1>6. \A k \in 1 .. n : f[k] = Frame(u[k])
  BY <1>2, Zenon DEF Frames
<1>7. Frames(v) = [k \in 1 .. n - 1 |-> Frame(v[k])]
  BY <1>4, Zenon DEF Frames
<1> HIDE DEF f
<1>8. f # <<>>
  BY <1>3, <1>5, EmptyIffNoLength, Zenon
<1>9. Tail(f) \in Seq(Elements) /\ Len(Tail(f)) = n - 1 /\ \A k \in 1 .. n - 1 : Tail(f)[k] = f[k + 1]
  BY <1>5, <1>8, HeadTailProperties
<1>10. \A k \in 1 .. n - 1 : Frame(v[k]) = f[k + 1]
  <2> SUFFICES ASSUME NEW k \in 1 .. n - 1 PROVE Frame(v[k]) = f[k + 1]
    OBVIOUS
  <2>1. k + 1 \in 1 .. n /\ k \in 1 .. Len(v)
    BY <1>1, <1>2
  <2>2. v[k] = u[k + 1]
    BY <2>1, <1>1, Zenon
  <2> QED BY <2>1, <2>2, <1>6, Zenon
<1>11. Tail(f) = Frames(v)
  <2> DEFINE a == Tail(f)
             b == Frames(v)
  <2>1. b \in Seq(Elements) /\ Len(b) = Len(v)
    BY <1>1, FramesIn, Zenon DEF Elements
  <2>2. \A k \in 1 .. n - 1 : b[k] = Frame(v[k])
    BY <1>7
  <2> HIDE DEF a, b
  <2>3. a \in Seq(Elements) /\ Len(a) = Len(b) /\ Len(a) = n - 1
    BY <2>1, <1>1, <1>9, Zenon DEF a
  <2>4. \A k \in 1 .. Len(a) : a[k] = b[k]
    BY <2>2, <2>3, <1>9, <1>10, Zenon DEF a
  <2>5. a = b
    BY <2>1, <2>3, <2>4, SeqEqual
  <2> QED BY <2>5, Zenon DEF a, b
<1>12. 1 \in 1 .. n
  BY <1>2, <1>3
<1> QED BY <1>1, <1>2, <1>6, <1>8, <1>11, <1>12, Zenon DEF v, f

\* One more is sent.
LEMMA FlatAppend ==
  ASSUME NEW u \in Seq(Payloads), NEW p \in Payloads
  PROVE  Flat(Append(u, p)) = Flat(u) \o Frame(p)
<1>1. Frames(u) \in Seq(Seq(Byte)) /\ Frame(p) \in Seq(Byte)
  BY FramesIn, FrameIs, Zenon
<1>2. FlattenSeq(Append(Frames(u), Frame(p))) = FlattenSeq(Frames(u)) \o Frame(p)
  BY <1>1, FlattenAppend
<1> QED BY <1>2, FramesAppend, Zenon DEF Flat

\* One is taken from the front.
LEMMA FlatHead ==
  ASSUME NEW u \in Seq(Payloads), u # <<>>
  PROVE  Flat(u) = native_to_big(Len(u[1])) \o (u[1] \o Flat(Tail(u)))
<1> DEFINE w == native_to_big(Len(u[1]))
           p == u[1]
           r == Flat(Tail(u))
<1>1. /\ p \in Payloads /\ Tail(u) \in Seq(Payloads) /\ Frames(u) # <<>>
      /\ Frames(u)[1] = Frame(p) /\ Tail(Frames(u)) = Frames(Tail(u))
  BY FramesTail
<1>2. Frames(u) \in Seq(Seq(Byte))
  BY FramesIn, Zenon
<1>3. Flat(u) = Frame(p) \o r
  <2>1. FlattenSeq(Frames(u)) = Frames(u)[1] \o FlattenSeq(Tail(Frames(u)))
    BY <1>1, <1>2, FlattenTail
  <2> QED BY <2>1, <1>1, Zenon DEF Flat
<1>4. w \in Seq(Byte) /\ p \in Seq(Byte) /\ r \in Seq(Byte)
  BY <1>1, FrameIs, FlatIn, Zenon
<1>5. Associates(w, p, r)
  BY <1>4, Assoc, Zenon
<1> QED BY <1>3, <1>5, Zenon DEF Associates, Frame

\* What is known to come first is what is read.
CutOff(s, lost, w, r) ==
  SubSeq(s, 1, Len(w)) = w /\ Drop(s, Len(w)) \in Seq(Byte) /\ Drop(s, Len(w)) \o lost = r

LEMMA CutOffIs ==
  ASSUME NEW s \in Seq(Byte), NEW lost \in Seq(Byte), NEW w \in Seq(Byte), NEW r \in Seq(Byte),
         s \o lost = w \o r, Len(w) <= Len(s)
  PROVE  CutOff(s, lost, w, r)
<1> DEFINE a == SubSeq(s, 1, Len(w))
           d == Drop(s, Len(w))
<1>1. Len(w) \in 0 .. Len(s)
  <2>1. Len(w) \in Nat
    BY SeqDomain, Zenon
  <2> QED BY <2>1
<1>2. a \in Seq(Byte) /\ Len(a) = Len(w) /\ d \in Seq(Byte) /\ a \o d = s
  BY <1>1, CutAt, Zenon
<1> HIDE DEF a, d
<1>3. Associates(a, d, lost) /\ d \o lost \in Seq(Byte)
  BY <1>2, Assoc, ConcatOf, Zenon
<1>4. a \o (d \o lost) = w \o r
  BY <1>2, <1>3, Zenon DEF Associates
<1> DEFINE e == d \o lost
<1>5. a = w /\ e = r
  <2>1. e \in Seq(Byte) /\ a \o e = w \o r
    BY <1>3, <1>4, Zenon
  <2> HIDE DEF e
  <2> QED BY <1>2, <2>1, CutAlike, Zenon
<1> QED BY <1>2, <1>5, Zenon DEF CutOff, a, d, e

\* The length is read.
LEMMA LengthTaken ==
  ASSUME NEW s \in Seq(Byte), NEW lost \in Seq(Byte), NEW u \in Seq(Payloads),
         Holds(s, lost, u, 0), Len(s) >= WordSize
  PROVE  /\ u # <<>> /\ Drop(s, WordSize) \in Seq(Byte)
         /\ big_to_native(SubSeq(s, 1, WordSize)) = Len(u[1])
         /\ Drop(s, WordSize) \o lost = u[1] \o Flat(Tail(u))
<1>1. s \o lost = Flat(u)
  BY Zenon DEF Holds, Waiting
<1>2. u # <<>>
  <2> SUFFICES ASSUME u = <<>> PROVE FALSE
    OBVIOUS
  <2>1. Frames(u) \in Seq(Seq(Byte)) /\ Len(Frames(u)) = Len(u) /\ Len(u) = 0
    BY FramesIn, EmptyIffNoLength, Zenon
  <2>2. Frames(u) = <<>>
    BY <2>1, EmptyIffNoLength, Zenon
  <2>3. Flat(u) = <<>>
    BY <2>2, FlattenEmpty, Zenon DEF Flat
  <2>4. s \o lost \in Seq(Byte) /\ Len(s \o lost) = Len(s) + Len(lost)
    BY ConcatOf
  <2>5. Len(s \o lost) = 0
    BY <2>3, <2>4, <1>1, EmptyIffNoLength, Zenon
  <2>6. Len(s) \in Nat /\ Len(lost) \in Nat
    BY SeqDomain, Zenon
  <2> QED BY <2>4, <2>5, <2>6 DEF WordSize
<1> DEFINE p == u[1]
           w == native_to_big(Len(p))
           r == p \o Flat(Tail(u))
<1>3. p \in Payloads /\ Tail(u) \in Seq(Payloads)
  BY <1>2, FramesTail, Zenon
<1>4. Flat(Tail(u)) \in Seq(Byte) /\ p \in Seq(Byte) /\ Len(p) \in Nat /\ w \in Seq(Byte) /\ Len(w) = WordSize
  BY <1>3, FlatIn, FrameIs, Zenon
<1>5. r \in Seq(Byte)
  BY <1>4, ConcatOf, Zenon
<1>6. Flat(u) = w \o r
  BY <1>2, FlatHead
<1> HIDE DEF r
<1>7. CutOff(s, lost, w, r)
  <2> HIDE DEF w
  <2>1. s \o lost = w \o r /\ Len(w) <= Len(s)
    BY <1>1, <1>4, <1>6
  <2> QED BY <2>1, <1>4, <1>5, CutOffIs, Zenon
<1>8. big_to_native(w) = Len(p)
  BY <1>4, WordBack, Zenon
<1> HIDE DEF w, p
<1>9. SubSeq(s, 1, WordSize) = w /\ Drop(s, WordSize) \in Seq(Byte) /\ Drop(s, WordSize) \o lost = r
  BY <1>4, <1>7, Zenon DEF CutOff
<1>10. big_to_native(SubSeq(s, 1, WordSize)) = Len(p)
  BY <1>8, <1>9, Zenon
<1> QED BY <1>2, <1>9, <1>10, Zenon DEF p, r

\* The rest of the message is read.
LEMMA DataTaken ==
  ASSUME NEW s \in Seq(Byte), NEW lost \in Seq(Byte), NEW u \in Seq(Payloads), u # <<>>,
         s \o lost = u[1] \o Flat(Tail(u)), Len(s) >= Len(u[1])
  PROVE  /\ SubSeq(s, 1, Len(u[1])) = u[1] /\ Drop(s, Len(u[1])) \in Seq(Byte)
         /\ Holds(Drop(s, Len(u[1])), lost, Tail(u), 0)
<1> DEFINE p == u[1]
           r == Flat(Tail(u))
<1>1. p \in Payloads /\ Tail(u) \in Seq(Payloads)
  BY FramesTail, Zenon
<1>2. p \in Seq(Byte) /\ Len(p) \in Nat /\ r \in Seq(Byte)
  BY <1>1, FlatIn, FrameIs, Zenon
<1> HIDE DEF p, r
<1>3. s \o lost = p \o r
  BY DEF p, r
<1>4. Len(p) <= Len(s)
  <2>1. Len(s) \in Nat
    BY SeqDomain, Zenon
  <2> QED BY <2>1, <1>2 DEF p
<1>5. CutOff(s, lost, p, r)
  BY <1>2, <1>3, <1>4, CutOffIs, Zenon
<1> QED BY <1>5, Zenon DEF CutOff, Holds, Waiting, p, r

\* With nothing lost, a message that is sent is added at the end.
LEMMA MoreSent ==
  ASSUME NEW s \in Seq(Byte), NEW u \in Seq(Payloads), NEW l \in Nat, l > 0 => u # <<>>,
         Holds(s, <<>>, u, l), NEW p \in Payloads
  PROVE  /\ s \o Frame(p) \in Seq(Byte)
         /\ Holds(s \o Frame(p), <<>>, Append(u, p), l)
<1> DEFINE f == Frame(p)
           t == s \o f
<1>1. f \in Seq(Byte)
  BY FrameIs, Zenon
<1> HIDE DEF f
<1>2. t \in Seq(Byte)
  BY <1>1, ConcatOf, Zenon
<1>3. s \o <<>> = s /\ t \o <<>> = t
  <2> HIDE DEF t
  <2> QED BY <1>2, ConcatEmptySeq
<1>4. s = Waiting(u, l)
  BY <1>3, Zenon DEF Holds
<1>5. Flat(Append(u, p)) = Flat(u) \o f
  BY FlatAppend DEF f
<1>6. CASE l = 0
  <2>1. t = Waiting(Append(u, p), l)
    BY <1>4, <1>5, <1>6, Zenon DEF Waiting
  <2> QED BY <2>1, <1>2, <1>3, Zenon DEF Holds, t, f
<1>7. CASE l # 0
  <2> DEFINE v == Append(u, p)
             w == native_to_big(Len(u[1]))
             b == u[1] \o Flat(Tail(u))
             c == v[1] \o Flat(Tail(v))
  <2>1. u # <<>> /\ s = b
    BY <1>4, <1>7 DEF Waiting
  <2>2. v \in Seq(Payloads) /\ v # <<>> /\ v[1] = u[1]
    <3>1. /\ v \in Seq(Payloads) /\ v # <<>>
          /\ \A i \in 1 .. Len(u) : v[i] = u[i]
      BY AppendProperties
    <3>2. 1 \in 1 .. Len(u)
      <4>1. Len(u) \in Nat /\ (u = <<>> <=> Len(u) = 0)
        BY EmptyIffNoLength, SeqDomain, Zenon
      <4>2. Len(u) # 0
        BY <4>1, <2>1, Zenon
      <4> QED BY <4>1, <4>2
    <3> QED BY <3>1, <3>2, Zenon
  <2>3. Flat(u) = w \o b
    BY <2>1, FlatHead
  <2>4. Flat(v) = w \o c
    BY <2>2, FlatHead
  <2>5. u[1] \in Payloads /\ Tail(u) \in Seq(Payloads) /\ Tail(v) \in Seq(Payloads)
    BY <2>1, <2>2, FramesTail, Zenon
  <2>6. /\ u[1] \in Seq(Byte) /\ v[1] \in Seq(Byte) /\ w \in Seq(Byte)
        /\ Flat(Tail(u)) \in Seq(Byte) /\ Flat(Tail(v)) \in Seq(Byte)
    BY <2>2, <2>5, FrameIs, FlatIn, Zenon
  <2>7. b \in Seq(Byte) /\ c \in Seq(Byte)
    BY <2>6, ConcatOf, Zenon
  <2>8. Flat(v) = Flat(u) \o f
    BY <1>5, Zenon
  <2>9. t = b \o f
    BY <2>1, Zenon
  <2>10. Waiting(v, l) = c
    BY <1>7, Zenon DEF Waiting
  <2> HIDE DEF v, w, b, c, t
  <2>11. Associates(w, b, f)
    BY <1>1, <2>6, <2>7, Assoc, Zenon
  <2>12. w \o t = w \o c
    BY <2>3, <2>4, <2>8, <2>9, <2>11, Zenon DEF Associates
  <2>13. t = c
    BY <2>12, <1>2, <2>6, <2>7, CutAlike, Zenon
  <2> QED BY <2>13, <2>10, <1>2, <1>3, Zenon DEF Holds, v, t, f
<1> QED BY <1>6, <1>7

\* The end may be lost.
LEMMA EndLost ==
  ASSUME NEW s \in Seq(Byte), NEW u, NEW l, Holds(s, <<>>, u, l), NEW t \in Prefixes(s)
  PROVE  t \in Seq(Byte) /\ \E lost \in Seq(Byte) : Holds(t, lost, u, l)
<1>1. PICK n \in 0 .. Len(s) : t = SubSeq(s, 1, n)
  BY Zenon DEF Prefixes
<1>2. t \in Seq(Byte) /\ Drop(s, n) \in Seq(Byte) /\ t \o Drop(s, n) = s
  BY <1>1, CutAt, Zenon
<1>3. s \o <<>> = s
  BY ConcatEmptySeq
<1> DEFINE lost == Drop(s, n)
<1>4. lost \in Seq(Byte) /\ Holds(t, lost, u, l)
  BY <1>2, <1>3, Zenon DEF Holds
<1> QED BY <1>2, <1>4, Zenon

-----------------------------------------------------------------------------
(* The invariant.                                                          *)

\* The bytes p are those of the message m.
IsPayload(m, p) ==
  \/ m \in Messages /\ p = Payload(m)
  \/ m = Malformed /\ p \in BadPayloads

\* u are the bytes of the messages ms after the first n.
Row(u, ms, n) ==
  /\ u \in Seq(Payloads) /\ Len(u) = Len(ms) - n
  /\ \A k \in 1 .. Len(u) : IsPayload(ms[n + k], u[k])

Says ==
  Requests \union {Message("Unchoke", <<>>, <<>>), Message("Interested", <<>>, <<>>)}
    \union {Message("Have", <<m.words[1]>>, <<>>) : m \in Messages}
AnyMessages == Messages \union {Malformed}
Known == {Parsed(m) : m \in Messages}

Connected == pc \in {"unchoke", "interested", "request", "messages", "have"}
InLoop == {"request", "messages", "have"}

WireTypes ==
  /\ pc \in {"handshake", "bitfield", "unchoke", "interested", "request", "messages", "have",
             "closed", "aborted"}
  /\ stream \in Seq(Byte) /\ length \in Nat /\ eof \in BOOLEAN
  /\ received \in Seq(AnyMessages)
  /\ handshake \in Handshakes \union {NoHandshake}
  /\ sent \in Seq(Says)

\* Where the coroutine is in the exchange.
PhaseInv ==
  /\ handshake = NoHandshake => received = <<>>
  /\ pc \in {"handshake", "bitfield"} => messages = <<>>
  /\ pc \in {"handshake", "unchoke", "interested", "request", "have"} => length = 0
  /\ pc = "have" => Last(messages).type = "Piece"
  /\ Connected => messages # <<>> /\ IsBitfield(messages[1])
  /\ pc = "bitfield" \/ Connected => handshake = "torrent"

\* What the code above was handed is what was sent.
DeliveredInv ==
  /\ messages \in Seq(Known)
  /\ Len(messages) <= Len(received)
  /\ \A k \in 1 .. Len(messages) : received[k] \in Messages /\ messages[k] = Parsed(received[k])

\* And the bytes that are left are those of the messages that are left, but
\* for what was lost with the connection.
Left(u, lost) ==
  /\ Row(u, received, Len(messages)) /\ Holds(stream, lost, u, length)
  /\ ~eof => lost = <<>>
  /\ length > 0 => u # <<>> /\ length = Len(u[1])

StreamInv == Open => \E u : \E lost \in Seq(Byte) : Left(u, lost)

WireInv == WireTypes /\ PhaseInv /\ DeliveredInv /\ StreamInv

-----------------------------------------------------------------------------
(* Messages and their bytes.                                               *)

LEMMA PayloadIs ==
  ASSUME NEW m, NEW p, IsPayload(m, p)
  PROVE  p \in Payloads /\ m \in AnyMessages
<1>1. CASE m \in Messages /\ p = Payload(m)
  <2>1. WellFormed(m)
    BY <1>1, PeerWireAssumption, Zenon
  <2>2. FitsWord(Len(p))
    BY <1>1, <2>1, Zenon DEF WellFormed
  <2>3. p \in Seq(Byte)
    BY <1>1, <2>1, PayloadFacts, Zenon
  <2> QED BY <1>1, <2>2, <2>3, Zenon DEF Payloads, AnyMessages
<1>2. CASE m = Malformed /\ p \in BadPayloads
  <2>1. IllFormed(p)
    BY <1>2, PeerWireAssumption, Zenon
  <2> QED BY <1>2, <2>1, Zenon DEF IllFormed, Payloads, AnyMessages
<1> QED BY <1>1, <1>2, Zenon DEF IsPayload

LEMMA ParsedType ==
  ASSUME NEW m
  PROVE  Parsed(m).type = "Bitfield" <=> m.type = "Bitfield"
BY TypesAre DEF Parsed, Message

\* Nothing after the length is a keep-alive.
LEMMA NothingIsKeepAlive ==
  ASSUME NEW m, IsPayload(m, <<>>)
  PROVE  m \in Messages /\ Parsed(m) = KeepAlive
<1>1. CASE m \in Messages /\ <<>> = Payload(m)
  <2>1. WellFormed(m)
    BY <1>1, PeerWireAssumption, Zenon
  <2>2. m.type = "KeepAlive"
    BY <1>1, <2>1, PayloadFacts, Zenon
  <2> QED BY <1>1, <2>2 DEF Parsed, KeepAlive
<1>2. CASE m = Malformed /\ <<>> \in BadPayloads
  <2>1. IllFormed(<<>>)
    BY <1>2, PeerWireAssumption, Zenon
  <2> QED BY <2>1, Zenon DEF IllFormed
<1> QED BY <1>1, <1>2, Zenon DEF IsPayload

\* Something is the message, if it is one.
LEMMA DataIsMessage ==
  ASSUME NEW m, NEW p, IsPayload(m, p), p # <<>>
  PROVE  \/ m \in Messages /\ MakeMessage(p) = {Parsed(m)}
         \/ m = Malformed /\ MakeMessage(p) = {}
<1>1. CASE m \in Messages /\ p = Payload(m)
  <2>1. WellFormed(m)
    BY <1>1, PeerWireAssumption, Zenon
  <2>2. m.type # "KeepAlive"
    BY <1>1, <2>1, PayloadFacts, Zenon
  <2> QED BY <1>1, <2>1, <2>2, WellFormedParsed, Zenon
<1>2. CASE m = Malformed /\ p \in BadPayloads
  <2>1. IllFormed(p)
    BY <1>2, PeerWireAssumption, Zenon
  <2> QED BY <1>2, <2>1, IllFormedNotParsed, Zenon
<1> QED BY <1>1, <1>2, Zenon DEF IsPayload

LEMMA RowAppend ==
  ASSUME NEW ms \in Seq(AnyMessages), NEW n \in 0 .. Len(ms), NEW u, Row(u, ms, n),
         NEW m, NEW p, IsPayload(m, p)
  PROVE  Row(Append(u, p), Append(ms, m), n) /\ Append(u, p) # <<>>
<1> DEFINE v == Append(u, p)
           ns == Append(ms, m)
<1>1. p \in Payloads /\ m \in AnyMessages
  BY PayloadIs, Zenon
<1>2. u \in Seq(Payloads) /\ Len(u) = Len(ms) - n /\ \A k \in 1 .. Len(u) : IsPayload(ms[n + k], u[k])
  BY Zenon DEF Row
<1>3. /\ v \in Seq(Payloads) /\ v # <<>> /\ Len(v) = Len(u) + 1
      /\ \A i \in 1 .. Len(u) : v[i] = u[i]
      /\ v[Len(u) + 1] = p
  BY <1>1, <1>2, AppendProperties
<1>4. /\ ns \in Seq(AnyMessages) /\ Len(ns) = Len(ms) + 1
      /\ \A i \in 1 .. Len(ms) : ns[i] = ms[i]
      /\ ns[Len(ms) + 1] = m
  BY <1>1, AppendProperties
<1>5. Len(ms) \in Nat /\ n \in Nat /\ n <= Len(ms)
  BY SeqDomain
<1> HIDE DEF v, ns
<1>6. ASSUME NEW k \in 1 .. Len(v) PROVE IsPayload(ns[n + k], v[k])
  <2>1. CASE k = Len(u) + 1
    <3>1. n + k = Len(ms) + 1
      BY <2>1, <1>2, <1>5
    <3> QED BY <3>1, <2>1, <1>3, <1>4, Zenon
  <2>2. CASE k # Len(u) + 1
    <3>1. k \in 1 .. Len(u) /\ n + k \in 1 .. Len(ms)
      BY <2>2, <1>2, <1>3, <1>5
    <3> QED BY <3>1, <1>2, <1>3, <1>4, Zenon
  <2> QED BY <2>1, <2>2
<1>7. Len(v) = Len(ns) - n
  BY <1>2, <1>3, <1>4, <1>5
<1> QED BY <1>3, <1>6, <1>7, Zenon DEF Row, v, ns

LEMMA RowTail ==
  ASSUME NEW ms \in Seq(AnyMessages), NEW n \in 0 .. Len(ms), NEW u, Row(u, ms, n), u # <<>>
  PROVE  Row(Tail(u), ms, n + 1) /\ IsPayload(ms[n + 1], u[1]) /\ n < Len(ms)
<1> DEFINE v == Tail(u)
<1>1. u \in Seq(Payloads) /\ Len(u) = Len(ms) - n /\ \A k \in 1 .. Len(u) : IsPayload(ms[n + k], u[k])
  BY Zenon DEF Row
<1>2. v \in Seq(Payloads) /\ Len(v) = Len(u) - 1 /\ \A i \in 1 .. Len(v) : v[i] = u[i + 1]
  BY <1>1, HeadTailProperties, Zenon
<1>3. Len(ms) \in Nat /\ n \in Nat /\ Len(u) \in Nat /\ Len(u) # 0
  <2>1. Len(u) # 0
    BY <1>1, EmptyIffNoLength, Zenon
  <2>2. Len(ms) \in Nat /\ Len(u) \in Nat
    BY <1>1, SeqDomain, Zenon
  <2> QED BY <2>1, <2>2
<1> HIDE DEF v
<1>4. ASSUME NEW k \in 1 .. Len(v) PROVE IsPayload(ms[n + 1 + k], v[k])
  <2>1. k + 1 \in 1 .. Len(u) /\ n + (k + 1) = n + 1 + k
    BY <1>2, <1>3
  <2>2. IsPayload(ms[n + (k + 1)], u[k + 1])
    BY <2>1, <1>1, Zenon
  <2> QED BY <2>1, <2>2, <1>2, Zenon
<1>5. Len(v) = Len(ms) - (n + 1) /\ 1 \in 1 .. Len(u) /\ n < Len(ms)
  BY <1>1, <1>2, <1>3
<1> QED BY <1>1, <1>2, <1>4, <1>5, Zenon DEF Row, v

-----------------------------------------------------------------------------
(* Every step keeps it, and is one of the channel's.                       *)

ChannelSent == [k \in DOMAIN received |-> Parsed(received[k])]

\* What the code above is handed, and knows the peer has.
Handed ==
  \/ /\ Reading /\ Len(messages) < Len(received)
     /\ received[Len(messages) + 1] \in Messages
     /\ Deliver(Parsed(received[Len(messages) + 1]))
  \/ messages' = messages /\ bitfield_' = bitfield_ /\ (Connected' => Connected)

\* Giving up has a cause.
GaveUp ==
  Open /\ pc' = "closed" =>
    \/ eof
    \/ handshake # "torrent"
    \/ received[1].type # "Bitfield"
    \/ sent' # sent /\ BetweenPieces'
    \/ received[Len(messages) + 1] = Malformed

StepOK == WireInv' /\ [Channel!Next]_(Channel!channel) /\ Handed /\ GaveUp

LEMMA InitInv == Init => WireInv /\ Channel!Init
<1> SUFFICES ASSUME Init PROVE WireInv /\ Channel!Init
  OBVIOUS
<1> USE DEF Init
<1>1. WireTypes
  <2>1. \A T : <<>> \in Seq(T)
    OBVIOUS
  <2> QED BY <2>1 DEF WireTypes
<1>2. PhaseInv
  BY DEF PhaseInv, Connected
<1>3. DeliveredInv
  BY DEF DeliveredInv
<1>4. StreamInv
  <2>1. Frames(<<>>) = <<>>
    BY DEF Frames
  <2>2. Waiting(<<>>, 0) = <<>>
    BY <2>1, FlattenEmpty, Zenon DEF Waiting, Flat
  <2>3. <<>> \in Seq(Byte) /\ <<>> \o <<>> = <<>>
    OBVIOUS
  <2>4. Holds(<<>>, <<>>, <<>>, 0)
    BY <2>2, <2>3, Zenon DEF Holds
  <2>5. Row(<<>>, <<>>, 0)
    BY DEF Row
  <2>6. Len(messages) = 0 /\ length = 0
    OBVIOUS
  <2>7. Left(<<>>, <<>>)
    <3>1. Row(<<>>, received, Len(messages)) /\ Holds(stream, <<>>, <<>>, length)
      BY <2>4, <2>5, <2>6, Zenon
    <3> QED BY <3>1 DEF Left
  <2> QED BY <2>3, <2>7, Zenon DEF StreamInv
<1>5. Channel!Init
  BY DEF Channel!Init, Open, NoHandshake
<1> QED BY <1>1, <1>2, <1>3, <1>4, <1>5, Zenon DEF WireInv

LEMMA PeerHandshakesStep ==
  ASSUME WireInv, PeerHandshakes
  PROVE  StepOK
<1> USE DEF PeerHandshakes, peerVars, sendVars
<1>1. /\ Open /\ handshake = NoHandshake /\ ~eof /\ handshake' \in Handshakes
      /\ pc' = pc /\ stream' = stream /\ length' = length /\ messages' = messages
      /\ eof' = eof /\ received' = received /\ sent' = sent
  OBVIOUS
<1>2. handshake # "torrent" /\ handshake' # NoHandshake
  BY <1>1, ValidHandshakesAre
<1>3. WireTypes' /\ DeliveredInv'
  BY <1>1, Zenon DEF WireInv, WireTypes, DeliveredInv
<1>4. PhaseInv'
  BY <1>1, <1>2 DEF WireInv, PhaseInv, Connected, Open
<1>5. StreamInv'
  BY <1>1, Zenon DEF WireInv, StreamInv, Left, Open
<1>6. Channel!PeerActs
  BY <1>1, <1>2 DEF Channel!PeerActs, Open
<1>7. Handed
  BY DEF Handed, Connected
<1>8. GaveUp
  BY <1>1 DEF GaveUp, Open
<1> QED BY <1>3, <1>4, <1>5, <1>6, <1>7, <1>8, Zenon DEF StepOK, WireInv, Channel!Next

LEMMA PeerSendsStep ==
  ASSUME WireInv, PeerSends
  PROVE  StepOK
<1>1. /\ Open /\ handshake # NoHandshake /\ ~eof
      /\ pc' = pc /\ length' = length /\ messages' = messages
      /\ eof' = eof /\ handshake' = handshake /\ sent' = sent
  BY DEF PeerSends, sendVars
<1>2. PICK m, p : IsPayload(m, p) /\ received' = Append(received, m) /\ stream' = stream \o Frame(p)
  BY Zenon DEF PeerSends, Send, IsPayload
<1>3. p \in Payloads /\ m \in AnyMessages
  BY <1>2, PayloadIs, Zenon
<1>4. PICK u : \E lost \in Seq(Byte) : Left(u, lost)
  BY <1>1, Zenon DEF WireInv, StreamInv
<1>5. /\ Row(u, received, Len(messages)) /\ Holds(stream, <<>>, u, length)
      /\ length > 0 => u # <<>> /\ length = Len(u[1])
  BY <1>1, <1>4, Zenon DEF Left
<1>6. /\ stream \in Seq(Byte) /\ length \in Nat /\ received \in Seq(AnyMessages)
      /\ messages \in Seq(Known) /\ Len(messages) <= Len(received)
  BY Zenon DEF WireInv, WireTypes, DeliveredInv
<1>7. Len(messages) \in 0 .. Len(received) /\ Len(received) \in Nat
  <2>1. Len(messages) \in Nat /\ Len(received) \in Nat
    BY <1>6, SeqDomain, Zenon
  <2> QED BY <2>1, <1>6
<1>8. u \in Seq(Payloads)
  BY <1>5, Zenon DEF Row
<1>9. stream' \in Seq(Byte) /\ Holds(stream', <<>>, Append(u, p), length)
  BY <1>2, <1>3, <1>5, <1>6, <1>8, MoreSent, Zenon
<1>10. Row(Append(u, p), received', Len(messages)) /\ Append(u, p) # <<>>
  BY <1>2, <1>5, <1>6, <1>7, RowAppend, Zenon
<1>11. /\ received' \in Seq(AnyMessages) /\ Len(received') = Len(received) + 1
       /\ \A k \in 1 .. Len(received) : received'[k] = received[k]
  BY <1>2, <1>3, <1>6, AppendProperties
<1>12. length > 0 => Append(u, p)[1] = u[1]
  <2> SUFFICES ASSUME u # <<>> PROVE Append(u, p)[1] = u[1]
    BY <1>5, Zenon
  <2> QED BY <1>3, <1>8, AppendKeepsFirst
<1>13. WireTypes'
  BY <1>1, <1>9, <1>11, Zenon DEF WireInv, WireTypes
<1>14. PhaseInv'
  BY <1>1 DEF WireInv, PhaseInv, Connected, Open
<1>15. DeliveredInv'
  <2>1. Len(messages) <= Len(received')
    BY <1>6, <1>7, <1>11
  <2>2. \A k \in 1 .. Len(messages) : k \in 1 .. Len(received)
    BY <1>7
  <2> QED BY <2>1, <2>2, <1>1, <1>6, <1>11, Zenon DEF WireInv, DeliveredInv
<1>16. StreamInv'
  <2>1. Left(Append(u, p), <<>>)'
    BY <1>1, <1>5, <1>9, <1>10, <1>12, Zenon DEF Left
  <2>2. <<>> \in Seq(Byte)
    OBVIOUS
  <2> QED BY <2>1, <2>2, Zenon DEF StreamInv
<1>17. Channel!PeerActs
  <2> DEFINE a == ChannelSent
             b == ChannelSent'
  <2>1. Len(received) \in Nat /\ DOMAIN received = 1 .. Len(received)
    BY <1>6, SeqDomain, Zenon
  <2>2. DOMAIN received' = 1 .. Len(received) + 1
    BY <1>11, SeqDomain, Zenon
  <2>3. Len(a) = Len(received) /\ Len(b) = Len(received) + 1
    BY <2>1, <2>2 DEF ChannelSent
  <2>4. SubSeq(b, 1, Len(received)) = a
    BY <2>1, <2>2, <1>11 DEF ChannelSent
  <2>5. Len(b) = Len(a) + 1 /\ SubSeq(b, 1, Len(a)) = a
    BY <2>3, <2>4
  <2> QED BY <2>5, <1>1 DEF ChannelSent, Channel!PeerActs, Open
<1>18. Handed
  BY DEF PeerSends, Handed, Connected
<1>19. GaveUp
  BY <1>1 DEF GaveUp, Open
<1> QED BY <1>13, <1>14, <1>15, <1>16, <1>17, <1>18, <1>19, Zenon DEF StepOK, WireInv, Channel!Next

LEMMA PeerClosesStep ==
  ASSUME WireInv, PeerCloses
  PROVE  StepOK
<1>1. /\ Open /\ ~eof /\ eof' = TRUE /\ stream' \in Prefixes(stream)
      /\ pc' = pc /\ length' = length /\ messages' = messages
      /\ handshake' = handshake /\ received' = received /\ sent' = sent
  BY DEF PeerCloses, sendVars
<1>2. PICK u : \E lost \in Seq(Byte) : Left(u, lost)
  BY <1>1, Zenon DEF WireInv, StreamInv
<1>3. /\ Row(u, received, Len(messages)) /\ Holds(stream, <<>>, u, length)
      /\ length > 0 => u # <<>> /\ length = Len(u[1])
  BY <1>1, <1>2, Zenon DEF Left
<1>4. stream \in Seq(Byte)
  BY Zenon DEF WireInv, WireTypes
<1>5. PICK lost \in Seq(Byte) : stream' \in Seq(Byte) /\ Holds(stream', lost, u, length)
  BY <1>1, <1>3, <1>4, EndLost, Zenon
<1>6. WireTypes' /\ DeliveredInv'
  BY <1>1, <1>5, Zenon DEF WireInv, WireTypes, DeliveredInv
<1>7. PhaseInv'
  BY <1>1 DEF WireInv, PhaseInv, Connected
<1>8. StreamInv'
  BY <1>1, <1>3, <1>5, Zenon DEF StreamInv, Left
<1>9. UNCHANGED Channel!channel
  BY <1>1 DEF Channel!channel, Open
<1>10. Handed
  BY DEF PeerCloses, Handed, Connected
<1>11. GaveUp
  BY <1>1 DEF GaveUp, Open
<1> QED BY <1>6, <1>7, <1>8, <1>9, <1>10, <1>11, Zenon DEF StepOK, WireInv

LEMMA PeerReadsStep ==
  ASSUME WireInv, PeerReads
  PROVE  StepOK
<1>1. /\ pc' = pc /\ stream' = stream /\ length' = length /\ messages' = messages
      /\ eof' = eof /\ handshake' = handshake /\ received' = received /\ sent' = sent
  BY DEF PeerReads, peerVars
<1>2. WireInv'
  BY <1>1, Zenon DEF WireInv, WireTypes, PhaseInv, DeliveredInv, StreamInv, Left, Connected, Open
<1>3. UNCHANGED Channel!channel
  BY <1>1 DEF Channel!channel, Open
<1>4. Handed
  BY DEF PeerReads, Handed, Connected
<1>5. GaveUp
  BY <1>1 DEF GaveUp, Open
<1> QED BY <1>2, <1>3, <1>4, <1>5, Zenon DEF StepOK

LEMMA HandshakeReadStep ==
  ASSUME WireInv, HandshakeRead
  PROVE  StepOK
<1>1. /\ pc = "handshake" /\ pc' = IF handshake = "torrent" THEN "bitfield" ELSE "closed"
      /\ stream' = stream /\ length' = length /\ messages' = messages
      /\ eof' = eof /\ handshake' = handshake /\ received' = received /\ sent' = sent
  <2>1. handshake \in ValidHandshakes <=> handshake = "torrent"
    BY ValidHandshakesAre
  <2> QED BY <2>1 DEF HandshakeRead, peerVars, sendVars
<1>2. WireTypes'
  BY <1>1 DEF WireInv, WireTypes
<1>3. DeliveredInv'
  BY <1>1, Zenon DEF WireInv, DeliveredInv
<1>4. PhaseInv'
  BY <1>1 DEF WireInv, PhaseInv, Connected
<1>5. StreamInv'
  <2>1. Open
    BY <1>1 DEF Open
  <2> QED BY <2>1, <1>1, Zenon DEF WireInv, StreamInv, Left
<1>6. Open' => UNCHANGED Channel!channel
  BY <1>1 DEF Channel!channel, Open
<1>7. ~Open' => Channel!Next
  BY <1>1 DEF Channel!Next, Channel!GiveUp, Open
<1>8. Handed
  BY <1>1 DEF HandshakeRead, Handed, Connected
<1>9. GaveUp
  BY <1>1 DEF GaveUp
<1> QED BY <1>2, <1>3, <1>4, <1>5, <1>6, <1>7, <1>8, <1>9, Zenon DEF StepOK, WireInv

\* Giving up, and speaking, leave what the peer sent and what was read alone.
Untouched ==
  /\ stream' = stream /\ length' = length /\ messages' = messages
  /\ eof' = eof /\ handshake' = handshake /\ received' = received /\ bitfield_' = bitfield_

LEMMA StreamKept ==
  ASSUME StreamInv, Untouched, Open
  PROVE  StreamInv'
BY Zenon DEF StreamInv, Left, Untouched

LEMMA ConnectionLost ==
  ASSUME WireInv, eof, pc' = "closed", Untouched, sent' = sent
  PROVE  StepOK
<1> USE DEF Untouched
<1>1. WireTypes'
  BY DEF WireInv, WireTypes
<1>2. DeliveredInv'
  BY Zenon DEF WireInv, DeliveredInv
<1>3. PhaseInv' /\ StreamInv'
  BY DEF WireInv, PhaseInv, StreamInv, Connected, Open
<1>4. Channel!GiveUp
  BY DEF Channel!GiveUp, Open
<1>5. Handed
  BY DEF Handed, Connected
<1>6. GaveUp
  BY DEF GaveUp
<1> QED BY <1>1, <1>2, <1>3, <1>4, <1>5, <1>6, Zenon DEF StepOK, WireInv, Channel!Next

LEMMA ReadFailsStep ==
  ASSUME WireInv, ReadFails
  PROVE  StepOK
BY ConnectionLost DEF ReadFails, Untouched, peerVars, sendVars

LEMMA SendFailsStep ==
  ASSUME WireInv, SendFails
  PROVE  StepOK
BY ConnectionLost DEF SendFails, Untouched, peerVars, sendVars

LEMMA Said ==
  ASSUME WireInv, Connected, NEW m \in Says, SendMessage(m),
         pc' \in {"interested", "request", "messages", "closed"},
         pc' \in {"interested", "request"} => length = 0,
         pc' = "closed" => \/ m.type = "Interested"
                           \/ m.type = "Have" /\ Last(messages).type = "Piece",
         eof' = eof /\ handshake' = handshake /\ received' = received
  PROVE  StepOK
<1>1. /\ stream' = stream /\ length' = length /\ messages' = messages
      /\ eof' = eof /\ handshake' = handshake /\ received' = received
      /\ sent' = Append(sent, m) /\ bitfield_' = bitfield_
  BY DEF SendMessage, peerVars
<1>2. sent \in Seq(Says) /\ m \in Says
  BY Zenon DEF WireInv, WireTypes
<1>3. sent' \in Seq(Says) /\ Len(sent') = Len(sent) + 1 /\ SubSeq(sent', 1, Len(sent)) = sent
  BY <1>1, <1>2
<1>4. WireTypes'
  BY <1>1, <1>3 DEF WireInv, WireTypes
<1>5. DeliveredInv'
  BY <1>1, Zenon DEF WireInv, DeliveredInv
<1>6. PhaseInv'
  BY <1>1 DEF WireInv, PhaseInv, Connected
<1>7. Open
  BY DEF Connected, Open
<1>8. StreamInv'
  <2>1. Untouched
    BY <1>1 DEF Untouched
  <2> QED BY <2>1, <1>7, StreamKept, Zenon DEF WireInv
<1>9. Channel!Say
  <2>1. handshake = "torrent" /\ messages # <<>>
    BY DEF WireInv, PhaseInv
  <2>2. Open' \in BOOLEAN
    BY DEF Open
  <2> QED BY <1>1, <1>3, <1>7, <2>1, <2>2 DEF Channel!Say
<1>10. Handed
  BY <1>1 DEF Handed
<1>11. GaveUp
  <2>1. Last(sent') = m /\ sent' # sent
    <3>1. Len(sent) \in Nat /\ sent'[Len(sent) + 1] = m
      BY <1>1, <1>2, AppendProperties, SeqDomain
    <3>2. Last(sent') = sent'[Len(sent) + 1]
      BY <1>3, Zenon DEF Last
    <3>3. Len(sent') # Len(sent)
      <4> DEFINE n == Len(sent)
      <4>1. n \in Nat /\ Len(sent') = n + 1
        BY <1>3, <3>1, Zenon
      <4> HIDE DEF n
      <4>2. n + 1 # n
        BY <4>1, SMT
      <4> QED BY <4>1, <4>2, Zenon DEF n
    <3> QED BY <3>1, <3>2, <3>3, Zenon
  <2>2. Last(messages') = Last(messages)
    BY <1>1, Zenon
  <2> QED BY <2>1, <2>2, Zenon DEF GaveUp, BetweenPieces
<1> QED BY <1>4, <1>5, <1>6, <1>8, <1>9, <1>10, <1>11, Zenon DEF StepOK, WireInv, Channel!Next

LEMMA NextAwaits == NextAwait \subseteq {"messages", "request"} /\ NextAwait' \subseteq {"messages", "request"}
BY DEF NextAwait

LEMMA SendUnchokeStep ==
  ASSUME WireInv, SendUnchoke
  PROVE  StepOK
<1>1. /\ pc = "unchoke" /\ pc' = "interested" /\ SendMessage(Message("Unchoke", <<>>, <<>>))
      /\ eof' = eof /\ handshake' = handshake /\ received' = received
  BY DEF SendUnchoke, SendMessage, peerVars
<1>2. length = 0 /\ Connected
  BY <1>1 DEF WireInv, PhaseInv, Connected
<1>3. Message("Unchoke", <<>>, <<>>) \in Says
  BY DEF Says
<1> QED BY <1>1, <1>2, <1>3, Said

LEMMA SendInterestedStep ==
  ASSUME WireInv, SendInterested
  PROVE  StepOK
<1> DEFINE m == Message("Interested", <<>>, <<>>)
<1>1. /\ pc = "interested" /\ SendMessage(m)
      /\ eof' = eof /\ handshake' = handshake /\ received' = received
  BY DEF SendInterested, SendMessage, peerVars
<1>2. pc' \in {"request", "messages", "closed"}
  BY NextAwaits DEF SendInterested, TakesPiece
<1>3. length = 0 /\ Connected
  BY <1>1 DEF WireInv, PhaseInv, Connected
<1>4. m \in Says /\ m.type = "Interested"
  BY DEF Says, Message
<1> HIDE DEF m
<1>5. /\ pc' \in {"interested", "request", "messages", "closed"}
      /\ pc' \in {"interested", "request"} => length = 0
      /\ pc' = "closed" => \/ m.type = "Interested"
                           \/ m.type = "Have" /\ Last(messages).type = "Piece"
  <2>1. pc' \in {"interested", "request", "messages", "closed"}
    BY <1>2
  <2> QED BY <2>1, <1>3, <1>4, Zenon
<1> QED BY <1>1, <1>3, <1>4, <1>5, Said, Zenon

LEMMA SendRequestStep ==
  ASSUME WireInv, SendRequest
  PROVE  StepOK
<1>1. eof' = eof /\ handshake' = handshake /\ received' = received
  BY DEF SendRequest, SendMessage, peerVars
<1>2. Connected /\ pc' = "messages"
  BY DEF SendRequest, Connected
<1>3. PICK m \in Requests : SendMessage(m)
  BY Zenon DEF SendRequest
<1>4. m \in Says
  BY DEF Says
<1>5. /\ pc' \in {"interested", "request", "messages", "closed"}
      /\ ~(pc' \in {"interested", "request"}) /\ pc' # "closed"
  BY <1>2
<1> QED BY <1>1, <1>2, <1>3, <1>4, <1>5, Said, Zenon

LEMMA SendHaveStep ==
  ASSUME WireInv, SendHave
  PROVE  StepOK
<1> DEFINE l == Last(messages)
           m == Message("Have", <<l.words[1]>>, <<>>)
<1>1. /\ pc = "have" /\ SendMessage(m)
      /\ eof' = eof /\ handshake' = handshake /\ received' = received
  BY DEF SendHave, SendMessage, peerVars
<1>2. pc' \in {"request", "messages", "closed"}
  BY NextAwaits DEF SendHave, TakesPiece
<1>3. length = 0 /\ Connected /\ l.type = "Piece" /\ messages # <<>>
  BY <1>1 DEF WireInv, PhaseInv, Connected
<1>4. m.type = "Have"
  BY DEF Message
<1>5. m \in Says
  <2> DEFINE n == Len(messages)
  <2>1. messages \in Seq(Known) /\ \A k \in 1 .. n : received[k] \in Messages /\ messages[k] = Parsed(received[k])
    BY Zenon DEF WireInv, DeliveredInv
  <2>2. n \in 1 .. n
    BY <2>1, <1>3, EmptyIffNoLength
  <2>3. received[n] \in Messages /\ l = Parsed(received[n])
    BY <2>1, <2>2, Zenon DEF Last
  <2>4. Parsed(received[n]).type = "Piece" => Parsed(received[n]) = received[n]
    <3> DEFINE w == received[n]
    <3> HIDE DEF w
    <3>1. Parsed(w).type = "Piece" => Parsed(w) = w
      BY TypesAre DEF Parsed, Message
    <3> QED BY <3>1 DEF w
  <2>5. l \in Messages
    BY <2>3, <2>4, <1>3, Zenon
  <2> QED BY <2>5, Zenon DEF Says
<1> HIDE DEF m, l
<1>6. Last(messages).type = "Piece"
  BY <1>3, Zenon DEF l
<1>7. /\ pc' \in {"interested", "request", "messages", "closed"}
      /\ pc' \in {"interested", "request"} => length = 0
      /\ pc' = "closed" => \/ m.type = "Interested"
                           \/ m.type = "Have" /\ Last(messages).type = "Piece"
  <2>1. pc' \in {"interested", "request", "messages", "closed"}
    BY <1>2
  <2> QED BY <2>1, <1>3, <1>4, <1>6, Zenon
<1> QED BY <1>1, <1>3, <1>5, <1>7, Said, Zenon

\* The next message is handed over.
LEMMA Delivered ==
  ASSUME WireTypes, PhaseInv, DeliveredInv, Reading, NEW m, m \in Messages,
         Len(messages) < Len(received), received[Len(messages) + 1] = m, Deliver(Parsed(m)),
         length' = 0, eof' = eof /\ handshake' = handshake /\ received' = received /\ sent' = sent
  PROVE  /\ PhaseInv' /\ DeliveredInv' /\ GaveUp /\ Channel!Deliver
         /\ pc' \in {"unchoke", "closed", "request", "messages", "have", "aborted"}
         /\ Len(messages') = Len(messages) + 1
<1> DEFINE d == Parsed(m)
<1>1. messages \in Seq(Known) /\ d \in Known /\ Len(messages) \in Nat /\ Len(received) \in Nat
  BY SeqDomain, Zenon DEF DeliveredInv, Known, WireTypes
<1>2. messages' = Append(messages, d)
  BY Zenon DEF Deliver
<1> HIDE DEF d
<1>3. /\ messages' \in Seq(Known) /\ messages' # <<>> /\ Len(messages') = Len(messages) + 1
      /\ \A i \in 1 .. Len(messages) : messages'[i] = messages[i]
      /\ messages'[Len(messages) + 1] = d
  BY <1>1, <1>2, AppendProperties
<1>4. d.type = "Bitfield" <=> m.type = "Bitfield"
  BY ParsedType, Zenon DEF d
<1>5. \/ pc = "bitfield" /\ pc' = IF d.type = "Bitfield" THEN "unchoke" ELSE "closed"
      \/ pc = "messages" /\ pc' \in InLoop \union {"aborted"} /\ (pc' = "have" => d.type = "Piece")
  BY NextAwaits DEF Deliver, d, AwaitAfter, InLoop
<1>6. handshake = "torrent"
  BY <1>5 DEF PhaseInv, Connected
<1>7. DeliveredInv'
  <2>1. Len(messages') <= Len(received')
    BY <1>1, <1>3
  <2>2. ASSUME NEW k \in 1 .. Len(messages') PROVE received'[k] \in Messages /\ messages'[k] = Parsed(received'[k])
    <3>1. CASE k = Len(messages) + 1
      BY <3>1, <1>3, Zenon DEF d
    <3>2. CASE k # Len(messages) + 1
      <4>1. k \in 1 .. Len(messages)
        BY <3>2, <1>1, <1>3
      <4> QED BY <4>1, <1>3, Zenon DEF DeliveredInv
    <3> QED BY <3>1, <3>2
  <2> QED BY <1>3, <2>1, <2>2, Zenon DEF DeliveredInv
<1>8. pc = "bitfield" => messages = <<>> /\ Len(messages) = 0 /\ messages'[1] = d /\ received[1] = m
  <2> SUFFICES ASSUME pc = "bitfield"
               PROVE  messages = <<>> /\ Len(messages) = 0 /\ messages'[1] = d /\ received[1] = m
    OBVIOUS
  <2>1. messages = <<>>
    BY DEF PhaseInv
  <2>2. Len(messages) = 0
    BY <2>1, <1>1, EmptyIffNoLength, Zenon
  <2>3. Len(messages) + 1 = 1
    BY <2>2
  <2> QED BY <2>1, <2>2, <2>3, <1>3, Zenon
<1>9. pc = "messages" => messages'[1] = messages[1] /\ IsBitfield(messages[1])
  BY <1>1, <1>2, AppendKeepsFirst DEF PhaseInv, Connected
<1>10. PhaseInv'
  <2>1. Last(messages') = d
    BY <1>1, <1>3 DEF Last
  <2> QED BY <2>1, <1>3, <1>5, <1>6, <1>8, <1>9 DEF PhaseInv, Connected, InLoop, IsBitfield, NoHandshake
<1>11. GaveUp
  <2>1. pc' = "closed" => pc = "bitfield" /\ d.type # "Bitfield"
    BY <1>5 DEF InLoop
  <2>2. pc' = "closed" => received[1].type # "Bitfield"
    BY <2>1, <1>4, <1>8, Zenon
  <2> QED BY <2>2, Zenon DEF GaveUp
<1>12. Channel!Deliver
  <2> DEFINE a == ChannelSent
  <2>1. DOMAIN received = 1 .. Len(received)
    BY SeqDomain, Zenon DEF WireTypes
  <2>2. Len(a) = Len(received) /\ Len(messages) + 1 \in DOMAIN received
    BY <1>1, <2>1 DEF ChannelSent
  <2>3. a[Len(messages) + 1] = d
    BY <2>2, Zenon DEF ChannelSent, d
  <2>4. a' = a
    BY DEF ChannelSent
  <2> HIDE DEF a
  <2>5. Open /\ (Open' => IsBitfield(messages'[1]))
    BY <1>5, <1>8, <1>9 DEF Open, InLoop, IsBitfield
  <2>6. messages' = Append(messages, a[Len(messages) + 1]) /\ Len(messages) < Len(a)
    BY <1>2, <2>2, <2>3
  <2> QED BY <2>4, <2>5, <2>6, <1>6 DEF Channel!Deliver, a, ChannelSent
<1> QED BY <1>3, <1>5, <1>7, <1>10, <1>11, <1>12 DEF InLoop

\* The message that is read next.
LEMMA NextLeft ==
  ASSUME WireTypes, DeliveredInv, NEW u, NEW lost, Left(u, lost)
  PROVE  /\ u \in Seq(Payloads) /\ Len(messages) \in 0 .. Len(received) /\ Len(received) \in Nat
         /\ Row(u, received, Len(messages))
         /\ u # <<>> => /\ Len(messages) < Len(received)
                        /\ IsPayload(received[Len(messages) + 1], u[1])
                        /\ Row(Tail(u), received, Len(messages) + 1)
                        /\ Tail(u) \in Seq(Payloads) /\ u[1] \in Payloads
                        /\ Len(u[1]) \in Nat /\ u[1] \in Seq(Byte)
<1>1. received \in Seq(AnyMessages) /\ messages \in Seq(Known) /\ Len(messages) <= Len(received)
  BY Zenon DEF WireTypes, DeliveredInv
<1>2. Len(messages) \in Nat /\ Len(received) \in Nat
  BY <1>1, SeqDomain, Zenon
<1>3. Len(messages) \in 0 .. Len(received)
  BY <1>1, <1>2
<1>4. Row(u, received, Len(messages)) /\ u \in Seq(Payloads)
  BY Zenon DEF Left, Row
<1>5. ASSUME u # <<>>
      PROVE  /\ Len(messages) < Len(received)
             /\ IsPayload(received[Len(messages) + 1], u[1])
             /\ Row(Tail(u), received, Len(messages) + 1)
             /\ Tail(u) \in Seq(Payloads) /\ u[1] \in Payloads
             /\ Len(u[1]) \in Nat /\ u[1] \in Seq(Byte)
  <2>1. Tail(u) \in Seq(Payloads) /\ u[1] \in Payloads
    BY <1>4, <1>5, FramesTail, Zenon
  <2>2. Len(u[1]) \in Nat /\ u[1] \in Seq(Byte)
    BY <2>1, FrameIs, Zenon
  <2> QED BY <2>1, <2>2, <1>1, <1>3, <1>4, <1>5, RowTail, Zenon
<1> QED BY <1>2, <1>3, <1>4, <1>5, Zenon

LEMMA ReadLengthStep ==
  ASSUME WireInv, ReadLength
  PROVE  StepOK
<1>1. /\ Reading /\ length = 0 /\ Len(stream) >= WordSize
      /\ stream' = Drop(stream, WordSize) /\ length' = big_to_native(SubSeq(stream, 1, WordSize))
      /\ eof' = eof /\ handshake' = handshake /\ received' = received /\ sent' = sent
      /\ IF length' = 0 THEN Deliver(KeepAlive) ELSE pc' = pc /\ messages' = messages /\ bitfield_' = bitfield_
  BY DEF ReadLength, LengthReceived, peerVars, sendVars
<1>2. PICK u : \E lost \in Seq(Byte) : Left(u, lost)
  <2>1. Open
    BY <1>1 DEF Reading, Open
  <2> QED BY <2>1, Zenon DEF WireInv, StreamInv
<1>3. PICK lost \in Seq(Byte) : Left(u, lost)
  BY <1>2, Zenon
<1>4. WireTypes /\ DeliveredInv /\ PhaseInv /\ stream \in Seq(Byte)
  BY Zenon DEF WireInv, WireTypes
<1>5. /\ u \in Seq(Payloads) /\ Row(u, received, Len(messages))
      /\ u # <<>> => /\ Len(messages) < Len(received)
                     /\ IsPayload(received[Len(messages) + 1], u[1])
                     /\ Row(Tail(u), received, Len(messages) + 1)
                     /\ Tail(u) \in Seq(Payloads) /\ u[1] \in Payloads
                     /\ Len(u[1]) \in Nat /\ u[1] \in Seq(Byte)
  BY <1>3, <1>4, NextLeft, Zenon
<1>6. Holds(stream, lost, u, 0) /\ (~eof => lost = <<>>)
  BY <1>1, <1>3, Zenon DEF Left
<1>7. /\ u # <<>> /\ stream' \in Seq(Byte) /\ length' = Len(u[1])
      /\ stream' \o lost = u[1] \o Flat(Tail(u))
  BY <1>1, <1>4, <1>5, <1>6, LengthTaken
<1>8. WireTypes' /\ StepOK
  <2>1. CASE length' = 0
    <3>1. u[1] = <<>>
      <4>1. Len(u[1]) = 0
        BY <2>1, <1>7, Zenon
      <4> QED BY <4>1, <1>5, <1>7, EmptyIffNoLength, Zenon
    <3> DEFINE m == received[Len(messages) + 1]
    <3>2. m \in Messages /\ Parsed(m) = KeepAlive
      BY <3>1, <1>5, <1>7, NothingIsKeepAlive, Zenon
    <3>3. Deliver(Parsed(m))
      BY <3>2, <2>1, <1>1, Zenon
    <3> HIDE DEF m
    <3>4. /\ PhaseInv' /\ DeliveredInv' /\ GaveUp /\ Channel!Deliver
          /\ pc' \in {"unchoke", "closed", "request", "messages", "have", "aborted"}
          /\ Len(messages') = Len(messages) + 1
      <4>1. received[Len(messages) + 1] = m
        BY DEF m
      <4> QED BY <4>1, <3>2, <3>3, <2>1, <1>1, <1>4, <1>5, <1>7, Delivered, Zenon
    <3>5. WireTypes'
      <4>1. length' \in Nat
        BY <2>1
      <4>2. pc' \in {"handshake", "bitfield", "unchoke", "interested", "request", "messages", "have",
                   "closed", "aborted"}
        BY <3>4
      <4> QED BY <4>1, <4>2, <1>1, <1>4, <1>7, Zenon DEF WireTypes
    <3>6. StreamInv'
      <4>1. Flat(Tail(u)) \in Seq(Byte)
        BY <1>5, <1>7, FlatIn, Zenon
      <4>2. <<>> \o Flat(Tail(u)) = Flat(Tail(u))
        BY <4>1, ConcatEmptySeq
      <4>3. Holds(stream', lost, Tail(u), length')
        BY <2>1, <3>1, <4>2, <1>7, Zenon DEF Holds, Waiting
      <4>4. Row(Tail(u), received', Len(messages'))
        BY <3>4, <1>1, <1>5, <1>7, Zenon
      <4>5. ~(length' > 0)
        BY <2>1
      <4>6. Left(Tail(u), lost)'
        BY <4>3, <4>4, <4>5, <1>1, <1>6, Zenon DEF Left
      <4> QED BY <4>6, Zenon DEF StreamInv
    <3>7. Handed
      BY <3>2, <3>3, <1>1, <1>5, <1>7, Zenon DEF Handed, m
    <3> QED BY <3>4, <3>5, <3>6, <3>7, Zenon DEF StepOK, WireInv, Channel!Next
  <2>2. CASE length' # 0
    <3>1. pc' = pc /\ messages' = messages
      BY <2>2, <1>1, Zenon
    <3>2. WireTypes'
      BY <3>1, <1>1, <1>4, <1>5, <1>7, Zenon DEF WireTypes
    <3>3. DeliveredInv'
      BY <3>1, <1>1, <1>4, Zenon DEF DeliveredInv
    <3>4. PhaseInv'
      BY <3>1, <1>1 DEF WireInv, PhaseInv, Connected, Reading
    <3>5. StreamInv'
      <4>1. Holds(stream', lost, u, length')
        BY <2>2, <1>7, Zenon DEF Holds, Waiting
      <4>2. Left(u, lost)'
        BY <4>1, <3>1, <1>1, <1>5, <1>6, <1>7, Zenon DEF Left
      <4> QED BY <4>2, Zenon DEF StreamInv
    <3>6. UNCHANGED Channel!channel
      BY <3>1, <1>1 DEF Channel!channel, Open
    <3>7. Handed
      BY <2>2, <3>1, <1>1, Zenon DEF Handed, Connected
    <3>8. GaveUp
      BY <3>1 DEF GaveUp, Open
    <3> QED BY <3>2, <3>3, <3>4, <3>5, <3>6, <3>7, <3>8, Zenon DEF StepOK, WireInv
  <2> QED BY <2>1, <2>2
<1> QED BY <1>8

LEMMA ReadDataStep ==
  ASSUME WireInv, ReadData
  PROVE  StepOK
<1>1. /\ Reading /\ length > 0 /\ Len(stream) >= length
      /\ stream' = Drop(stream, length) /\ length' = 0
      /\ eof' = eof /\ handshake' = handshake /\ received' = received /\ sent' = sent
  BY DEF ReadData, DataSize, peerVars, sendVars
<1>2. PICK u : \E lost \in Seq(Byte) : Left(u, lost)
  <2>1. Open
    BY <1>1 DEF Reading, Open
  <2> QED BY <2>1, Zenon DEF WireInv, StreamInv
<1>3. PICK lost \in Seq(Byte) : Left(u, lost)
  BY <1>2, Zenon
<1>4. WireTypes /\ DeliveredInv /\ PhaseInv /\ stream \in Seq(Byte) /\ length \in Nat
  BY Zenon DEF WireInv, WireTypes
<1>5. /\ u # <<>> /\ length = Len(u[1]) /\ (~eof => lost = <<>>) /\ Holds(stream, lost, u, length)
  BY <1>1, <1>3, Zenon DEF Left
<1>6. /\ u \in Seq(Payloads) /\ Len(messages) < Len(received)
      /\ IsPayload(received[Len(messages) + 1], u[1])
      /\ Row(Tail(u), received, Len(messages) + 1)
      /\ u[1] \in Seq(Byte) /\ Tail(u) \in Seq(Payloads)
  <2>1. WireTypes /\ DeliveredInv /\ Left(u, lost) /\ u # <<>>
    BY <1>3, <1>4, <1>5
  <2> QED BY <2>1, NextLeft, Zenon
<1>7. stream \o lost = u[1] \o Flat(Tail(u))
  <2>1. length # 0
    BY <1>1, <1>4
  <2> QED BY <2>1, <1>5, Zenon DEF Holds, Waiting
<1>8. /\ SubSeq(stream, 1, length) = u[1] /\ stream' \in Seq(Byte)
      /\ Holds(stream', lost, Tail(u), 0)
  BY <1>1, <1>4, <1>5, <1>6, <1>7, DataTaken
<1>9. u[1] # <<>>
  <2>1. u[1] = <<>> <=> Len(u[1]) = 0
    BY <1>6, EmptyIffNoLength, Zenon
  <2> QED BY <2>1, <1>1, <1>5
<1> DEFINE m == received[Len(messages) + 1]
<1>10. \/ m \in Messages /\ MakeMessage(u[1]) = {Parsed(m)}
       \/ m = Malformed /\ MakeMessage(u[1]) = {}
  BY <1>6, <1>9, DataIsMessage, Zenon
<1>11. \/ \E d \in MakeMessage(u[1]) : Deliver(d)
       \/ MakeMessage(u[1]) = {} /\ pc' = "closed" /\ messages' = messages /\ bitfield_' = bitfield_
  BY <1>8 DEF ReadData, DataSize
<1>12. received[Len(messages) + 1] = m
  OBVIOUS
<1> HIDE DEF m
<1>13. CASE m \in Messages /\ MakeMessage(u[1]) = {Parsed(m)}
  <2>1. Deliver(Parsed(m))
    BY <1>11, <1>13, Zenon
  <2>2. /\ PhaseInv' /\ DeliveredInv' /\ GaveUp /\ Channel!Deliver
        /\ pc' \in {"unchoke", "closed", "request", "messages", "have", "aborted"}
        /\ Len(messages') = Len(messages) + 1
    BY <2>1, <1>1, <1>4, <1>6, <1>12, <1>13, Delivered, Zenon
  <2>3. WireTypes'
    <3>1. length' \in Nat
      BY <1>1
    <3>2. pc' \in {"handshake", "bitfield", "unchoke", "interested", "request", "messages", "have",
                   "closed", "aborted"}
      BY <2>2
    <3> QED BY <3>1, <3>2, <1>1, <1>4, <1>8, Zenon DEF WireTypes
  <2>4. StreamInv'
    <3>1. Row(Tail(u), received', Len(messages'))
      BY <2>2, <1>1, <1>6, Zenon
    <3>2. ~(length' > 0)
      BY <1>1
    <3>3. Left(Tail(u), lost)'
      BY <3>1, <3>2, <1>1, <1>5, <1>8, Zenon DEF Left
    <3> QED BY <3>3, Zenon DEF StreamInv
  <2>5. Handed
    BY <2>1, <1>1, <1>6, <1>12, <1>13, Zenon DEF Handed
  <2> QED BY <2>2, <2>3, <2>4, <2>5, Zenon DEF StepOK, WireInv, Channel!Next
<1>14. CASE m = Malformed /\ MakeMessage(u[1]) = {}
  <2>1. pc' = "closed" /\ messages' = messages /\ bitfield_' = bitfield_
    BY <1>11, <1>14, Zenon
  <2>2. WireTypes'
    BY <2>1, <1>1, <1>4, <1>8 DEF WireTypes
  <2>3. DeliveredInv'
    BY <2>1, <1>1, <1>4, Zenon DEF DeliveredInv
  <2>4. PhaseInv' /\ StreamInv'
    BY <2>1, <1>1, <1>4, <1>12, <1>14 DEF PhaseInv, StreamInv, Connected, Open
  <2>5. Channel!GiveUp
    BY <2>1, <1>1 DEF Channel!GiveUp, Open
  <2>6. Handed
    BY <2>1 DEF Handed, Connected
  <2>7. GaveUp
    BY <1>12, <1>14, Zenon DEF GaveUp
  <2> QED BY <2>2, <2>3, <2>4, <2>5, <2>6, <2>7, Zenon DEF StepOK, WireInv, Channel!Next
<1> QED BY <1>10, <1>13, <1>14, Zenon

\* All steps together.
LEMMA Step ==
  ASSUME WireInv, [Next]_vars
  PROVE  StepOK
<1>1. ASSUME UNCHANGED vars PROVE StepOK
  <2>1. /\ pc' = pc /\ stream' = stream /\ length' = length /\ messages' = messages
        /\ eof' = eof /\ handshake' = handshake /\ received' = received /\ sent' = sent
    BY <1>1 DEF vars, peerVars, sendVars
  <2>2. WireInv'
    BY <2>1, Zenon DEF WireInv, WireTypes, PhaseInv, DeliveredInv, StreamInv, Left, Connected, Open
  <2>3. UNCHANGED Channel!channel
    BY <2>1 DEF Channel!channel, Open
  <2>4. Handed
    BY <1>1 DEF Handed, Connected, vars
  <2>5. GaveUp
    BY <2>1 DEF GaveUp, Open
  <2> QED BY <2>2, <2>3, <2>4, <2>5, Zenon DEF StepOK
<1>2. ASSUME Terminated PROVE StepOK
  BY <1>1, <1>2, Zenon DEF Terminated
<1> QED
  BY <1>1, <1>2, PeerHandshakesStep, PeerSendsStep, PeerClosesStep, PeerReadsStep, HandshakeReadStep,
     ReadLengthStep, ReadDataStep, ReadFailsStep, SendUnchokeStep, SendInterestedStep,
     SendRequestStep, SendHaveStep, SendFailsStep, Zenon DEF Next

\* Whatever the peer sends, and wherever the connection is cut: the code above
\* was handed what was sent, and the bytes left are those of what was not.
THEOREM WireInvariant == Spec => []WireInv
<1>1. Init => WireInv
  BY InitInv, Zenon
<1>2. WireInv /\ [Next]_vars => WireInv'
  BY Step, Zenon DEF StepOK
<1> QED BY <1>1, <1>2, PTL DEF Spec

\* What is left is in the stream as the peer wrote it.
LEMMA RestIs ==
  ASSUME WireTypes, DeliveredInv, NoMalformed, NEW u, Row(u, received, Len(messages))
  PROVE  Rest = Flat(u)
<1> DEFINE n == Len(messages)
<1>1. u \in Seq(Payloads) /\ Len(u) = Len(received) - n /\ \A k \in 1 .. Len(u) : IsPayload(received[n + k], u[k])
  BY Zenon DEF Row
<1>2. DOMAIN u = 1 .. Len(u) /\ DOMAIN received = 1 .. Len(received)
  BY <1>1, SeqDomain, Zenon DEF WireTypes
<1>3. Len(received) \in Nat /\ n \in Nat /\ n <= Len(received)
  BY SeqDomain, Zenon DEF WireTypes, DeliveredInv
<1>4. ASSUME NEW k \in 1 .. Len(u) PROVE Frame(Payload(received[n + k])) = Frame(u[k])
  <2>1. n + k \in DOMAIN received
    BY <1>1, <1>2, <1>3
  <2>2. received[n + k] # Malformed
    BY <2>1 DEF NoMalformed, ToSet
  <2>3. IsPayload(received[n + k], u[k])
    BY <1>1, Zenon
  <2> QED BY <2>2, <2>3, Zenon DEF IsPayload
<1>5. [k \in 1 .. Len(received) - n |-> Frame(Payload(received[n + k]))] = Frames(u)
  <2> HIDE DEF n
  <2>1. Frames(u) = [k \in 1 .. Len(u) |-> Frame(u[k])]
    BY <1>2, Zenon DEF Frames
  <2> QED BY <2>1, <1>1, <1>4, Zenon
<1> QED BY <1>5, Zenon DEF Rest, Flat

\* Until the connection ends, the bytes not read are exactly those of the
\* messages not read (ReadAnyMessage, data.resize).
THEOREM WireFramingKept == Spec => []FramingKept
<1>1. WireInv => FramingKept
  <2> SUFFICES ASSUME WireInv, Open, ~eof, NoMalformed
               PROVE  stream = Drop(Rest, IF length = 0 THEN 0 ELSE WordSize)
    BY Zenon DEF FramingKept
  <2>1. PICK u : \E lost \in Seq(Byte) : Left(u, lost)
    BY Zenon DEF WireInv, StreamInv
  <2>2. /\ Row(u, received, Len(messages)) /\ Holds(stream, <<>>, u, length)
        /\ length > 0 => u # <<>>
    BY <2>1, Zenon DEF Left
  <2>3. WireTypes /\ DeliveredInv /\ stream \in Seq(Byte) /\ length \in Nat
    BY Zenon DEF WireInv, WireTypes
  <2>4. Rest = Flat(u) /\ u \in Seq(Payloads)
    BY <2>2, <2>3, RestIs, Zenon DEF Row
  <2>5. stream = Waiting(u, length)
    <3>1. stream \o <<>> = stream
      BY <2>3, ConcatEmptySeq
    <3> QED BY <3>1, <2>2, Zenon DEF Holds
  <2>6. CASE length = 0
    <3>1. stream = Flat(u)
      BY <2>5, <2>6, Zenon DEF Waiting
    <3>2. Drop(stream, 0) = stream
      <4>1. 0 + 1 = 1
        OBVIOUS
      <4> QED BY <4>1, <2>3, SubSeqFull, Zenon DEF Drop
    <3> QED BY <3>1, <3>2, <2>4, <2>6, Zenon
  <2>7. CASE length # 0
    <3> DEFINE w == native_to_big(Len(u[1]))
               b == u[1] \o Flat(Tail(u))
    <3>1. stream = b /\ u # <<>>
      BY <2>2, <2>3, <2>5, <2>7 DEF Waiting
    <3>2. Flat(u) = w \o b
      BY <3>1, <2>4, FlatHead
    <3>3. w \in Seq(Byte) /\ Len(w) = WordSize
      <4>1. u[1] \in Payloads
        BY <3>1, <2>4, FramesTail
      <4> QED BY <4>1, FrameIs, Zenon
    <3> HIDE DEF w, b
    <3>4. b \in Seq(Byte)
      BY <3>1, <2>3, Zenon
    <3>5. Drop(w \o b, Len(w)) = b
      BY <3>3, <3>4, DropFront, Zenon
    <3> QED BY <3>1, <3>2, <3>3, <3>5, <2>4, <2>7, Zenon
  <2> QED BY <2>6, <2>7
<1> QED BY <1>1, WireInvariant, PTL

\* The client gives up a connection for one of five reasons: a message it can
\* read is none of them, nor is one in the middle of a piece
\* (TryDownloadPiecesFromPeer, ReadMessage).
THEOREM WireGivesUpForCause == Spec => GivesUpForCause
<1>1. WireInv /\ [Next]_vars => GaveUp
  BY Step, Zenon DEF StepOK
<1>2. GaveUp => [Open /\ pc' = "closed" =>
                  \/ eof
                  \/ handshake # "torrent"
                  \/ received[1].type # "Bitfield"
                  \/ sent' # sent /\ BetweenPieces'
                  \/ received[Len(messages) + 1] = Malformed]_vars
  BY Zenon DEF GaveUp
<1> QED BY <1>1, <1>2, WireInvariant, PTL DEF Spec, GivesUpForCause

\* The bytes on the wire are the messages of a MessageChannel.
THEOREM WireImplementsChannel == Spec => ImplementsChannel
<1>1. Init => Channel!Init
  BY InitInv, Zenon
<1>2. WireInv /\ [Next]_vars => [Channel!Next]_(Channel!channel)
  BY Step, Zenon DEF StepOK
<1> QED BY <1>1, <1>2, WireInvariant, PTL DEF Spec, ImplementsChannel, Channel!Spec

-----------------------------------------------------------------------------
(* The bitfield.                                                           *)

EightBits == [0 .. 7 -> 0 .. 1]

\* A bit of a byte that is the sum of its bits.
LEMMA BitOfValue ==
  ASSUME NEW bits \in EightBits
  PROVE  /\ Value(bits) \in Byte
         /\ \A k \in 0 .. 7 : (Value(bits) \div Masks[k + 1]) % 2 = bits[k]
<1> DEFINE a == bits[0]
           b == bits[1]
           c == bits[2]
           d == bits[3]
           e == bits[4]
           f == bits[5]
           g == bits[6]
           h == bits[7]
           v == 128 * a + 64 * b + 32 * c + 16 * d + 8 * e + 4 * f + 2 * g + h
<1>1. /\ a \in 0 .. 1 /\ b \in 0 .. 1 /\ c \in 0 .. 1 /\ d \in 0 .. 1
      /\ e \in 0 .. 1 /\ f \in 0 .. 1 /\ g \in 0 .. 1 /\ h \in 0 .. 1
  BY DEF EightBits
<1>2. Value(bits) = v
  BY DEF Value
<1> HIDE DEF a, b, c, d, e, f, g, h
<1>3. v \in 0 .. 255
  BY <1>1
<1>4. /\ (v \div 128) % 2 = a /\ (v \div 64) % 2 = b
      /\ (v \div 32) % 2 = c /\ (v \div 16) % 2 = d
  <2>1. v \div 128 = a
    BY <1>1
  <2>2. v \div 64 = 2 * a + b
    BY <1>1
  <2>3. v \div 32 = 4 * a + 2 * b + c
    BY <1>1
  <2>4. v \div 16 = 8 * a + 4 * b + 2 * c + d
    BY <1>1
  <2> HIDE DEF v
  <2>5. (2 * a + b) % 2 = b
    BY <1>1
  <2>6. (4 * a + 2 * b + c) % 2 = c
    BY <1>1
  <2>7. (8 * a + 4 * b + 2 * c + d) % 2 = d
    BY <1>1
  <2>8. a % 2 = a
    BY <1>1
  <2> QED BY <2>1, <2>2, <2>3, <2>4, <2>5, <2>6, <2>7, <2>8
<1>5. /\ (v \div 8) % 2 = e /\ (v \div 4) % 2 = f
      /\ (v \div 2) % 2 = g /\ (v \div 1) % 2 = h
  <2> DEFINE n == 8 * a + 4 * b + 2 * c + d
  <2>1. n \in Nat /\ v = 16 * n + 8 * e + 4 * f + 2 * g + h
    BY <1>1
  <2> HIDE DEF n, v
  <2>2. v \div 8 = 2 * n + e
    BY <1>1, <2>1
  <2>3. v \div 4 = 4 * n + 2 * e + f
    BY <1>1, <2>1
  <2>4. v \div 2 = 8 * n + 4 * e + 2 * f + g
    BY <1>1, <2>1
  <2>5. v \div 1 = 16 * n + 8 * e + 4 * f + 2 * g + h
    BY <1>1, <2>1
  <2>6. (2 * n + e) % 2 = e
    BY <1>1, <2>1
  <2>7. (4 * n + 2 * e + f) % 2 = f
    BY <1>1, <2>1
  <2>8. (8 * n + 4 * e + 2 * f + g) % 2 = g
    BY <1>1, <2>1
  <2>9. (16 * n + 8 * e + 4 * f + 2 * g + h) % 2 = h
    BY <1>1, <2>1
  <2> QED BY <2>2, <2>3, <2>4, <2>5, <2>6, <2>7, <2>8, <2>9
<1>6. /\ Masks[1] = 128 /\ Masks[2] = 64 /\ Masks[3] = 32 /\ Masks[4] = 16
      /\ Masks[5] = 8 /\ Masks[6] = 4 /\ Masks[7] = 2 /\ Masks[8] = 1
  BY DEF Masks
<1> HIDE DEF v
<1>7. ASSUME NEW k \in 0 .. 7 PROVE (v \div Masks[k + 1]) % 2 = bits[k]
  <2>1. k = 0 \/ k = 1 \/ k = 2 \/ k = 3 \/ k = 4 \/ k = 5 \/ k = 6 \/ k = 7
    OBVIOUS
  <2>2. CASE k = 0
    BY <2>2, <1>4, <1>6 DEF a
  <2>3. CASE k = 1
    BY <2>3, <1>4, <1>6 DEF b
  <2>4. CASE k = 2
    BY <2>4, <1>4, <1>6 DEF c
  <2>5. CASE k = 3
    BY <2>5, <1>4, <1>6 DEF d
  <2>6. CASE k = 4
    BY <2>6, <1>5, <1>6 DEF e
  <2>7. CASE k = 5
    BY <2>7, <1>5, <1>6 DEF f
  <2>8. CASE k = 6
    BY <2>8, <1>5, <1>6 DEF g
  <2>9. CASE k = 7
    BY <2>9, <1>5, <1>6 DEF h
  <2> QED BY <2>1, <2>2, <2>3, <2>4, <2>5, <2>6, <2>7, <2>8, <2>9
<1> QED BY <1>2, <1>3, <1>7, Zenon DEF Byte

LEMMA ByteHasBits ==
  ASSUME NEW byte \in Byte
  PROVE  BitsOf(byte) \in EightBits /\ Value(BitsOf(byte)) = byte
<1> DEFINE a == (byte \div 128) % 2
           b == (byte \div 64) % 2
           c == (byte \div 32) % 2
           d == (byte \div 16) % 2
           e == (byte \div 8) % 2
           f == (byte \div 4) % 2
           g == (byte \div 2) % 2
           h == byte % 2
           bits == [k \in 0 .. 7 |-> <<a, b, c, d, e, f, g, h>>[k + 1]]
<1>1. byte \in Nat /\ byte < 256
  BY DEF Byte
<1>2. /\ a \in 0 .. 1 /\ b \in 0 .. 1 /\ c \in 0 .. 1 /\ d \in 0 .. 1
      /\ e \in 0 .. 1 /\ f \in 0 .. 1 /\ g \in 0 .. 1 /\ h \in 0 .. 1
  BY <1>1
<1>3. byte = 128 * a + 64 * b + 32 * c + 16 * d + 8 * e + 4 * f + 2 * g + h
  <2>1. byte = 2 * (byte \div 2) + h
    BY <1>1
  <2>2. byte \div 2 = 2 * (byte \div 4) + g
    BY <1>1
  <2>3. byte \div 4 = 2 * (byte \div 8) + f
    BY <1>1
  <2>4. byte \div 8 = 2 * (byte \div 16) + e
    BY <1>1
  <2>5. byte \div 16 = 2 * (byte \div 32) + d
    BY <1>1
  <2>6. byte \div 32 = 2 * (byte \div 64) + c
    BY <1>1
  <2>7. byte \div 64 = 2 * (byte \div 128) + b
    BY <1>1
  <2>8. byte \div 128 = a
    BY <1>1
  <2> DEFINE n2 == byte \div 2
             n4 == byte \div 4
             n8 == byte \div 8
             n16 == byte \div 16
             n32 == byte \div 32
             n64 == byte \div 64
             n128 == byte \div 128
  <2>9. /\ n2 \in Int /\ n4 \in Int /\ n8 \in Int /\ n16 \in Int /\ n32 \in Int
        /\ n64 \in Int /\ n128 \in Int
    BY <1>1
  <2>10. /\ byte = 2 * n2 + h /\ n2 = 2 * n4 + g /\ n4 = 2 * n8 + f /\ n8 = 2 * n16 + e
         /\ n16 = 2 * n32 + d /\ n32 = 2 * n64 + c /\ n64 = 2 * n128 + b /\ n128 = a
    BY <2>1, <2>2, <2>3, <2>4, <2>5, <2>6, <2>7, <2>8, Zenon
  <2> HIDE DEF a, b, c, d, e, f, g, h, n2, n4, n8, n16, n32, n64, n128
  <2> QED BY <2>9, <2>10, <1>1, <1>2
<1> HIDE DEF a, b, c, d, e, f, g, h
<1>4. /\ bits[0] = a /\ bits[1] = b /\ bits[2] = c /\ bits[3] = d
      /\ bits[4] = e /\ bits[5] = f /\ bits[6] = g /\ bits[7] = h
  OBVIOUS
<1>5. bits \in EightBits
  <2> DEFINE t == <<a, b, c, d, e, f, g, h>>
  <2>1. \A k \in 0 .. 7 : t[k + 1] \in 0 .. 1
    BY <1>2
  <2> HIDE DEF t
  <2>2. [k \in 0 .. 7 |-> t[k + 1]] \in [0 .. 7 -> 0 .. 1]
    BY <2>1
  <2> QED BY <2>2, Zenon DEF EightBits, t
<1> HIDE DEF bits
<1>6. Value(bits) = byte
  BY <1>3, <1>4 DEF Value
<1> QED BY <1>5, <1>6, Zenon DEF BitsOf, EightBits

\* A bit that is not set is set by adding its mask.
LEMMA SetBit ==
  ASSUME NEW bits \in EightBits, NEW k \in 0 .. 7, bits[k] = 0
  PROVE  /\ [bits EXCEPT ![k] = 1] \in EightBits
         /\ Value([bits EXCEPT ![k] = 1]) = Value(bits) + Masks[k + 1]
<1> DEFINE new == [bits EXCEPT ![k] = 1]
           one == [j \in 0 .. 7 |-> IF j = k THEN 1 ELSE 0]
<1>1. new \in EightBits
  BY DEF EightBits
<1>2. \A j \in 0 .. 7 : bits[j] \in Int /\ one[j] \in Int /\ new[j] = bits[j] + one[j]
  BY DEF EightBits
<1>3. Value(one) = Masks[k + 1]
  <2>1. /\ Masks[1] = 128 /\ Masks[2] = 64 /\ Masks[3] = 32 /\ Masks[4] = 16
        /\ Masks[5] = 8 /\ Masks[6] = 4 /\ Masks[7] = 2 /\ Masks[8] = 1
    BY DEF Masks
  <2>2. k = 0 \/ k = 1 \/ k = 2 \/ k = 3 \/ k = 4 \/ k = 5 \/ k = 6 \/ k = 7
    OBVIOUS
  <2> QED BY <2>1, <2>2 DEF Value
<1> HIDE DEF new, one
<1>4. Value(new) = Value(bits) + Value(one)
  <2>1. /\ new[0] = bits[0] + one[0] /\ new[1] = bits[1] + one[1] /\ new[2] = bits[2] + one[2]
        /\ new[3] = bits[3] + one[3] /\ new[4] = bits[4] + one[4] /\ new[5] = bits[5] + one[5]
        /\ new[6] = bits[6] + one[6] /\ new[7] = bits[7] + one[7]
    BY <1>2
  <2>2. /\ bits[0] \in Int /\ bits[1] \in Int /\ bits[2] \in Int /\ bits[3] \in Int
        /\ bits[4] \in Int /\ bits[5] \in Int /\ bits[6] \in Int /\ bits[7] \in Int
    BY <1>2
  <2>3. /\ one[0] \in Int /\ one[1] \in Int /\ one[2] \in Int /\ one[3] \in Int
        /\ one[4] \in Int /\ one[5] \in Int /\ one[6] \in Int /\ one[7] \in Int
    BY <1>2
  <2> DEFINE a == bits[0]
             b == bits[1]
             c == bits[2]
             d == bits[3]
             e == bits[4]
             f == bits[5]
             g == bits[6]
             h == bits[7]
             a1 == one[0]
             b1 == one[1]
             c1 == one[2]
             d1 == one[3]
             e1 == one[4]
             f1 == one[5]
             g1 == one[6]
             h1 == one[7]
  <2>4. Value(new) = 128 * (a + a1) + 64 * (b + b1) + 32 * (c + c1) + 16 * (d + d1)
                       + 8 * (e + e1) + 4 * (f + f1) + 2 * (g + g1) + (h + h1)
    BY <2>1, Zenon DEF Value
  <2>5. Value(bits) = 128 * a + 64 * b + 32 * c + 16 * d + 8 * e + 4 * f + 2 * g + h
    BY Zenon DEF Value
  <2>6. Value(one) = 128 * a1 + 64 * b1 + 32 * c1 + 16 * d1 + 8 * e1 + 4 * f1 + 2 * g1 + h1
    BY Zenon DEF Value
  <2> HIDE DEF a, b, c, d, e, f, g, h, a1, b1, c1, d1, e1, f1, g1, h1
  <2>7. /\ a \in Int /\ b \in Int /\ c \in Int /\ d \in Int /\ e \in Int /\ f \in Int /\ g \in Int /\ h \in Int
        /\ a1 \in Int /\ b1 \in Int /\ c1 \in Int /\ d1 \in Int /\ e1 \in Int /\ f1 \in Int /\ g1 \in Int /\ h1 \in Int
    BY <2>2, <2>3, Zenon DEF a, b, c, d, e, f, g, h, a1, b1, c1, d1, e1, f1, g1, h1
  <2> QED BY <2>4, <2>5, <2>6, <2>7
<1> QED BY <1>1, <1>3, <1>4 DEF new

\* Where a piece is.
LEMMA PlaceOf ==
  ASSUME NEW i \in Nat, NEW n \in Nat
  PROVE  /\ i \div 8 \in Nat /\ i % 8 \in 0 .. 7 /\ i = 8 * (i \div 8) + (i % 8)
         /\ i \div 8 < n <=> i \in 0 .. 8 * n - 1
         /\ i \div 8 < n => i \div 8 + 1 \in 1 .. n
<1> DEFINE q == i \div 8
           r == i % 8
<1>1. q \in Nat /\ r \in 0 .. 7 /\ i = 8 * q + r
  OBVIOUS
<1> HIDE DEF q, r
<1>2. q < n <=> i \in 0 .. 8 * n - 1
  BY <1>1
<1>3. q < n => q + 1 \in 1 .. n
  BY <1>1
<1> QED BY <1>1, <1>2, <1>3, Zenon DEF q, r

\* has_piece reads the bit of the piece.
LEMMA HasIs ==
  ASSUME NEW data \in Seq(Byte), NEW i \in Nat
  PROVE  has_piece(data, i) <=> i \in Bits(data) /\ BitsOf(data[i \div 8 + 1])[i % 8] = 1
<1> DEFINE q == i \div 8
           r == i % 8
<1>1. Len(data) \in Nat /\ \A k \in 1 .. Len(data) : data[k] \in Byte
  BY SeqDomain, Zenon
<1>2. /\ r \in 0 .. 7 /\ (q < Len(data) <=> i \in Bits(data))
      /\ q < Len(data) => q + 1 \in 1 .. Len(data)
  BY <1>1, PlaceOf, Zenon DEF Bits
<1>3. has_piece(data, i) <=> q < Len(data) /\ (data[q + 1] \div Masks[r + 1]) % 2 = 1
  BY Zenon DEF has_piece, Mask
<1> HIDE DEF q, r
<1>4. ASSUME q < Len(data) PROVE (data[q + 1] \div Masks[r + 1]) % 2 = BitsOf(data[q + 1])[r]
  <2> DEFINE byte == data[q + 1]
             bits == BitsOf(byte)
  <2>1. byte \in Byte
    BY <1>1, <1>2, <1>4, Zenon
  <2> HIDE DEF byte
  <2>2. bits \in EightBits /\ Value(bits) = byte
    BY <2>1, ByteHasBits, Zenon
  <2> HIDE DEF bits
  <2>3. (byte \div Masks[r + 1]) % 2 = bits[r]
    BY <2>2, <1>2, BitOfValue
  <2> QED BY <2>3, Zenon DEF bits, byte
<1> QED BY <1>2, <1>3, <1>4, Zenon DEF q, r

LEMMA AnnouncedIs ==
  ASSUME NEW data \in Seq(Byte)
  PROVE  \A i \in Bits(data) : i \in Nat /\ (i \in Announced(data) <=> has_piece(data, i))
<1> SUFFICES ASSUME NEW i \in Bits(data) PROVE i \in Nat /\ (i \in Announced(data) <=> has_piece(data, i))
  OBVIOUS
<1>1. Len(data) \in Nat /\ DOMAIN data = 1 .. Len(data)
  BY SeqDomain, Zenon
<1>2. i \in Nat /\ i \in 0 .. 8 * Len(data) - 1
  BY <1>1 DEF Bits
<1> DEFINE q == i \div 8
           bits == [k \in DOMAIN data |-> BitsOf(data[k])]
<1>3. q < Len(data) <=> i \in 0 .. 8 * Len(data) - 1
  BY <1>1, <1>2, PlaceOf, Zenon
<1>4. q < Len(data) => q + 1 \in 1 .. Len(data)
  BY <1>1, <1>2, PlaceOf, Zenon
<1> HIDE DEF q
<1>5. bits[q + 1] = BitsOf(data[q + 1])
  BY <1>1, <1>2, <1>3, <1>4, Zenon
<1>6. i \in Announced(data) <=> bits[q + 1][i % 8] = 1
  BY Zenon DEF Announced, q
<1> QED BY <1>2, <1>5, <1>6, HasIs, Zenon DEF q

\* set_piece sets the bit of the piece, if there is one, and no other.
LEMMA SetPieceIs ==
  ASSUME NEW data \in Seq(Byte), NEW index \in Nat
  PROVE  /\ set_piece(data, index) \in Seq(Byte) /\ Len(set_piece(data, index)) = Len(data)
         /\ \A i \in Bits(data) :
              has_piece(set_piece(data, index), i) <=> has_piece(data, i) \/ i = index
<1> DEFINE q == index \div 8
           r == index % 8
           new == set_piece(data, index)
<1>1. Len(data) \in Nat /\ DOMAIN data = 1 .. Len(data) /\ \A k \in 1 .. Len(data) : data[k] \in Byte
  BY SeqDomain, Zenon
<1>2. /\ q \in Nat /\ r \in 0 .. 7 /\ (q < Len(data) <=> index \in Bits(data))
      /\ q < Len(data) => q + 1 \in 1 .. Len(data)
  BY <1>1, PlaceOf, Zenon DEF Bits
<1>3. CASE ~(q < Len(data))
  <2>1. new = data
    BY <1>1, <1>2, <1>3 DEF set_piece
  <2>2. \A i \in Bits(data) : i # index
    BY <1>2, <1>3, Zenon
  <2> QED BY <2>1, <2>2, Zenon
<1>4. CASE has_piece(data, index)
  <2>1. new = data
    BY <1>4, Zenon DEF set_piece
  <2> QED BY <2>1, <1>4, Zenon
<1>5. CASE q < Len(data) /\ ~has_piece(data, index)
  <2> DEFINE byte == data[q + 1]
             bits == BitsOf(byte)
             to == [bits EXCEPT ![r] = 1]
  <2>1. new = [data EXCEPT ![q + 1] = byte + Masks[r + 1]]
    <3>1. ~(q >= Len(data))
      BY <1>1, <1>2, <1>5
    <3> QED BY <3>1, <1>5, Zenon DEF set_piece, Mask
  <2>2. byte \in Byte /\ bits \in EightBits /\ Value(bits) = byte
    <3>1. byte \in Byte
      BY <1>1, <1>2, <1>5, Zenon
    <3> QED BY <3>1, ByteHasBits, Zenon
  <2>3. bits[r] = 0
    <3>1. bits[r] # 1
      BY <1>2, <1>5, HasIs, Zenon
    <3>2. bits[r] \in 0 .. 1
      <4> HIDE DEF bits, r
      <4> QED BY <1>2, <2>2 DEF EightBits
    <3> HIDE DEF bits, r
    <3> QED BY <3>1, <3>2
  <2> HIDE DEF q, r, new
  <2>4. to \in EightBits /\ Value(to) = byte + Masks[r + 1]
    <3> HIDE DEF bits, byte
    <3> QED BY <1>2, <2>2, <2>3, SetBit
  <2>5. Value(to) \in Byte /\ \A k \in 0 .. 7 : (Value(to) \div Masks[k + 1]) % 2 = to[k]
    BY <2>4, BitOfValue, Zenon
  <2>6. \A k \in 0 .. 7 : (byte \div Masks[k + 1]) % 2 = bits[k]
    BY <2>2, BitOfValue, Zenon
  <2>7. \A k \in 0 .. 7 : to[k] = IF k = r THEN 1 ELSE bits[k]
    <3> HIDE DEF bits
    <3> QED BY <2>2 DEF EightBits
  <2> DEFINE put == Value(to)
  <2>8. new = [data EXCEPT ![q + 1] = put]
    BY <2>1, <2>4, Zenon
  <2> HIDE DEF byte, bits, to, put
  <2>9. new \in Seq(Byte) /\ Len(new) = Len(data) /\ \A k \in 1 .. Len(data) : new[k] = IF k = q + 1 THEN put ELSE data[k]
    <3>1. put \in Byte /\ q + 1 \in 1 .. Len(data)
      BY <2>5, <1>2, <1>5, Zenon DEF put
    <3> QED BY <3>1, <2>8, <1>1
  <2>10. ASSUME NEW i \in Bits(data) PROVE has_piece(new, i) <=> has_piece(data, i) \/ i = index
    <3> DEFINE a == i \div 8
               b == i % 8
    <3>1. i \in Nat /\ i \in 0 .. 8 * Len(data) - 1
      BY <1>1 DEF Bits
    <3>2. a \in Nat /\ b \in 0 .. 7 /\ i = 8 * a + b /\ a < Len(data) /\ a + 1 \in 1 .. Len(data)
      BY <3>1, <1>1, PlaceOf, Zenon
    <3>3. /\ has_piece(new, i) <=> (new[a + 1] \div Masks[b + 1]) % 2 = 1
          /\ has_piece(data, i) <=> (data[a + 1] \div Masks[b + 1]) % 2 = 1
      BY <3>2, <2>9, Zenon DEF has_piece, Mask
    <3>4. index = 8 * q + r
      BY PlaceOf, Zenon DEF q, r
    <3> HIDE DEF a, b
    <3>5. i = index <=> a = q /\ b = r
      BY <3>2, <3>4, <1>2
    <3>6. CASE a # q
      <4>1. a + 1 # q + 1
        BY <3>6, <3>2, <1>2
      <4>2. new[a + 1] = data[a + 1]
        BY <4>1, <3>2, <2>9, Zenon
      <4> QED BY <4>2, <3>3, <3>5, <3>6, Zenon
    <3>7. CASE a = q
      <4>1. new[a + 1] = put /\ data[a + 1] = byte
        BY <3>7, <3>2, <2>9, Zenon DEF byte
      <4>2. (put \div Masks[b + 1]) % 2 = to[b] /\ (byte \div Masks[b + 1]) % 2 = bits[b]
        BY <3>2, <2>5, <2>6, Zenon DEF put
      <4>3. to[b] = IF b = r THEN 1 ELSE bits[b]
        BY <2>7, <3>2, Zenon
      <4> QED BY <4>1, <4>2, <4>3, <3>3, <3>5, <3>7, Zenon
    <3> QED BY <3>6, <3>7
  <2> QED BY <2>9, <2>10, Zenon DEF new
<1> QED BY <1>3, <1>4, <1>5, Zenon

\* What the peer has said it has.
SaidToHave == Announced(messages[1].bytes) \union HavesOf(messages)

BitfieldInv ==
  Connected =>
    /\ bitfield_ \in Seq(Byte) /\ messages[1].bytes \in Seq(Byte)
    /\ Len(bitfield_) = Len(messages[1].bytes)
    /\ \A i \in Bits(messages[1].bytes) : has_piece(bitfield_, i) <=> i \in SaidToHave

LEMMA HavesAppend ==
  ASSUME NEW T, NEW ms \in Seq(T), NEW m \in T
  PROVE  HavesOf(Append(ms, m)) = HavesOf(ms) \union (IF m.type = "Have" THEN {m.words[1]} ELSE {})
<1> DEFINE ns == Append(ms, m)
           n == Len(ms)
<1>1. /\ ns \in Seq(T) /\ Len(ns) = n + 1 /\ ns[n + 1] = m
      /\ \A k \in 1 .. n : ns[k] = ms[k]
  BY AppendProperties
<1>2. n \in Nat /\ DOMAIN ms = 1 .. n
  BY SeqDomain, Zenon
<1>3. DOMAIN ns = 1 .. n + 1
  BY <1>1, SeqDomain, Zenon
<1>4. \A k : k \in 1 .. n + 1 <=> k \in 1 .. n \/ k = n + 1
  BY <1>2
<1> HIDE DEF ns, n
<1>5. ASSUME NEW w PROVE w \in HavesOf(ns) <=> w \in HavesOf(ms) \/ (m.type = "Have" /\ w = m.words[1])
  <2>1. w \in HavesOf(ns) <=> \E k \in 1 .. n + 1 : ns[k].type = "Have" /\ w = ns[k].words[1]
    BY <1>3, Zenon DEF HavesOf
  <2>2. w \in HavesOf(ms) <=> \E k \in 1 .. n : ms[k].type = "Have" /\ w = ms[k].words[1]
    BY <1>2, Zenon DEF HavesOf
  <2> QED BY <2>1, <2>2, <1>1, <1>4, Zenon
<1> QED BY <1>5, Zenon DEF ns

\* What is parsed of a well-formed message.
LEMMA ParsedFacts ==
  ASSUME NEW m \in Messages
  PROVE  /\ Parsed(m).type = "Bitfield" => Parsed(m).bytes \in Seq(Byte)
         /\ Parsed(m).type = "Have" => Parsed(m).words[1] \in Nat
<1>1. WellFormed(m)
  BY PeerWireAssumption, Zenon
<1>2. Parsed(m).type \in {"Bitfield", "Have"} => Parsed(m) = m
  BY TypesAre DEF Parsed, Message
<1>3. m.bytes \in Seq(Byte)
  BY <1>1, Zenon DEF WellFormed
<1>4. m.type = "Have" => m.words[1] \in Nat
  BY <1>1, OneWord, Zenon DEF WellFormed
<1> QED BY <1>2, <1>3, <1>4

LEMMA BitfieldStep ==
  ASSUME WireInv, BitfieldInv, Handed
  PROVE  BitfieldInv'
<1>1. ASSUME messages' = messages, bitfield_' = bitfield_, Connected' => Connected PROVE BitfieldInv'
  BY <1>1, Zenon DEF BitfieldInv, SaidToHave
<1> DEFINE m == received[Len(messages) + 1]
           d == Parsed(m)
<1>2. ASSUME m \in Messages, Deliver(d), Connected' PROVE BitfieldInv'
  <2>1. /\ d.type = "Bitfield" => d.bytes \in Seq(Byte)
        /\ d.type = "Have" => d.words[1] \in Nat
        /\ d \in Known
    BY <1>2, ParsedFacts, Zenon DEF Known
  <2> HIDE DEF m, d
  <2>2. messages \in Seq(Known)
    BY Zenon DEF WireInv, DeliveredInv
  <2>3. messages' = Append(messages, d)
    BY <1>2, Zenon DEF Deliver
  <2>4. HavesOf(messages') = HavesOf(messages) \union (IF d.type = "Have" THEN {d.words[1]} ELSE {})
    BY <2>1, <2>2, <2>3, HavesAppend, Zenon
  <2>5. CASE pc = "bitfield"
    <3>1. d.type = "Bitfield" /\ bitfield_' = d.bytes
      BY <1>2, <2>5 DEF Deliver, Connected
    <3>2. messages = <<>>
      BY <2>5 DEF WireInv, PhaseInv
    <3>3. messages'[1] = d
      BY <2>3, <3>2
    <3>4. HavesOf(messages') = {}
      <4>1. HavesOf(messages) = {}
        BY <3>2 DEF HavesOf
      <4> QED BY <4>1, <3>1, <2>4
    <3>5. d.bytes \in Seq(Byte)
      BY <3>1, <2>1, Zenon
    <3>6. \A i \in Bits(d.bytes) : has_piece(d.bytes, i) <=> i \in Announced(d.bytes)
      BY <3>5, AnnouncedIs, Zenon
    <3>7. \A i : i \in SaidToHave' <=> i \in Announced(d.bytes)
      BY <3>3, <3>4, Zenon DEF SaidToHave
    <3> QED BY <3>1, <3>3, <3>5, <3>6, <3>7, Zenon DEF BitfieldInv
  <2>6. CASE pc # "bitfield"
    <3>1. /\ pc = "messages"
          /\ bitfield_' = IF d.type = "Have" THEN set_piece(bitfield_, d.words[1]) ELSE bitfield_
      BY <1>2, <2>6, Zenon DEF Deliver
    <3>2. Connected /\ messages # <<>>
      BY <3>1 DEF Connected, WireInv, PhaseInv
    <3>3. messages'[1] = messages[1]
      BY <3>2, <2>1, <2>2, <2>3, AppendKeepsFirst
    <3>4. /\ bitfield_ \in Seq(Byte) /\ messages[1].bytes \in Seq(Byte)
          /\ Len(bitfield_) = Len(messages[1].bytes)
          /\ \A i \in Bits(messages[1].bytes) : has_piece(bitfield_, i) <=> i \in SaidToHave
      BY <3>2, Zenon DEF BitfieldInv
    <3>5. CASE d.type = "Have"
      <4>1. bitfield_' = set_piece(bitfield_, d.words[1]) /\ d.words[1] \in Nat
        BY <3>1, <3>5, <2>1, Zenon
      <4>2. /\ bitfield_' \in Seq(Byte) /\ Len(bitfield_') = Len(bitfield_)
            /\ \A i \in Bits(bitfield_) : has_piece(bitfield_', i) <=> has_piece(bitfield_, i) \/ i = d.words[1]
        BY <4>1, <3>4, SetPieceIs, Zenon
      <4>3. Bits(bitfield_) = Bits(messages[1].bytes)
        BY <3>4, Zenon DEF Bits
      <4>4. \A i : i \in SaidToHave' <=> i \in SaidToHave \/ i = d.words[1]
        BY <2>4, <3>3, <3>5, Zenon DEF SaidToHave
      <4>5. \A i \in Bits(messages'[1].bytes) : has_piece(bitfield_', i) <=> i \in SaidToHave'
        BY <4>2, <4>3, <4>4, <3>3, <3>4, Zenon
      <4> QED BY <4>2, <4>5, <3>3, <3>4, Zenon DEF BitfieldInv
    <3>6. CASE d.type # "Have"
      <4>1. bitfield_' = bitfield_
        BY <3>1, <3>6, Zenon
      <4>2. \A i : i \in SaidToHave' <=> i \in SaidToHave
        BY <2>4, <3>3, <3>6, Zenon DEF SaidToHave
      <4> QED BY <4>1, <4>2, <3>3, <3>4, Zenon DEF BitfieldInv
    <3> QED BY <3>5, <3>6, Zenon
  <2> QED BY <2>5, <2>6, Zenon
<1>3. ~Connected' => BitfieldInv'
  BY Zenon DEF BitfieldInv
<1> QED BY <1>1, <1>2, <1>3, Zenon DEF Handed

\* The client knows exactly what the peer has said it has, bit by bit
\* (has_piece, set_piece).
THEOREM WireBitfieldExact == Spec => []BitfieldExact
<1>1. Init => BitfieldInv
  BY DEF Init, BitfieldInv, Connected
<1>2. WireInv /\ BitfieldInv /\ [Next]_vars => BitfieldInv'
  BY Step, BitfieldStep, Zenon DEF StepOK
<1>3. WireInv /\ BitfieldInv => BitfieldExact
  <2> SUFFICES ASSUME WireInv, BitfieldInv, pc \in {"request", "messages", "have"}
               PROVE  {i \in Bits(received[1].bytes) : has_piece(bitfield_, i)} =
                        Bits(received[1].bytes) \intersect (Announced(received[1].bytes) \union HavesOf(messages))
    BY Zenon DEF BitfieldExact
  <2>1. Connected
    BY DEF Connected
  <2>2. messages[1] = received[1]
    <3>1. messages # <<>> /\ messages[1].type = "Bitfield"
      BY <2>1 DEF WireInv, PhaseInv, IsBitfield
    <3>2. messages \in Seq(Known)
      BY Zenon DEF WireInv, DeliveredInv
    <3>3. 1 \in 1 .. Len(messages)
      <4>1. Len(messages) \in Nat /\ (messages = <<>> <=> Len(messages) = 0)
        BY <3>2, SeqDomain, EmptyIffNoLength, Zenon
      <4> QED BY <4>1, <3>1
    <3>4. messages[1] = Parsed(received[1])
      BY <3>3, Zenon DEF WireInv, DeliveredInv
    <3> DEFINE m == received[1]
    <3> HIDE DEF m
    <3>5. Parsed(m).type = "Bitfield" => Parsed(m) = m
      BY ParsedType DEF Parsed
    <3> QED BY <3>1, <3>4, <3>5, Zenon DEF m
  <2> QED BY <2>1, <2>2, Zenon DEF BitfieldInv, SaidToHave
<1> QED BY <1>1, <1>2, <1>3, WireInvariant, PTL DEF Spec
=============================================================================
