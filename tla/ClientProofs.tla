---------------------------- MODULE ClientProofs ----------------------------
(***************************************************************************)
(* First the engine: the invariants of Downloader hold for every set of    *)
(* peers and every torrent, block size and backlog.  They are proved       *)
(* together: what a connection asks for next is within its piece because   *)
(* no other connection moves the counters of that piece (PieceAccounting), *)
(* the counters agree with the buffer because no byte is asked for twice   *)
(* (BytesExact), and both need to know where in the coroutine a piece is   *)
(* held (Control).                                                         *)
(*                                                                         *)
(* Then the whole program over crashes and restarts: those invariants and  *)
(* the invariant of the files (FilesOnDiskProofs), kept together by every  *)
(* step of Client, and the disk as TorrentStore has it.                    *)
(***************************************************************************)
EXTENDS Client, SequenceLemmas


-----------------------------------------------------------------------------
(* What get_piece_size returns, for every layout make() accepts.           *)

\* get_piece_size returns the number of bytes of the piece, although it
\* multiplies in 32 bits: a last piece fits in a word, and the subtraction
\* takes back what the product lost.
THEOREM PieceSizeExact ==
  ASSUME NEW count, NEW size, NEW total, ValidLayout(count, size, total),
         NEW index \in 0 .. count - 1
  PROVE  /\ get_piece_size(count, size, total, index) = PieceBytes(count, size, total, index)
         /\ get_piece_size(count, size, total, index) \in 1 .. size
<1>1. /\ count \in 1 .. Word - 1
      /\ size \in 1 .. Word - 1
      /\ total \in Nat
      /\ size * (count - 1) < total
      /\ total - size * (count - 1) <= size
  BY DEF ValidLayout
<1>2. Word \in Nat \ {0}
  BY WordAssumption
<1>3. CASE index < count - 1
  BY <1>1, <1>3 DEF get_piece_size, PieceBytes
<1>4. CASE ~(index < count - 1)
  <2> DEFINE before == size * (count - 1)
  <2>1. before \in Int
    BY <1>1, <1>2
  <2>2. total - before \in 1 .. size
    BY <1>1, <1>2, <2>1
  <2> HIDE DEF before
  <2>3. total - before \in 0 .. Word - 1
    BY <1>1, <1>2, <2>1, <2>2
  <2>4. (total - (before % Word)) % Word = total - before
    <3>1. total \in Int
      BY <1>1
    <3> QED
      BY ONLY <1>2, <2>1, <2>3, <3>1, ModOfDifference
  <2> QED
    BY <1>4, <2>2, <2>4 DEF get_piece_size, PieceBytes, BytesBeforeLast, U32, before
<1> QED
  BY <1>3, <1>4

\* The assertion of get_piece_size: the product is below the total.
THEOREM BytesBeforeLastBelowTotal ==
  ASSUME NEW count, NEW size, NEW total, ValidLayout(count, size, total)
  PROVE  total > BytesBeforeLast(count, size)
<1> DEFINE before == size * (count - 1)
<1>1. before \in Nat /\ total \in Nat /\ before < total /\ Word \in Nat \ {0}
  BY WordAssumption DEF ValidLayout
<1> HIDE DEF before
<1>2. before % Word <= before
  <2>1. before % Word \in 0 .. Word - 1 /\ before \div Word \in Int
        /\ before = Word * (before \div Word) + (before % Word)
    BY <1>1, DivMod
  <2>2. before \div Word >= 0
    BY <1>1
  <2>3. Word * (before \div Word) >= 0
    BY <1>1, <2>1, <2>2
  <2> QED
    BY <1>1, <2>1, <2>3
<1>3. before % Word \in Int
  BY <1>1
<1> QED
  BY <1>1, <1>2, <1>3 DEF BytesBeforeLast, U32, before

-----------------------------------------------------------------------------
(* The engine.                                                             *)

\* The inductive invariant: what the runs check, together.
IInv ==
  /\ TypeOK
  /\ Control
  /\ PieceAccounting
  /\ BytesExact
  /\ StoredWhole
  /\ BacklogBound
  /\ BookkeepingAssertsHold
  /\ phase = "exited" => Done = PieceIndex

-----------------------------------------------------------------------------
(* The data.                                                               *)

LEMMA CountBelow ==
  ASSUME NEW n \in Nat
  PROVE  IsFiniteSet(0 .. n - 1) /\ Cardinality(0 .. n - 1) = n
<1>1. /\ IsFiniteSet(0 .. n - 1)
      /\ Cardinality(0 .. n - 1) = IF 0 > n - 1 THEN 0 ELSE n - 1 - 0 + 1
  BY FS_Interval
<1> QED
  BY <1>1

LEMMA ConstantsType ==
  /\ PiecesCount \in Nat \ {0}
  /\ PieceSize \in Nat \ {0}
  /\ MaxBlock \in Nat \ {0}
  /\ MaxBacklog \in Nat \ {0}
  /\ NoPiece \notin PieceIndex
BY DownloaderAssumption, WordAssumption DEF ValidLayout

LEMMA SizeOfType == \A i \in PieceIndex : SizeOf(i) \in Nat \ {0}
<1> SUFFICES ASSUME NEW i \in PieceIndex PROVE SizeOf(i) \in Nat \ {0}
  OBVIOUS
<1>1. ValidLayout(PiecesCount, PieceSize, TotalSize)
  BY DownloaderAssumption
<1>2. SizeOf(i) \in 1 .. PieceSize
  BY <1>1, PieceSizeExact DEF SizeOf, PieceIndex
<1> QED
  BY <1>2, ConstantsType

LEMMA SkippedProps ==
  ASSUME NEW from \in Nat, NEW to \in Nat, from <= to, to <= PiecesCount
  PROVE  /\ Skipped(from, to) \in Seq(PieceIndex)
         /\ Len(Skipped(from, to)) = to - from
         /\ \A k \in 1 .. to - from : Skipped(from, to)[k] = from + k - 1
BY ConstantsType DEF PieceIndex, Skipped

LEMMA RemoveAtProps ==
  ASSUME NEW S, NEW s \in Seq(S), NEW k \in 1 .. Len(s)
  PROVE  /\ RemoveAt(s, k) \in Seq(S)
         /\ Len(RemoveAt(s, k)) = Len(s) - 1
         /\ \A j \in 1 .. Len(s) - 1 : RemoveAt(s, k)[j] = IF j < k THEN s[j] ELSE s[j + 1]
<1> DEFINE a == SubSeq(s, 1, k - 1)
           b == SubSeq(s, k + 1, Len(s))
<1>0. \A i \in 1 .. Len(s) : s[i] \in S
  BY ElementOfSeq
<1>1. a \in Seq(S) /\ Len(a) = k - 1 /\ \A j \in 1 .. k - 1 : a[j] = s[j]
  BY <1>0, SubSeqProperties
<1>2. b \in Seq(S) /\ Len(b) = Len(s) - k /\ \A j \in 1 .. Len(s) - k : b[j] = s[k + j]
  <2>1. k + 1 \in Int /\ Len(s) \in Int
    OBVIOUS
  <2>2. /\ b \in Seq(S)
        /\ Len(b) = IF k + 1 <= Len(s) THEN Len(s) - (k + 1) + 1 ELSE 0
        /\ \A j \in 1 .. Len(s) - (k + 1) + 1 : b[j] = s[k + 1 + j - 1]
    <3>1. \A i \in k + 1 .. Len(s) : s[i] \in S
      BY <1>0
    <3> QED BY <2>1, <3>1, SubSeqProperties
  <2> HIDE DEF b
  <2>3. Len(b) = Len(s) - k
    BY <2>2
  <2>4. ASSUME NEW j \in 1 .. Len(s) - k PROVE b[j] = s[k + j]
    <3>1. b[j] = s[k + 1 + j - 1] BY <2>2
    <3>2. k + 1 + j - 1 = k + j OBVIOUS
    <3> QED BY <3>1, <3>2
  <2> QED BY <2>2, <2>3, <2>4
<1>3. RemoveAt(s, k) = a \o b
  BY DEF RemoveAt
<1> HIDE DEF a, b
<1>n. Len(s) \in Nat /\ k \in Int
  OBVIOUS
<1>4. a \o b \in Seq(S) /\ Len(a \o b) = Len(s) - 1
  <2>1. a \o b \in Seq(S) /\ Len(a \o b) = Len(a) + Len(b)
    BY <1>1, <1>2, ConcatProperties
  <2>2. (k - 1) + (Len(s) - k) = Len(s) - 1
    BY <1>n
  <2> QED BY <2>1, <2>2, <1>1, <1>2
<1>5. ASSUME NEW j \in 1 .. Len(s) - 1 PROVE (a \o b)[j] = IF j < k THEN s[j] ELSE s[j + 1]
  <2>1. CASE j < k BY <2>1, <1>1, <1>2, ConcatProperties
  <2>2. CASE j >= k
    <3>1. (a \o b)[j] = b[j - (k - 1)]
      BY <2>2, <1>1, <1>2, ConcatProperties
    <3>2. j - (k - 1) \in 1 .. Len(s) - k
      BY <2>2
    <3>3. b[j - (k - 1)] = s[k + (j - (k - 1))]
      BY <3>2, <1>2
    <3>4. k + (j - (k - 1)) = j + 1
      OBVIOUS
    <3> QED BY <3>1, <3>3, <3>4, <2>2
  <2>3. j < k \/ j >= k BY <1>n
  <2> QED BY <2>1, <2>2, <2>3
<1> QED BY <1>3, <1>4, <1>5

-----------------------------------------------------------------------------
(* The initial states.                                                     *)

LEMMA InitIInv == Init => IInv
<1> SUFFICES ASSUME Init PROVE IInv
  OBVIOUS
<1>1. TypeOK
  BY ConstantsType DEF Init, TypeOK, AwaitPoints
<1>2. Control
  BY FS_EmptySet DEF Init, Control, Downloading
<1>3. PieceAccounting
  <2>1. Held = {} /\ Queued = {} /\ Done = {}
    BY ConstantsType DEF Init, Held, Queued, Done
  <2>2. Unpopped = PieceIndex
    BY DEF Init, Unpopped, PieceIndex
  <2>3. Cardinality(Done) = 0
    BY <2>1, FS_EmptySet
  <2> QED
    BY <2>1, <2>2, <2>3 DEF Init, PieceAccounting
<1>4. BytesExact
  <2>1. \A i \in PieceIndex : 0 <= SizeOf(i)
    BY SizeOfType
  <2> QED
    BY <2>1, FS_EmptySet DEF Init, BytesExact
<1>5. StoredWhole
  BY DEF Init, StoredWhole
<1>6. BacklogBound
  BY FS_EmptySet, ConstantsType DEF Init, BacklogBound
<1>7. BookkeepingAssertsHold /\ phase # "exited"
  BY DEF Init, BookkeepingAssertsHold
<1> QED
  BY <1>1, <1>2, <1>3, <1>4, <1>5, <1>6, <1>7 DEF IInv

-----------------------------------------------------------------------------
(* Steps that do not touch a piece.                                        *)

\* What holds of the pieces depends on the pieces only.
LEMMA PiecesUntouched ==
  ASSUME IInv, UNCHANGED <<queueVars, stateVars, storeVars, piece, backlog, inflight>>
  PROVE  PieceAccounting' /\ BytesExact' /\ StoredWhole' /\ BacklogBound' /\ Done' = Done
<1> USE DEF queueVars, stateVars, storeVars
<1>1. Held' = Held /\ Queued' = Queued /\ Done' = Done /\ Unpopped' = Unpopped
  BY DEF Held, Queued, Done, Unpopped
<1>2. PieceAccounting'
  BY <1>1 DEF IInv, PieceAccounting
<1>3. BytesExact'
  BY <1>1 DEF IInv, BytesExact, Bytes
<1>4. StoredWhole' /\ BacklogBound'
  BY DEF IInv, StoredWhole, BacklogBound
<1> QED
  BY <1>1, <1>2, <1>3, <1>4

LEMMA AbortStep ==
  ASSUME IInv, NEW where \in {"no peers", "unhandled message"}, Abort(where)
  PROVE  IInv'
<1>1. PieceAccounting' /\ BytesExact' /\ StoredWhole' /\ BacklogBound'
  BY PiecesUntouched DEF Abort, coroVars
<1>2. TypeOK'
  BY DEF IInv, Abort, TypeOK, coroVars, queueVars, stateVars, storeVars
<1>3. Control'
  BY DEF IInv, Abort, Control, coroVars, queueVars, stateVars, storeVars
<1>4. BookkeepingAssertsHold' /\ phase' # "exited"
  BY DEF Abort, BookkeepingAssertsHold
<1> QED
  BY <1>1, <1>2, <1>3, <1>4 DEF IInv

LEMMA TrackerRoundStep ==
  ASSUME IInv, NEW peers \in TrackerReplies, TrackerRound(peers)
  PROVE  IInv'
<1>1. CASE peers = {}
  BY <1>1, AbortStep DEF TrackerRound
<1>2. CASE peers # {}
  <2> USE <1>2 DEF TrackerRound, queueVars, stateVars, storeVars
  <2>1. PieceAccounting' /\ BytesExact' /\ StoredWhole' /\ BacklogBound'
    BY PiecesUntouched
  <2>2. \A p \in Peer : pc[p] \notin Downloading /\ pc'[p] \in {"idle", "connect"}
    BY DEF IInv, Control, TypeOK
  <2>3. TypeOK'
    BY DEF IInv, TypeOK, AwaitPoints
  <2>4. Control'
    BY <2>2 DEF IInv, Control, Downloading
  <2>5. BookkeepingAssertsHold' /\ phase' # "exited"
    BY DEF IInv, BookkeepingAssertsHold
  <2> QED
    BY <2>1, <2>3, <2>4, <2>5 DEF IInv
<1> QED
  BY <1>1, <1>2

\* When the count has reached PiecesCount every piece is stored, so nothing
\* is left in pieces_ or in to_retry_.
LEMMA CountReached ==
  ASSUME IInv, downloaded_pieces_count_ >= PiecesCount
  PROVE  Done = PieceIndex /\ ExitAccepted
<1>1. IsFiniteSet(PieceIndex) /\ Cardinality(PieceIndex) = PiecesCount
  BY FS_Interval, ConstantsType DEF PieceIndex
<1>2. Done \in SUBSET PieceIndex
  BY DEF Done
<1>3. Cardinality(Done) <= PiecesCount
  BY <1>1, <1>2, FS_Subset
<1>4. downloaded_pieces_count_ = Cardinality(Done) /\ downloaded_pieces_count_ \in Nat
  BY DEF IInv, PieceAccounting, TypeOK
<1>5. Cardinality(Done) = PiecesCount
  BY <1>3, <1>4, ConstantsType
<1>6. Done = PieceIndex
  BY <1>1, <1>2, <1>5, FS_Subset
<1>7. pieces_ = {}
  BY <1>6 DEF IInv, PieceAccounting, TypeOK
<1>8. to_retry_ = <<>>
  <2>1. Queued = {}
    BY <1>7 DEF IInv, PieceAccounting
  <2>2. to_retry_ \in Seq(PieceIndex)
    BY DEF IInv, TypeOK
  <2>3. DOMAIN to_retry_ = {}
    BY <2>1, <2>2, LenProperties, ElementOfSeq DEF Queued
  <2>4. Len(to_retry_) = 0
    BY <2>2, <2>3, LenProperties
  <2> QED
    BY <2>2, <2>4, EmptySeq
<1> QED
  BY <1>4, <1>5, <1>6, <1>7, <1>8 DEF ExitAccepted

LEMMA RoundEndStep ==
  ASSUME IInv, RoundEnd
  PROVE  IInv'
<1> USE DEF RoundEnd, queueVars, stateVars, storeVars
<1>1. PieceAccounting' /\ BytesExact' /\ StoredWhole' /\ BacklogBound' /\ Done' = Done
  BY PiecesUntouched
<1>2. \A p \in Peer : pc[p] \notin Downloading /\ pc'[p] = "idle"
  BY DEF Downloading
<1>3. downloaded_pieces_count_ >= PiecesCount => Done = PieceIndex /\ ExitAccepted
  BY CountReached
<1>4. PiecesCount \in Nat /\ downloaded_pieces_count_ \in Nat
  BY ConstantsType DEF IInv, TypeOK
<1>5. /\ phase' \in {"tracker", "exited"}
      /\ failed_assert' = failed_assert
      /\ phase' = "exited" => Done = PieceIndex
  <2>1. CASE downloaded_pieces_count_ < PiecesCount
    BY <2>1
  <2>2. CASE ~(downloaded_pieces_count_ < PiecesCount)
    BY <2>2, <1>3, <1>4
  <2> QED
    BY <2>1, <2>2
<1>6. TypeOK'
  BY <1>5 DEF IInv, TypeOK, AwaitPoints
<1>7. Control'
  BY <1>2, <1>5 DEF IInv, Control, Downloading
<1>8. BookkeepingAssertsHold'
  BY <1>5 DEF IInv, BookkeepingAssertsHold
<1> QED
  BY <1>1, <1>5, <1>6, <1>7, <1>8, PiecesUntouched DEF IInv, PieceIndex

\* The steps of DownloadFromPeer before the first piece.
LEMMA ContinueStep ==
  ASSUME IInv, NEW p \in Peer, NEW operation \in AwaitPoints \ Downloading,
         phase = "peers", pc[p] \notin Downloading, Continue(p, operation),
         bitfield_' \in [Peer -> SUBSET PieceIndex], unchocked_' \in [Peer -> BOOLEAN]
  PROVE  IInv'
<1> USE DEF Continue, queueVars, stateVars, storeVars, mainVars
<1>1. PieceAccounting' /\ BytesExact' /\ StoredWhole' /\ BacklogBound'
  BY PiecesUntouched
<1>2. TypeOK'
  BY DEF IInv, TypeOK
<1>3. \A q \in Peer : pc'[q] = IF q = p THEN operation ELSE pc[q]
  BY DEF IInv, TypeOK
<1>4. Control'
  BY <1>3 DEF IInv, Control, Downloading
<1>5. BookkeepingAssertsHold' /\ phase' # "exited"
  BY DEF IInv, BookkeepingAssertsHold
<1> QED
  BY <1>1, <1>2, <1>4, <1>5 DEF IInv

LEMMA StartStep ==
  ASSUME IInv, NEW p \in Peer, Started(p) \/ ReadBitfield(p) \/ SentUnchoke(p)
  PROVE  IInv'
<1>1. bitfield_ \in [Peer -> SUBSET PieceIndex] /\ unchocked_ \in [Peer -> BOOLEAN]
  BY DEF IInv, TypeOK
<1>2. CASE Started(p)
  BY <1>1, <1>2, ContinueStep DEF Started, Awaits, Downloading, AwaitPoints
<1>3. CASE ReadBitfield(p)
  BY <1>1, <1>3, ContinueStep DEF ReadBitfield, Awaits, Downloading, AwaitPoints
<1>4. CASE SentUnchoke(p)
  BY <1>1, <1>4, ContinueStep DEF SentUnchoke, Awaits, Downloading, AwaitPoints
<1> QED
  BY <1>2, <1>3, <1>4

-----------------------------------------------------------------------------
(* The inner loop.                                                         *)

LEMMA HolderFacts ==
  ASSUME IInv, NEW p \in Peer, pc[p] \in Downloading
  PROVE  /\ piece[p] \in PieceIndex
         /\ piece[p] # NoPiece
         /\ \A q \in Peer : q # p => piece[q] # piece[p]
         /\ SizeOf(piece[p]) \in Nat \ {0}
<1>1. piece[p] # NoPiece /\ piece[p] \in PieceIndex
  BY DEF IInv, Control, TypeOK
<1>2. \A q \in Peer : q # p => piece[q] # piece[p]
  BY <1>1 DEF IInv, PieceAccounting
<1> QED
  BY <1>1, <1>2, SizeOfType

LEMMA LoopStep ==
  ASSUME IInv, NEW p \in Peer, NEW unchocked \in BOOLEAN, Loop(p, unchocked),
         bitfield_' \in [Peer -> SUBSET PieceIndex],
         NEW kept \in SUBSET inflight[p], inflight' = [inflight EXCEPT ![p] = kept]
  PROVE  IInv'
<1> USE DEF Loop, Awaits, queueVars, stateVars, storeVars, mainVars
<1>1. \A q \in Peer : inflight'[q] \subseteq inflight[q] /\ (q # p => inflight'[q] = inflight[q])
  BY DEF IInv, TypeOK
<1>2. \A q \in Peer : IsFiniteSet(inflight'[q]) /\ Cardinality(inflight'[q]) <= Cardinality(inflight[q])
  <2> SUFFICES ASSUME NEW q \in Peer
               PROVE  IsFiniteSet(inflight'[q]) /\ Cardinality(inflight'[q]) <= Cardinality(inflight[q])
    OBVIOUS
  <2>1. IsFiniteSet(inflight[q])
    BY DEF IInv, Control
  <2>2. inflight'[q] \in SUBSET inflight[q]
    BY <1>1
  <2> QED
    BY <2>1, <2>2, FS_Subset
<1>3. Held' = Held /\ Queued' = Queued /\ Done' = Done /\ Unpopped' = Unpopped
  BY DEF Held, Queued, Done, Unpopped
<1>4. TypeOK'
  <2>1. inflight' \in [Peer -> SUBSET Block]
    BY DEF IInv, TypeOK
  <2>2. pc' \in [Peer -> AwaitPoints]
    BY DEF IInv, TypeOK, LoopHead, AwaitPoints
  <2>3. unchocked_' \in [Peer -> BOOLEAN]
    BY DEF IInv, TypeOK
  <2> QED
    BY <2>1, <2>2, <2>3 DEF IInv, TypeOK
<1>5. Control'
  <2>1. \A q \in Peer : q # p => pc'[q] = pc[q]
    BY DEF IInv, TypeOK
  <2>2. /\ pc[p] = "read" /\ pc'[p] \in Downloading
        /\ pc'[p] = "request" => backlog[p] < MaxBacklog /\ requested_[piece[p]] < SizeOf(piece[p])
    BY DEF IInv, TypeOK, LoopHead, Downloading
  <2> QED
    BY <1>1, <1>2, <2>1, <2>2 DEF IInv, Control, Downloading
<1>6. PieceAccounting'
  BY <1>3 DEF IInv, PieceAccounting
<1>7. BytesExact'
  BY <1>1, <1>3 DEF IInv, BytesExact, Bytes
<1>8. StoredWhole'
  BY DEF IInv, StoredWhole
<1>9. BacklogBound'
  <2> SUFFICES ASSUME NEW q \in Peer
               PROVE  Cardinality(inflight'[q]) <= backlog[q] /\ backlog[q] <= MaxBacklog
    BY DEF BacklogBound
  <2>1. Cardinality(inflight[q]) <= backlog[q] /\ backlog[q] <= MaxBacklog
    BY DEF IInv, BacklogBound
  <2>2. Cardinality(inflight[q]) \in Nat /\ Cardinality(inflight'[q]) \in Nat /\ backlog[q] \in Int
    BY <1>2, FS_CardinalityType DEF IInv, Control, TypeOK
  <2> QED
    BY <1>2, <2>1, <2>2
<1>10. BookkeepingAssertsHold' /\ phase' # "exited"
  BY DEF IInv, BookkeepingAssertsHold
<1> QED
  BY <1>4, <1>5, <1>6, <1>7, <1>8, <1>9, <1>10 DEF IInv

LEMMA MessageStep ==
  ASSUME IInv, NEW p \in Peer,
         ReadKeepAlive(p) \/ ReadChoke(p) \/ ReadUnchoke(p) \/ ReadHave(p)
  PROVE  IInv'
<1>1. /\ bitfield_ \in [Peer -> SUBSET PieceIndex] /\ unchocked_[p] \in BOOLEAN
      /\ inflight = [inflight EXCEPT ![p] = inflight[p]]
  BY DEF IInv, TypeOK
<1>2. CASE ReadKeepAlive(p)
  <2>1. inflight' = [inflight EXCEPT ![p] = inflight[p]]
    BY <1>1, <1>2 DEF ReadKeepAlive
  <2> QED
    BY <1>1, <1>2, <2>1, LoopStep DEF ReadKeepAlive
<1>3. CASE ReadChoke(p)
  <2>1. PICK kept \in SUBSET inflight[p] : inflight' = [inflight EXCEPT ![p] = kept]
    BY <1>3 DEF ReadChoke
  <2> QED
    BY <1>1, <1>3, <2>1, LoopStep DEF ReadChoke
<1>4. CASE ReadUnchoke(p)
  <2>1. inflight' = [inflight EXCEPT ![p] = inflight[p]]
    BY <1>1, <1>4 DEF ReadUnchoke
  <2> QED
    BY <1>1, <1>4, <2>1, LoopStep DEF ReadUnchoke
<1>5. CASE ReadHave(p)
  <2>1. inflight' = [inflight EXCEPT ![p] = inflight[p]]
    BY <1>1, <1>5 DEF ReadHave
  <2>2. bitfield_' \in [Peer -> SUBSET PieceIndex]
    BY <1>1, <1>5 DEF ReadHave
  <2> QED
    BY <1>1, <1>5, <2>1, <2>2, LoopStep DEF ReadHave
<1> QED
  BY <1>2, <1>3, <1>4, <1>5

\* The buffer of a piece never holds more than what was asked for.
LEMMA DataBounded ==
  ASSUME IInv, NEW i \in PieceIndex
  PROVE  /\ IsFiniteSet(data_[i])
         /\ downloaded_[i] = Cardinality(data_[i])
         /\ downloaded_[i] <= requested_[i]
         /\ requested_[i] <= SizeOf(i)
<1>1. /\ data_[i] \subseteq 0 .. requested_[i] - 1
      /\ downloaded_[i] = Cardinality(data_[i])
      /\ requested_[i] <= SizeOf(i)
  BY DEF IInv, BytesExact
<1>2. requested_[i] \in Nat
  BY DEF IInv, TypeOK
<1>3. /\ IsFiniteSet(0 .. requested_[i] - 1)
      /\ Cardinality(0 .. requested_[i] - 1) = requested_[i]
  BY <1>2, CountBelow
<1>4. data_[i] \in SUBSET (0 .. requested_[i] - 1)
  BY <1>1
<1>5. IsFiniteSet(data_[i]) /\ Cardinality(data_[i]) <= Cardinality(0 .. requested_[i] - 1)
  BY ONLY <1>3, <1>4, FS_Subset
<1> QED
  BY <1>1, <1>3, <1>5

LEMMA NextBlockProps ==
  ASSUME NEW i \in PieceIndex, requested_[i] \in Nat, requested_[i] < SizeOf(i)
  PROVE  /\ NextBlock(i) \in Block
         /\ NextBlock(i).piece = i
         /\ NextBlock(i).offset = requested_[i]
         /\ NextBlock(i).length \in Nat \ {0}
         /\ requested_[i] + NextBlock(i).length <= SizeOf(i)
<1>1. SizeOf(i) \in Nat /\ MaxBlock \in Nat \ {0}
  BY SizeOfType, ConstantsType
<1>2. SizeOf(i) - requested_[i] \in Nat \ {0}
  BY <1>1
<1> QED
  BY <1>1, <1>2 DEF NextBlock, Block

LEMMA SentRequestStep ==
  ASSUME IInv, NEW p \in Peer, SentRequest(p)
  PROVE  IInv'
<1> DEFINE i == piece[p]
           r == NextBlock(i)
<1>0. pc[p] = "request" /\ phase = "peers"
  BY DEF SentRequest, Awaits
<1>1. /\ i \in PieceIndex /\ i # NoPiece
      /\ \A q \in Peer : q # p => piece[q] # i
      /\ SizeOf(i) \in Nat \ {0}
  BY <1>0, HolderFacts DEF Downloading
<1>2. requested_[i] < SizeOf(i) /\ backlog[p] < MaxBacklog /\ requested_[i] \in Nat
  BY <1>0, <1>1 DEF IInv, Control, TypeOK
<1>3. /\ r \in Block /\ r.piece = i /\ r.offset = requested_[i] /\ r.length \in Nat \ {0}
      /\ requested_[i] + r.length <= SizeOf(i)
  BY <1>1, <1>2, NextBlockProps
<1>4. /\ inflight' = [inflight EXCEPT ![p] = @ \union {r}]
      /\ requested_' = [requested_ EXCEPT ![i] = @ + r.length]
      /\ backlog' = [backlog EXCEPT ![p] = @ + 1]
      /\ pc' = [pc EXCEPT ![p] = "read"]
      /\ UNCHANGED <<pieces_, to_retry_, next_piece_index_, downloaded_, data_, stored,
                     downloaded_pieces_count_, bitfield_, unchocked_, piece, phase, failed_assert>>
  BY DEF SentRequest, queueVars, storeVars, mainVars
<1> HIDE DEF i, r
<1>5. /\ inflight'[p] = inflight[p] \union {r}
      /\ \A q \in Peer : q # p => inflight'[q] = inflight[q]
      /\ requested_'[i] = requested_[i] + r.length
      /\ \A j \in PieceIndex : j # i => requested_'[j] = requested_[j]
      /\ backlog'[p] = backlog[p] + 1
      /\ \A q \in Peer : q # p => backlog'[q] = backlog[q]
      /\ pc[p] = "request" /\ pc'[p] = "read"
      /\ \A q \in Peer : q # p => pc'[q] = pc[q]
  BY <1>0, <1>1, <1>4 DEF IInv, TypeOK
<1>6. Held' = Held /\ Queued' = Queued /\ Done' = Done /\ Unpopped' = Unpopped
  BY <1>4 DEF Held, Queued, Done, Unpopped
<1>7. TypeOK'
  <2>1. inflight' \in [Peer -> SUBSET Block]
    BY <1>3, <1>4 DEF IInv, TypeOK
  <2>2. requested_' \in [PieceIndex -> Nat]
    <3>1. requested_[i] + r.length \in Nat
      BY <1>2, <1>3
    <3>2. requested_ \in [PieceIndex -> Nat]
      BY DEF IInv, TypeOK
    <3> QED
      BY <1>4, <3>1, <3>2
  <2>3. backlog' \in [Peer -> Int] /\ pc' \in [Peer -> AwaitPoints]
    <3>1. backlog \in [Peer -> Int] /\ pc \in [Peer -> AwaitPoints]
      BY DEF IInv, TypeOK
    <3>2. backlog[p] + 1 \in Int
      BY <3>1
    <3>3. "read" \in AwaitPoints
      BY DEF AwaitPoints
    <3> QED
      BY <1>4, <3>1, <3>2, <3>3
  <2> QED
    BY <1>4, <2>1, <2>2, <2>3 DEF IInv, TypeOK
<1>8. \A q \in Peer : IsFiniteSet(inflight'[q])
  <2>1. \A q \in Peer : IsFiniteSet(inflight[q])
    BY DEF IInv, Control
  <2>2. IsFiniteSet(inflight[p] \union {r})
    BY <2>1, FS_AddElement
  <2> QED
    BY <1>5, <2>1, <2>2
<1>9. Control'
  <2>1. downloaded_[i] < SizeOf(i)
    <3>1. /\ downloaded_[i] \in Nat /\ downloaded_[i] <= requested_[i]
      BY <1>1, DataBounded DEF IInv, TypeOK
    <3> QED
      BY <3>1, <1>1, <1>2
  <2>2. \A q \in Peer : pc'[q] = "request" =>
           backlog'[q] < MaxBacklog /\ requested_'[piece'[q]] < SizeOf(piece'[q])
    <3> SUFFICES ASSUME NEW q \in Peer, pc'[q] = "request"
                 PROVE  backlog'[q] < MaxBacklog /\ requested_'[piece[q]] < SizeOf(piece[q])
      BY <1>4
    <3>1. q # p /\ pc[q] = "request"
      BY <1>5
    <3>2. piece[q] \in PieceIndex /\ piece[q] # i
      BY <3>1, <1>1, HolderFacts DEF Downloading
    <3> QED
      BY <3>1, <3>2, <1>5 DEF IInv, Control
  <2>3. \A q \in Peer : pc'[q] = "read" => downloaded_'[piece'[q]] < SizeOf(piece'[q])
    BY <1>4, <1>5, <2>1 DEF IInv, Control, i
  <2>4. \A q \in Peer : piece'[q] # NoPiece <=> pc'[q] \in Downloading
    BY <1>1, <1>4, <1>5 DEF IInv, Control, i, Downloading
  <2>5. \A q \in Peer : pc'[q] \notin Downloading => inflight'[q] = {} /\ backlog'[q] = 0
    BY <1>5 DEF IInv, Control, Downloading
  <2> QED
    BY <1>0, <1>4, <1>8, <2>2, <2>3, <2>4, <2>5 DEF Control
<1>10. PieceAccounting'
  BY <1>4, <1>6 DEF IInv, PieceAccounting
<1>11. BytesExact'
  <2>1. ASSUME NEW q \in Peer, NEW b \in inflight'[q]
        PROVE  /\ b.piece = piece[q] /\ b.length > 0
               /\ b.offset + b.length <= requested_'[piece[q]]
               /\ Bytes(b) \intersect data_[piece[q]] = {}
               /\ \A c \in inflight'[q] : c # b => Bytes(b) \intersect Bytes(c) = {}
    <3>1. CASE q # p
      <4>1. b \in inflight[q] /\ inflight'[q] = inflight[q]
        BY <1>5, <3>1
      <4>2. piece[q] \in PieceIndex /\ piece[q] # i
        BY <4>1, <1>1, <3>1, HolderFacts DEF IInv, Control
      <4> QED
        BY <4>1, <4>2, <1>5 DEF IInv, BytesExact
    <3>2. CASE q = p
      <4>1. ASSUME NEW c \in inflight[p]
            PROVE  /\ c \in Block /\ c.piece = i /\ c.length > 0
                   /\ c.offset + c.length <= requested_[i]
                   /\ Bytes(c) \intersect data_[i] = {}
                   /\ Bytes(c) \intersect Bytes(r) = {}
                   /\ \A d \in inflight[p] : d # c => Bytes(c) \intersect Bytes(d) = {}
        <5>1. /\ c \in Block /\ c.piece = i /\ c.length > 0
              /\ c.offset + c.length <= requested_[i]
              /\ Bytes(c) \intersect data_[i] = {}
              /\ \A d \in inflight[p] : d # c => Bytes(c) \intersect Bytes(d) = {}
          BY DEF IInv, BytesExact, TypeOK, i
        <5>2. c.offset \in Nat /\ c.length \in Nat
          BY <5>1 DEF Block
        <5>3. Bytes(c) \intersect Bytes(r) = {}
          BY <1>2, <1>3, <5>1, <5>2 DEF Bytes
        <5> QED
          BY <5>1, <5>3
      <4>2. Bytes(r) \intersect data_[i] = {}
        <5>1. data_[i] \subseteq 0 .. requested_[i] - 1
          BY <1>1 DEF IInv, BytesExact
        <5> QED
          BY <5>1, <1>2, <1>3 DEF Bytes
      <4>3. CASE b = r
        <5>1. \A c \in inflight'[p] : c # b => Bytes(b) \intersect Bytes(c) = {}
          BY <4>1, <4>3, <1>5
        <5> QED
          BY <4>2, <4>3, <5>1, <3>2, <1>2, <1>3, <1>5 DEF i
      <4>4. CASE b \in inflight[p]
        <5>1. \A c \in inflight'[p] : c # b => Bytes(b) \intersect Bytes(c) = {}
          BY <4>1, <4>4, <1>5
        <5>2. b.offset + b.length <= requested_'[i]
          BY <4>1, <4>4, <1>2, <1>3, <1>5 DEF Block
        <5> QED
          BY <4>1, <4>4, <5>1, <5>2, <3>2 DEF i
      <4> QED
        BY <3>2, <4>3, <4>4, <1>5
    <3> QED
      BY <3>1, <3>2
  <2>2. ASSUME NEW j \in PieceIndex
        PROVE  /\ requested_'[j] <= SizeOf(j)
               /\ data_[j] \subseteq 0 .. requested_'[j] - 1
               /\ downloaded_[j] = Cardinality(data_[j])
               /\ j \notin Held => requested_'[j] = 0
    <3>1. /\ requested_[j] <= SizeOf(j)
          /\ data_[j] \subseteq 0 .. requested_[j] - 1
          /\ downloaded_[j] = Cardinality(data_[j])
          /\ j \notin Held => requested_[j] = 0
      BY DEF IInv, BytesExact
    <3>2. CASE j # i
      BY <3>1, <3>2, <1>5
    <3>3. CASE j = i
      <4>1. i \in Held
        BY <1>1 DEF Held, i
      <4> QED
        BY <3>1, <3>3, <4>1, <1>2, <1>3, <1>5
    <3> QED
      BY <3>2, <3>3
  <2> QED
    BY <2>1, <2>2, <1>4, <1>6 DEF BytesExact, Bytes
<1>12. StoredWhole'
  BY <1>4 DEF IInv, StoredWhole
<1>13. BacklogBound'
  <2> SUFFICES ASSUME NEW q \in Peer
               PROVE  Cardinality(inflight'[q]) <= backlog'[q] /\ backlog'[q] <= MaxBacklog
    BY DEF BacklogBound
  <2>1. /\ Cardinality(inflight[q]) <= backlog[q] /\ backlog[q] <= MaxBacklog
        /\ IsFiniteSet(inflight[q]) /\ backlog[q] \in Int
    BY DEF IInv, BacklogBound, Control, TypeOK
  <2>2. CASE q # p
    BY <2>1, <2>2, <1>5
  <2>3. CASE q = p
    <3>1. IsFiniteSet(inflight[p]) /\ Cardinality(inflight[p]) \in Nat
      BY <2>1, <2>3, FS_CardinalityType
    <3>2. Cardinality(inflight[p] \union {r}) =
            IF r \in inflight[p] THEN Cardinality(inflight[p]) ELSE Cardinality(inflight[p]) + 1
      BY ONLY <3>1, FS_AddElement
    <3> QED
      BY <2>1, <2>3, <3>1, <3>2, <1>2, <1>5, ConstantsType
  <2> QED
    BY <2>2, <2>3
<1>14. BookkeepingAssertsHold' /\ phase' # "exited"
  BY <1>0, <1>4 DEF IInv, BookkeepingAssertsHold
<1> QED
  BY <1>7, <1>9, <1>10, <1>11, <1>12, <1>13, <1>14 DEF IInv

\* A part that arrives is one that was asked for and is still missing: the
\* assertions of the piece handler hold.
LEMMA PartFacts ==
  ASSUME IInv, NEW p \in Peer, pc[p] = "read", NEW r \in inflight[p]
  PROVE  /\ r \in Block /\ r.piece = piece[p] /\ r.offset \in Nat /\ r.length \in Nat \ {0}
         /\ Bytes(r) \subseteq 0 .. requested_[piece[p]] - 1
         /\ data_[piece[p]] \union Bytes(r) \subseteq 0 .. requested_[piece[p]] - 1
         /\ IsFiniteSet(data_[piece[p]] \union Bytes(r))
         /\ Cardinality(data_[piece[p]] \union Bytes(r)) = downloaded_[piece[p]] + r.length
         /\ downloaded_[piece[p]] + r.length <= requested_[piece[p]]
         /\ PartAccepted(piece[p], r)
<1> DEFINE i == piece[p]
           d == data_[i] \union Bytes(r)
<1>1. /\ i \in PieceIndex /\ SizeOf(i) \in Nat \ {0}
      /\ requested_[i] \in Nat /\ requested_[i] <= SizeOf(i)
      /\ downloaded_[i] \in Nat
      /\ IsFiniteSet(data_[i]) /\ downloaded_[i] = Cardinality(data_[i])
  <2>1. i \in PieceIndex /\ SizeOf(i) \in Nat \ {0}
    BY HolderFacts DEF Downloading
  <2>2. requested_[i] \in Nat /\ downloaded_[i] \in Nat
    BY <2>1 DEF IInv, TypeOK
  <2> QED
    BY <2>1, <2>2, DataBounded
<1>2. /\ r \in Block /\ r.piece = i /\ r.offset \in Nat /\ r.length \in Nat \ {0}
      /\ r.offset + r.length <= requested_[i]
      /\ Bytes(r) \intersect data_[i] = {}
      /\ data_[i] \subseteq 0 .. requested_[i] - 1
  <2>1. r \in Block
    BY DEF IInv, TypeOK
  <2>2. /\ r.piece = i /\ r.length > 0 /\ r.offset + r.length <= requested_[i]
        /\ Bytes(r) \intersect data_[i] = {}
        /\ data_[i] \subseteq 0 .. requested_[i] - 1
    BY <1>1 DEF IInv, BytesExact
  <2> QED
    BY <2>1, <2>2 DEF Block
<1>3. Bytes(r) \subseteq 0 .. requested_[i] - 1
  BY <1>1, <1>2 DEF Bytes
<1>4. IsFiniteSet(Bytes(r)) /\ Cardinality(Bytes(r)) = r.length
  <2>1. r.offset \in Int /\ r.offset + r.length - 1 \in Int
    BY <1>2
  <2>2. /\ IsFiniteSet(r.offset .. r.offset + r.length - 1)
        /\ Cardinality(r.offset .. r.offset + r.length - 1)
             = IF r.offset > r.offset + r.length - 1 THEN 0
               ELSE (r.offset + r.length - 1) - r.offset + 1
    BY ONLY <2>1, FS_Interval
  <2>3. ~(r.offset > r.offset + r.length - 1)
        /\ (r.offset + r.length - 1) - r.offset + 1 = r.length
    BY <1>2
  <2> QED
    BY <2>2, <2>3 DEF Bytes
<1>5. IsFiniteSet(d) /\ Cardinality(d) = downloaded_[i] + r.length
  <2>1. /\ IsFiniteSet(d)
        /\ Cardinality(d) = Cardinality(data_[i]) + Cardinality(Bytes(r))
                              - Cardinality(data_[i] \intersect Bytes(r))
    BY <1>1, <1>4, FS_Union
  <2>2. Cardinality(data_[i] \intersect Bytes(r)) = 0
    BY <1>2, FS_EmptySet
  <2> QED
    BY <2>1, <2>2, <1>1, <1>2, <1>4
<1>6. d \subseteq 0 .. requested_[i] - 1
  BY <1>2, <1>3
<1>7. downloaded_[i] + r.length <= requested_[i]
  <2>1. /\ IsFiniteSet(0 .. requested_[i] - 1)
        /\ Cardinality(0 .. requested_[i] - 1) = requested_[i]
    <3>1. requested_[i] \in Nat
      BY <1>1
    <3> QED
      BY <3>1, CountBelow
  <2>2. d \in SUBSET (0 .. requested_[i] - 1)
    BY <1>6
  <2> HIDE DEF d
  <2>3. Cardinality(d) <= Cardinality(0 .. requested_[i] - 1)
    BY ONLY <2>1, <2>2, FS_Subset
  <2> QED
    BY <2>1, <2>3, <1>5
<1>8. PartAccepted(i, r)
  BY <1>1, <1>2, <1>7 DEF PartAccepted
<1> QED
  BY <1>2, <1>3, <1>5, <1>6, <1>7, <1>8


\* A part of a piece that is not complete yet.
LEMMA ReceivePartStep ==
  ASSUME IInv, NEW p \in Peer, Awaits(p, "read"), NEW r \in inflight[p],
         ~CompletesPiece(piece[p], r), ReceivePart(p, r),
         inflight' = [inflight EXCEPT ![p] = @ \ {r}],
         UNCHANGED <<bitfield_, unchocked_, mainVars>>
  PROVE  IInv'
<1> DEFINE i == piece[p]
           d == data_[i] \union Bytes(r)
<1>0. pc[p] = "read" /\ phase = "peers"
  BY DEF Awaits
<1>1. /\ i \in PieceIndex /\ i # NoPiece
      /\ \A q \in Peer : q # p => piece[q] # i
      /\ SizeOf(i) \in Nat \ {0}
  BY <1>0, HolderFacts DEF Downloading
<1>2. /\ requested_[i] \in Nat /\ requested_[i] <= SizeOf(i) /\ downloaded_[i] \in Nat
      /\ backlog[p] \in Int
  BY <1>1, DataBounded DEF IInv, TypeOK
<1>3. /\ r \in Block /\ r.piece = i /\ r.offset \in Nat /\ r.length \in Nat \ {0}
      /\ d \subseteq 0 .. requested_[i] - 1
      /\ Cardinality(d) = downloaded_[i] + r.length
  BY <1>0, PartFacts
<1>4. downloaded_[i] + r.length < SizeOf(i)
  BY <1>1, <1>2, <1>3 DEF CompletesPiece
<1>5. /\ data_' = [data_ EXCEPT ![i] = d]
      /\ downloaded_' = [downloaded_ EXCEPT ![i] = @ + r.length]
      /\ backlog' = [backlog EXCEPT ![p] = @ - 1]
      /\ pc' = [pc EXCEPT ![p] =
           LoopHead(unchocked_[p], backlog[p] - 1, requested_[i], SizeOf(i))]
      /\ inflight' = [inflight EXCEPT ![p] = @ \ {r}]
      /\ UNCHANGED <<pieces_, to_retry_, next_piece_index_, requested_, stored,
                     downloaded_pieces_count_, bitfield_, unchocked_, piece, phase, failed_assert>>
  BY <1>1 DEF ReceivePart, on_piece_part_receive, queueVars, storeVars, mainVars, IInv, TypeOK
<1> HIDE DEF i, d
<1>6. /\ data_'[i] = d
      /\ \A j \in PieceIndex : j # i => data_'[j] = data_[j]
      /\ downloaded_'[i] = downloaded_[i] + r.length
      /\ \A j \in PieceIndex : j # i => downloaded_'[j] = downloaded_[j]
      /\ backlog'[p] = backlog[p] - 1
      /\ \A q \in Peer : q # p => backlog'[q] = backlog[q]
      /\ inflight'[p] = inflight[p] \ {r}
      /\ \A q \in Peer : q # p => inflight'[q] = inflight[q]
      /\ \A q \in Peer : q # p => pc'[q] = pc[q]
  BY <1>1, <1>5 DEF IInv, TypeOK
<1>7. /\ pc'[p] \in Downloading
      /\ pc'[p] = "request" => backlog[p] - 1 < MaxBacklog /\ requested_[i] < SizeOf(i)
  BY <1>5 DEF LoopHead, Downloading, IInv, TypeOK
<1>8. Held' = Held /\ Queued' = Queued /\ Done' = Done /\ Unpopped' = Unpopped
  BY <1>5 DEF Held, Queued, Done, Unpopped
<1>9. TypeOK'
  <2>1. inflight' \in [Peer -> SUBSET Block]
    BY <1>5 DEF IInv, TypeOK
  <2>2. downloaded_' \in [PieceIndex -> Nat]
    <3>1. downloaded_[i] + r.length \in Nat
      BY <1>2, <1>3
    <3>2. downloaded_ \in [PieceIndex -> Nat]
      BY DEF IInv, TypeOK
    <3> QED
      BY <1>5, <3>1, <3>2
  <2>3. data_' \in [PieceIndex -> SUBSET Nat]
    <3>1. 0 .. requested_[i] - 1 \subseteq Nat
      BY <1>2
    <3>2. d \in SUBSET Nat
      BY <3>1, <1>3
    <3>3. data_ \in [PieceIndex -> SUBSET Nat]
      BY DEF IInv, TypeOK
    <3> QED
      BY <1>5, <3>2, <3>3
  <2>4. backlog' \in [Peer -> Int]
    <3>1. backlog[p] - 1 \in Int
      BY <1>2
    <3>2. backlog \in [Peer -> Int]
      BY DEF IInv, TypeOK
    <3> QED
      BY <1>5, <3>1, <3>2
  <2>5. pc' \in [Peer -> AwaitPoints]
    BY <1>5 DEF IInv, TypeOK, LoopHead, AwaitPoints
  <2> QED
    BY <1>5, <2>1, <2>2, <2>3, <2>4, <2>5 DEF IInv, TypeOK
<1>10. Control'
  <2>1. \A q \in Peer : IsFiniteSet(inflight'[q])
    <3>1. \A q \in Peer : IsFiniteSet(inflight[q])
      BY DEF IInv, Control
    <3>2. IsFiniteSet(inflight[p] \ {r})
      BY <3>1, FS_RemoveElement
    <3> QED
      BY <1>6, <3>1, <3>2
  <2>2. ASSUME NEW q \in Peer
        PROVE  /\ pc'[q] = "request" =>
                    backlog'[q] < MaxBacklog /\ requested_[piece[q]] < SizeOf(piece[q])
               /\ pc'[q] = "read" => downloaded_'[piece[q]] < SizeOf(piece[q])
    <3>1. CASE q = p
      BY <3>1, <1>4, <1>6, <1>7 DEF i
    <3>2. CASE q # p
      <4>1. pc[q] \in Downloading => piece[q] \in PieceIndex /\ piece[q] # i
        BY <3>2, <1>1, HolderFacts
      <4> QED
        BY <3>2, <4>1, <1>6 DEF IInv, Control, Downloading
    <3> QED
      BY <3>1, <3>2
  <2>3. \A q \in Peer : piece'[q] # NoPiece <=> pc'[q] \in Downloading
    BY <1>1, <1>5, <1>6, <1>7 DEF IInv, Control, i
  <2>4. \A q \in Peer : pc'[q] \notin Downloading => inflight'[q] = {} /\ backlog'[q] = 0
    BY <1>6, <1>7 DEF IInv, Control
  <2> QED
    BY <1>0, <1>5, <2>1, <2>2, <2>3, <2>4 DEF Control
<1>11. PieceAccounting'
  BY <1>5, <1>8 DEF IInv, PieceAccounting
<1>12. BytesExact'
  <2>1. ASSUME NEW q \in Peer, NEW b \in inflight'[q]
        PROVE  /\ b.piece = piece[q] /\ b.length > 0
               /\ b.offset + b.length <= requested_[piece[q]]
               /\ Bytes(b) \intersect data_'[piece[q]] = {}
               /\ \A c \in inflight'[q] : c # b => Bytes(b) \intersect Bytes(c) = {}
    <3>0. inflight'[q] \subseteq inflight[q] /\ b \in inflight[q]
      BY <1>6
    <3>1. /\ b.piece = piece[q] /\ b.length > 0
          /\ b.offset + b.length <= requested_[piece[q]]
          /\ Bytes(b) \intersect data_[piece[q]] = {}
          /\ \A c \in inflight[q] : c # b => Bytes(b) \intersect Bytes(c) = {}
      BY <3>0 DEF IInv, BytesExact
    <3>2. Bytes(b) \intersect data_'[piece[q]] = {}
      <4>1. CASE q # p
        <5>1. piece[q] \in PieceIndex /\ piece[q] # i
          BY <3>0, <4>1, <1>1, HolderFacts DEF IInv, Control
        <5> QED
          BY <3>1, <5>1, <1>6
      <4>2. CASE q = p
        <5>1. b # r
          BY <4>2, <1>6
        <5>2. Bytes(b) \intersect Bytes(r) = {}
          BY <3>1, <4>2, <5>1
        <5> QED
          BY <3>1, <4>2, <5>2, <1>6 DEF i, d
      <4> QED
        BY <4>1, <4>2
    <3> QED
      BY <3>0, <3>1, <3>2
  <2>2. ASSUME NEW j \in PieceIndex
        PROVE  /\ requested_[j] <= SizeOf(j)
               /\ data_'[j] \subseteq 0 .. requested_[j] - 1
               /\ downloaded_'[j] = Cardinality(data_'[j])
               /\ j \notin Held => requested_[j] = 0
    <3>1. /\ requested_[j] <= SizeOf(j)
          /\ data_[j] \subseteq 0 .. requested_[j] - 1
          /\ downloaded_[j] = Cardinality(data_[j])
          /\ j \notin Held => requested_[j] = 0
      BY DEF IInv, BytesExact
    <3>2. CASE j # i
      BY <3>1, <3>2, <1>6
    <3>3. CASE j = i
      BY <3>1, <3>3, <1>3, <1>6 DEF i, d
    <3> QED
      BY <3>2, <3>3
  <2> QED
    BY <2>1, <2>2, <1>5, <1>8 DEF BytesExact, Bytes
<1>13. StoredWhole'
  BY <1>5 DEF IInv, StoredWhole
<1>14. BacklogBound'
  <2> SUFFICES ASSUME NEW q \in Peer
               PROVE  Cardinality(inflight'[q]) <= backlog'[q] /\ backlog'[q] <= MaxBacklog
    BY DEF BacklogBound
  <2>1. /\ Cardinality(inflight[q]) <= backlog[q] /\ backlog[q] <= MaxBacklog
        /\ IsFiniteSet(inflight[q]) /\ backlog[q] \in Int
    BY DEF IInv, BacklogBound, Control, TypeOK
  <2>2. CASE q # p
    BY <2>1, <2>2, <1>6
  <2>3. CASE q = p
    <3>1. IsFiniteSet(inflight[p]) /\ Cardinality(inflight[p]) \in Nat
      BY <2>1, <2>3, FS_CardinalityType
    <3>2. Cardinality(inflight[p] \ {r}) = Cardinality(inflight[p]) - 1
      BY <3>1, FS_RemoveElement
    <3>3. MaxBacklog \in Nat
      BY ConstantsType
    <3>4. backlog[p] - 1 <= MaxBacklog
      BY <2>1, <2>3, <3>3
    <3>5. Cardinality(inflight[p]) - 1 <= backlog[p] - 1
      BY <2>1, <2>3, <3>1
    <3> QED
      BY <2>3, <3>2, <3>4, <3>5, <1>6
  <2> QED
    BY <2>2, <2>3
<1>15. BookkeepingAssertsHold' /\ phase' # "exited"
  BY <1>0, <1>5 DEF IInv, BookkeepingAssertsHold
<1> QED
  BY <1>9, <1>10, <1>11, <1>12, <1>13, <1>14, <1>15 DEF IInv


\* The last part: the buffer holds every byte of the piece and no answer is
\* outstanding, so what is stored is whole.
LEMMA LastPartFacts ==
  ASSUME IInv, NEW p \in Peer, pc[p] = "read", NEW r \in inflight[p],
         CompletesPiece(piece[p], r)
  PROVE  /\ data_[piece[p]] \union Bytes(r) = 0 .. SizeOf(piece[p]) - 1
         /\ inflight[p] = {r}
<1> DEFINE i == piece[p]
           d == data_[i] \union Bytes(r)
           n == requested_[i]
<1>1. i \in PieceIndex /\ SizeOf(i) \in Nat \ {0}
  BY HolderFacts DEF Downloading
<1>2. n \in Nat /\ n <= SizeOf(i) /\ downloaded_[i] \in Nat
  <2>1. n \in Nat /\ downloaded_[i] \in Nat
    BY <1>1 DEF IInv, TypeOK
  <2> QED
    BY <1>1, <2>1, DataBounded
<1>3. /\ r.length \in Nat
      /\ d \subseteq 0 .. n - 1 /\ Cardinality(d) = downloaded_[i] + r.length
      /\ downloaded_[i] + r.length <= n
  BY PartFacts
<1>4. downloaded_[i] + r.length >= SizeOf(i)
  BY DEF CompletesPiece
<1> HIDE DEF d, n
<1>5. n = SizeOf(i) /\ Cardinality(d) = n
  BY <1>1, <1>2, <1>3, <1>4
<1>6. d = 0 .. n - 1
  <2>1. IsFiniteSet(0 .. n - 1) /\ Cardinality(0 .. n - 1) = n
    BY <1>2, CountBelow
  <2>2. d \in SUBSET (0 .. n - 1)
    BY <1>3
  <2> QED
    BY ONLY <2>1, <2>2, <1>5, FS_Subset
<1>7. ASSUME NEW b \in inflight[p], b # r PROVE FALSE
  <2>1. /\ b \in Block /\ r \in Block /\ b.length > 0
        /\ b.offset + b.length <= n
        /\ Bytes(b) \intersect data_[i] = {}
        /\ Bytes(b) \intersect Bytes(r) = {}
    BY <1>7 DEF IInv, BytesExact, TypeOK, n
  <2>2. b.offset \in Nat /\ b.length \in Nat
    BY <2>1 DEF Block
  <2>3. b.offset \in Bytes(b) /\ b.offset \in 0 .. n - 1
    BY <1>2, <2>1, <2>2 DEF Bytes
  <2> QED
    BY <1>6, <2>1, <2>3 DEF d
<1> QED
  BY <1>5, <1>6, <1>7 DEF d, n

LEMMA ReceiveLastPartStep ==
  ASSUME IInv, NEW p \in Peer, Awaits(p, "read"), NEW r \in inflight[p],
         CompletesPiece(piece[p], r), ReceiveLastPart(p, r),
         inflight' = [inflight EXCEPT ![p] = @ \ {r}],
         UNCHANGED <<bitfield_, unchocked_, mainVars>>
  PROVE  IInv'
<1> DEFINE i == piece[p]
           d == 0 .. SizeOf(i) - 1
<1>0. pc[p] = "read" /\ phase = "peers"
  BY DEF Awaits
<1>1. /\ i \in PieceIndex /\ i # NoPiece
      /\ \A q \in Peer : q # p => piece[q] # i
      /\ SizeOf(i) \in Nat \ {0}
  BY <1>0, HolderFacts DEF Downloading
<1>2. data_[i] \union Bytes(r) = d /\ inflight[p] = {r}
  BY <1>0, LastPartFacts
<1>3. /\ downloaded_pieces_count_' = downloaded_pieces_count_ + 1
      /\ stored' = [stored EXCEPT ![i] = Append(@, d)]
      /\ pieces_' = pieces_ \ {i}
      /\ downloaded_' = [downloaded_ EXCEPT ![i] = 0]
      /\ requested_' = [requested_ EXCEPT ![i] = 0]
      /\ data_' = [data_ EXCEPT ![i] = {}]
      /\ piece' = [piece EXCEPT ![p] = NoPiece]
      /\ backlog' = [backlog EXCEPT ![p] = 0]
      /\ pc' = [pc EXCEPT ![p] = "have"]
      /\ inflight' = [inflight EXCEPT ![p] = {}]
      /\ UNCHANGED <<to_retry_, next_piece_index_, bitfield_, unchocked_, phase, failed_assert>>
  BY <1>2 DEF ReceiveLastPart, on_piece_downloaded, ResetState, mainVars
<1> HIDE DEF i, d
<1>4. /\ i \in Held /\ i \in pieces_ /\ i \notin Queued /\ i \notin Done /\ i \notin Unpopped
      /\ stored[i] = <<>>
  <2>1. i \in Held
    BY <1>1 DEF Held, i
  <2>2. i \in pieces_ /\ i \notin Queued /\ i \notin Done /\ i \notin Unpopped
    BY <2>1 DEF IInv, PieceAccounting
  <2> QED
    BY <1>1, <2>1, <2>2 DEF Done
<1>5. /\ stored'[i] = <<d>>
      /\ \A j \in PieceIndex : j # i =>
           /\ stored'[j] = stored[j]
           /\ data_'[j] = data_[j]
           /\ downloaded_'[j] = downloaded_[j]
           /\ requested_'[j] = requested_[j]
      /\ data_'[i] = {} /\ downloaded_'[i] = 0 /\ requested_'[i] = 0
      /\ piece'[p] = NoPiece /\ backlog'[p] = 0 /\ pc'[p] = "have" /\ inflight'[p] = {}
      /\ \A q \in Peer : q # p =>
           /\ piece'[q] = piece[q]
           /\ backlog'[q] = backlog[q]
           /\ pc'[q] = pc[q]
           /\ inflight'[q] = inflight[q]
  <2>1. /\ stored \in [PieceIndex -> Seq(SUBSET Nat)] /\ data_ \in [PieceIndex -> SUBSET Nat]
        /\ downloaded_ \in [PieceIndex -> Nat] /\ requested_ \in [PieceIndex -> Nat]
        /\ piece \in [Peer -> PieceIndex \union {NoPiece}] /\ backlog \in [Peer -> Int]
        /\ pc \in [Peer -> AwaitPoints] /\ inflight \in [Peer -> SUBSET Block]
    BY DEF IInv, TypeOK
  <2>2. /\ stored'[i] = Append(<<>>, d)
        /\ \A j \in PieceIndex : j # i => stored'[j] = stored[j]
    BY <1>1, <1>3, <1>4, <2>1
  <2>3. Append(<<>>, d) = <<d>>
    OBVIOUS
  <2> QED
    BY <1>1, <1>3, <2>1, <2>2, <2>3
<1>6. Held' = Held \ {i}
  <2>1. \A j \in PieceIndex : j # i => ((\E q \in Peer : piece'[q] = j) <=> (\E q \in Peer : piece[q] = j))
    BY <1>1, <1>5, ConstantsType DEF i
  <2>2. ~ \E q \in Peer : piece'[q] = i
    BY <1>1, <1>5
  <2> QED
    BY <2>1, <2>2 DEF Held
<1>7. Queued' = Queued /\ Unpopped' = Unpopped
  BY <1>3 DEF Queued, Unpopped
<1>8. Done' = Done \union {i}
  BY <1>1, <1>5 DEF Done
<1>9. TypeOK'
  <2>1. stored' \in [PieceIndex -> Seq(SUBSET Nat)]
    <3>1. d \in SUBSET Nat
      BY <1>1 DEF d
    <3>2. stored \in [PieceIndex -> Seq(SUBSET Nat)]
      BY DEF IInv, TypeOK
    <3>3. Append(stored[i], d) \in Seq(SUBSET Nat)
      BY <1>1, <3>1, <3>2
    <3> QED
      BY <1>3, <3>2, <3>3
  <2>2. /\ downloaded_' \in [PieceIndex -> Nat] /\ requested_' \in [PieceIndex -> Nat]
        /\ data_' \in [PieceIndex -> SUBSET Nat]
    <3>1. /\ downloaded_ \in [PieceIndex -> Nat] /\ requested_ \in [PieceIndex -> Nat]
          /\ data_ \in [PieceIndex -> SUBSET Nat]
      BY DEF IInv, TypeOK
    <3>2. 0 \in Nat /\ {} \in SUBSET Nat
      OBVIOUS
    <3> QED
      BY <1>3, <3>1, <3>2
  <2>3. downloaded_pieces_count_' \in Nat
    <3>1. downloaded_pieces_count_ \in Nat
      BY DEF IInv, TypeOK
    <3> QED
      BY <1>3, <3>1
  <2>4. /\ backlog' \in [Peer -> Int] /\ inflight' \in [Peer -> SUBSET Block]
        /\ piece' \in [Peer -> PieceIndex \union {NoPiece}]
    <3>1. /\ backlog \in [Peer -> Int] /\ inflight \in [Peer -> SUBSET Block]
          /\ piece \in [Peer -> PieceIndex \union {NoPiece}]
      BY DEF IInv, TypeOK
    <3>2. 0 \in Int
      OBVIOUS
    <3> QED
      BY <1>3, <3>1, <3>2
  <2>5. pc' \in [Peer -> AwaitPoints]
    BY <1>3 DEF IInv, TypeOK, AwaitPoints
  <2>6. pieces_' \subseteq PieceIndex
    BY <1>3 DEF IInv, TypeOK
  <2> QED
    BY <1>3, <2>1, <2>2, <2>3, <2>4, <2>5, <2>6 DEF IInv, TypeOK
<1>10. Control'
  <2>1. \A q \in Peer : IsFiniteSet(inflight'[q])
    BY <1>5, FS_EmptySet DEF IInv, Control
  <2>2. ASSUME NEW q \in Peer
        PROVE  /\ pc'[q] = "request" =>
                    backlog'[q] < MaxBacklog /\ requested_'[piece'[q]] < SizeOf(piece'[q])
               /\ pc'[q] = "read" => downloaded_'[piece'[q]] < SizeOf(piece'[q])
    <3>1. CASE q = p
      BY <3>1, <1>5
    <3>2. CASE q # p
      <4>1. pc[q] \in Downloading => piece[q] \in PieceIndex /\ piece[q] # i
        BY <3>2, <1>1, HolderFacts
      <4> QED
        BY <3>2, <4>1, <1>5 DEF IInv, Control, Downloading
    <3> QED
      BY <3>1, <3>2
  <2>3. \A q \in Peer : piece'[q] # NoPiece <=> pc'[q] \in Downloading
    BY <1>5 DEF IInv, Control, Downloading
  <2>4. \A q \in Peer : pc'[q] \notin Downloading => inflight'[q] = {} /\ backlog'[q] = 0
    BY <1>5 DEF IInv, Control
  <2> QED
    BY <1>0, <1>3, <2>1, <2>2, <2>3, <2>4 DEF Control
<1>11. PieceAccounting'
  <2>1. \A q, s \in Peer : piece'[q] = piece'[s] /\ piece'[q] # NoPiece => q = s
    BY <1>5 DEF IInv, PieceAccounting
  <2>2. \A k, l \in DOMAIN to_retry_' : to_retry_'[k] = to_retry_'[l] => k = l
    BY <1>3 DEF IInv, PieceAccounting
  <2>3. /\ pieces_' = Held' \union Queued'
        /\ PieceIndex = Unpopped' \union pieces_' \union Done'
        /\ Held' \intersect Queued' = {}
        /\ Unpopped' \intersect pieces_' = {}
        /\ Unpopped' \intersect Done' = {}
        /\ pieces_' \intersect Done' = {}
    BY <1>1, <1>3, <1>4, <1>6, <1>7, <1>8 DEF IInv, PieceAccounting
  <2>4. downloaded_pieces_count_' = Cardinality(Done')
    <3>1. IsFiniteSet(Done)
      <4>1. IsFiniteSet(PieceIndex)
        BY ConstantsType, CountBelow DEF PieceIndex
      <4>2. Done \in SUBSET PieceIndex
        BY DEF Done
      <4> QED
        BY <4>1, <4>2, FS_Subset
    <3>2. Cardinality(Done \union {i}) = Cardinality(Done) + 1
      BY <1>4, <3>1, FS_AddElement
    <3>3. downloaded_pieces_count_ = Cardinality(Done)
      BY DEF IInv, PieceAccounting
    <3> QED
      BY <1>3, <1>8, <3>2, <3>3
  <2> QED
    BY <2>1, <2>2, <2>3, <2>4 DEF PieceAccounting
<1>12. BytesExact'
  <2>1. ASSUME NEW q \in Peer, NEW b \in inflight'[q]
        PROVE  /\ b.piece = piece'[q] /\ b.length > 0
               /\ b.offset + b.length <= requested_'[piece'[q]]
               /\ Bytes(b) \intersect data_'[piece'[q]] = {}
               /\ \A c \in inflight'[q] : c # b => Bytes(b) \intersect Bytes(c) = {}
    <3>1. q # p
      BY <1>5
    <3>2. b \in inflight[q] /\ inflight'[q] = inflight[q] /\ piece'[q] = piece[q]
      BY <3>1, <1>5
    <3>3. piece[q] \in PieceIndex /\ piece[q] # i
      BY <3>1, <3>2, <1>1, HolderFacts DEF IInv, Control
    <3> QED
      BY <3>2, <3>3, <1>5 DEF IInv, BytesExact
  <2>2. ASSUME NEW j \in PieceIndex
        PROVE  /\ requested_'[j] <= SizeOf(j)
               /\ data_'[j] \subseteq 0 .. requested_'[j] - 1
               /\ downloaded_'[j] = Cardinality(data_'[j])
               /\ j \notin Held' => requested_'[j] = 0
    <3>1. CASE j # i
      BY <3>1, <1>5, <1>6 DEF IInv, BytesExact
    <3>2. CASE j = i
      <4>1. 0 <= SizeOf(j) /\ Cardinality({}) = 0
        BY <3>2, <1>1, FS_EmptySet
      <4> QED
        BY <3>2, <4>1, <1>5
    <3> QED
      BY <3>1, <3>2
  <2> QED
    BY <2>1, <2>2 DEF BytesExact, Bytes
<1>13. StoredWhole'
  <2> SUFFICES ASSUME NEW j \in PieceIndex
               PROVE  stored'[j] \in {<<>>, <<0 .. SizeOf(j) - 1>>}
    BY DEF StoredWhole
  <2>1. CASE j = i
    BY <2>1, <1>5 DEF d
  <2>2. CASE j # i
    BY <2>2, <1>5 DEF IInv, StoredWhole
  <2> QED
    BY <2>1, <2>2
<1>14. BacklogBound'
  <2> SUFFICES ASSUME NEW q \in Peer
               PROVE  Cardinality(inflight'[q]) <= backlog'[q] /\ backlog'[q] <= MaxBacklog
    BY DEF BacklogBound
  <2>1. CASE q # p
    BY <2>1, <1>5 DEF IInv, BacklogBound
  <2>2. CASE q = p
    <3>1. Cardinality({}) = 0
      BY FS_EmptySet
    <3>2. 0 <= 0 /\ 0 <= MaxBacklog
      BY ConstantsType
    <3>3. Cardinality(inflight'[q]) = 0 /\ backlog'[q] = 0
      BY <2>2, <3>1, <1>5, Zenon
    <3> QED
      BY <3>2, <3>3
  <2> QED
    BY <2>1, <2>2
<1>15. BookkeepingAssertsHold' /\ phase' # "exited"
  BY <1>0, <1>3 DEF IInv, BookkeepingAssertsHold
<1> QED
  BY <1>9, <1>10, <1>11, <1>12, <1>13, <1>14, <1>15 DEF IInv

LEMMA ReadPieceStep ==
  ASSUME IInv, NEW p \in Peer, ReadPiece(p)
  PROVE  IInv'
<1>1. Awaits(p, "read") /\ pc[p] = "read"
  BY DEF ReadPiece, Awaits
<1>2. PICK r \in inflight[p] :
        IF ~PartAccepted(piece[p], r) THEN Abort("piece part")
        ELSE /\ inflight' = [inflight EXCEPT ![p] = @ \ {r}]
             /\ IF CompletesPiece(piece[p], r)
                  THEN ReceiveLastPart(p, r)
                  ELSE ReceivePart(p, r)
             /\ UNCHANGED <<bitfield_, unchocked_, mainVars>>
  BY DEF ReadPiece
<1>3. PartAccepted(piece[p], r)
  BY <1>1, PartFacts
<1>4. CASE CompletesPiece(piece[p], r)
  BY <1>1, <1>2, <1>3, <1>4, ReceiveLastPartStep
<1>5. CASE ~CompletesPiece(piece[p], r)
  BY <1>1, <1>2, <1>3, <1>5, ReceivePartStep
<1> QED
  BY <1>4, <1>5


-----------------------------------------------------------------------------
(* Taking the next piece.                                                  *)

\* What pop_piece_to_download has handed out and the caller put back.
LEMMA QueueAfterPops ==
  ASSUME IInv, NEW to \in next_piece_index_ .. PiecesCount,
         NEW queue, queue = to_retry_ \o Skipped(next_piece_index_, to)
  PROVE  /\ queue \in Seq(PieceIndex)
         /\ \A k, l \in DOMAIN queue : queue[k] = queue[l] => k = l
         /\ {j \in PieceIndex : \E k \in DOMAIN queue : queue[k] = j}
              = Queued \union (next_piece_index_ .. to - 1)
<1> DEFINE from == next_piece_index_
           old == to_retry_
           new == Skipped(from, to)
           m == Len(old)
<1>1. /\ old \in Seq(PieceIndex) /\ m \in Nat /\ DOMAIN old = 1 .. m
      /\ from \in Nat /\ to \in Nat /\ from <= to /\ to <= PiecesCount /\ PiecesCount \in Nat
  <2>1. old \in Seq(PieceIndex) /\ from \in 0 .. PiecesCount
    BY DEF IInv, TypeOK
  <2>2. PiecesCount \in Nat
    BY ConstantsType
  <2>3. m \in Nat /\ DOMAIN old = 1 .. m
    BY <2>1, LenProperties
  <2>4. from \in Nat /\ to \in Nat /\ from <= to /\ to <= PiecesCount
    BY <2>1, <2>2
  <2> QED
    BY <2>1, <2>2, <2>3, <2>4
<1>2. /\ new \in Seq(PieceIndex) /\ Len(new) = to - from
      /\ \A k \in 1 .. to - from : new[k] = from + k - 1
  BY <1>1, SkippedProps
<1>3. /\ \A k, l \in 1 .. m : old[k] = old[l] => k = l
      /\ \A k \in 1 .. m : old[k] \in Queued /\ old[k] \in PieceIndex
      /\ \A j \in Queued : \E k \in 1 .. m : old[k] = j
  <2>1. \A k \in 1 .. m : old[k] \in PieceIndex
    BY <1>1, ElementOfSeq
  <2> QED
    BY <1>1, <2>1 DEF IInv, PieceAccounting, Queued
<1>4. \A j \in Queued : j < from
  <2>1. \A j \in Queued : j \in PieceIndex /\ j \notin Unpopped
    BY DEF IInv, PieceAccounting, Queued
  <2> QED
    BY <1>1, <2>1 DEF PieceIndex, Unpopped
<1> HIDE DEF from, old, new, m
<1>5. queue = old \o new
  BY DEF from, old, new
<1>6. /\ queue \in Seq(PieceIndex) /\ Len(queue) = m + (to - from)
      /\ DOMAIN queue = 1 .. m + (to - from)
      /\ \A k \in 1 .. m : queue[k] = old[k]
      /\ \A k \in m + 1 .. m + (to - from) : queue[k] = from + (k - m) - 1
  <2>1. /\ queue \in Seq(PieceIndex) /\ Len(queue) = m + (to - from)
        /\ \A k \in 1 .. m + (to - from) : queue[k] = IF k <= m THEN old[k] ELSE new[k - m]
    BY <1>1, <1>2, <1>5, ConcatProperties DEF m
  <2>2. DOMAIN queue = 1 .. m + (to - from)
    BY <2>1, LenProperties
  <2>3. \A k \in 1 .. m : queue[k] = old[k]
    BY <1>1, <2>1
  <2>4. ASSUME NEW k \in m + 1 .. m + (to - from)
        PROVE  queue[k] = from + (k - m) - 1
    <3>1. k - m \in 1 .. to - from /\ k \in 1 .. m + (to - from) /\ ~(k <= m)
      BY <1>1
    <3> QED
      BY <1>2, <2>1, <3>1
  <2> QED
    BY <2>1, <2>2, <2>3, <2>4
<1>7. ASSUME NEW k \in DOMAIN queue, NEW l \in DOMAIN queue, queue[k] = queue[l]
      PROVE  k = l
  <2>1. k \in 1 .. m \/ k \in m + 1 .. m + (to - from)
    BY <1>1, <1>6
  <2>2. l \in 1 .. m \/ l \in m + 1 .. m + (to - from)
    BY <1>1, <1>6
  <2>3. CASE k \in 1 .. m /\ l \in 1 .. m
    BY <1>3, <1>6, <1>7, <2>3
  <2>4. CASE k \in 1 .. m /\ l \in m + 1 .. m + (to - from)
    <3>1. queue[k] \in PieceIndex /\ queue[k] < from
      BY <1>3, <1>4, <1>6, <2>4
    <3>2. queue[l] = from + (l - m) - 1
      BY <1>6, <2>4
    <3> QED
      BY <1>1, <1>7, <2>4, <3>1, <3>2
  <2>5. CASE k \in m + 1 .. m + (to - from) /\ l \in 1 .. m
    <3>1. queue[l] \in PieceIndex /\ queue[l] < from
      BY <1>3, <1>4, <1>6, <2>5
    <3>2. queue[k] = from + (k - m) - 1
      BY <1>6, <2>5
    <3> QED
      BY <1>1, <1>7, <2>5, <3>1, <3>2
  <2>6. CASE k \in m + 1 .. m + (to - from) /\ l \in m + 1 .. m + (to - from)
    <3>1. queue[k] = from + (k - m) - 1 /\ queue[l] = from + (l - m) - 1
      BY <1>6, <2>6
    <3>2. k \in Int /\ l \in Int
      BY <1>1, <2>6
    <3>3. from + (k - m) - 1 = from + (l - m) - 1
      BY <1>7, <3>1
    <3> QED
      BY <1>1, <3>2, <3>3
  <2> QED
    BY <2>1, <2>2, <2>3, <2>4, <2>5, <2>6
<1>8. ASSUME NEW j \in PieceIndex
      PROVE  (\E k \in DOMAIN queue : queue[k] = j) <=> j \in Queued \union (from .. to - 1)
  <2>1. ASSUME NEW k \in DOMAIN queue, queue[k] = j
        PROVE  j \in Queued \union (from .. to - 1)
    <3>1. CASE k \in 1 .. m
      BY <1>3, <1>6, <2>1, <3>1
    <3>2. CASE k \in m + 1 .. m + (to - from)
      <4>1. j = from + (k - m) - 1
        BY <1>6, <2>1, <3>2
      <4>2. from + (k - m) - 1 \in from .. to - 1
        BY <1>1, <3>2
      <4> QED
        BY <4>1, <4>2
    <3>3. k \in 1 .. m + (to - from)
      BY <1>6, <2>1
    <3>4. k \in 1 .. m \/ k \in m + 1 .. m + (to - from)
      BY <1>1, <3>3
    <3> QED
      BY <3>1, <3>2, <3>4
  <2>2. ASSUME j \in Queued PROVE \E k \in DOMAIN queue : queue[k] = j
    <3>1. PICK k \in 1 .. m : old[k] = j
      BY <1>3, <2>2
    <3>2. k \in DOMAIN queue /\ queue[k] = j
      BY <1>1, <1>6, <3>1
    <3> QED
      BY <3>2
  <2>3. ASSUME j \in from .. to - 1 PROVE \E k \in DOMAIN queue : queue[k] = j
    <3>1. PICK k \in m + 1 .. m + (to - from) : k = m + (j - from) + 1
      BY <1>1, <2>3
    <3>2. queue[k] = from + (k - m) - 1
      BY <1>6
    <3>3. from + (k - m) - 1 = j
      BY <1>1, <2>3, <3>1
    <3>4. k \in DOMAIN queue
      BY <1>1, <1>6
    <3> QED
      BY <3>2, <3>3, <3>4
  <2> QED
    BY <2>1, <2>2, <2>3
<1>9. \A j \in Queued \union (from .. to - 1) : j \in PieceIndex
  BY <1>1 DEF Queued, PieceIndex
<1>10. {j \in PieceIndex : \E k \in DOMAIN queue : queue[k] = j} = Queued \union (from .. to - 1)
  BY <1>8, <1>9
<1> QED
  BY <1>6, <1>7, <1>10 DEF from

\* What is left of a queue without repetitions when an entry is erased.
LEMMA RemoveAtRange ==
  ASSUME NEW S, NEW s \in Seq(S), NEW k \in DOMAIN s,
         \A a, b \in DOMAIN s : s[a] = s[b] => a = b
  PROVE  /\ RemoveAt(s, k) \in Seq(S)
         /\ \A a, b \in DOMAIN RemoveAt(s, k) : RemoveAt(s, k)[a] = RemoveAt(s, k)[b] => a = b
         /\ {x \in S : \E a \in DOMAIN RemoveAt(s, k) : RemoveAt(s, k)[a] = x}
              = {x \in S : \E a \in DOMAIN s : s[a] = x} \ {s[k]}
<1> DEFINE t == RemoveAt(s, k)
           n == Len(s)
<1>1. n \in Nat /\ DOMAIN s = 1 .. n /\ k \in 1 .. n
  BY LenProperties
<1>2. /\ t \in Seq(S) /\ Len(t) = n - 1
      /\ \A j \in 1 .. n - 1 : t[j] = IF j < k THEN s[j] ELSE s[j + 1]
  <2>1. k \in 1 .. Len(s)
    BY <1>1
  <2> QED
    BY ONLY <2>1, s \in Seq(S), RemoveAtProps
<1>3. DOMAIN t = 1 .. n - 1
  BY <1>2, LenProperties
<1> HIDE DEF t, n
<1> DEFINE origin(j) == IF j < k THEN j ELSE j + 1
<1>4. \A j \in 1 .. n - 1 : origin(j) \in 1 .. n /\ origin(j) # k /\ t[j] = s[origin(j)]
  BY <1>1, <1>2
<1>5. \A a, b \in 1 .. n - 1 : origin(a) = origin(b) => a = b
  BY <1>1
<1>6. \A a \in 1 .. n : a # k => \E j \in 1 .. n - 1 : origin(j) = a
  <2> SUFFICES ASSUME NEW a \in 1 .. n, a # k
               PROVE  \E j \in 1 .. n - 1 : origin(j) = a
    OBVIOUS
  <2>1. CASE a < k
    <3>1. a \in 1 .. n - 1 /\ origin(a) = a
      BY <1>1, <2>1
    <3> QED
      BY <3>1
  <2>2. CASE a > k
    <3>1. a - 1 \in 1 .. n - 1 /\ origin(a - 1) = a
      BY <1>1, <2>2
    <3> QED
      BY <3>1
  <2> QED
    BY <1>1, <2>1, <2>2
<1> HIDE DEF origin
<1>7. \A a, b \in DOMAIN t : t[a] = t[b] => a = b
  BY <1>1, <1>3, <1>4, <1>5
<1>8. ASSUME NEW x \in S
      PROVE  (\E a \in DOMAIN t : t[a] = x) <=> x # s[k] /\ \E a \in DOMAIN s : s[a] = x
  <2>1. ASSUME NEW a \in DOMAIN t, t[a] = x
        PROVE  x # s[k] /\ \E b \in DOMAIN s : s[b] = x
    BY <1>1, <1>3, <1>4, <2>1
  <2>2. ASSUME NEW b \in DOMAIN s, s[b] = x, x # s[k]
        PROVE  \E a \in DOMAIN t : t[a] = x
    <3>1. PICK j \in 1 .. n - 1 : origin(j) = b
      BY <1>1, <1>6, <2>2
    <3> QED
      BY <1>3, <1>4, <2>2, <3>1
  <2> QED
    BY <2>1, <2>2
<1> QED
  BY <1>2, <1>7, <1>8 DEF t


\* A coroutine between two pieces holds nothing.
LEMMA BetweenPieces ==
  ASSUME IInv, NEW p \in Peer, pc[p] \notin Downloading
  PROVE  piece[p] = NoPiece /\ inflight[p] = {} /\ backlog[p] = 0
BY DEF IInv, Control

\* Starting on a piece i that no connection holds, whatever the queue was
\* before, leaves the invariant true when the other pieces are accounted for.
LEMMA HoldStep ==
  ASSUME IInv, NEW p \in Peer, phase = "peers", pc[p] \notin Downloading,
         NEW i \in PieceIndex, i \notin Held, Hold(p, i),
         UNCHANGED <<stateVars, storeVars, bitfield_, unchocked_, inflight, mainVars>>,
         to_retry_' \in Seq(PieceIndex),
         \A k, l \in DOMAIN to_retry_' : to_retry_'[k] = to_retry_'[l] => k = l,
         next_piece_index_' \in 0 .. PiecesCount,
         pieces_' = Held \union {i} \union Queued',
         PieceIndex = Unpopped' \union pieces_' \union Done,
         i \notin Queued',
         Held \intersect Queued' = {},
         Unpopped' \intersect pieces_' = {},
         Unpopped' \intersect Done = {},
         pieces_' \intersect Done = {}
  PROVE  IInv'
<1> USE DEF stateVars, storeVars, mainVars
<1>1. piece[p] = NoPiece /\ inflight[p] = {} /\ backlog[p] = 0
  BY BetweenPieces
<1>2. /\ SizeOf(i) \in Nat \ {0} /\ requested_[i] = 0 /\ downloaded_[i] = 0
      /\ i # NoPiece /\ MaxBacklog \in Nat \ {0}
  <2>1. requested_[i] = 0
    BY DEF IInv, BytesExact
  <2>2. downloaded_[i] <= requested_[i]
    BY DataBounded
  <2>3. downloaded_[i] \in Nat
    BY DEF IInv, TypeOK
  <2> QED
    BY <2>1, <2>2, <2>3, SizeOfType, ConstantsType
<1>3. /\ piece'[p] = i /\ backlog'[p] = 0
      /\ pc'[p] = LoopHead(unchocked_[p], 0, requested_[i], SizeOf(i))
      /\ \A q \in Peer : q # p => piece'[q] = piece[q] /\ backlog'[q] = backlog[q] /\ pc'[q] = pc[q]
  <2>1. /\ piece \in [Peer -> PieceIndex \union {NoPiece}]
        /\ backlog \in [Peer -> Int] /\ pc \in [Peer -> AwaitPoints]
    BY DEF IInv, TypeOK
  <2> QED
    BY <2>1 DEF Hold
<1>4. pc'[p] \in Downloading
  BY <1>3 DEF LoopHead, Downloading
<1>5. Held' = Held \union {i}
  <2>1. \A j \in PieceIndex : (\E q \in Peer : piece'[q] = j) <=> j = i \/ \E q \in Peer : piece[q] = j
    BY <1>1, <1>3, ConstantsType
  <2> QED
    BY <2>1 DEF Held
<1>6. Done' = Done
  BY DEF Done
<1>7. TypeOK'
  <2>1. pieces_' \subseteq PieceIndex
    BY DEF Held, Queued
  <2>2. /\ piece' \in [Peer -> PieceIndex \union {NoPiece}]
        /\ pc' \in [Peer -> AwaitPoints]
    BY DEF Hold, IInv, TypeOK, LoopHead, AwaitPoints
  <2>3. backlog' \in [Peer -> Int]
    <3>1. backlog \in [Peer -> Int]
      BY DEF IInv, TypeOK
    <3>2. 0 \in Int
      OBVIOUS
    <3> QED
      BY <3>1, <3>2 DEF Hold
  <2> QED
    BY <2>1, <2>2, <2>3 DEF IInv, TypeOK
<1>8. Control'
  <2>1. ASSUME NEW q \in Peer
        PROVE  /\ pc'[q] = "request" =>
                    backlog'[q] < MaxBacklog /\ requested_[piece'[q]] < SizeOf(piece'[q])
               /\ pc'[q] = "read" => downloaded_[piece'[q]] < SizeOf(piece'[q])
    <3>1. CASE q = p
      BY <3>1, <1>2, <1>3
    <3>2. CASE q # p
      BY <3>2, <1>3 DEF IInv, Control
    <3> QED
      BY <3>1, <3>2
  <2>2. \A q \in Peer : piece'[q] # NoPiece <=> pc'[q] \in Downloading
    BY <1>2, <1>3, <1>4 DEF IInv, Control
  <2>3. \A q \in Peer : pc'[q] \notin Downloading => inflight'[q] = {} /\ backlog'[q] = 0
    BY <1>3, <1>4 DEF IInv, Control
  <2>4. \A q \in Peer : IsFiniteSet(inflight'[q])
    BY DEF IInv, Control
  <2> QED
    BY <2>1, <2>2, <2>3, <2>4 DEF Control
<1>9. PieceAccounting'
  <2>1. \A q, s \in Peer : piece'[q] = piece'[s] /\ piece'[q] # NoPiece => q = s
    BY <1>3 DEF IInv, PieceAccounting, Held
  <2>2. downloaded_pieces_count_' = Cardinality(Done')
    BY <1>6 DEF IInv, PieceAccounting
  <2> QED
    BY <2>1, <2>2, <1>5, <1>6 DEF PieceAccounting
<1>10. BytesExact'
  <2>1. ASSUME NEW q \in Peer, NEW b \in inflight'[q]
        PROVE  /\ b.piece = piece'[q] /\ b.length > 0
               /\ b.offset + b.length <= requested_'[piece'[q]]
               /\ Bytes(b) \intersect data_'[piece'[q]] = {}
               /\ \A c \in inflight'[q] : c # b => Bytes(b) \intersect Bytes(c) = {}
    <3>1. q # p /\ b \in inflight[q] /\ inflight'[q] = inflight[q]
      BY <1>1
    <3>2. piece'[q] = piece[q]
      BY <1>3, <3>1
    <3> QED
      BY <3>1, <3>2 DEF IInv, BytesExact
  <2>2. ASSUME NEW j \in PieceIndex
        PROVE  /\ requested_'[j] <= SizeOf(j)
               /\ data_'[j] \subseteq 0 .. requested_'[j] - 1
               /\ downloaded_'[j] = Cardinality(data_'[j])
               /\ j \notin Held' => requested_'[j] = 0
    BY <1>5 DEF IInv, BytesExact
  <2> QED
    BY <2>1, <2>2 DEF BytesExact, Bytes
<1>11. StoredWhole'
  BY DEF IInv, StoredWhole
<1>12. BacklogBound'
  <2> SUFFICES ASSUME NEW q \in Peer
               PROVE  Cardinality(inflight'[q]) <= backlog'[q] /\ backlog'[q] <= MaxBacklog
    BY DEF BacklogBound
  <2>1. backlog'[q] = backlog[q] /\ inflight'[q] = inflight[q]
    BY <1>1, <1>3
  <2> QED
    BY <2>1 DEF IInv, BacklogBound
<1>13. BookkeepingAssertsHold' /\ phase' # "exited"
  BY DEF IInv, BookkeepingAssertsHold
<1> QED
  BY <1>7, <1>8, <1>9, <1>10, <1>11, <1>12, <1>13 DEF IInv

LEMMA TakeFreshStep ==
  ASSUME IInv, NEW p \in Peer, phase = "peers", pc[p] \notin Downloading, TakeFresh(p),
         UNCHANGED <<stateVars, storeVars, bitfield_, unchocked_, inflight, mainVars>>
  PROVE  IInv'
<1>1. PICK i \in next_piece_index_ .. PiecesCount - 1 :
        /\ pieces_' = pieces_ \union (next_piece_index_ .. i)
        /\ to_retry_' = to_retry_ \o Skipped(next_piece_index_, i)
        /\ next_piece_index_' = i + 1
        /\ Hold(p, i)
  BY DEF TakeFresh
<1>2. /\ next_piece_index_ \in Nat /\ PiecesCount \in Nat /\ i \in Nat
      /\ next_piece_index_ <= i /\ i < PiecesCount
      /\ i \in next_piece_index_ .. PiecesCount
  <2>1. PiecesCount \in Nat /\ next_piece_index_ \in 0 .. PiecesCount
    BY ConstantsType DEF IInv, TypeOK
  <2> QED
    BY <2>1
<1>3. /\ to_retry_' \in Seq(PieceIndex)
      /\ \A k, l \in DOMAIN to_retry_' : to_retry_'[k] = to_retry_'[l] => k = l
      /\ Queued' = Queued \union (next_piece_index_ .. i - 1)
  <2>1. /\ to_retry_' \in Seq(PieceIndex)
        /\ \A k, l \in DOMAIN to_retry_' : to_retry_'[k] = to_retry_'[l] => k = l
        /\ {j \in PieceIndex : \E k \in DOMAIN to_retry_' : to_retry_'[k] = j}
             = Queued \union (next_piece_index_ .. i - 1)
    BY <1>1, <1>2, QueueAfterPops
  <2>2. Queued' = {j \in PieceIndex : \E k \in DOMAIN to_retry_' : to_retry_'[k] = j}
    BY DEF Queued
  <2> QED
    BY <2>1, <2>2
<1>4. i \in PieceIndex /\ i \in Unpopped /\ next_piece_index_' \in 0 .. PiecesCount
  BY <1>1, <1>2 DEF PieceIndex, Unpopped
<1>5. /\ Unpopped' = Unpopped \ (next_piece_index_ .. i)
      /\ next_piece_index_ .. i = (next_piece_index_ .. i - 1) \union {i}
      /\ next_piece_index_ .. i \subseteq Unpopped
      /\ i \notin next_piece_index_ .. i - 1
  BY <1>1, <1>2 DEF Unpopped
<1>6. /\ pieces_ = Held \union Queued
      /\ PieceIndex = Unpopped \union pieces_ \union Done
      /\ Held \intersect Queued = {}
      /\ Unpopped \intersect pieces_ = {}
      /\ Unpopped \intersect Done = {}
      /\ pieces_ \intersect Done = {}
  BY DEF IInv, PieceAccounting
<1>7. /\ i \notin Held /\ i \notin Queued'
      /\ pieces_' = Held \union {i} \union Queued'
      /\ PieceIndex = Unpopped' \union pieces_' \union Done
      /\ Held \intersect Queued' = {}
      /\ Unpopped' \intersect pieces_' = {}
      /\ Unpopped' \intersect Done = {}
      /\ pieces_' \intersect Done = {}
  BY ONLY <1>1, <1>3, <1>4, <1>5, <1>6
<1> QED
  BY <1>1, <1>3, <1>4, <1>7, HoldStep

\* Every fresh index is in the queue now.
LEMMA NoFreshFacts ==
  ASSUME IInv, NEW p \in Peer, NoFresh(p)
  PROVE  /\ RetryQueue \in Seq(PieceIndex)
         /\ \A k, l \in DOMAIN RetryQueue : RetryQueue[k] = RetryQueue[l] => k = l
         /\ {j \in PieceIndex : \E k \in DOMAIN RetryQueue : RetryQueue[k] = j} = Queued \union Unpopped
         /\ pieces_' = Held \union Queued \union Unpopped
         /\ Unpopped' = {}
         /\ next_piece_index_' \in 0 .. PiecesCount
         /\ PieceIndex = pieces_' \union Done
         /\ Held \intersect (Queued \union Unpopped) = {}
         /\ pieces_' \intersect Done = {}
<1>1. PiecesCount \in Nat /\ next_piece_index_ \in 0 .. PiecesCount
  BY ConstantsType DEF IInv, TypeOK
<1>2. PiecesCount \in next_piece_index_ .. PiecesCount /\ PiecesCount \in 0 .. PiecesCount
  BY <1>1
<1>3. /\ RetryQueue \in Seq(PieceIndex)
      /\ \A k, l \in DOMAIN RetryQueue : RetryQueue[k] = RetryQueue[l] => k = l
      /\ {j \in PieceIndex : \E k \in DOMAIN RetryQueue : RetryQueue[k] = j} = Queued \union Unpopped
  BY <1>2, QueueAfterPops DEF RetryQueue, Unpopped
<1>4. next_piece_index_' = PiecesCount /\ pieces_' = pieces_ \union Unpopped
  BY DEF NoFresh, Unpopped
<1>5. Unpopped' = {}
  BY <1>1, <1>4 DEF Unpopped
<1>6. /\ pieces_ = Held \union Queued
      /\ PieceIndex = Unpopped \union pieces_ \union Done
      /\ Held \intersect Queued = {}
      /\ Unpopped \intersect pieces_ = {}
      /\ Unpopped \intersect Done = {}
      /\ pieces_ \intersect Done = {}
  BY DEF IInv, PieceAccounting
<1> QED
  BY <1>2, <1>3, <1>4, <1>5, <1>6

LEMMA TakeRetryStep ==
  ASSUME IInv, NEW p \in Peer, phase = "peers", pc[p] \notin Downloading, TakeRetry(p),
         UNCHANGED <<stateVars, storeVars, bitfield_, unchocked_, inflight, mainVars>>
  PROVE  IInv'
<1>1. NoFresh(p)
  BY DEF TakeRetry
<1>2. PICK k \in DOMAIN RetryQueue :
        to_retry_' = RemoveAt(RetryQueue, k) /\ Hold(p, RetryQueue[k])
  BY DEF TakeRetry
<1> DEFINE queue == RetryQueue
           i == queue[k]
<1>3. /\ queue \in Seq(PieceIndex)
      /\ \A a, b \in DOMAIN queue : queue[a] = queue[b] => a = b
      /\ {j \in PieceIndex : \E a \in DOMAIN queue : queue[a] = j} = Queued \union Unpopped
      /\ pieces_' = Held \union Queued \union Unpopped
      /\ Unpopped' = {}
      /\ next_piece_index_' \in 0 .. PiecesCount
      /\ PieceIndex = pieces_' \union Done
      /\ Held \intersect (Queued \union Unpopped) = {}
      /\ pieces_' \intersect Done = {}
  BY <1>1, NoFreshFacts
<1>4. k \in DOMAIN queue /\ to_retry_' = RemoveAt(queue, k) /\ Hold(p, i)
  BY <1>2
<1> HIDE DEF queue
<1>5. i \in PieceIndex
  BY <1>3, <1>4, LenProperties, ElementOfSeq
<1>6. i \in Queued \union Unpopped
  BY <1>3, <1>4, <1>5
<1>7. /\ to_retry_' \in Seq(PieceIndex)
      /\ \A a, b \in DOMAIN to_retry_' : to_retry_'[a] = to_retry_'[b] => a = b
      /\ Queued' = (Queued \union Unpopped) \ {i}
  <2>1. /\ RemoveAt(queue, k) \in Seq(PieceIndex)
        /\ \A a, b \in DOMAIN RemoveAt(queue, k) :
             RemoveAt(queue, k)[a] = RemoveAt(queue, k)[b] => a = b
        /\ {j \in PieceIndex : \E a \in DOMAIN RemoveAt(queue, k) : RemoveAt(queue, k)[a] = j}
             = {j \in PieceIndex : \E a \in DOMAIN queue : queue[a] = j} \ {queue[k]}
    BY <1>3, <1>4, RemoveAtRange
  <2> QED
    BY <2>1, <1>3, <1>4 DEF Queued
<1>8. /\ i \notin Held /\ i \notin Queued'
      /\ pieces_' = Held \union {i} \union Queued'
      /\ PieceIndex = Unpopped' \union pieces_' \union Done
      /\ Held \intersect Queued' = {}
      /\ Unpopped' \intersect pieces_' = {}
      /\ Unpopped' \intersect Done = {}
      /\ pieces_' \intersect Done = {}
  BY <1>3, <1>6, <1>7
<1> QED
  BY <1>3, <1>4, <1>5, <1>7, <1>8, HoldStep


LEMMA TakeNoneStep ==
  ASSUME IInv, NEW p \in Peer, phase = "peers", pc[p] \notin Downloading, TakeNone(p),
         UNCHANGED <<stateVars, storeVars, bitfield_, unchocked_, inflight, mainVars>>
  PROVE  IInv'
<1> USE DEF stateVars, storeVars, mainVars
<1>1. /\ RetryQueue \in Seq(PieceIndex)
      /\ \A k, l \in DOMAIN RetryQueue : RetryQueue[k] = RetryQueue[l] => k = l
      /\ {j \in PieceIndex : \E k \in DOMAIN RetryQueue : RetryQueue[k] = j} = Queued \union Unpopped
      /\ pieces_' = Held \union Queued \union Unpopped
      /\ Unpopped' = {}
      /\ next_piece_index_' \in 0 .. PiecesCount
      /\ PieceIndex = pieces_' \union Done
      /\ Held \intersect (Queued \union Unpopped) = {}
      /\ pieces_' \intersect Done = {}
  BY NoFreshFacts DEF TakeNone
<1>2. to_retry_' = RetryQueue /\ pc' = [pc EXCEPT ![p] = "done"] /\ UNCHANGED <<piece, backlog>>
  BY DEF TakeNone
<1>3. Held' = Held /\ Done' = Done
  BY <1>2 DEF Held, Done
<1>4. Queued' = Queued \union Unpopped
  <2>1. Queued' = {j \in PieceIndex : \E k \in DOMAIN RetryQueue : RetryQueue[k] = j}
    BY <1>2 DEF Queued
  <2> QED
    BY <2>1, <1>1
<1>5. \A q \in Peer : pc'[q] = IF q = p THEN "done" ELSE pc[q]
  BY <1>2 DEF IInv, TypeOK
<1>6. TypeOK'
  <2>1. pc' \in [Peer -> AwaitPoints]
    BY <1>2 DEF IInv, TypeOK, AwaitPoints
  <2>2. pieces_' \subseteq PieceIndex /\ to_retry_' \in Seq(PieceIndex)
    BY <1>1, <1>2
  <2> QED
    BY <1>1, <1>2, <2>1, <2>2 DEF IInv, TypeOK
<1>7. Control'
  BY <1>2, <1>5 DEF IInv, Control, Downloading
<1>8. PieceAccounting'
  <2>1. \A k, l \in DOMAIN to_retry_' : to_retry_'[k] = to_retry_'[l] => k = l
    BY <1>1, <1>2
  <2>2. /\ pieces_' = Held' \union Queued'
        /\ PieceIndex = Unpopped' \union pieces_' \union Done'
        /\ Held' \intersect Queued' = {}
        /\ Unpopped' \intersect pieces_' = {}
        /\ Unpopped' \intersect Done' = {}
        /\ pieces_' \intersect Done' = {}
    BY <1>1, <1>3, <1>4
  <2>3. \A q, s \in Peer : piece'[q] = piece'[s] /\ piece'[q] # NoPiece => q = s
    BY <1>2 DEF IInv, PieceAccounting
  <2>4. downloaded_pieces_count_' = Cardinality(Done')
    BY <1>3 DEF IInv, PieceAccounting
  <2> QED
    BY <2>1, <2>2, <2>3, <2>4 DEF PieceAccounting
<1>9. BytesExact'
  BY <1>2, <1>3 DEF IInv, BytesExact, Bytes
<1>10. StoredWhole' /\ BacklogBound'
  BY <1>2 DEF IInv, StoredWhole, BacklogBound
<1>11. BookkeepingAssertsHold' /\ phase' # "exited"
  BY DEF IInv, BookkeepingAssertsHold
<1> QED
  BY <1>6, <1>7, <1>8, <1>9, <1>10, <1>11 DEF IInv

LEMMA TakeNextStep ==
  ASSUME IInv, NEW p \in Peer, SentInterested(p) \/ SentHave(p)
  PROVE  IInv'
<1>1. phase = "peers" /\ pc[p] \notin Downloading
  BY DEF SentInterested, SentHave, Awaits, Downloading
<1>2. /\ TakeFresh(p) \/ TakeRetry(p) \/ TakeNone(p)
      /\ UNCHANGED <<stateVars, storeVars, bitfield_, unchocked_, inflight, mainVars>>
  BY DEF SentInterested, SentHave, TakeNext
<1> QED
  BY <1>1, <1>2, TakeFreshStep, TakeRetryStep, TakeNoneStep

-----------------------------------------------------------------------------
(* The end of a coroutine.                                                 *)

\* A connection that holds no piece ends.
LEMMA IdlePeerFailsStep ==
  ASSUME IInv, NEW p \in Peer, PeerFails(p), pc[p] \notin Downloading
  PROVE  IInv'
<1>1. piece[p] = NoPiece /\ inflight[p] = {} /\ backlog[p] = 0
  BY BetweenPieces
<1>2. /\ phase = "peers"
      /\ pc' = [pc EXCEPT ![p] = "done"]
      /\ piece' = [piece EXCEPT ![p] = NoPiece]
      /\ backlog' = [backlog EXCEPT ![p] = 0]
      /\ inflight' = [inflight EXCEPT ![p] = {}]
      /\ UNCHANGED <<stateVars, queueVars, storeVars, bitfield_, unchocked_, mainVars>>
  BY DEF PeerFails, queueVars
<1>3. UNCHANGED <<piece, backlog, inflight>>
  BY <1>1, <1>2 DEF IInv, TypeOK
<1> USE DEF queueVars, stateVars, storeVars, mainVars
<1>4. PieceAccounting' /\ BytesExact' /\ StoredWhole' /\ BacklogBound'
  BY <1>2, <1>3, PiecesUntouched
<1>5. \A q \in Peer : pc'[q] = IF q = p THEN "done" ELSE pc[q]
  BY <1>2 DEF IInv, TypeOK
<1>6. TypeOK'
  BY <1>2, <1>3 DEF IInv, TypeOK, AwaitPoints
<1>7. Control'
  BY <1>2, <1>3, <1>5 DEF IInv, Control, Downloading
<1>8. BookkeepingAssertsHold' /\ phase' # "exited"
  BY <1>2 DEF IInv, BookkeepingAssertsHold
<1> QED
  BY <1>4, <1>6, <1>7, <1>8 DEF IInv

\* A connection that holds a piece ends: the piece goes to to_retry_.
LEMMA HolderFailsStep ==
  ASSUME IInv, NEW p \in Peer, PeerFails(p), pc[p] \in Downloading
  PROVE  IInv'
<1> DEFINE i == piece[p]
           n == Len(to_retry_)
<1>1. /\ i \in PieceIndex /\ i # NoPiece
      /\ \A q \in Peer : q # p => piece[q] # i
      /\ SizeOf(i) \in Nat \ {0}
  BY HolderFacts
<1>2. /\ phase = "peers"
      /\ pc' = [pc EXCEPT ![p] = "done"]
      /\ piece' = [piece EXCEPT ![p] = NoPiece]
      /\ backlog' = [backlog EXCEPT ![p] = 0]
      /\ inflight' = [inflight EXCEPT ![p] = {}]
      /\ to_retry_' = Append(to_retry_, i)
      /\ downloaded_' = [downloaded_ EXCEPT ![i] = 0]
      /\ requested_' = [requested_ EXCEPT ![i] = 0]
      /\ data_' = [data_ EXCEPT ![i] = {}]
      /\ UNCHANGED <<pieces_, next_piece_index_, stored, downloaded_pieces_count_,
                     bitfield_, unchocked_, phase, failed_assert>>
  BY DEF PeerFails, push_piece_to_retry, ResetState, storeVars, mainVars
<1> HIDE DEF i, n
<1>3. /\ \A j \in PieceIndex : j # i =>
           /\ data_'[j] = data_[j]
           /\ downloaded_'[j] = downloaded_[j]
           /\ requested_'[j] = requested_[j]
      /\ data_'[i] = {} /\ downloaded_'[i] = 0 /\ requested_'[i] = 0
      /\ piece'[p] = NoPiece /\ backlog'[p] = 0 /\ pc'[p] = "done" /\ inflight'[p] = {}
      /\ \A q \in Peer : q # p =>
           /\ piece'[q] = piece[q]
           /\ backlog'[q] = backlog[q]
           /\ pc'[q] = pc[q]
           /\ inflight'[q] = inflight[q]
  <2>1. /\ data_ \in [PieceIndex -> SUBSET Nat]
        /\ downloaded_ \in [PieceIndex -> Nat] /\ requested_ \in [PieceIndex -> Nat]
        /\ piece \in [Peer -> PieceIndex \union {NoPiece}] /\ backlog \in [Peer -> Int]
        /\ pc \in [Peer -> AwaitPoints] /\ inflight \in [Peer -> SUBSET Block]
    BY DEF IInv, TypeOK
  <2> QED
    BY <1>1, <1>2, <2>1
<1>4. i \in Held /\ i \notin Queued /\ i \in pieces_
  <2>1. i \in Held
    BY <1>1 DEF Held, i
  <2> QED
    BY <2>1 DEF IInv, PieceAccounting
<1>5. Held' = Held \ {i}
  <2>1. \A j \in PieceIndex : j # i => ((\E q \in Peer : piece'[q] = j) <=> (\E q \in Peer : piece[q] = j))
    BY <1>1, <1>3, ConstantsType DEF i
  <2>2. ~ \E q \in Peer : piece'[q] = i
    BY <1>1, <1>3
  <2> QED
    BY <2>1, <2>2 DEF Held
<1>6. Unpopped' = Unpopped /\ Done' = Done
  BY <1>2 DEF Unpopped, Done
<1>7. /\ to_retry_' \in Seq(PieceIndex)
      /\ \A k, l \in DOMAIN to_retry_' : to_retry_'[k] = to_retry_'[l] => k = l
      /\ Queued' = Queued \union {i}
  <2>1. /\ to_retry_ \in Seq(PieceIndex) /\ n \in Nat /\ DOMAIN to_retry_ = 1 .. n
    BY LenProperties DEF IInv, TypeOK, n
  <2>2. /\ to_retry_' \in Seq(PieceIndex)
        /\ DOMAIN to_retry_' = 1 .. n + 1
        /\ to_retry_'[n + 1] = i
        /\ \A k \in 1 .. n : to_retry_'[k] = to_retry_[k]
    <3>1. /\ to_retry_' \in Seq(PieceIndex) /\ Len(to_retry_') = n + 1
          /\ \A k \in 1 .. n : to_retry_'[k] = to_retry_[k]
          /\ to_retry_'[n + 1] = i
      BY <1>1, <1>2, <2>1, AppendProperties DEF n
    <3> QED
      BY <3>1, LenProperties
  <2>3. \A k \in 1 .. n : to_retry_[k] # i
    BY <1>1, <1>4, <2>1 DEF Queued
  <2>4. \A k, l \in 1 .. n : to_retry_[k] = to_retry_[l] => k = l
    BY <2>1 DEF IInv, PieceAccounting
  <2>5. 1 .. n + 1 = (1 .. n) \union {n + 1}
    BY <2>1
  <2>6. ASSUME NEW k \in DOMAIN to_retry_', NEW l \in DOMAIN to_retry_',
               to_retry_'[k] = to_retry_'[l]
        PROVE  k = l
    BY <2>2, <2>3, <2>4, <2>5, <2>6
  <2>7. ASSUME NEW j \in PieceIndex
        PROVE  (\E k \in DOMAIN to_retry_' : to_retry_'[k] = j)
                 <=> j = i \/ \E k \in DOMAIN to_retry_ : to_retry_[k] = j
    BY <2>1, <2>2, <2>5
  <2> QED
    BY <1>1, <2>2, <2>6, <2>7 DEF Queued
<1>8. TypeOK'
  <2>1. /\ downloaded_' \in [PieceIndex -> Nat] /\ requested_' \in [PieceIndex -> Nat]
        /\ data_' \in [PieceIndex -> SUBSET Nat]
    <3>1. /\ downloaded_ \in [PieceIndex -> Nat] /\ requested_ \in [PieceIndex -> Nat]
          /\ data_ \in [PieceIndex -> SUBSET Nat]
      BY DEF IInv, TypeOK
    <3>2. 0 \in Nat /\ {} \in SUBSET Nat
      OBVIOUS
    <3> QED
      BY <1>2, <3>1, <3>2
  <2>2. /\ backlog' \in [Peer -> Int] /\ inflight' \in [Peer -> SUBSET Block]
        /\ piece' \in [Peer -> PieceIndex \union {NoPiece}]
    <3>1. /\ backlog \in [Peer -> Int] /\ inflight \in [Peer -> SUBSET Block]
          /\ piece \in [Peer -> PieceIndex \union {NoPiece}]
      BY DEF IInv, TypeOK
    <3>2. 0 \in Int
      OBVIOUS
    <3> QED
      BY <1>2, <3>1, <3>2
  <2>3. pc' \in [Peer -> AwaitPoints]
    BY <1>2 DEF IInv, TypeOK, AwaitPoints
  <2> QED
    BY <1>2, <1>7, <2>1, <2>2, <2>3 DEF IInv, TypeOK
<1>9. Control'
  <2>1. ASSUME NEW q \in Peer
        PROVE  /\ pc'[q] = "request" =>
                    backlog'[q] < MaxBacklog /\ requested_'[piece'[q]] < SizeOf(piece'[q])
               /\ pc'[q] = "read" => downloaded_'[piece'[q]] < SizeOf(piece'[q])
    <3>1. CASE q = p
      BY <3>1, <1>3
    <3>2. CASE q # p
      <4>1. pc[q] \in Downloading => piece[q] \in PieceIndex /\ piece[q] # i
        BY <3>2, <1>1, HolderFacts
      <4> QED
        BY <3>2, <4>1, <1>3 DEF IInv, Control, Downloading
    <3> QED
      BY <3>1, <3>2
  <2>2. \A q \in Peer : piece'[q] # NoPiece <=> pc'[q] \in Downloading
    BY <1>3 DEF IInv, Control, Downloading
  <2>3. \A q \in Peer : pc'[q] \notin Downloading => inflight'[q] = {} /\ backlog'[q] = 0
    BY <1>3 DEF IInv, Control
  <2>4. \A q \in Peer : IsFiniteSet(inflight'[q])
    BY <1>3, FS_EmptySet DEF IInv, Control
  <2> QED
    BY <1>2, <2>1, <2>2, <2>3, <2>4 DEF Control
<1>10. PieceAccounting'
  <2>1. \A q, s \in Peer : piece'[q] = piece'[s] /\ piece'[q] # NoPiece => q = s
    BY <1>3 DEF IInv, PieceAccounting
  <2>2. /\ pieces_' = Held' \union Queued'
        /\ PieceIndex = Unpopped' \union pieces_' \union Done'
        /\ Held' \intersect Queued' = {}
        /\ Unpopped' \intersect pieces_' = {}
        /\ Unpopped' \intersect Done' = {}
        /\ pieces_' \intersect Done' = {}
    BY <1>2, <1>4, <1>5, <1>6, <1>7 DEF IInv, PieceAccounting
  <2>3. downloaded_pieces_count_' = Cardinality(Done')
    BY <1>2, <1>6 DEF IInv, PieceAccounting
  <2> QED
    BY <2>1, <2>2, <2>3, <1>7 DEF PieceAccounting
<1>11. BytesExact'
  <2>1. ASSUME NEW q \in Peer, NEW b \in inflight'[q]
        PROVE  /\ b.piece = piece'[q] /\ b.length > 0
               /\ b.offset + b.length <= requested_'[piece'[q]]
               /\ Bytes(b) \intersect data_'[piece'[q]] = {}
               /\ \A c \in inflight'[q] : c # b => Bytes(b) \intersect Bytes(c) = {}
    <3>1. q # p
      BY <1>3
    <3>2. b \in inflight[q] /\ inflight'[q] = inflight[q] /\ piece'[q] = piece[q]
      BY <3>1, <1>3
    <3>3. piece[q] \in PieceIndex /\ piece[q] # i
      BY <3>1, <3>2, <1>1, HolderFacts DEF IInv, Control
    <3> QED
      BY <3>2, <3>3, <1>3 DEF IInv, BytesExact
  <2>2. ASSUME NEW j \in PieceIndex
        PROVE  /\ requested_'[j] <= SizeOf(j)
               /\ data_'[j] \subseteq 0 .. requested_'[j] - 1
               /\ downloaded_'[j] = Cardinality(data_'[j])
               /\ j \notin Held' => requested_'[j] = 0
    <3>1. CASE j # i
      BY <3>1, <1>3, <1>5 DEF IInv, BytesExact
    <3>2. CASE j = i
      <4>1. 0 <= SizeOf(j) /\ Cardinality({}) = 0
        BY <3>2, <1>1, FS_EmptySet
      <4> QED
        BY <3>2, <4>1, <1>3
    <3> QED
      BY <3>1, <3>2
  <2> QED
    BY <2>1, <2>2 DEF BytesExact, Bytes
<1>12. StoredWhole'
  BY <1>2 DEF IInv, StoredWhole
<1>13. BacklogBound'
  <2> SUFFICES ASSUME NEW q \in Peer
               PROVE  Cardinality(inflight'[q]) <= backlog'[q] /\ backlog'[q] <= MaxBacklog
    BY DEF BacklogBound
  <2>1. CASE q # p
    BY <2>1, <1>3 DEF IInv, BacklogBound
  <2>2. CASE q = p
    <3>1. Cardinality({}) = 0
      BY FS_EmptySet
    <3>2. 0 <= 0 /\ 0 <= MaxBacklog
      BY ConstantsType
    <3>3. Cardinality(inflight'[q]) = 0 /\ backlog'[q] = 0
      BY <2>2, <3>1, <1>3, Zenon
    <3> QED
      BY <3>2, <3>3
  <2> QED
    BY <2>1, <2>2
<1>14. BookkeepingAssertsHold' /\ phase' # "exited"
  BY <1>2 DEF IInv, BookkeepingAssertsHold
<1> QED
  BY <1>8, <1>9, <1>10, <1>11, <1>12, <1>13, <1>14 DEF IInv


-----------------------------------------------------------------------------
(* Every step, and what follows.                                           *)

LEMMA NextIInv == IInv /\ [Next]_vars => IInv'
<1> SUFFICES ASSUME IInv, [Next]_vars PROVE IInv'
  OBVIOUS
<1>1. ASSUME NEW peers \in TrackerReplies, TrackerRound(peers) PROVE IInv'
  BY <1>1, TrackerRoundStep
<1>2. CASE RoundEnd
  BY <1>2, RoundEndStep
<1>3. ASSUME NEW p \in Peer, Started(p) \/ ReadBitfield(p) \/ SentUnchoke(p) PROVE IInv'
  BY <1>3, StartStep
<1>4. ASSUME NEW p \in Peer, SentInterested(p) \/ SentHave(p) PROVE IInv'
  BY <1>4, TakeNextStep
<1>5. ASSUME NEW p \in Peer, SentRequest(p) PROVE IInv'
  BY <1>5, SentRequestStep
<1>6. ASSUME NEW p \in Peer, ReadPiece(p) PROVE IInv'
  BY <1>6, ReadPieceStep
<1>7. ASSUME NEW p \in Peer,
             ReadKeepAlive(p) \/ ReadChoke(p) \/ ReadUnchoke(p) \/ ReadHave(p)
      PROVE  IInv'
  BY <1>7, MessageStep
<1>8. ASSUME NEW p \in Peer, ReadUnhandled(p) PROVE IInv'
  BY <1>8, AbortStep DEF ReadUnhandled
<1>9. ASSUME NEW p \in Peer, PeerFails(p) PROVE IInv'
  BY <1>9, IdlePeerFailsStep, HolderFailsStep
<1>10. CASE UNCHANGED vars
  <2> USE <1>10 DEF vars, coroVars, mainVars
  <2>1. PieceAccounting' /\ BytesExact' /\ StoredWhole' /\ BacklogBound' /\ Done' = Done
    BY PiecesUntouched
  <2>2. TypeOK'
    BY DEF IInv, TypeOK, queueVars, stateVars, storeVars
  <2>3. Control'
    BY DEF IInv, Control, stateVars
  <2>4. BookkeepingAssertsHold' /\ (phase' = "exited" => Done' = PieceIndex)
    BY <2>1 DEF IInv, BookkeepingAssertsHold
  <2> QED
    BY <2>1, <2>2, <2>3, <2>4 DEF IInv, PieceIndex
<1> QED
  BY <1>1, <1>2, <1>3, <1>4, <1>5, <1>6, <1>7, <1>8, <1>9, <1>10 DEF Next, Terminated

LEMMA Invariance == Spec => []IInv
BY InitIInv, NextIInv, PTL DEF Spec

\* The engine's state is well-formed for every torrent and set of peers.
THEOREM TypeCorrect == Spec => []TypeOK
<1>1. IInv => TypeOK
  BY DEF IInv
<1> QED
  BY <1>1, Invariance, PTL

\* A coroutine holds a piece exactly inside the inner loop, and leaves the
\* loop with no answer behind.
THEOREM ControlCorrect == Spec => []Control
<1>1. IInv => Control
  BY DEF IInv
<1> QED
  BY <1>1, Invariance, PTL

\* However many peers fail and retry, no piece is lost or worked on by two
\* connections, and the count main loops on is the number of pieces stored.
THEOREM EveryPieceAccounted == Spec => []PieceAccounting
<1>1. IInv => PieceAccounting
  BY DEF IInv
<1> QED
  BY <1>1, Invariance, PTL

\* The counters of a piece agree with the bytes in its buffer, and no byte is
\* asked for twice within an attempt.
THEOREM CountersExact == Spec => []BytesExact
<1>1. IInv => BytesExact
  BY DEF IInv
<1> QED
  BY <1>1, Invariance, PTL

\* What reaches the files is a whole piece, once.
THEOREM OnlyWholePiecesStored == Spec => []StoredWhole
<1>1. IInv => StoredWhole
  BY DEF IInv
<1> QED
  BY <1>1, Invariance, PTL

\* The assertions of the piece handler and of main's exit hold as long as
\* peers answer what was asked.
THEOREM NoBookkeepingAbort == Spec => []BookkeepingAssertsHold
<1>1. IInv => BookkeepingAssertsHold
  BY DEF IInv
<1> QED
  BY <1>1, Invariance, PTL

\* A connection never has more than k_max_backlog requests outstanding.
THEOREM BacklogBounded == Spec => []BacklogBound
<1>1. IInv => BacklogBound
  BY DEF IInv
<1> QED
  BY <1>1, Invariance, PTL

\* main returns only when every piece is stored, whole.
THEOREM ExitsComplete == Spec => []ExitComplete
<1>1. IInv => ExitComplete
  BY DEF IInv, ExitComplete
<1> QED
  BY <1>1, Invariance, PTL

-----------------------------------------------------------------------------
(* What a step may do to the pieces: a connection keeps its progress, and  *)
(* every step is one of the abstract engine, PieceBoard, or invisible      *)
(* there.                                                                  *)

\* The pieces handed out are neither held nor stored.
LEMMA TakesFreePiece ==
  ASSUME IInv, NEW p \in Peer, TakeFresh(p) \/ TakeRetry(p)
  PROVE  \E i \in PieceIndex : i \notin Held /\ i \notin Done /\ Hold(p, i)
<1>1. /\ Unpopped \subseteq PieceIndex
      /\ (Queued \union Unpopped) \intersect Held = {}
      /\ (Queued \union Unpopped) \intersect Done = {}
  <2>1. /\ pieces_ = Held \union Queued
        /\ PieceIndex = Unpopped \union pieces_ \union Done
        /\ Held \intersect Queued = {}
        /\ Unpopped \intersect pieces_ = {}
        /\ Unpopped \intersect Done = {}
        /\ pieces_ \intersect Done = {}
    BY DEF IInv, PieceAccounting
  <2> QED
    BY <2>1
<1>2. CASE TakeFresh(p)
  <2>1. PICK i \in next_piece_index_ .. PiecesCount - 1 : Hold(p, i)
    BY <1>2 DEF TakeFresh
  <2>2. i \in Unpopped
    BY DEF Unpopped
  <2> QED
    BY <1>1, <2>1, <2>2
<1>3. CASE TakeRetry(p)
  <2>1. NoFresh(p)
    BY <1>3 DEF TakeRetry
  <2>2. PICK k \in DOMAIN RetryQueue : Hold(p, RetryQueue[k])
    BY <1>3 DEF TakeRetry
  <2>3. /\ RetryQueue \in Seq(PieceIndex)
        /\ {j \in PieceIndex : \E a \in DOMAIN RetryQueue : RetryQueue[a] = j} = Queued \union Unpopped
    BY <2>1, NoFreshFacts
  <2>4. RetryQueue[k] \in PieceIndex
    BY <2>2, <2>3, LenProperties, ElementOfSeq
  <2>5. RetryQueue[k] \in Queued \union Unpopped
    BY <2>2, <2>3, <2>4
  <2> QED
    BY <1>1, <2>2, <2>4, <2>5
<1> QED
  BY <1>2, <1>3

\* The steps that neither claim, release nor store a piece ...
Quiet ==
  /\ UNCHANGED <<piece, stored>>
  /\ \A i \in PieceIndex : data_[i] \subseteq data_'[i] /\ requested_[i] <= requested_'[i]

\* ... and those that do.
Claims(p) ==
  /\ TakeFresh(p) \/ TakeRetry(p)
  /\ pc[p] \notin Downloading
  /\ UNCHANGED <<stateVars, stored>>

Completes(p) ==
  /\ pc[p] = "read"
  /\ \E r \in inflight[p] : CompletesPiece(piece[p], r) /\ ReceiveLastPart(p, r)

Releases(p) == pc[p] \in Downloading /\ PeerFails(p)

Visible(p) == Claims(p) \/ Completes(p) \/ Releases(p)

LEMMA StepKinds ==
  ASSUME IInv, [Next]_vars
  PROVE  Quiet \/ \E p \in Peer : Visible(p)
<1>1. ASSUME UNCHANGED <<piece, stored>>, UNCHANGED stateVars PROVE Quiet
  <2>1. requested_ \in [PieceIndex -> Nat]
    BY DEF IInv, TypeOK
  <2>2. \A i \in PieceIndex : requested_[i] <= requested_[i]
    BY <2>1
  <2> QED
    BY <1>1, <2>2 DEF stateVars, Quiet
<1>2. ASSUME NEW peers \in TrackerReplies, TrackerRound(peers) PROVE Quiet
  BY <1>1, <1>2 DEF TrackerRound, Abort, storeVars, coroVars
<1>3. CASE RoundEnd
  BY <1>1, <1>3 DEF RoundEnd, storeVars
<1>4. ASSUME NEW p \in Peer, Started(p) \/ ReadBitfield(p) \/ SentUnchoke(p) PROVE Quiet
  BY <1>1, <1>4 DEF Started, ReadBitfield, SentUnchoke, Continue, storeVars
<1>5. ASSUME NEW p \in Peer, SentInterested(p) \/ SentHave(p) PROVE Quiet \/ Visible(p)
  <2>1. /\ TakeFresh(p) \/ TakeRetry(p) \/ TakeNone(p)
        /\ UNCHANGED <<stateVars, storeVars>> /\ pc[p] \notin Downloading
    BY <1>5 DEF SentInterested, SentHave, TakeNext, Awaits, Downloading
  <2>2. CASE TakeNone(p)
    BY <1>1, <2>1, <2>2 DEF TakeNone, storeVars
  <2>3. CASE TakeFresh(p) \/ TakeRetry(p)
    BY <2>1, <2>3 DEF storeVars, Visible, Claims
  <2> QED
    BY <2>1, <2>2, <2>3
<1>6. ASSUME NEW p \in Peer, SentRequest(p) PROVE Quiet
  <2> DEFINE i == piece[p]
             r == NextBlock(i)
  <2>1. pc[p] = "request"
    BY <1>6 DEF SentRequest, Awaits
  <2>2. i \in PieceIndex
    BY <2>1, HolderFacts DEF Downloading
  <2>3. requested_ \in [PieceIndex -> Nat]
    BY DEF IInv, TypeOK
  <2>4. requested_[i] < SizeOf(i)
    BY <2>1 DEF IInv, Control
  <2>5. r.length \in Nat
    BY <2>2, <2>3, <2>4, NextBlockProps
  <2>6. /\ requested_' = [requested_ EXCEPT ![i] = @ + r.length]
        /\ UNCHANGED <<piece, stored, data_>>
    BY <1>6 DEF SentRequest, storeVars
  <2> HIDE DEF i, r
  <2>7. \A j \in PieceIndex : requested_[j] <= requested_'[j]
    BY <2>2, <2>3, <2>5, <2>6
  <2> QED
    BY <2>6, <2>7 DEF Quiet
<1>7. ASSUME NEW p \in Peer, ReadPiece(p) PROVE Quiet \/ Visible(p)
  <2>1. pc[p] = "read"
    BY <1>7 DEF ReadPiece, Awaits
  <2>2. PICK r \in inflight[p] :
          IF ~PartAccepted(piece[p], r) THEN Abort("piece part")
          ELSE IF CompletesPiece(piece[p], r) THEN ReceiveLastPart(p, r) ELSE ReceivePart(p, r)
    BY <1>7 DEF ReadPiece
  <2>3. PartAccepted(piece[p], r)
    BY <2>1, PartFacts
  <2>4. CASE CompletesPiece(piece[p], r)
    BY <2>1, <2>2, <2>3, <2>4 DEF Visible, Completes
  <2>5. CASE ~CompletesPiece(piece[p], r)
    <3>1. /\ data_' = [data_ EXCEPT ![piece[p]] = @ \union Bytes(r)]
          /\ UNCHANGED <<piece, stored, requested_>>
      BY <2>2, <2>3, <2>5 DEF ReceivePart, on_piece_part_receive, storeVars
    <3>2. data_ \in [PieceIndex -> SUBSET Nat] /\ requested_ \in [PieceIndex -> Nat]
      BY DEF IInv, TypeOK
    <3>3. \A i \in PieceIndex : data_[i] \subseteq data_'[i]
      BY <3>1, <3>2
    <3>4. \A i \in PieceIndex : requested_[i] <= requested_[i]
      BY <3>2
    <3> QED
      BY <3>1, <3>3, <3>4 DEF Quiet
  <2> QED
    BY <2>4, <2>5
<1>8. ASSUME NEW p \in Peer,
             ReadKeepAlive(p) \/ ReadChoke(p) \/ ReadUnchoke(p) \/ ReadHave(p)
      PROVE  Quiet
  BY <1>1, <1>8 DEF ReadKeepAlive, ReadChoke, ReadUnchoke, ReadHave, Loop, storeVars
<1>9. ASSUME NEW p \in Peer, ReadUnhandled(p) PROVE Quiet
  BY <1>1, <1>9 DEF ReadUnhandled, Abort, storeVars, coroVars
<1>10. ASSUME NEW p \in Peer, PeerFails(p) PROVE Quiet \/ Visible(p)
  <2>1. CASE pc[p] \in Downloading
    BY <1>10, <2>1 DEF Visible, Releases
  <2>2. CASE pc[p] \notin Downloading
    <3>1. piece[p] = NoPiece
      BY <2>2, BetweenPieces
    <3>2. /\ piece' = [piece EXCEPT ![p] = NoPiece]
          /\ UNCHANGED <<stateVars, stored>>
      BY <1>10, <2>2 DEF PeerFails, storeVars
    <3>3. UNCHANGED piece
      BY <3>1, <3>2 DEF IInv, TypeOK
    <3> QED
      BY <1>1, <3>2, <3>3
  <2> QED
    BY <2>1, <2>2
<1>11. CASE UNCHANGED vars
  BY <1>1, <1>11 DEF vars, coroVars, storeVars
<1> QED
  BY <1>2, <1>3, <1>4, <1>5, <1>6, <1>7, <1>8, <1>9, <1>10, <1>11 DEF Next, Terminated

\* What Claims, Completes and Releases do to the pieces.
LEMMA ClaimsEffect ==
  ASSUME IInv, NEW p \in Peer, Claims(p)
  PROVE  /\ piece[p] = NoPiece
         /\ \E i \in PieceIndex : i \notin Held /\ i \notin Done /\ piece' = [piece EXCEPT ![p] = i]
         /\ UNCHANGED <<stored, data_, requested_>>
<1>1. piece[p] = NoPiece
  BY BetweenPieces DEF Claims
<1>2. \E i \in PieceIndex : i \notin Held /\ i \notin Done /\ Hold(p, i)
  BY TakesFreePiece DEF Claims
<1> QED
  BY <1>1, <1>2 DEF Claims, Hold, stateVars

LEMMA CompletesEffect ==
  ASSUME IInv, NEW p \in Peer, Completes(p)
  PROVE  /\ piece[p] \in PieceIndex /\ piece[p] # NoPiece
         /\ \A q \in Peer : q # p => piece[q] # piece[p]
         /\ piece' = [piece EXCEPT ![p] = NoPiece]
         /\ stored[piece[p]] = <<>>
         /\ stored' = [stored EXCEPT ![piece[p]] = <<0 .. SizeOf(piece[p]) - 1>>]
         /\ data_' = [data_ EXCEPT ![piece[p]] = {}]
         /\ requested_' = [requested_ EXCEPT ![piece[p]] = 0]
<1>1. PICK r \in inflight[p] : CompletesPiece(piece[p], r) /\ ReceiveLastPart(p, r)
  BY DEF Completes
<1>2. data_[piece[p]] \union Bytes(r) = 0 .. SizeOf(piece[p]) - 1
  BY <1>1, LastPartFacts DEF Completes
<1>3. /\ piece[p] \in PieceIndex /\ piece[p] # NoPiece
      /\ \A q \in Peer : q # p => piece[q] # piece[p]
  BY HolderFacts DEF Completes, Downloading
<1>4. stored[piece[p]] = <<>>
  <2>1. piece[p] \in Held
    BY <1>3 DEF Held
  <2> QED
    BY <1>3, <2>1 DEF IInv, PieceAccounting, Done
<1>5. /\ piece' = [piece EXCEPT ![p] = NoPiece]
      /\ stored' = [stored EXCEPT ![piece[p]] = Append(@, 0 .. SizeOf(piece[p]) - 1)]
      /\ data_' = [data_ EXCEPT ![piece[p]] = {}]
      /\ requested_' = [requested_ EXCEPT ![piece[p]] = 0]
  BY <1>1, <1>2 DEF ReceiveLastPart, on_piece_downloaded, ResetState
<1>6. Append(<<>>, 0 .. SizeOf(piece[p]) - 1) = <<0 .. SizeOf(piece[p]) - 1>>
  OBVIOUS
<1>7. stored' = [stored EXCEPT ![piece[p]] = <<0 .. SizeOf(piece[p]) - 1>>]
  <2>1. stored' = [stored EXCEPT ![piece[p]] = Append(stored[piece[p]], 0 .. SizeOf(piece[p]) - 1)]
    BY <1>5
  <2> QED
    BY <2>1, <1>4, <1>6
<1> QED
  BY <1>3, <1>4, <1>5, <1>7

LEMMA ReleasesEffect ==
  ASSUME IInv, NEW p \in Peer, Releases(p)
  PROVE  /\ piece[p] \in PieceIndex /\ piece[p] # NoPiece
         /\ \A q \in Peer : q # p => piece[q] # piece[p]
         /\ piece' = [piece EXCEPT ![p] = NoPiece]
         /\ UNCHANGED stored
         /\ data_' = [data_ EXCEPT ![piece[p]] = {}]
         /\ requested_' = [requested_ EXCEPT ![piece[p]] = 0]
<1>1. /\ piece[p] \in PieceIndex /\ piece[p] # NoPiece
      /\ \A q \in Peer : q # p => piece[q] # piece[p]
  BY HolderFacts DEF Releases
<1> QED
  BY <1>1 DEF Releases, PeerFails, push_piece_to_retry, ResetState, storeVars


-----------------------------------------------------------------------------
(* Progress is kept.                                                       *)

KeepsProgress ==
  \A p \in Peer : piece[p] # NoPiece /\ piece'[p] = piece[p] =>
    /\ data_[piece[p]] \subseteq data_'[piece[p]]
    /\ requested_[piece[p]] <= requested_'[piece[p]]

LEMMA StepKeepsProgress == IInv /\ [Next]_vars => KeepsProgress
<1> SUFFICES ASSUME IInv, [Next]_vars,
                    NEW q \in Peer, piece[q] # NoPiece, piece'[q] = piece[q]
             PROVE  /\ data_[piece[q]] \subseteq data_'[piece[q]]
                    /\ requested_[piece[q]] <= requested_'[piece[q]]
  BY DEF KeepsProgress
<1>1. /\ piece \in [Peer -> PieceIndex \union {NoPiece}] /\ piece[q] \in PieceIndex
      /\ data_ \in [PieceIndex -> SUBSET Nat] /\ requested_ \in [PieceIndex -> Nat]
  BY DEF IInv, TypeOK
<1>2. requested_[piece[q]] <= requested_[piece[q]]
  BY <1>1
<1>3. CASE Quiet
  BY <1>1, <1>3 DEF Quiet
<1>4. ASSUME NEW p \in Peer, Claims(p)
      PROVE  /\ data_[piece[q]] \subseteq data_'[piece[q]]
             /\ requested_[piece[q]] <= requested_'[piece[q]]
  BY <1>2, <1>4, ClaimsEffect
<1>5. ASSUME NEW p \in Peer, Completes(p) \/ Releases(p)
      PROVE  /\ data_[piece[q]] \subseteq data_'[piece[q]]
             /\ requested_[piece[q]] <= requested_'[piece[q]]
  <2>1. /\ piece[p] \in PieceIndex /\ piece[p] # NoPiece
        /\ \A o \in Peer : o # p => piece[o] # piece[p]
        /\ piece' = [piece EXCEPT ![p] = NoPiece]
        /\ data_' = [data_ EXCEPT ![piece[p]] = {}]
        /\ requested_' = [requested_ EXCEPT ![piece[p]] = 0]
    BY <1>5, CompletesEffect, ReleasesEffect
  <2>2. q # p
    BY <2>1, <1>1
  <2>3. data_'[piece[q]] = data_[piece[q]] /\ requested_'[piece[q]] = requested_[piece[q]]
    BY <2>1, <2>2, <1>1
  <2> QED
    BY <2>3, <1>2
<1> QED
  BY <1>3, <1>4, <1>5, StepKinds DEF Visible

\* The failure of a connection never costs another one what it received or
\* asked for, although they share the queue and the pieces' states.
THEOREM ProgressKept == Spec => HolderKeepsProgress
<1>1. Spec => [][KeepsProgress]_vars
  <2>1. IInv /\ [Next]_vars => [KeepsProgress]_vars
    BY StepKeepsProgress
  <2> QED
    BY <2>1, Invariance, PTL DEF Spec
<1>2. [][KeepsProgress]_vars => HolderKeepsProgress
  BY DEF HolderKeepsProgress, KeepsProgress
<1> QED
  BY <1>1, <1>2

-----------------------------------------------------------------------------
(* The refinement.                                                         *)

LEMMA FilesViewValue ==
  /\ StoredWhole =>
       FilesView = [i \in PieceIndex |-> IF stored[i] = <<>> THEN "absent" ELSE "whole"]
  /\ StoredWhole' =>
       FilesView' = [i \in PieceIndex |-> IF stored'[i] = <<>> THEN "absent" ELSE "whole"]
<1>1. ASSUME NEW i \in PieceIndex, NEW s, s \in {<<>>, <<0 .. SizeOf(i) - 1>>}
      PROVE  (CASE s = <<>> -> "absent"
                [] s = <<0 .. SizeOf(i) - 1>> -> "whole"
                [] OTHER -> "damaged")
             = IF s = <<>> THEN "absent" ELSE "whole"
  <2>1. <<0 .. SizeOf(i) - 1>> # <<>>
    OBVIOUS
  <2> QED
    BY <1>1, <2>1
<1> QED
  BY <1>1 DEF FilesView, StoredWhole

LEMMA BoardInit == Init => Board!Init
<1> SUFFICES ASSUME Init PROVE Board!Init
  OBVIOUS
<1>1. StoredWhole
  BY DEF Init, StoredWhole
<1>2. FilesView = [i \in PieceIndex |-> "absent"]
  <2>1. FilesView = [i \in PieceIndex |-> IF stored[i] = <<>> THEN "absent" ELSE "whole"]
    BY <1>1, FilesViewValue
  <2>2. \A i \in PieceIndex : stored[i] = <<>>
    BY DEF Init
  <2> QED
    BY <2>1, <2>2
<1> QED
  BY <1>2 DEF Init, Board!Init

LEMMA BoardStep == IInv /\ IInv' /\ [Next]_vars => [Board!Next]_(Board!board)
<1> SUFFICES ASSUME IInv, IInv', [Next]_vars PROVE [Board!Next]_(Board!board)
  OBVIOUS
<1>1. FilesView = [i \in PieceIndex |-> IF stored[i] = <<>> THEN "absent" ELSE "whole"]
  BY FilesViewValue DEF IInv
<1>2. FilesView' = [i \in PieceIndex |-> IF stored'[i] = <<>> THEN "absent" ELSE "whole"]
  BY FilesViewValue DEF IInv
<1>3. UNCHANGED stored => FilesView' = FilesView
  BY <1>1, <1>2
<1>4. CASE Quiet
  BY <1>3, <1>4 DEF Quiet, Board!board
<1>5. ASSUME NEW p \in Peer, Claims(p) PROVE Board!Next
  <2>1. piece[p] = NoPiece /\ UNCHANGED stored
    BY <1>5, ClaimsEffect
  <2>2. PICK i \in PieceIndex : i \notin Held /\ i \notin Done /\ piece' = [piece EXCEPT ![p] = i]
    BY <1>5, ClaimsEffect
  <2>3. \A q \in Peer : piece[q] # i
    BY <2>2 DEF Held
  <2>4. FilesView[i] = "absent"
    BY <2>2, <1>1 DEF Done
  <2>5. Board!Claim(p, i)
    BY <1>3, <2>1, <2>2, <2>3, <2>4 DEF Board!Claim
  <2> QED
    BY <2>5 DEF Board!Next
<1>6. ASSUME NEW p \in Peer, Completes(p) PROVE Board!Next
  <2> DEFINE i == piece[p]
  <2>1. /\ i \in PieceIndex /\ i # NoPiece
        /\ piece' = [piece EXCEPT ![p] = NoPiece]
        /\ stored' = [stored EXCEPT ![i] = <<0 .. SizeOf(i) - 1>>]
    BY <1>6, CompletesEffect
  <2>2. <<0 .. SizeOf(i) - 1>> # <<>>
    OBVIOUS
  <2>3. stored \in [PieceIndex -> Seq(SUBSET Nat)]
    BY DEF IInv, TypeOK
  <2> HIDE DEF i
  <2>4. \A j \in PieceIndex : stored'[j] = IF j = i THEN <<0 .. SizeOf(i) - 1>> ELSE stored[j]
    BY <2>1, <2>3
  <2>5. FilesView' = [FilesView EXCEPT ![i] = "whole"]
    BY <1>1, <1>2, <2>1, <2>2, <2>4
  <2>6. Board!Store(p)
    BY <2>1, <2>5 DEF Board!Store, i
  <2> QED
    BY <2>6 DEF Board!Next
<1>7. ASSUME NEW p \in Peer, Releases(p) PROVE Board!Next
  <2>1. /\ piece[p] # NoPiece
        /\ piece' = [piece EXCEPT ![p] = NoPiece]
        /\ UNCHANGED stored
    BY <1>7, ReleasesEffect
  <2>2. Board!Release(p)
    BY <1>3, <2>1 DEF Board!Release
  <2> QED
    BY <2>2 DEF Board!Next
<1> QED
  BY <1>4, <1>5, <1>6, <1>7, StepKinds DEF Visible

\* The engine implements the abstract board: every step of it claims a piece
\* for a connection, releases or stores it, or is invisible.
THEOREM EngineImplementsBoard == Spec => ImplementsBoard
<1>1. Spec => Board!Init
  BY BoardInit DEF Spec
<1>2. Spec => [][Board!Next]_(Board!board)
  BY Invariance, BoardStep, PTL DEF Spec
<1> QED
  BY <1>1, <1>2, PTL DEF ImplementsBoard, Board!Spec

-----------------------------------------------------------------------------
(* The whole program.                                                      *)

\* FilesOnDisk again, with its theorems.
DP == INSTANCE FilesOnDiskProofs WITH
  Torrents <- {Torrent}, torrent <- Torrent, files_offset_ <- Offsets,
  pieces <- Done, state <- Main

\* Only such torrents get past iterate_files (FilesOnDiskProofs!BelowWord).
TorrentBelowWord == PiecesCount * PieceSize < Word

\* A failed assertion may have stopped the engine in the middle of a step;
\* the disk is as it should be even then.
ClientInv ==
  /\ phase # "aborted" => IInv
  /\ DP!DiskInv
  /\ StopsOnlyForCause

-----------------------------------------------------------------------------
(* The two instances of FilesOnDisk are the same.                          *)

LEMMA SameCut ==
  ASSUME NEW files, NEW start, NEW end
  PROVE  /\ Disk!StartFile(files, start) = DP!StartFile(files, start)
         /\ Disk!EndFile(files, start, end) = DP!EndFile(files, start, end)
<1>1. Disk!StartFile(files, start) = DP!StartFile(files, start)
  BY DEF Disk!StartFile, DP!StartFile, Disk!LowerBound, DP!LowerBound, Disk!Starts, DP!Starts
<1>2. Disk!EndFile(files, start, end) = DP!EndFile(files, start, end)
  BY <1>1 DEF Disk!EndFile, DP!EndFile, Disk!LowerBound, DP!LowerBound, Disk!Ends, DP!Ends
<1> QED BY <1>1, <1>2

LEMMA SameAccepted ==
  ASSUME NEW files, NEW start, NEW end
  PROVE  Disk!IterateAccepted(files, start, end) <=> DP!IterateAccepted(files, start, end)
BY SameCut DEF Disk!IterateAccepted, DP!IterateAccepted

LEMMA SamePieces ==
  ASSUME NEW files, NEW start, NEW end
  PROVE  Disk!FilePieces(files, start, end) = DP!FilePieces(files, start, end)
BY DEF Disk!FilePieces, DP!FilePieces, Disk!StartFile, DP!StartFile, Disk!EndFile, DP!EndFile,
       Disk!LowerBound, DP!LowerBound, Disk!Starts, DP!Starts, Disk!Ends, DP!Ends

LEMMA SameSizes ==
  ASSUME NEW i
  PROVE  /\ Disk!SizeOf(i) = DP!SizeOf(i)
         /\ Disk!PieceStart(Torrent.size, i) = DP!PieceStart(Torrent.size, i)
         /\ Disk!PieceEnd(Offsets, Torrent.size, i) = DP!PieceEnd(Offsets, Torrent.size, i)
BY DEF Disk!SizeOf, DP!SizeOf, Disk!PieceStart, DP!PieceStart, Disk!PieceEnd, DP!PieceEnd,
   Disk!get_piece_size, DP!get_piece_size, Disk!total_size_, DP!total_size_, Disk!U32, DP!U32,
   Disk!BytesBeforeLast, DP!BytesBeforeLast

LEMMA SameWriteAll ==
  ASSUME NEW i, NEW fps
  PROVE  Disk!WriteAll(i, fps) <=> DP!WriteAll(i, fps)
<1>1. Disk!SizeOf(i) = DP!SizeOf(i)
  BY SameSizes
<1> QED
 BY <1>1 DEF Disk!WriteAll, DP!WriteAll,
   Disk!Stop, DP!Stop, Disk!File, DP!File,
   Disk!FileSize, DP!FileSize, 
   Disk!FilePieceAccepted, DP!FilePieceAccepted, Disk!CanOpen, DP!CanOpen, Disk!Written, DP!Written,
   Disk!try_create, DP!try_create, Disk!Full, DP!Full, Disk!StaysOpen, DP!StaysOpen

LEMMA SameWrite ==
  ASSUME NEW i
  PROVE  Disk!write_piece(i) <=> DP!write_piece(i)
BY SameAccepted, SamePieces, SameSizes, SameWriteAll
   DEF Disk!write_piece, DP!write_piece, Disk!RangeConsumed, DP!RangeConsumed,
       Disk!Stop, DP!Stop, Disk!SameTorrent, DP!SameTorrent

LEMMA SameFirst == Disk!Init <=> DP!Init
BY DEF Disk!Init, DP!Init, Disk!File, DP!File, Disk!FilesListMake, DP!FilesListMake,
       Disk!EndOfFile, DP!EndOfFile, Disk!ValidLayout, DP!ValidLayout, Disk!total_size_, DP!total_size_,
       Disk!Full, DP!Full, Disk!FileSize, DP!FileSize, Disk!Cardinality, DP!Cardinality

LEMMA SameTotals ==
   /\ Disk!total_written = DP!total_written
   /\ Disk!HasInnerEmptyFile <=> DP!HasInnerEmptyFile
BY DEF Disk!total_written, DP!total_written, Disk!get_total_size_bytes, DP!get_total_size_bytes,
       Disk!EndOfFile, DP!EndOfFile, Disk!HasInnerEmptyFile, DP!HasInnerEmptyFile,
       Disk!File, DP!File, Disk!FileSize, DP!FileSize

-----------------------------------------------------------------------------
(* What the theorems on FilesOnDisk say of the client's torrent.           *)

LEMMA ThisTorrent ==
  /\ Word \in Nat \ {0}
  /\ \A t \in {Torrent} : t.lengths \in Seq(Nat) /\ t.lengths # <<>>
  /\ Blank \notin Int /\ Other \notin Int /\ Blank # Other
  /\ Torrent.lengths = FileLengths /\ Torrent.size = PieceSize /\ Torrent.count = PiecesCount
BY WordAssumption, ClientAssumption DEF Torrent

LEMMA WholeTorrent ==
  /\ DP!PieceIndex = PieceIndex
  /\ DP!File = DOMAIN FileLengths
  /\ \A f : DP!FileSize(f) = FileLengths[f]
  /\ DP!total_size_ = TotalSize
<1>1. /\ FileLengths \in Seq(Nat) /\ FileLengths # <<>>
      /\ get_total_size_bytes(FileLengths) = TotalSize
  BY ClientAssumption
<1>2. /\ DP!FilesListMake(FileLengths) = Offsets
      /\ DP!get_total_size_bytes(FileLengths) = get_total_size_bytes(FileLengths)
  BY DEF DP!FilesListMake, DP!EndOfFile, Offsets, FilesListMake, EndOfFile,
         DP!get_total_size_bytes, get_total_size_bytes
<1>3. /\ Len(Offsets) = Len(FileLengths)
      /\ Offsets[Len(FileLengths)].end = TotalSize
  BY <1>1, <1>2, ThisTorrent, DP!MadeContiguous
<1>4. DP!total_size_ = TotalSize
  BY <1>3 DEF DP!total_size_
<1> QED BY <1>4, ThisTorrent DEF DP!PieceIndex, PieceIndex, DP!File, DP!FileSize


LEMMA BelowWordHere == TorrentBelowWord => DP!BelowWord
BY DEF TorrentBelowWord, DP!BelowWord, Torrent

-----------------------------------------------------------------------------
(* The steps.                                                              *)

\* What a step that leaves the files alone does to them.
LEMMA FilesUntouched ==
  ASSUME DP!DiskInv, UNCHANGED diskVars, stored' = stored, phase' # "aborted" => phase # "aborted"
  PROVE  DP!DiskInv'
<1>1. DP!SameTorrent
  BY DEF DP!SameTorrent, Torrent, Offsets, FilesListMake, EndOfFile
<1>2. UNCHANGED <<taken, file_, written_, disk, created, Done>>
  BY DEF diskVars, Done
<1>3. Main' # "aborted" => Main # "aborted"
  BY DEF Main
<1> QED BY <1>1, <1>2, <1>3, ThisTorrent, DP!SameDiskKeeps

\* What write_piece does, from FilesOnDiskProofs.
LEMMA WriteEffect ==
  ASSUME TorrentBelowWord, DP!DiskInv, NEW i \in PieceIndex, Disk!write_piece(i)
  PROVE  /\ DP!DiskInv'
         /\ DP!BytesOnceAndInPlace
         /\ taken' = taken
         /\ \/ Main' = Main
            \/ /\ Main' = "aborted"
               /\ \/ failed_assert' = "on_write_file_piece" /\ taken # {}
                  \/ failed_assert' \in {"iterate_files", "on_write_file_piece"} /\ Disk!HasInnerEmptyFile
<1>1. DP!write_piece(i) /\ i \in DP!PieceIndex /\ DP!BelowWord
  BY SameWrite, WholeTorrent, BelowWordHere
<1>2. /\ DP!DiskInv'
      /\ \A f \in DP!File : \A o \in DOMAIN disk[f] :
              disk'[f][o] # disk[f][o] => disk[f][o] = Blank /\ disk'[f][o] = DP!BytePlace(f, o)
      /\ \A f \in taken : disk'[f] = disk[f]
      /\ \/ Main' = Main /\ failed_assert' = failed_assert /\ Done' = Done \union {i}
         \/ /\ Main' = "aborted"
            /\ \/ failed_assert' = "on_write_file_piece" /\ taken # {}
               \/ failed_assert' \in {"iterate_files", "on_write_file_piece"} /\ DP!HasInnerEmptyFile
  BY <1>1, ThisTorrent, DP!WritePieceKeeps
<1>3. taken' = taken
  BY <1>1 DEF DP!write_piece
<1> QED BY <1>2, <1>3, SameTotals DEF DP!BytesOnceAndInPlace

\* Only the last part of a piece stores one, and the only assertion that
\* fails on a message is the one on those without a handler.
LEMMA ResumesEffect ==
  ASSUME IInv, NEW p \in Peer, Resumes(p)
  PROVE  /\ phase = "peers" /\ Next
         /\ \/ phase' = phase /\ failed_assert' = failed_assert
            \/ phase' = "aborted" /\ failed_assert' = "unhandled message" /\ SendsUnhandled
         /\ stored' = stored \/ (phase' = phase /\ Completes(p))
<1>1. phase = "peers"
  BY DEF Resumes, Awaits, Started, ReadBitfield, SentUnchoke, SentInterested, SentRequest, SentHave,
         ReadPiece, ReadKeepAlive, ReadChoke, ReadUnchoke, ReadHave, ReadUnhandled, PeerFails, Loop
<1>2. Next
  BY DEF Next, Resumes
<1>3. CASE Started(p) \/ ReadBitfield(p) \/ SentUnchoke(p)
  BY <1>1, <1>2, <1>3 DEF Started, ReadBitfield, SentUnchoke, Continue, mainVars, storeVars
<1>4. CASE SentInterested(p) \/ SentHave(p)
  BY <1>1, <1>2, <1>4 DEF SentInterested, SentHave, TakeNext, mainVars, storeVars
<1>5. CASE SentRequest(p)
  BY <1>1, <1>2, <1>5 DEF SentRequest, mainVars, storeVars
<1>6. CASE ReadKeepAlive(p) \/ ReadChoke(p) \/ ReadUnchoke(p) \/ ReadHave(p)
  BY <1>1, <1>2, <1>6 DEF ReadKeepAlive, ReadChoke, ReadUnchoke, ReadHave, Loop, mainVars, storeVars
<1>7. CASE ReadUnhandled(p)
  BY <1>1, <1>2, <1>7 DEF ReadUnhandled, Abort, storeVars
<1>8. CASE PeerFails(p)
  BY <1>1, <1>2, <1>8 DEF PeerFails, mainVars, storeVars
<1>9. CASE ReadPiece(p)
  <2>1. pc[p] = "read"
    BY <1>9 DEF ReadPiece, Awaits
  <2>2. PICK r \in inflight[p] :
          IF ~PartAccepted(piece[p], r) THEN Abort("piece part")
          ELSE /\ IF CompletesPiece(piece[p], r) THEN ReceiveLastPart(p, r) ELSE ReceivePart(p, r)
               /\ UNCHANGED mainVars
    BY <1>9 DEF ReadPiece
  <2>3. PartAccepted(piece[p], r)
    BY <2>1, PartFacts
  <2>4. phase' = phase /\ failed_assert' = failed_assert
    BY <2>2, <2>3 DEF mainVars
  <2>5. stored' = stored \/ Completes(p)
    BY <2>1, <2>2, <2>3 DEF Completes, ReceivePart, storeVars
  <2> QED BY <1>1, <1>2, <2>4, <2>5
<1> QED BY <1>3, <1>4, <1>5, <1>6, <1>7, <1>8, <1>9 DEF Resumes

\* A step of a coroutine, with what it writes.
LEMMA CoroutineStep ==
  ASSUME TorrentBelowWord, ClientInv, NEW p \in Peer, Coroutine(p)
  PROVE  ClientInv' /\ phase = "peers" /\ phase' # "exited" /\ (DP!BytesOnceAndInPlace \/ disk' = disk)
<1>1. phase = "peers"
  BY DEF Coroutine, Resumes, Awaits, Started, ReadBitfield, SentUnchoke, SentInterested, SentRequest,
         SentHave, ReadPiece, ReadKeepAlive, ReadChoke, ReadUnchoke, ReadHave, ReadUnhandled,
         PeerFails, Loop, WriteAborts
<1>2. IInv /\ DP!DiskInv
  BY <1>1 DEF ClientInv
<1>3. CASE Resumes(p) /\ on_new_piece(p)
  <2>1. /\ Next
        /\ \/ phase' = phase /\ failed_assert' = failed_assert
           \/ phase' = "aborted" /\ failed_assert' = "unhandled message" /\ SendsUnhandled
        /\ stored' = stored \/ (phase' = phase /\ Completes(p))
    BY <1>2, <1>3, ResumesEffect
  <2>2. IInv'
    BY <1>2, <2>1, NextIInv
  <2>3. StopsOnlyForCause'
    BY <1>1, <2>1 DEF StopsOnlyForCause
  <2>4. DP!DiskInv' /\ (DP!BytesOnceAndInPlace \/ disk' = disk)
    <3>1. CASE stored' = stored
      <4>1. UNCHANGED diskVars
        BY <1>3, <3>1 DEF on_new_piece
      <4>2. DP!DiskInv'
        BY <1>1, <1>2, <3>1, <4>1, FilesUntouched
      <4> QED BY <4>1, <4>2 DEF diskVars
    <3>2. CASE stored' # stored
      <4>1. Completes(p) /\ Disk!write_piece(piece[p])
        BY <1>3, <2>1, <3>2 DEF on_new_piece
      <4>2. piece[p] \in PieceIndex
        BY <1>2, <4>1, CompletesEffect
      <4> QED BY <1>2, <4>1, <4>2, WriteEffect
    <3> QED BY <3>1, <3>2
  <2> QED BY <1>1, <2>1, <2>2, <2>3, <2>4 DEF ClientInv
<1>4. CASE WriteAborts(p)
  <2>1. pc[p] = "read" /\ phase' = "aborted" /\ Disk!write_piece(piece[p])
    BY <1>4 DEF WriteAborts, Awaits
  <2>2. piece[p] \in PieceIndex
    BY <1>2, <2>1, HolderFacts DEF Downloading
  <2>3. /\ DP!DiskInv' /\ DP!BytesOnceAndInPlace
        /\ taken' = taken
        /\ \/ Main' = Main
           \/ /\ Main' = "aborted"
              /\ \/ failed_assert' = "on_write_file_piece" /\ taken # {}
                 \/ failed_assert' \in {"iterate_files", "on_write_file_piece"} /\ Disk!HasInnerEmptyFile
    BY <1>2, <2>1, <2>2, WriteEffect
  <2>4. Main = "writing" /\ Main' = "aborted"
    BY <1>1, <2>1 DEF Main
  <2>5. Disk!HasInnerEmptyFile' = Disk!HasInnerEmptyFile
    BY DEF Disk!HasInnerEmptyFile, Disk!File, Disk!FileSize, Torrent
  <2>6. StopsOnlyForCause'
    BY <2>3, <2>4, <2>5 DEF StopsOnlyForCause
  <2> QED BY <1>1, <2>1, <2>3, <2>6 DEF ClientInv
<1> QED BY <1>3, <1>4 DEF Coroutine

LEMMA TrackerStep ==
  ASSUME ClientInv, NEW peers \in TrackerReplies, TrackerRound(peers), UNCHANGED diskVars
  PROVE  ClientInv' /\ phase = "tracker" /\ phase' # "exited"
<1>1. phase = "tracker" /\ IInv /\ Next
  BY DEF TrackerRound, ClientInv, Next
<1>2. IInv'
  BY <1>1, NextIInv
<1>3. /\ stored' = stored /\ piece' = piece
      /\ \/ phase' = "peers"
         \/ phase' = "aborted" /\ failed_assert' = "no peers"
  BY DEF TrackerRound, Abort, storeVars, coroVars
<1>4. \A p \in Peer : piece[p] = NoPiece
  BY <1>1 DEF IInv, Control
<1>5. StopsOnlyForCause'
  BY <1>3, <1>4 DEF StopsOnlyForCause
<1>6. DP!DiskInv'
  BY <1>1, <1>3, FilesUntouched DEF ClientInv
<1> QED BY <1>1, <1>2, <1>3, <1>5, <1>6 DEF ClientInv

\* All pieces are stored: so main counts them, and so are their bytes.
LEMMA AllBytesWritten ==
  ASSUME IInv, DP!DiskInv, phase = "peers", downloaded_pieces_count_ >= PiecesCount
  PROVE  Disk!total_written = TotalSize
<1>1. Done = DP!PieceIndex
  BY CountReached, WholeTorrent
<1>2. Main # "aborted"
  BY DEF Main
<1>3. DP!total_written = DP!total_size_
  BY <1>1, <1>2, ThisTorrent, DP!TotalsAgree
<1> QED BY <1>3, WholeTorrent, SameTotals

LEMMA RoundEndsStep ==
  ASSUME ClientInv, MainRoundEnd
  PROVE  /\ ClientInv' /\ phase = "peers" /\ phase' # "aborted" /\ UNCHANGED diskVars
         /\ phase' = "exited" => Done = PieceIndex
<1>1. phase = "peers" /\ UNCHANGED diskVars
  BY DEF MainRoundEnd, RoundEnd
<1>2. IInv /\ DP!DiskInv
  BY <1>1 DEF ClientInv
<1>3. downloaded_pieces_count_ \in Nat /\ PiecesCount \in Nat
  BY <1>2, ConstantsType DEF IInv, TypeOK
<1>4. RoundEnd
  BY <1>1, <1>2, <1>3, AllBytesWritten DEF MainRoundEnd
<1>5. /\ stored' = stored
      /\ phase' \in {"tracker", "exited", "aborted"}
      /\ phase' = "aborted" => failed_assert' = "exit"
  BY <1>4 DEF RoundEnd, storeVars
<1>6. Next
  BY <1>4 DEF Next
<1>7. IInv'
  BY <1>2, <1>6, NextIInv
<1>8. phase' # "aborted"
  BY <1>5, <1>7 DEF IInv, BookkeepingAssertsHold
<1>9. StopsOnlyForCause'
  BY <1>8 DEF StopsOnlyForCause
<1>10. DP!DiskInv'
  BY <1>1, <1>2, <1>5, FilesUntouched
<1>11. phase' = "exited" => Done = PieceIndex
  <2>1. Done' = Done
    BY <1>5 DEF Done
  <2> QED BY <2>1, <1>7 DEF IInv
<1> QED BY <1>1, <1>7, <1>8, <1>9, <1>10, <1>11 DEF ClientInv

LEMMA RestartStep ==
  ASSUME ClientInv, Restart
  PROVE  ClientInv' /\ phase' = "tracker" /\ disk' = disk
<1>1. /\ taken' = taken \union created /\ created' = {} /\ disk' = disk
      /\ file_' = [f \in DOMAIN FileLengths |-> FALSE]
      /\ written_' = [f \in DOMAIN FileLengths |-> 0]
      /\ phase' = "tracker"
  BY DEF Restart
<1>2. Init'
  BY DEF Restart, Init
<1>3. IInv'
  BY <1>2, InitIInv, PTL
<1>4. Done' = {}
  BY DEF Restart, Done
<1>5. DP!SameTorrent
  BY DEF DP!SameTorrent, Torrent, Offsets, FilesListMake, EndOfFile
<1>6. /\ file_' = [f \in DP!File |-> FALSE]
      /\ written_' = [f \in DP!File |-> 0]
  BY <1>1, WholeTorrent
<1>7. DP!DiskInv
  BY DEF ClientInv
<1>8. DP!DiskInv'
  BY <1>1, <1>4, <1>5, <1>6, <1>7, ThisTorrent, DP!StartAgainKeeps
<1>9. StopsOnlyForCause'
  BY <1>1 DEF StopsOnlyForCause
<1> QED BY <1>1, <1>3, <1>8, <1>9 DEF ClientInv

LEMMA StutterStep ==
  ASSUME ClientInv, UNCHANGED <<vars, diskVars>>
  PROVE  ClientInv' /\ phase' = phase /\ disk' = disk
<1>1. /\ phase' = phase /\ failed_assert' = failed_assert /\ stored' = stored /\ piece' = piece
      /\ taken' = taken /\ disk' = disk
  BY DEF vars, mainVars, storeVars, coroVars, diskVars
<1>2. phase' # "aborted" => IInv'
  BY <1>1, NextIInv DEF ClientInv
<1>3. Disk!HasInnerEmptyFile' = Disk!HasInnerEmptyFile
  BY DEF Disk!HasInnerEmptyFile, Disk!File, Disk!FileSize, Torrent
<1>4. StopsOnlyForCause'
  BY <1>1, <1>3 DEF StopsOnlyForCause, ClientInv
<1>5. DP!DiskInv'
  BY <1>1, FilesUntouched DEF ClientInv
<1> QED BY <1>1, <1>2, <1>4, <1>5 DEF ClientInv

-----------------------------------------------------------------------------
(* The invariant.                                                          *)

LEMMA ClientInitInv == ClientInit => ClientInv
<1> SUFFICES ASSUME ClientInit PROVE ClientInv
  OBVIOUS
<1>1. IInv
  BY InitIInv DEF ClientInit
<1>2. DP!Init
  BY SameFirst DEF ClientInit
<1>3. DP!Inv
  BY <1>2, ThisTorrent, DP!InitInv
<1>4. phase = "tracker"
  BY DEF ClientInit, Init
<1> QED BY <1>1, <1>3, <1>4 DEF ClientInv, DP!Inv, StopsOnlyForCause

\* Each step keeps the invariant, and is one of these to the disk: it puts
\* bytes in place, it returns from main with all pieces stored, it starts the
\* program again, or it leaves the disk alone.
LEMMA ClientNextInv ==
  ASSUME TorrentBelowWord, ClientInv, [ClientNext]_clientVars
  PROVE  /\ ClientInv'
         /\ \/ /\ DP!BytesOnceAndInPlace \/ disk' = disk
               /\ phase # "exited" /\ phase' # "exited"
            \/ disk' = disk /\ phase' = "exited" /\ phase = "peers" /\ Done = PieceIndex
            \/ disk' = disk /\ phase' # "exited"
            \/ disk' = disk /\ phase' = phase
<1>1. CASE \E peers \in TrackerReplies : TrackerRound(peers) /\ UNCHANGED diskVars
  BY <1>1, TrackerStep DEF diskVars
<1>2. CASE MainRoundEnd
  BY <1>2, RoundEndsStep DEF diskVars
<1>3. CASE \E p \in Peer : Coroutine(p)
  BY <1>3, CoroutineStep
<1>4. CASE Terminated /\ UNCHANGED diskVars
  BY <1>4, StutterStep DEF Terminated
<1>5. CASE Restart
  BY <1>5, RestartStep
<1>6. CASE UNCHANGED clientVars
  BY <1>6, StutterStep DEF clientVars
<1> QED BY <1>1, <1>2, <1>3, <1>4, <1>5, <1>6 DEF ClientNext

THEOREM ClientInvariance ==
  ASSUME TorrentBelowWord
  PROVE  ClientSpec => []ClientInv
<1>1. ClientInit => ClientInv
  BY ClientInitInv
<1>2. ClientInv /\ [ClientNext]_clientVars => ClientInv'
  BY ClientNextInv
<1> QED BY <1>1, <1>2, PTL DEF ClientSpec

\* However many runs came before, however each of them ended, and in
\* whatever order the peers complete the pieces: main's loop ends with every
\* file of some bytes created by this run and closed.
THEOREM ReturnsWithAllFiles ==
  ASSUME TorrentBelowWord
  PROVE  ClientSpec => []ExitHasFiles
<1>1. ClientInv => ExitHasFiles
  <2> SUFFICES ASSUME ClientInv, phase = "exited"
               PROVE  /\ \A f \in taken : FileLengths[f] = 0
                      /\ created = {f \in DOMAIN FileLengths : FileLengths[f] > 0}
                      /\ \A f \in DOMAIN FileLengths : ~file_[f]
                      /\ Done = PieceIndex
    BY DEF ExitHasFiles
  <2>1. IInv /\ DP!DiskInv
    BY DEF ClientInv
  <2>2. Done = PieceIndex /\ Done = DP!PieceIndex
    BY <2>1, WholeTorrent DEF IInv
  <2>3. Main # "aborted"
    BY DEF Main
  <2>4. /\ \A f \in taken : DP!FileSize(f) = 0
        /\ \A f \in DP!File : written_[f] = DP!FileSize(f) /\ ~file_[f]
        /\ created = {f \in DP!File : DP!FileSize(f) > 0}
    BY <2>1, <2>2, <2>3, ThisTorrent, DP!AllPiecesThere
  <2> QED BY <2>2, <2>4, WholeTorrent
<1> QED BY <1>1, ClientInvariance, PTL

\* The program is stopped only by a round without peers, a message without a
\* handler, a taken name or an empty file before others.
THEOREM ProgramStopsForCause ==
  ASSUME TorrentBelowWord
  PROVE  ClientSpec => []StopsOnlyForCause
<1>1. ClientInv => StopsOnlyForCause
  BY DEF ClientInv
<1> QED BY <1>1, ClientInvariance, PTL

\* The engine keeps its promises inside the program, in every run of it, up
\* to the step that fails an assertion.
THEOREM EngineKeptInClient ==
  ASSUME TorrentBelowWord
  PROVE  ClientSpec => [](phase # "aborted" =>
           PieceAccounting /\ BytesExact /\ StoredWhole /\ BacklogBound /\ Control)
<1>1. ClientInv => (phase # "aborted" => PieceAccounting /\ BytesExact /\ StoredWhole /\ BacklogBound /\ Control)
  BY DEF ClientInv, IInv
<1> QED BY <1>1, ClientInvariance, PTL

-----------------------------------------------------------------------------
(* The disk as TorrentStore has it.                                        *)

\* Every byte of the torrent is in a file.
LEMMA FileOfByte ==
  ASSUME NEW k \in 0 .. TotalSize - 1
  PROVE  /\ FileOf[k] \in DP!File
         /\ k - Offsets[FileOf[k]].start \in 0 .. DP!FileSize(FileOf[k]) - 1
         /\ DP!BytePlace(FileOf[k], k - Offsets[FileOf[k]].start) = k
<1> DEFINE N == Len(Offsets)
           Beyond == {f \in 1 .. N : Offsets[f].end > k}
<1>1. /\ FileLengths \in Seq(Nat) /\ FileLengths # <<>>
      /\ DP!FilesListMake(FileLengths) = Offsets
  BY ClientAssumption DEF DP!FilesListMake, DP!EndOfFile, Offsets, FilesListMake, EndOfFile
<1>2. /\ DP!Contiguous(Offsets)
      /\ DOMAIN Offsets = DOMAIN FileLengths
      /\ \A f \in DOMAIN FileLengths : Offsets[f].end = Offsets[f].start + FileLengths[f]
  BY <1>1, ThisTorrent, DP!MadeContiguous
<1>3. /\ N \in Nat \ {0} /\ DOMAIN Offsets = 1 .. N
      /\ \A f \in 1 .. N : Offsets[f].start \in Nat /\ Offsets[f].end \in Nat
  BY <1>2, ThisTorrent, DP!InOrder
<1>4. /\ Offsets[1].start = 0
      /\ \A f \in 2 .. N : Offsets[f].start = Offsets[f - 1].end
  <2>1. /\ Offsets[1].start = 0
        /\ \A j \in DOMAIN Offsets : j + 1 \in DOMAIN Offsets => Offsets[j + 1].start = Offsets[j].end
    BY <1>2 DEF DP!Contiguous
  <2>2. ASSUME NEW f \in 2 .. N PROVE Offsets[f].start = Offsets[f - 1].end
    <3>1. f - 1 \in DOMAIN Offsets /\ (f - 1) + 1 = f /\ f \in DOMAIN Offsets
      BY <1>3
    <3> QED BY <2>1, <3>1
  <2> QED BY <2>1, <2>2
<1>5. Offsets[N].end = TotalSize /\ TotalSize \in Nat
  <2>1. Offsets[N].end = TotalSize
    BY WholeTorrent DEF DP!total_size_
  <2>2. N \in 1 .. N
    BY <1>3
  <2> QED BY <2>1, <2>2, <1>3
<1>6. PICK f \in Beyond : \A g \in Beyond : f <= g
  <2>1. N \in Beyond
    BY <1>3, <1>5
  <2>2. Beyond \in SUBSET Nat
    BY <1>3
  <2> HIDE DEF Beyond
  <2> QED BY <2>1, <2>2, ThisTorrent, DP!LeastNumber
<1>7. f \in 1 .. N /\ Offsets[f].start <= k /\ k < Offsets[f].end
  <2>1. f \in 1 .. N /\ k < Offsets[f].end /\ k \in Nat
    BY <1>3, <1>5, <1>6
  <2>2. CASE f = 1
    BY <2>1, <2>2, <1>4
  <2>3. CASE f # 1
    <3>1. f - 1 \in 1 .. N /\ f \in 2 .. N /\ ~(f <= f - 1)
      BY <2>1, <2>3, <1>3
    <3>2. f - 1 \notin Beyond
      BY <3>1, <1>6
    <3>3. ~(Offsets[f - 1].end > k)
      BY <3>1, <3>2
    <3> QED BY <3>1, <3>3, <2>1, <1>3, <1>4
  <2> QED BY <2>2, <2>3
<1>8. \E g \in DOMAIN Offsets : Offsets[g].start <= k /\ k < Offsets[g].end
  BY <1>3, <1>7
<1>9. FileOf[k] = CHOOSE g \in DOMAIN Offsets : Offsets[g].start <= k /\ k < Offsets[g].end
  BY DEF FileOf
<1>10. FileOf[k] \in DOMAIN Offsets /\ Offsets[FileOf[k]].start <= k /\ k < Offsets[FileOf[k]].end
  BY <1>8, <1>9
<1> DEFINE h == FileOf[k]
<1> HIDE DEF h
<1>11. /\ h \in 1 .. N /\ h \in DOMAIN FileLengths
       /\ Offsets[h].start \in Nat /\ Offsets[h].end \in Nat
       /\ Offsets[h].end = Offsets[h].start + FileLengths[h]
       /\ Offsets[h].start <= k /\ k < Offsets[h].end
  BY <1>2, <1>3, <1>10 DEF h
<1>12. FileLengths[h] \in Nat
  BY <1>1, <1>11
<1>13. k - Offsets[h].start \in 0 .. FileLengths[h] - 1 /\ Offsets[h].start + (k - Offsets[h].start) = k
  <2>1. \A s, e, n \in Nat : e = s + n /\ s <= k /\ k < e => k - s \in 0 .. n - 1 /\ s + (k - s) = k
    BY <1>5
  <2> QED BY <2>1, <1>11, <1>12
<1> QED BY <1>11, <1>13, WholeTorrent DEF h, DP!BytePlace

\* The byte on the disk at place k.
ByteAt(k) == disk[FileOf[k]][k - Offsets[FileOf[k]].start]

SeenAsIs ==
  \A k \in 0 .. TotalSize - 1 :
    StoreView[k] = IF ByteAt(k) = Blank THEN "blank" ELSE IF ByteAt(k) = Other THEN "other" ELSE "right"

LEMMA ViewOfByte == DP!DiskInv => SeenAsIs
<1> SUFFICES ASSUME DP!DiskInv, NEW k \in 0 .. TotalSize - 1
             PROVE  StoreView[k] = IF ByteAt(k) = Blank THEN "blank"
                                   ELSE IF ByteAt(k) = Other THEN "other" ELSE "right"
  BY DEF SeenAsIs
<1> DEFINE f == FileOf[k]
           o == k - Offsets[f].start
<1>1. f \in DP!File /\ o \in 0 .. DP!FileSize(f) - 1 /\ DP!BytePlace(f, o) = k
  BY FileOfByte
<1>2. DOMAIN disk[f] = 0 .. DP!FileSize(f) - 1
  BY <1>1 DEF DP!DiskInv, DP!Types
<1>3. ByteAt(k) = disk[f][o]
  BY DEF ByteAt
<1>4. StoreView[k] = CASE ByteAt(k) = Blank -> "blank" [] ByteAt(k) = Other -> "other"
                       [] ByteAt(k) = k -> "right" [] OTHER -> "wrong"
  BY DEF StoreView, ByteAt
<1> HIDE DEF f, o
<1>5. disk[f][o] \in {Blank, Other, k}
  BY <1>1, <1>2 DEF DP!DiskInv, DP!Places
<1>6. k # Blank /\ k # Other /\ Blank # Other
  BY ThisTorrent
<1> QED BY <1>3, <1>4, <1>5, <1>6

\* No byte is ever wrong.
ViewTyped == StoreView \in [0 .. TotalSize - 1 -> {"blank", "other", "right"}]

LEMMA ViewType == DP!DiskInv => ViewTyped
<1> SUFFICES ASSUME DP!DiskInv PROVE ViewTyped
  OBVIOUS
<1>1. StoreView = [k \in 0 .. TotalSize - 1 |-> StoreView[k]]
  BY DEF StoreView
<1>2. \A k \in 0 .. TotalSize - 1 : StoreView[k] \in {"blank", "other", "right"}
  BY ViewOfByte DEF SeenAsIs
<1> QED BY <1>1, <1>2 DEF ViewTyped

LEMMA SameDiskSameView == disk' = disk => StoreView' = StoreView
BY DEF StoreView, FileOf, Offsets, FilesListMake, EndOfFile

\* Bytes put in place, as TorrentStore sees them.
LEMMA PutsInPlace ==
  ASSUME DP!DiskInv, DP!DiskInv', DP!BytesOnceAndInPlace, NEW k \in 0 .. TotalSize - 1,
         StoreView'[k] # StoreView[k]
  PROVE  StoreView[k] = "blank" /\ StoreView'[k] = "right"
<1> DEFINE f == FileOf[k]
           o == k - Offsets[f].start
<1>1. f \in DP!File /\ o \in DOMAIN disk[f] /\ DP!BytePlace(f, o) = k
  <2>1. f \in DP!File /\ o \in 0 .. DP!FileSize(f) - 1 /\ DP!BytePlace(f, o) = k
    BY FileOfByte
  <2> QED BY <2>1 DEF DP!DiskInv, DP!Types
<1>2. FileOf' = FileOf /\ Offsets' = Offsets /\ TotalSize' = TotalSize
  BY DEF FileOf, Offsets, FilesListMake, EndOfFile
<1>3. ByteAt(k) = disk[f][o] /\ ByteAt(k)' = disk'[f][o]
  BY <1>2 DEF ByteAt
<1>4. StoreView[k] = IF ByteAt(k) = Blank THEN "blank" ELSE IF ByteAt(k) = Other THEN "other" ELSE "right"
  BY ViewOfByte DEF SeenAsIs
<1>5. StoreView'[k] = IF ByteAt(k)' = Blank THEN "blank" ELSE IF ByteAt(k)' = Other THEN "other" ELSE "right"
  <2>1. SeenAsIs'
    BY ViewOfByte, PTL
  <2> QED BY <2>1 DEF SeenAsIs
<1> HIDE DEF f, o
<1>6. ByteAt(k)' # ByteAt(k)
  BY <1>4, <1>5
<1>7. ByteAt(k) = Blank /\ ByteAt(k)' = k
  BY <1>1, <1>3, <1>6 DEF DP!BytesOnceAndInPlace
<1>8. k # Blank /\ k # Other
  BY ThisTorrent
<1> QED BY <1>4, <1>5, <1>7, <1>8

LEMMA StoreInit == ClientInit => Store!Init
<1> SUFFICES ASSUME ClientInit PROVE Store!Init
  OBVIOUS
<1>1. DP!DiskInv /\ phase = "tracker"
  BY ClientInitInv DEF ClientInv, ClientInit, Init
<1>2. SeenAsIs /\ StoreView \in [0 .. TotalSize - 1 -> {"blank", "other", "right"}]
  BY <1>1, ViewOfByte, ViewType DEF ViewTyped
<1>3. \A f \in DP!File : disk[f] = DP!Full(f, IF f \in taken THEN Other ELSE Blank)
  <2>1. DP!Init
    BY SameFirst DEF ClientInit
  <2> QED BY <2>1 DEF DP!Init
<1>4. \A k \in 0 .. TotalSize - 1 : ByteAt(k) \in {Blank, Other}
  BY <1>3, FileOfByte DEF ByteAt, DP!Full
<1>5. \A k \in 0 .. TotalSize - 1 : StoreView[k] \in {"blank", "other"}
  BY <1>2, <1>4 DEF SeenAsIs
<1>6. StoreView \in [0 .. TotalSize - 1 -> {"blank", "other"}]
  BY <1>2, <1>5
<1> QED BY <1>1, <1>6 DEF Store!Init

\* When all pieces are stored, every byte of the torrent is on the disk.
LEMMA AllRight ==
  ASSUME DP!DiskInv, phase = "peers", Done = PieceIndex, NEW k \in 0 .. TotalSize - 1
  PROVE  StoreView[k] = "right"
<1>1. Done = DP!PieceIndex /\ Main # "aborted"
  BY WholeTorrent DEF Main
<1>2. /\ \A f \in taken : DP!FileSize(f) = 0
      /\ \A f \in DP!File \ taken : \A o \in DOMAIN disk[f] : disk[f][o] = DP!BytePlace(f, o)
  BY <1>1, ThisTorrent, DP!AllPiecesThere
<1> DEFINE f == FileOf[k]
           o == k - Offsets[f].start
<1>3. f \in DP!File /\ o \in 0 .. DP!FileSize(f) - 1 /\ DP!BytePlace(f, o) = k
  BY FileOfByte
<1>4. DOMAIN disk[f] = 0 .. DP!FileSize(f) - 1
  BY <1>3 DEF DP!DiskInv, DP!Types
<1>5. ByteAt(k) = disk[f][o]
  BY DEF ByteAt
<1> HIDE DEF f, o
<1>6. f \notin taken
  <2>1. DP!FileSize(f) = 0 => 0 .. DP!FileSize(f) - 1 = {}
    OBVIOUS
  <2> QED BY <2>1, <1>2, <1>3
<1>7. ByteAt(k) = k
  BY <1>2, <1>3, <1>4, <1>5, <1>6
<1> QED BY <1>7, ThisTorrent, ViewOfByte DEF SeenAsIs

LEMMA StoreStep ==
  ASSUME TorrentBelowWord, ClientInv, [ClientNext]_clientVars
  PROVE  [Store!Next]_(Store!store)
<1>1. DP!DiskInv /\ DP!DiskInv'
  BY ClientNextInv DEF ClientInv
<1>2. disk' = disk => StoreView' = StoreView
  BY SameDiskSameView
<1>3. ASSUME DP!BytesOnceAndInPlace, phase # "exited", phase' # "exited"
      PROVE  Store!Put
  <2>1. StoreView' \in [0 .. TotalSize - 1 -> {"blank", "other", "right"}]
    <3>1. ViewTyped'
      BY <1>1, ViewType, PTL
    <3> QED BY <3>1 DEF ViewTyped
  <2>2. \A k \in 0 .. TotalSize - 1 :
          StoreView'[k] # StoreView[k] => StoreView[k] = "blank" /\ StoreView'[k] = "right"
    BY <1>1, <1>3, PutsInPlace
  <2> QED BY <1>3, <2>1, <2>2 DEF Store!Put
<1>4. ASSUME disk' = disk, phase' = "exited", phase = "peers", Done = PieceIndex
      PROVE  Store!Finish
  BY <1>1, <1>2, <1>4, AllRight DEF Store!Finish
<1>5. ASSUME disk' = disk, phase' # "exited" PROVE Store!StartAgain
  BY <1>2, <1>5 DEF Store!StartAgain
<1>6. ASSUME disk' = disk, phase' = phase PROVE UNCHANGED Store!store
  BY <1>2, <1>6 DEF Store!store
<1> QED BY <1>3, <1>4, <1>5, <1>6, ClientNextInv DEF Store!Next

\* Over any number of runs, each ended at any step by a crash or by an
\* assertion, the disk behaves as TorrentStore: a byte that is there stays,
\* no other file is written over, and main returns with all of them.
THEOREM ClientImplementsStore ==
  ASSUME TorrentBelowWord
  PROVE  ClientSpec => ImplementsStore
<1>1. ClientSpec => Store!Init
  BY StoreInit DEF ClientSpec
<1>2. ClientInv /\ [ClientNext]_clientVars => [Store!Next]_(Store!store)
  BY StoreStep
<1>3. ClientSpec => [][Store!Next]_(Store!store)
  BY <1>2, ClientInvariance, PTL DEF ClientSpec
<1> QED BY <1>1, <1>3, PTL DEF ImplementsStore, Store!Spec
=============================================================================
