----------------------------- MODULE Downloader -----------------------------
(***************************************************************************)
(* The download engine of main.cpp: the queue of pieces (PiecesToDownload),*)
(* one coroutine per peer (DownloadFromPeer, TryDownloadPiecesFromPeer)    *)
(* and the rounds of main (DoOneTrackerRound).                             *)
(*                                                                         *)
(* Every coroutine of a round runs on one io_context with one thread, so   *)
(* the code between two co_await is atomic: an action is what happens from *)
(* the completion of one asynchronous operation to the start of the next.  *)
(* pc[p] names the operation coroutine p waits for.  An operation may also *)
(* fail instead (PeerFails), which ends the coroutine.                     *)
(*                                                                         *)
(* Peers follow the protocol: they answer a request at most once and with  *)
(* the bytes asked for, in any order; a choke may discard requests that    *)
(* are not answered yet; a connection may break at any time.               *)
(*                                                                         *)
(* A failed assert() terminates the program (NDEBUG is undefined): phase   *)
(* becomes "aborted" and failed_assert says where.                         *)
(***************************************************************************)
EXTENDS TorrentLayout, Sequences, SequencesExt, FiniteSets

CONSTANTS
  Peer,            \* peers a tracker may list
  NoPiece,         \* pieces_.end()
  PiecesCount, PieceSize, TotalSize,
  MaxBlock,        \* k_max_block
  MaxBacklog,      \* k_max_backlog
  TrackerReplies,  \* the sets of peers request_torrent_peers may produce; {} on failure
  Seeders,         \* peers that have every piece
  SendsUnhandled   \* whether peers send messages with no handler (Request, ...)

PieceIndex == 0 .. PiecesCount - 1

ASSUME DownloaderAssumption ==
  /\ ValidLayout(PiecesCount, PieceSize, TotalSize)
  /\ NoPiece \notin PieceIndex
  /\ MaxBlock \in Nat \ {0}
  /\ MaxBacklog \in Nat \ {0}
  /\ TrackerReplies \subseteq SUBSET Peer
  /\ Seeders \subseteq Peer
  /\ SendsUnhandled \in BOOLEAN

VARIABLES
  \* struct PiecesToDownload
  pieces_,                    \* indexes of the live PieceState objects
  to_retry_,                  \* the pieces waiting for another peer
  next_piece_index_,
  downloaded_pieces_count_,
  \* struct PieceState, by piece index
  downloaded_, requested_,
  data_,                      \* the bytes of the buffer filled from the network
  \* the files: for each piece what on_new_piece was called with
  stored,
  \* one coroutine and one be::TorrentPeer per peer of the round
  pc, bitfield_, unchocked_,
  piece,                      \* the handle TryDownloadPiecesFromPeer works on
  backlog,
  inflight,                   \* requests sent and still to be answered
  \* main
  phase, failed_assert

queueVars == <<pieces_, to_retry_, next_piece_index_>>
stateVars == <<downloaded_, requested_, data_>>
storeVars == <<stored, downloaded_pieces_count_>>
coroVars  == <<pc, bitfield_, unchocked_, piece, backlog, inflight>>
mainVars  == <<phase, failed_assert>>
vars == <<queueVars, stateVars, storeVars, coroVars, mainVars>>

SizeOf(i) == get_piece_size(PiecesCount, PieceSize, TotalSize, i)

Block == [piece : PieceIndex, offset : Nat, length : Nat]
Bytes(r) == r.offset .. r.offset + r.length - 1

AwaitPoints == {"idle", "connect", "bitfield", "unchoke", "interested",
                "request", "read", "have", "done"}
Downloading == {"request", "read"}

-----------------------------------------------------------------------------
Init ==
  /\ pieces_ = {}
  /\ to_retry_ = <<>>
  /\ next_piece_index_ = 0
  /\ downloaded_pieces_count_ = 0
  /\ downloaded_ = [i \in PieceIndex |-> 0]
  /\ requested_ = [i \in PieceIndex |-> 0]
  /\ data_ = [i \in PieceIndex |-> {}]
  /\ stored = [i \in PieceIndex |-> <<>>]
  /\ pc = [p \in Peer |-> "idle"]
  /\ bitfield_ = [p \in Peer |-> {}]
  /\ unchocked_ = [p \in Peer |-> FALSE]
  /\ piece = [p \in Peer |-> NoPiece]
  /\ backlog = [p \in Peer |-> 0]
  /\ inflight = [p \in Peer |-> {}]
  /\ phase = "tracker"
  /\ failed_assert = "none"

Abort(where) ==
  /\ phase' = "aborted"
  /\ failed_assert' = where
  /\ UNCHANGED <<queueVars, stateVars, storeVars, coroVars>>

Awaits(p, operation) == phase = "peers" /\ pc[p] = operation

-----------------------------------------------------------------------------
(* PiecesToDownload.                                                       *)

\* Mutants: one counter survives the reset.
ResetStateKeepsRequested(i) ==
  /\ downloaded_' = [downloaded_ EXCEPT ![i] = 0]
  /\ data_' = [data_ EXCEPT ![i] = {}]
  /\ UNCHANGED requested_

ResetStateKeepsDownloaded(i) ==
  /\ requested_' = [requested_ EXCEPT ![i] = 0]
  /\ data_' = [data_ EXCEPT ![i] = {}]
  /\ UNCHANGED downloaded_

ResetState(i) ==
  /\ downloaded_' = [downloaded_ EXCEPT ![i] = 0]
  /\ requested_' = [requested_ EXCEPT ![i] = 0]
  /\ data_' = [data_ EXCEPT ![i] = {}]

push_piece_to_retry(i) ==
  /\ ResetState(i)
  /\ to_retry_' = Append(to_retry_, i)

\* The assertions of the Message_Piece handler and of on_piece_part_receive.
PartAccepted(i, r) ==
  /\ r.piece = i
  /\ r.length > 0
  /\ downloaded_[i] + r.length <= SizeOf(i)
  /\ r.offset + r.length <= SizeOf(i)

on_piece_part_receive(i, r) ==
  /\ data_' = [data_ EXCEPT ![i] = @ \union Bytes(r)]
  /\ downloaded_' = [downloaded_ EXCEPT ![i] = @ + r.length]
  /\ UNCHANGED requested_

\* The piece, with the bytes in data, goes to the files; its state is erased.
on_piece_downloaded(i, data) ==
  /\ downloaded_pieces_count_' = downloaded_pieces_count_ + 1
  /\ stored' = [stored EXCEPT ![i] = Append(@, data)]
  /\ pieces_' = pieces_ \ {i}
  /\ ResetState(i)

-----------------------------------------------------------------------------
(* TryDownloadPiecesFromPeer: from the head of the outer loop to the next  *)
(* co_await.                                                               *)

\* Mutant: one request too many.
LoopHeadOffByOne(unchocked, sent, requested, size) ==
  IF unchocked /\ sent <= MaxBacklog /\ requested < size THEN "request" ELSE "read"

\* The operation the inner loop starts next.
LoopHead(unchocked, sent, requested, size) ==
  IF unchocked /\ sent < MaxBacklog /\ requested < size THEN "request" ELSE "read"

\* Peer p works on piece i, which no one has started.
Hold(p, i) ==
  /\ piece' = [piece EXCEPT ![p] = i]
  /\ backlog' = [backlog EXCEPT ![p] = 0]
  /\ pc' = [pc EXCEPT ![p] = LoopHead(unchocked_[p], 0, requested_[i], SizeOf(i))]

\* Mutant: off by one.
SkippedOffByOne(from, to) == [k \in 1 .. to - from |-> from + k]

\* The indexes from .. to - 1, in the order pop_piece_to_download gave them.
Skipped(from, to) == [k \in 1 .. to - from |-> from + k - 1]

\* Mutant: next_piece_index_ is not incremented after the last pop.
TakeFreshTwice(p) ==
  \E i \in next_piece_index_ .. PiecesCount - 1 :
    /\ i \in bitfield_[p]
    /\ \A j \in next_piece_index_ .. i - 1 : j \notin bitfield_[p]
    /\ pieces_' = pieces_ \union (next_piece_index_ .. i)
    /\ to_retry_' = to_retry_ \o Skipped(next_piece_index_, i)
    /\ next_piece_index_' = i
    /\ Hold(p, i)

\* pop_piece_to_download hands out the indexes in order without looking at
\* the bitfield; the caller puts those the peer does not have in to_retry_
\* and goes on, until it gets the first one the peer has.
TakeFresh(p) ==
  \E i \in next_piece_index_ .. PiecesCount - 1 :
    /\ i \in bitfield_[p]
    /\ \A j \in next_piece_index_ .. i - 1 : j \notin bitfield_[p]
    /\ pieces_' = pieces_ \union (next_piece_index_ .. i)
    /\ to_retry_' = to_retry_ \o Skipped(next_piece_index_, i)
    /\ next_piece_index_' = i + 1
    /\ Hold(p, i)

\* No fresh index is left for the peer: all went to to_retry_, where
\* pop_piece_to_download now takes the first piece the peer has ...
NoFresh(p) ==
  /\ (next_piece_index_ .. PiecesCount - 1) \intersect bitfield_[p] = {}
  /\ next_piece_index_' = PiecesCount
  /\ pieces_' = pieces_ \union (next_piece_index_ .. PiecesCount - 1)

RetryQueue == to_retry_ \o Skipped(next_piece_index_, PiecesCount)

\* Mutant: the entry is not erased from to_retry_.
TakeRetryNoErase(p) ==
  /\ NoFresh(p)
  /\ \E k \in DOMAIN RetryQueue :
       /\ RetryQueue[k] \in bitfield_[p]
       /\ \A l \in 1 .. k - 1 : RetryQueue[l] \notin bitfield_[p]
       /\ to_retry_' = RetryQueue
       /\ Hold(p, RetryQueue[k])

TakeRetry(p) ==
  /\ NoFresh(p)
  /\ \E k \in DOMAIN RetryQueue :
       /\ RetryQueue[k] \in bitfield_[p]
       /\ \A l \in 1 .. k - 1 : RetryQueue[l] \notin bitfield_[p]
       /\ to_retry_' = RemoveAt(RetryQueue, k)
       /\ Hold(p, RetryQueue[k])

\* ... and there is none: the coroutine fails and the peer is left alone.
TakeNone(p) ==
  /\ NoFresh(p)
  /\ \A k \in DOMAIN RetryQueue : RetryQueue[k] \notin bitfield_[p]
  /\ to_retry_' = RetryQueue
  /\ pc' = [pc EXCEPT ![p] = "done"]
  /\ UNCHANGED <<piece, backlog>>

TakeNext(p) ==
  /\ TakeFresh(p) \/ TakeRetry(p) \/ TakeNone(p)
  /\ UNCHANGED <<stateVars, storeVars, bitfield_, unchocked_, inflight, mainVars>>

-----------------------------------------------------------------------------
(* DoOneTrackerRound and main.                                             *)

\* request_torrent_peers runs to its end on an io_context of its own; then
\* one coroutine is spawned per address.
TrackerRound(peers) ==
  /\ phase = "tracker"
  /\ peers \in TrackerReplies
  /\ IF peers = {} THEN Abort("no peers")
     ELSE /\ pc' = [p \in Peer |-> IF p \in peers THEN "connect" ELSE "idle"]
          /\ phase' = "peers"
          /\ UNCHANGED <<queueVars, stateVars, storeVars, bitfield_, unchocked_,
                         piece, backlog, inflight, failed_assert>>

\* main's assertions before it returns, but for the bytes written.
ExitAccepted ==
  /\ downloaded_pieces_count_ = PiecesCount
  /\ pieces_ = {}
  /\ to_retry_ = <<>>

\* io_context.run() returns when every coroutine is over; the TorrentPeer
\* objects are destroyed and main decides whether to do another round.
RoundEnd ==
  /\ phase = "peers"
  /\ \A p \in Peer : pc[p] \in {"idle", "done"}
  /\ pc' = [p \in Peer |-> "idle"]
  /\ bitfield_' = [p \in Peer |-> {}]
  /\ unchocked_' = [p \in Peer |-> FALSE]
  /\ IF downloaded_pieces_count_ < PiecesCount
       THEN phase' = "tracker" /\ UNCHANGED failed_assert
       ELSE IF ExitAccepted
         THEN phase' = "exited" /\ UNCHANGED failed_assert
         ELSE phase' = "aborted" /\ failed_assert' = "exit"
  /\ UNCHANGED <<queueVars, stateVars, storeVars, piece, backlog, inflight>>

-----------------------------------------------------------------------------
(* DownloadFromPeer, up to the first piece.                                *)

Continue(p, operation) ==
  /\ pc' = [pc EXCEPT ![p] = operation]
  /\ UNCHANGED <<queueVars, stateVars, storeVars, piece, backlog, inflight, mainVars>>

\* Connected and the handshake is done.
Started(p) ==
  /\ Awaits(p, "connect")
  /\ Continue(p, "bitfield")
  /\ UNCHANGED <<bitfield_, unchocked_>>

\* The first message has to be a bitfield.
ReadBitfield(p) ==
  /\ Awaits(p, "bitfield")
  /\ \E have \in SUBSET PieceIndex :
       /\ p \in Seeders => have = PieceIndex
       /\ bitfield_' = [bitfield_ EXCEPT ![p] = have]
  /\ Continue(p, "unchoke")
  /\ UNCHANGED unchocked_

SentUnchoke(p) ==
  /\ Awaits(p, "unchoke")
  /\ Continue(p, "interested")
  /\ UNCHANGED <<bitfield_, unchocked_>>

SentInterested(p) == Awaits(p, "interested") /\ TakeNext(p)

-----------------------------------------------------------------------------
(* TryDownloadPiecesFromPeer: the inner loop.                              *)

NextBlock(i) ==
  LET needed == SizeOf(i) - requested_[i]
  IN  [piece |-> i, offset |-> requested_[i],
       length |-> IF MaxBlock < needed THEN MaxBlock ELSE needed]

\* One request per turn of the loop, then a read.
SentRequest(p) ==
  /\ Awaits(p, "request")
  /\ LET r == NextBlock(piece[p])
     IN  /\ inflight' = [inflight EXCEPT ![p] = @ \union {r}]
         /\ requested_' = [requested_ EXCEPT ![piece[p]] = @ + r.length]
  /\ backlog' = [backlog EXCEPT ![p] = @ + 1]
  /\ pc' = [pc EXCEPT ![p] = "read"]
  /\ UNCHANGED <<queueVars, downloaded_, data_, storeVars, bitfield_, unchocked_,
                 piece, mainVars>>

\* The piece is not complete: back to the head of the loop.
ReceivePart(p, r) ==
  /\ on_piece_part_receive(piece[p], r)
  /\ backlog' = [backlog EXCEPT ![p] = @ - 1]
  /\ pc' = [pc EXCEPT ![p] =
       LoopHead(unchocked_[p], backlog[p] - 1, requested_[piece[p]], SizeOf(piece[p]))]
  /\ UNCHANGED <<queueVars, storeVars, piece>>

\* The last part: the retry guard is dismissed and the piece stored before
\* the coroutine waits for the Have message to be sent.
ReceiveLastPart(p, r) ==
  /\ on_piece_downloaded(piece[p], data_[piece[p]] \union Bytes(r))
  /\ piece' = [piece EXCEPT ![p] = NoPiece]
  /\ backlog' = [backlog EXCEPT ![p] = 0]
  /\ pc' = [pc EXCEPT ![p] = "have"]
  /\ UNCHANGED <<to_retry_, next_piece_index_>>

\* Mutant: the loop ends when everything is requested.
CompletesPieceEarly(i, r) == requested_[i] >= SizeOf(i)

\* The condition of the inner loop, after part r.
CompletesPiece(i, r) == downloaded_[i] + r.length >= SizeOf(i)

ReadPiece(p) ==
  /\ Awaits(p, "read")
  /\ \E r \in inflight[p] :
       IF ~PartAccepted(piece[p], r) THEN Abort("piece part")
       ELSE /\ inflight' = [inflight EXCEPT ![p] = @ \ {r}]
            /\ IF CompletesPiece(piece[p], r)
                 THEN ReceiveLastPart(p, r)
                 ELSE ReceivePart(p, r)
            /\ UNCHANGED <<bitfield_, unchocked_, mainVars>>

\* Back to the head of the loop after a message that is not a piece.
Loop(p, unchocked) ==
  /\ Awaits(p, "read")
  /\ unchocked_' = [unchocked_ EXCEPT ![p] = unchocked]
  /\ pc' = [pc EXCEPT ![p] =
       LoopHead(unchocked, backlog[p], requested_[piece[p]], SizeOf(piece[p]))]
  /\ UNCHANGED <<queueVars, stateVars, storeVars, piece, backlog, mainVars>>

ReadKeepAlive(p) == Loop(p, unchocked_[p]) /\ UNCHANGED <<bitfield_, inflight>>

\* The peer may discard requests it has not answered.
ReadChoke(p) ==
  /\ Loop(p, FALSE)
  /\ \E kept \in SUBSET inflight[p] : inflight' = [inflight EXCEPT ![p] = kept]
  /\ UNCHANGED bitfield_

ReadUnchoke(p) == Loop(p, TRUE) /\ UNCHANGED <<bitfield_, inflight>>

ReadHave(p) ==
  /\ Loop(p, unchocked_[p])
  /\ \E i \in PieceIndex : bitfield_' = [bitfield_ EXCEPT ![p] = @ \union {i}]
  /\ UNCHANGED inflight

\* Interested, NotInterested, Request, Cancel and a late Bitfield.
ReadUnhandled(p) ==
  /\ SendsUnhandled
  /\ Awaits(p, "read")
  /\ Abort("unhandled message")

SentHave(p) == Awaits(p, "have") /\ TakeNext(p)

\* The operation p waits for fails and OUTCOME_CO_TRY ends the coroutine.
\* While a piece is held its guard puts it back in the queue.
PeerFails(p) ==
  /\ phase = "peers"
  /\ pc[p] \notin {"idle", "done"}
  /\ pc' = [pc EXCEPT ![p] = "done"]
  /\ piece' = [piece EXCEPT ![p] = NoPiece]
  /\ backlog' = [backlog EXCEPT ![p] = 0]
  /\ inflight' = [inflight EXCEPT ![p] = {}]
  /\ IF pc[p] \in Downloading
       THEN push_piece_to_retry(piece[p])
       ELSE UNCHANGED <<stateVars, to_retry_>>
  /\ UNCHANGED <<pieces_, next_piece_index_, storeVars, bitfield_, unchocked_, mainVars>>

\* The program is over.
Terminated == phase \in {"exited", "aborted"} /\ UNCHANGED vars

Next ==
  \/ \E peers \in TrackerReplies : TrackerRound(peers)
  \/ RoundEnd
  \/ \E p \in Peer :
       \/ Started(p) \/ ReadBitfield(p) \/ SentUnchoke(p) \/ SentInterested(p)
       \/ SentRequest(p) \/ SentHave(p)
       \/ ReadPiece(p) \/ ReadKeepAlive(p) \/ ReadChoke(p) \/ ReadUnchoke(p)
       \/ ReadHave(p) \/ ReadUnhandled(p)
       \/ PeerFails(p)
  \/ Terminated

Spec == Init /\ [][Next]_vars

-----------------------------------------------------------------------------
(* Properties.                                                             *)

TypeOK ==
  /\ pieces_ \subseteq PieceIndex
  /\ to_retry_ \in Seq(PieceIndex)
  /\ next_piece_index_ \in 0 .. PiecesCount
  /\ downloaded_pieces_count_ \in Nat
  /\ downloaded_ \in [PieceIndex -> Nat]
  /\ requested_ \in [PieceIndex -> Nat]
  /\ data_ \in [PieceIndex -> SUBSET Nat]
  /\ stored \in [PieceIndex -> Seq(SUBSET Nat)]
  /\ pc \in [Peer -> AwaitPoints]
  /\ bitfield_ \in [Peer -> SUBSET PieceIndex]
  /\ unchocked_ \in [Peer -> BOOLEAN]
  /\ piece \in [Peer -> PieceIndex \union {NoPiece}]
  /\ backlog \in [Peer -> Int]
  /\ inflight \in [Peer -> SUBSET Block]
  /\ phase \in {"tracker", "peers", "exited", "aborted"}
  /\ failed_assert \in {"none", "no peers", "unhandled message", "piece part", "exit"}

Unpopped == next_piece_index_ .. PiecesCount - 1
Held == {i \in PieceIndex : \E p \in Peer : piece[p] = i}
Queued == {i \in PieceIndex : \E k \in DOMAIN to_retry_ : to_retry_[k] = i}
Done == {i \in PieceIndex : stored[i] # <<>>}

\* No piece is ever lost or handled twice: each one is not handed out yet,
\* or held by exactly one connection, or in to_retry_ exactly once, or
\* stored.  The live PieceState objects are those held or queued, and the
\* count main loops on is the number of pieces stored.
PieceAccounting ==
  /\ \A p, q \in Peer : piece[p] = piece[q] /\ piece[p] # NoPiece => p = q
  /\ \A k, l \in DOMAIN to_retry_ : to_retry_[k] = to_retry_[l] => k = l
  /\ pieces_ = Held \union Queued
  /\ PieceIndex = Unpopped \union pieces_ \union Done
  /\ Held \intersect Queued = {}
  /\ Unpopped \intersect pieces_ = {}
  /\ Unpopped \intersect Done = {}
  /\ pieces_ \intersect Done = {}
  /\ downloaded_pieces_count_ = Cardinality(Done)

\* No byte is asked for or counted twice within one attempt at a piece:
\* outstanding requests are disjoint from each other and from the bytes
\* received, all lie below requested_, downloaded_ is the number of bytes
\* received, and a piece nobody holds starts from nothing.
BytesExact ==
  /\ \A p \in Peer : \A r \in inflight[p] :
       /\ r.piece = piece[p]
       /\ r.length > 0
       /\ r.offset + r.length <= requested_[piece[p]]
       /\ Bytes(r) \intersect data_[piece[p]] = {}
       /\ \A s \in inflight[p] : s # r => Bytes(r) \intersect Bytes(s) = {}
  /\ \A i \in PieceIndex :
       /\ requested_[i] <= SizeOf(i)
       /\ data_[i] \subseteq 0 .. requested_[i] - 1
       /\ downloaded_[i] = Cardinality(data_[i])
       /\ i \notin Held => requested_[i] = 0

\* A piece reaches the files at most once and with every byte received from
\* the one peer that completed it: downloaded_ is only a counter, and the
\* code stores the buffer when the counter reaches the size.
StoredWhole ==
  \A i \in PieceIndex : stored[i] \in {<<>>, <<0 .. SizeOf(i) - 1>>}

\* With peers that follow the protocol no assertion of the piece handler,
\* of on_piece_part_receive or of main's exit fails.  (The two assertions
\* on what trackers and peers send do fail; see the findings.)
BookkeepingAssertsHold == failed_assert \notin {"piece part", "exit"}

\* The backlog a connection counts never goes below the number of requests
\* still to be answered, nor beyond k_max_backlog, and is never negative,
\* although a choke discards requests without the counter being told.
BacklogBound ==
  \A p \in Peer : Cardinality(inflight[p]) <= backlog[p] /\ backlog[p] <= MaxBacklog

\* Where a coroutine waits says what it owns: it holds a piece exactly inside
\* the inner loop, sends a request only while the piece and the backlog have
\* room for it, waits for a message only while bytes are missing, leaves
\* no answer behind when it leaves the loop, and none runs outside a round.
Control ==
  /\ \A p \in Peer : piece[p] # NoPiece <=> pc[p] \in Downloading
  /\ \A p \in Peer : IsFiniteSet(inflight[p])
  /\ \A p \in Peer : pc[p] \notin Downloading => inflight[p] = {} /\ backlog[p] = 0
  /\ \A p \in Peer : pc[p] = "request" =>
       /\ backlog[p] < MaxBacklog
       /\ requested_[piece[p]] < SizeOf(piece[p])
  /\ \A p \in Peer : pc[p] = "read" => downloaded_[piece[p]] < SizeOf(piece[p])
  /\ phase \in {"tracker", "exited"} => \A p \in Peer : pc[p] \notin Downloading

\* main returns only when every piece is stored.
ExitComplete == phase = "exited" => Done = PieceIndex /\ StoredWhole

\* The assertion of the message loop: no peer sends a message without handler.
NoUnhandledMessage == failed_assert # "unhandled message"

\* While a connection holds a piece nothing takes back what it received or
\* asked for: the failure or the end of another connection resets only
\* the piece that connection held.
HolderKeepsProgress ==
  [][\A p \in Peer : piece[p] # NoPiece /\ piece'[p] = piece[p] =>
       /\ data_[piece[p]] \subseteq data_'[piece[p]]
       /\ requested_[piece[p]] <= requested_'[piece[p]]]_vars

\* What the files hold of each piece.
FilesView ==
  [i \in PieceIndex |->
     CASE stored[i] = <<>> -> "absent"
       [] stored[i] = <<0 .. SizeOf(i) - 1>> -> "whole"
       [] OTHER -> "damaged"]

\* What the engine promises, whatever the peers do: the pieces on a board.
Board == INSTANCE PieceBoard WITH Piece <- PieceIndex, working <- piece, files <- FilesView

\* Every step of the engine claims, releases or stores at most one piece.
ImplementsBoard == Board!Spec
=============================================================================
