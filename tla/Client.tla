------------------------------- MODULE Client -------------------------------
(***************************************************************************)
(* The whole of main.cpp: the engine of Downloader writes its pieces       *)
(* through FilesOnDisk (on_new_piece), inside the step of the coroutine    *)
(* that received the last part.  A failed assertion below write_piece ends *)
(* the program in the middle of that step.                                 *)
(*                                                                         *)
(* The process may die at any time, of an assertion or otherwise, and be   *)
(* started again on the same directory: memory is lost, the files stay,    *)
(* and nothing in the code reads them back.                                *)
(***************************************************************************)
EXTENDS Downloader, FilesList

CONSTANTS
  FileLengths,   \* the lengths of the torrent's files
  Blank, Other, MaxTaken,   \* see FilesOnDisk
  MaxRestarts    \* bound on the number of times the program is started again

VARIABLES
  taken, file_, written_, disk, created,   \* see FilesOnDisk
  restarts

diskVars == <<taken, file_, written_, disk, created>>
clientVars == <<vars, diskVars, restarts>>

ASSUME ClientAssumption ==
  /\ FileLengths \in Seq(Nat) /\ FileLengths # <<>>
  /\ get_total_size_bytes(FileLengths) = TotalSize
  /\ Blank \notin Int /\ Other \notin Int /\ Blank # Other
  /\ MaxRestarts \in Nat

\* main as seen from the files.
Main == IF phase \in {"exited", "aborted"} THEN phase ELSE "writing"

Offsets == FilesListMake(FileLengths)
Torrent == [lengths |-> FileLengths, size |-> PieceSize, count |-> PiecesCount]

Disk == INSTANCE FilesOnDisk WITH
  Torrents <- {Torrent}, torrent <- Torrent, files_offset_ <- Offsets,
  pieces <- Done, state <- Main

ClientInit == Init /\ Disk!Init /\ restarts = 0

-----------------------------------------------------------------------------
(* on_new_piece.                                                           *)

\* The step of coroutine p, with the piece it completes, if any.
on_new_piece(p) == IF stored' = stored THEN UNCHANGED diskVars ELSE Disk!write_piece(piece[p])

\* An assertion fails while the piece is written; what was written before
\* stays on the disk.
WriteAborts(p) ==
  /\ Awaits(p, "read")
  /\ \E r \in inflight[p] : PartAccepted(piece[p], r) /\ CompletesPiece(piece[p], r)
  /\ phase' = "aborted"
  /\ UNCHANGED <<queueVars, stateVars, storeVars, coroVars>>
  /\ Disk!write_piece(piece[p])

Resumes(p) ==
  \/ Started(p) \/ ReadBitfield(p) \/ SentUnchoke(p) \/ SentInterested(p)
  \/ SentRequest(p) \/ SentHave(p)
  \/ ReadPiece(p) \/ ReadKeepAlive(p) \/ ReadChoke(p) \/ ReadUnchoke(p)
  \/ ReadHave(p) \/ ReadUnhandled(p)
  \/ PeerFails(p)

Coroutine(p) == (Resumes(p) /\ on_new_piece(p)) \/ WriteAborts(p)

-----------------------------------------------------------------------------
(* main.                                                                   *)

\* Mutant: main leaves its loop after the first round.
ReturnsAfterRound ==
  /\ phase = "peers"
  /\ \A p \in Peer : pc[p] \in {"idle", "done"}
  /\ phase' = "exited"
  /\ UNCHANGED <<queueVars, stateVars, storeVars, coroVars, failed_assert, diskVars>>

\* The last assertion of main is about the bytes written.
MainRoundEnd ==
  /\ IF downloaded_pieces_count_ < PiecesCount \/ Disk!total_written = TotalSize
       THEN RoundEnd
       ELSE /\ phase = "peers"
            /\ \A p \in Peer : pc[p] \in {"idle", "done"}
            /\ Abort("exit")
  /\ UNCHANGED diskVars

\* The process is gone and started again.
Restart ==
  /\ restarts < MaxRestarts
  /\ restarts' = restarts + 1
  /\ pieces_' = {} /\ to_retry_' = <<>> /\ next_piece_index_' = 0
  /\ downloaded_pieces_count_' = 0
  /\ downloaded_' = [i \in PieceIndex |-> 0]
  /\ requested_' = [i \in PieceIndex |-> 0]
  /\ data_' = [i \in PieceIndex |-> {}]
  /\ stored' = [i \in PieceIndex |-> <<>>]
  /\ pc' = [p \in Peer |-> "idle"]
  /\ bitfield_' = [p \in Peer |-> {}]
  /\ unchocked_' = [p \in Peer |-> FALSE]
  /\ piece' = [p \in Peer |-> NoPiece]
  /\ backlog' = [p \in Peer |-> 0]
  /\ inflight' = [p \in Peer |-> {}]
  /\ phase' = "tracker" /\ failed_assert' = "none"
  /\ file_' = [f \in DOMAIN FileLengths |-> FALSE]
  /\ written_' = [f \in DOMAIN FileLengths |-> 0]
  /\ taken' = taken \union created
  /\ created' = {}
  /\ UNCHANGED disk

ClientNext ==
  \/ /\ \/ \E peers \in TrackerReplies : TrackerRound(peers) /\ UNCHANGED diskVars
        \/ MainRoundEnd
        \/ \E p \in Peer : Coroutine(p)
        \/ Terminated /\ UNCHANGED diskVars
     /\ UNCHANGED restarts
  \/ Restart

ClientSpec == ClientInit /\ [][ClientNext]_clientVars

-----------------------------------------------------------------------------
(* Fairness.  The first conjunct is about the peers: an operation that does*)
(* not fail completes, a request that was not discarded is answered, a peer*)
(* with nothing left to answer unchokes the client in the end, and one that*)
(* is unchoked and asked for nothing closes the idle connection, since the *)
(* client has no timeout of its own.  The second is the return of          *)
(* io_context.run().  The last is about the tracker: asked again and again,*)
(* it lists a peer with all the pieces.  Nothing obliges the process to die*)
(* or to be started again.                                                 *)

IdleClose(p) ==
  /\ Awaits(p, "read") /\ unchocked_[p] /\ inflight[p] = {}
  /\ PeerFails(p)

PeerMoves(p) ==
  \/ Started(p) \/ ReadBitfield(p) \/ SentUnchoke(p) \/ SentInterested(p)
  \/ SentRequest(p) \/ SentHave(p)
  \/ ReadPiece(p)
  \/ inflight[p] = {} /\ ~unchocked_[p] /\ ReadUnchoke(p)
  \/ IdleClose(p)

CoroutineMoves(p) == (PeerMoves(p) /\ on_new_piece(p)) \/ WriteAborts(p)

ListsSeeder ==
  /\ \E peers \in TrackerReplies : peers \intersect Seeders # {} /\ TrackerRound(peers)
  /\ UNCHANGED diskVars

ClientFairSpec ==
  /\ ClientSpec
  /\ \A p \in Peer : WF_clientVars(CoroutineMoves(p) /\ UNCHANGED restarts)
  /\ WF_clientVars(MainRoundEnd /\ UNCHANGED restarts)
  /\ SF_clientVars(ListsSeeder /\ UNCHANGED restarts)

-----------------------------------------------------------------------------
(* Properties.                                                             *)

FileOf ==
  [k \in 0 .. TotalSize - 1 |->
     CHOOSE f \in DOMAIN Offsets : Offsets[f].start <= k /\ k < Offsets[f].end]

\* What the files hold at each byte of the torrent.
StoreView ==
  [k \in 0 .. TotalSize - 1 |->
     LET f == FileOf[k]
         byte == disk[f][k - Offsets[f].start]
     IN  CASE byte = Blank -> "blank" [] byte = Other -> "other" [] byte = k -> "right" [] OTHER -> "wrong"]

Store == INSTANCE TorrentStore WITH
  Place <- 0 .. TotalSize - 1, bytes <- StoreView, finished <- phase = "exited"

\* Over any number of runs, however each one ends, a byte of the torrent
\* that is on the disk stays there, files the user had are left alone, and
\* main returns only with the whole torrent on the disk.
ImplementsStore == Store!Spec

\* main returns only from a run that found no name of a file of some bytes
\* taken and wrote every such file itself: there is no resuming, and no run
\* is counted as complete on the strength of what an earlier one left.
ExitHasFiles ==
  phase = "exited" =>
    /\ \A f \in taken : FileLengths[f] = 0
    /\ created = {f \in DOMAIN FileLengths : FileLengths[f] > 0}
    /\ \A f \in DOMAIN FileLengths : ~file_[f]
    /\ Done = PieceIndex

\* The program stops before its end only for want of peers, when no piece is
\* in progress, because of a message without handler, of a taken name, or of
\* an empty file before others: writing the pieces in whatever order the
\* peers complete them fails no assertion of its own and leaves main's last
\* assertion true.
StopsOnlyForCause ==
  phase = "aborted" =>
    \/ failed_assert = "no peers" /\ \A p \in Peer : piece[p] = NoPiece
    \/ failed_assert = "unhandled message" /\ SendsUnhandled
    \/ failed_assert = "on_write_file_piece" /\ taken # {}
    \/ failed_assert \in {"iterate_files", "on_write_file_piece"} /\ Disk!HasInnerEmptyFile

\* Connections break and peers choke only finitely often.  (A peer may
\* still close an idle connection, and a coroutine that finds no piece to
\* take ends in the same way as one whose connection breaks there.)
EventuallyReliable ==
  <>[][\A p \in Peer :
         /\ ~ReadChoke(p)
         /\ PeerFails(p) => IdleClose(p) \/ SentInterested(p) \/ SentHave(p)]_vars

\* When peers and trackers settle and neither ends it by an assertion, the
\* last run either returns or, when any of its names was there before (one
\* left by a run that died is enough), stops at the first write to it.
ClientFinishes ==
  EventuallyReliable /\ [](failed_assert \notin {"no peers", "unhandled message"}) =>
    <>[](phase = "exited" \/ (phase = "aborted" /\ taken # {}))
=============================================================================
