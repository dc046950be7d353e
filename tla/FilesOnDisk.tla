----------------------------- MODULE FilesOnDisk -----------------------------
(***************************************************************************)
(* FilesOnDisk and PhysicalFile of main.cpp: every piece that arrives is   *)
(* cut along the files and written through Win32 calls.  Pieces arrive in  *)
(* any order, each once (Downloader!StoredWhole).                          *)
(*                                                                         *)
(* The byte j of piece i of the torrent is named by its place in the       *)
(* torrent, i * size + j.                                                  *)
(***************************************************************************)
EXTENDS FilesList, FiniteSets

CONSTANTS
  Torrents,   \* the torrents to download: lengths of the files, piece size and count
  Blank,      \* a byte of a file that was not written
  Other,      \* a byte of a file the program did not create
  MaxTaken    \* how many of the file names may exist already

ASSUME FilesOnDiskAssumption ==
  /\ \A t \in Torrents : t.lengths \in Seq(Nat) /\ t.lengths # <<>>
  /\ Blank \notin Int /\ Other \notin Int /\ Blank # Other

VARIABLES
  torrent,    \* client.metainfo_
  files_offset_,
  taken,      \* files whose name exists on the disk before the program starts
  file_,      \* PhysicalFile::file_: whether the handle of each file is valid
  written_,   \* PhysicalFile::written_
  disk,       \* the contents of the files
  created,    \* the files this run created
  pieces,     \* the pieces written
  state, failed_assert

vars == <<torrent, files_offset_, taken, file_, written_, disk, created, pieces, state, failed_assert>>

File == DOMAIN torrent.lengths
FileSize(f) == torrent.lengths[f]
PieceIndex == 0 .. torrent.count - 1
total_size_ == files_offset_[Len(files_offset_)].end
SizeOf(i) == get_piece_size(torrent.count, torrent.size, total_size_, i)

\* A file of its final size with one byte everywhere.
Full(f, byte) == [o \in 0 .. FileSize(f) - 1 |-> byte]

Init ==
  /\ torrent \in Torrents
  /\ files_offset_ = FilesListMake(torrent.lengths)
  /\ ValidLayout(torrent.count, torrent.size, total_size_)
  /\ taken \in {T \in SUBSET File : Cardinality(T) <= MaxTaken}
  /\ file_ = [f \in File |-> FALSE]
  /\ written_ = [f \in File |-> 0]
  /\ disk = [f \in File |-> Full(f, IF f \in taken THEN Other ELSE Blank)]
  /\ created = {}
  /\ pieces = {}
  /\ state = "writing"
  /\ failed_assert = "none"

\* Mutant: CREATE_ALWAYS.
CanOpenAlways(f) == TRUE

\* Mutant: the handle is not looked at first.
CanCreate(f) == f \notin taken \union created

\* CreateFileA with CREATE_NEW; on failure the handle stays invalid and the
\* first call on it fails.
CanOpen(f) == file_[f] \/ f \notin taken \union created

\* A file that is created gets its final size: its contents are blank.
try_create(f) == IF file_[f] THEN disk[f] ELSE Full(f, Blank)

\* on_write_file_piece, up to the write.
FilePieceAccepted(fp, data_size) ==
  /\ fp.piece_offset < data_size
  /\ fp.bytes_count > 0
  /\ CanOpen(fp.file_index)

\* Mutant: the data pointer is not advanced.
WrittenFromPieceStart(i, fp) ==
  [o \in DOMAIN disk[fp.file_index] |->
     IF o \in fp.file_offset .. fp.file_offset + fp.bytes_count - 1
       THEN i * torrent.size + (o - fp.file_offset)
       ELSE try_create(fp.file_index)[o]]

\* WriteFile at file_offset_.
Written(i, fp) ==
  [o \in DOMAIN disk[fp.file_index] |->
     IF o \in fp.file_offset .. fp.file_offset + fp.bytes_count - 1
       THEN i * torrent.size + fp.piece_offset + (o - fp.file_offset)
       ELSE try_create(fp.file_index)[o]]

\* Mutant: never closed.
StaysOpenAlways(f, written) == written <= FileSize(f)

\* try_finalize: the handle is closed when the file has all its bytes.
StaysOpen(f, written) == written < FileSize(f)

SameTorrent == torrent' = torrent /\ files_offset_' = files_offset_

Stop(where) == state' = "aborted" /\ failed_assert' = where

\* The files of a piece are distinct, so its writes can be given at once:
\* those before the first one that fails an assertion.
WriteAll(i, fps) ==
  LET done == {n \in DOMAIN fps : \A m \in 1 .. n : FilePieceAccepted(fps[m], SizeOf(i))}
      at(f) == {n \in done : fps[n].file_index = f}
      total(f) == written_[f] + (IF at(f) = {} THEN 0 ELSE fps[CHOOSE n \in at(f) : TRUE].bytes_count)
  IN  /\ created' = created \union {fps[n].file_index : n \in done}
      /\ disk' = [f \in File |->
           IF at(f) = {} THEN disk[f] ELSE Written(i, fps[CHOOSE n \in at(f) : TRUE])]
      /\ written_' = [f \in File |-> total(f)]
      /\ file_' = [f \in File |-> IF at(f) = {} THEN file_[f] ELSE StaysOpen(f, total(f))]
      /\ IF done # DOMAIN fps THEN Stop("on_write_file_piece") /\ UNCHANGED pieces
         ELSE IF \E f \in File : total(f) > FileSize(f)
           THEN Stop("try_finalize") /\ UNCHANGED pieces
         ELSE pieces' = pieces \union {i} /\ UNCHANGED <<state, failed_assert>>

\* write_piece, called by on_piece_downloaded.
write_piece(i) ==
  LET start == PieceStart(torrent.size, i)
      end == PieceEnd(files_offset_, torrent.size, i)
  IN  /\ state = "writing"
      /\ i \notin pieces
      /\ IF IterateAccepted(files_offset_, start, end)
              /\ RangeConsumed(FilePieces(files_offset_, start, end), start, end)
           THEN \E fps \in {FilePieces(files_offset_, start, end)} : WriteAll(i, fps)
           ELSE /\ Stop("iterate_files")
                /\ UNCHANGED <<file_, written_, disk, created, pieces>>
      /\ SameTorrent /\ UNCHANGED taken

total_written == get_total_size_bytes(written_)

\* The end of main: all pieces are there.
Exit ==
  /\ state = "writing"
  /\ pieces = PieceIndex
  /\ IF total_written = total_size_
       THEN state' = "exited" /\ UNCHANGED failed_assert
       ELSE Stop("exit")
  /\ SameTorrent /\ UNCHANGED <<taken, file_, written_, disk, created, pieces>>

Terminated == state # "writing" /\ UNCHANGED vars

Next == (\E i \in PieceIndex : write_piece(i)) \/ Exit \/ Terminated

Spec == Init /\ [][Next]_vars /\ WF_vars(Exit \/ \E i \in PieceIndex : write_piece(i))

-----------------------------------------------------------------------------
(* Properties.                                                             *)

TypeOK ==
  /\ torrent \in Torrents
  /\ files_offset_ \in Seq([start : Nat, end : Nat])
  /\ taken \subseteq File
  /\ file_ \in [File -> BOOLEAN]
  /\ written_ \in [File -> Nat]
  /\ \A f \in File : disk[f] \in [0 .. FileSize(f) - 1 -> (0 .. total_size_) \union {Blank, Other}]
  /\ created \subseteq File
  /\ pieces \subseteq PieceIndex
  /\ state \in {"writing", "exited", "aborted"}
  /\ failed_assert \in {"none", "iterate_files", "on_write_file_piece", "try_finalize", "exit"}

\* The byte of the torrent that belongs at offset o of file f, and its piece.
BytePlace(f, o) == files_offset_[f].start + o
PieceOf(f, o) == BytePlace(f, o) \div torrent.size

\* After any set of pieces in any order the files hold exactly the bytes of
\* those pieces, each at its place, however the pieces straddle the files:
\* iterate_files neither overlaps nor leaves a gap nor shifts a byte.
\* (An abort may stop in the middle of a piece.)
DiskExact ==
  state # "aborted" =>
    \A f \in File \ taken : \A o \in DOMAIN disk[f] :
      disk[f][o] = IF PieceOf(f, o) \in pieces THEN BytePlace(f, o) ELSE Blank

\* A file that was there before the program started is never touched, not
\* even by the piece that fails on it.
TakenFilesKept == \A f \in taken : disk[f] = Full(f, Other)

\* A handle is valid exactly while its file is created and incomplete: it
\* is not closed before the last byte, after which a second create would
\* fail, and no handle outlives its file's last byte.
HandleMatchesProgress ==
  state # "aborted" =>
    \A f \in File \ taken :
      /\ written_[f] = Cardinality({o \in DOMAIN disk[f] : disk[f][o] # Blank})
      /\ file_[f] <=> f \in created /\ written_[f] < FileSize(f)

\* A file of no bytes with a file of some bytes after it.
HasInnerEmptyFile == \E f, g \in File : f < g /\ FileSize(f) = 0 /\ FileSize(g) > 0

\* The program stops before its end only because a file's name is taken,
\* the case CREATE_NEW is there for, or because the torrent has an empty
\* file that is not at its end, which iterate_files and on_write_file_piece
\* do not provide for: two files then start at the same offset.
AbortsOnlyForCause ==
  state = "aborted" =>
    \/ failed_assert = "on_write_file_piece" /\ taken # {}
    \/ failed_assert \in {"iterate_files", "on_write_file_piece"} /\ HasInnerEmptyFile

\* get_piece_size, which computes the last piece in 32 bits, agrees with
\* the range iterate_files gives the piece: the buffer is written in full.
BufferMatchesRange ==
  \A i \in PieceIndex : SizeOf(i) = PieceEnd(files_offset_, torrent.size, i) - PieceStart(torrent.size, i)

\* When no name is taken, no file but the last ones is empty and all pieces
\* arrive, every file of some bytes is created, complete and closed, and
\* main's last assertion holds.  (An empty last file is never created.)
FilesComplete ==
  taken = {} /\ ~HasInnerEmptyFile =>
    <>(/\ state = "exited"
       /\ created = {f \in File : FileSize(f) > 0}
       /\ \A f \in File : ~file_[f] /\ Blank \notin {disk[f][o] : o \in DOMAIN disk[f]})

\* The assertions of iterate_files and of on_write_file_piece hold for every
\* torrent TorrentClient::make accepts.
WriteAssertsHold == failed_assert = "none"
=============================================================================
