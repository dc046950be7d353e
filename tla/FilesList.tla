------------------------------ MODULE FilesList ------------------------------
(***************************************************************************)
(* struct FilesList of main.cpp: where the bytes of a piece go.  A torrent *)
(* gives the lengths of its files, in order, and the piece size.  Files are*)
(* numbered from 1.                                                        *)
(***************************************************************************)
EXTENDS TorrentLayout, Sequences

\* The end of the files 1 .. k, laid end to end.
EndOfFile(lengths) ==
  LET sum[k \in 0 .. Len(lengths)] == IF k = 0 THEN 0 ELSE sum[k - 1] + lengths[k]
  IN  sum

get_total_size_bytes(lengths) == EndOfFile(lengths)[Len(lengths)]

\* FilesList::make: the range [start, end) of each file.
FilesListMake(lengths) ==
  [k \in DOMAIN lengths |-> [start |-> EndOfFile(lengths)[k - 1], end |-> EndOfFile(lengths)[k]]]

Starts(files) == [k \in DOMAIN files |-> files[k].start]
Ends(files) == [k \in DOMAIN files |-> files[k].end]

\* std::lower_bound from position lo on: the first key that is not less
\* than value, the position past the end if all are.
LowerBound(keys, lo, value) ==
  CHOOSE k \in lo .. Len(keys) + 1 :
    /\ k \in DOMAIN keys => keys[k] >= value
    /\ \A l \in lo .. k - 1 : keys[l] < value

\* Mutant: no step back to the file that starts before start_bytes.
StartFileAfter(files, start) ==
  LET found == LowerBound(Starts(files), 1, start)
  IN  IF found > Len(files) THEN Len(files) ELSE found

\* The file start_bytes is in.
StartFile(files, start) ==
  LET found == LowerBound(Starts(files), 1, start)
      inside == IF found > Len(files) THEN Len(files) ELSE found
  IN  IF files[inside].start > start THEN inside - 1 ELSE inside

\* The file end_bytes is in; past the last one if there is none.
EndFile(files, start, end) ==
  LowerBound(Ends(files), StartFile(files, start), end)

\* The assertions of iterate_files(start_bytes, end_bytes, f) before its loop.
IterateAccepted(files, start, end) ==
  /\ end > start
  /\ LET first == files[StartFile(files, start)] IN start >= first.start /\ start < first.end
  /\ EndFile(files, start, end) <= Len(files)
  /\ LET last == files[EndFile(files, start, end)] IN end > last.start /\ end <= last.end

\* The calls f(FilePiece) of its loop, in order.
FilePieces(files, start, end) ==
  LET first == StartFile(files, start)
      last == EndFile(files, start, end)
      from(k) == IF files[k].start < start THEN start ELSE files[k].start
      to(k) == IF files[k].end < end THEN files[k].end ELSE end
      data_offset[k \in first .. last] ==
        IF k = first THEN 0 ELSE data_offset[k - 1] + (to(k - 1) - from(k - 1))
  IN  [n \in 1 .. last - first + 1 |->
         LET k == first + n - 1
         IN  [file_index   |-> k,
              file_offset  |-> from(k) - files[k].start,
              bytes_count  |-> to(k) - from(k),
              piece_offset |-> data_offset[k]]]

\* The assertion after the loop.
RangeConsumed(fps, start, end) ==
  LET last == fps[Len(fps)] IN last.piece_offset + last.bytes_count = end - start

\* iterate_files(piece_index, f): both products are 32-bit ones.
PieceStart(size, index) == U32(index * size)
PieceEnd(files, size, index) ==
  LET end == U32((index + 1) * size)
      total_size == files[Len(files)].end
  IN  IF end < total_size THEN end ELSE total_size
=============================================================================
