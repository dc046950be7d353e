---------------------------- MODULE MCFilesOnDisk ----------------------------
(* Torrents of one to three small files, of every piece size.              *)
EXTENDS FilesOnDisk

CONSTANTS MaxFiles, MinLength, MaxLength, MaxPieceSize

Layouts == UNION {[1 .. n -> MinLength .. MaxLength] : n \in 1 .. MaxFiles}

\* The number of pieces that hold total bytes.
CountFor(total, size) == (total + size - 1) \div size

SmallTorrents ==
  {[lengths |-> l, size |-> s, count |-> CountFor(EndOfFile(l)[Len(l)], s)] :
     l \in {layout \in Layouts : EndOfFile(layout)[Len(layout)] > 0}, s \in 1 .. MaxPieceSize}
=============================================================================
