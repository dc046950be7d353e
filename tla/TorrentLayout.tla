--------------------------- MODULE TorrentLayout ---------------------------
(***************************************************************************)
(* The geometry of a torrent: PiecesCount pieces of PieceSize bytes, the   *)
(* last one shorter, TotalSize bytes in all.  The client keeps the count   *)
(* and the piece size in 32-bit unsigned integers and the total in a       *)
(* 64-bit one, and multiplies the first two in 32 bits.                    *)
(*                                                                         *)
(* Word is 2^32 in the program.  It is a parameter so that a small         *)
(* instance can reach the wrap-around.                                     *)
(***************************************************************************)
EXTENDS Integers

CONSTANT Word

ASSUME WordAssumption == Word \in Nat \ {0}

\* The value of an integer expression computed in std::uint32_t.
U32(n) == n % Word

\* The layouts TorrentClient::make lets through: its asserts compute in 64
\* bits.  The two 32-bit parameters are conversions done before.
ValidLayout(count, size, total) ==
  /\ count \in 1 .. Word - 1
  /\ size \in 1 .. Word - 1
  /\ total \in Nat
  /\ size * (count - 1) < total
  /\ total - size * (count - 1) <= size

\* PiecesToDownload::get_piece_size for a copy of the layout: the product is
\* a 32-bit one and so is the result of the subtraction.
BytesBeforeLast(count, size) == U32(size * (count - 1))

\* Mutant: the last piece as long as the others.
get_piece_size_all_equal(count, size, total, index) ==
  IF index < count THEN size
                   ELSE U32(total - BytesBeforeLast(count, size))

get_piece_size(count, size, total, index) ==
  IF index < count - 1 THEN size
                       ELSE U32(total - BytesBeforeLast(count, size))

\* What get_piece_size has to return: the bytes of the piece, unbounded.
PieceBytes(count, size, total, index) ==
  IF index < count - 1 THEN size ELSE total - size * (count - 1)
=============================================================================
