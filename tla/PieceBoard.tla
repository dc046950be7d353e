----------------------------- MODULE PieceBoard -----------------------------
(***************************************************************************)
(* What the download engine promises: connections work on pieces, one      *)
(* piece at a time and never two on the same piece; a piece that is done   *)
(* is in the files, whole, for good and is not worked on again.            *)
(***************************************************************************)
CONSTANTS Peer, Piece, NoPiece

VARIABLES working,  \* the piece each peer is asked for
          files     \* what the files hold of each piece

board == <<working, files>>

Init ==
  /\ working = [p \in Peer |-> NoPiece]
  /\ files = [i \in Piece |-> "absent"]

Claim(p, i) ==
  /\ working[p] = NoPiece
  /\ \A q \in Peer : working[q] # i
  /\ files[i] = "absent"
  /\ working' = [working EXCEPT ![p] = i]
  /\ UNCHANGED files

Release(p) ==
  /\ working[p] # NoPiece
  /\ working' = [working EXCEPT ![p] = NoPiece]
  /\ UNCHANGED files

Store(p) ==
  /\ working[p] # NoPiece
  /\ files' = [files EXCEPT ![working[p]] = "whole"]
  /\ working' = [working EXCEPT ![p] = NoPiece]

Next == \E p \in Peer : (\E i \in Piece : Claim(p, i)) \/ Release(p) \/ Store(p)

Spec == Init /\ [][Next]_board
=============================================================================
