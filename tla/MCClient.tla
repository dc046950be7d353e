------------------------------ MODULE MCClient ------------------------------
(* Two connections, two pieces, two files that the first piece straddles.  *)
EXTENDS Client

CONSTANTS p1, p2

TwoPeers == {p1, p2}
OneSeeder == {p1}
\* No tracker answers, the peer with all pieces is missing, all peers.
SomeReplies == {{}, {p2}, TwoPeers}
TwoFiles == <<1, 5>>
=============================================================================
