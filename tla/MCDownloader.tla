---------------------------- MODULE MCDownloader ----------------------------
(* Small instances of Downloader.                                          *)
EXTENDS Downloader, TLC

CONSTANTS p1, p2

TwoPeers == {p1, p2}
\* Any list, and the empty one when no tracker answers.
AnyReply == SUBSET TwoPeers
PeerSymmetry == Permutations(TwoPeers)
=============================================================================
