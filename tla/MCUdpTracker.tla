---------------------------- MODULE MCUdpTracker ----------------------------
(* Lists of up to two peers.                                               *)
EXTENDS UdpTracker

CONSTANTS a, b

ShortLists == {<<>>, <<a>>, <<a, b>>}
=============================================================================
