----------------------------- MODULE MCPeerWire -----------------------------
(* Messages of every kind the reader tells apart.                          *)
EXTENDS PeerWire

SomeMessages ==
  {KeepAlive,
   Message("Have", <<0>>, <<>>),       \* in the bitfield already
   Message("Have", <<10>>, <<>>),      \* in its second byte
   Message("Have", <<300>>, <<>>),     \* beyond it
   Message("Bitfield", <<>>, <<129, 64>>),
   Message("Piece", <<0, 258>>, <<0, 7>>),
   Message("Request", <<0, 0, 2>>, <<>>),
   Message("extended", <<>>, <<0>>)}

SomeBadPayloads ==
  {<<4, 0, 0, 0, 0, 1>>, <<4, 0, 1>>,                    \* Have
   <<7, 0, 0, 0, 0, 0, 0, 0, 0>>, <<7, 0, 0, 0, 0, 0>>}  \* Piece

SomeRequests == {Message("Request", <<0, 0, 2>>, <<>>)}
=============================================================================
