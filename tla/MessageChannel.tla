--------------------------- MODULE MessageChannel ---------------------------
(***************************************************************************)
(* What a connection promises to the code above ReadMessage and            *)
(* SendMessage: the messages of one peer that follows the torrent, whole   *)
(* and in the order sent, until one side gives up.                         *)
(***************************************************************************)
EXTENDS Sequences, Integers

CONSTANT FirstMessage(_)   \* whether a message may be the first one of a peer

VARIABLES
  open,       \* the client has not given up the connection
  genuine,    \* the peer has shown that it follows the torrent
  sent, delivered,   \* the peer's messages, and those the client was handed
  said        \* the client's messages

channel == <<open, genuine, sent, delivered, said>>

Init ==
  /\ open = TRUE /\ genuine = FALSE
  /\ sent = <<>> /\ delivered = <<>> /\ said = <<>>

PeerActs ==
  /\ open
  /\ genuine => genuine'
  /\ \/ sent' = sent
     \/ Len(sent') = Len(sent) + 1 /\ SubSeq(sent', 1, Len(sent)) = sent
  /\ UNCHANGED <<open, delivered, said>>

\* The client may give up because of the message.
Deliver ==
  /\ open /\ genuine
  /\ Len(delivered) < Len(sent)
  /\ delivered' = Append(delivered, sent[Len(delivered) + 1])
  /\ open' => FirstMessage(delivered'[1])
  /\ UNCHANGED <<genuine, sent, said>>

\* The client says nothing before the peer has introduced itself.  It may give
\* up when it has said it.
Say ==
  /\ open /\ genuine /\ delivered # <<>>
  /\ Len(said') = Len(said) + 1 /\ SubSeq(said', 1, Len(said)) = said
  /\ open' \in BOOLEAN
  /\ UNCHANGED <<genuine, sent, delivered>>

GiveUp == open' = FALSE /\ UNCHANGED <<genuine, sent, delivered, said>>

Next == PeerActs \/ Deliver \/ Say \/ GiveUp

Spec == Init /\ [][Next]_channel
=============================================================================
