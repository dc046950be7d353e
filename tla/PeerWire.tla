------------------------------ MODULE PeerWire ------------------------------
(***************************************************************************)
(* The bytes of one connection to a peer: the handshake, the messages read *)
(* by ReadAnyMessage, those written by SendMessage (torrent_messages.cpp,  *)
(* torrent_messages.h), and the bitfield they lead to.  The connection is  *)
(* two streams of bytes that may be cut anywhere.                          *)
(*                                                                         *)
(* What the peer sends, and how it reads, is from the protocol description *)
(* the source refers to (BEP 3).                                           *)
(***************************************************************************)
EXTENDS BytesReader, SequencesExt, FiniteSetsExt

CONSTANTS
  Messages,     \* what a peer sends: messages, see Message below
  BadPayloads,  \* and the bytes of messages that are not well-formed
  Requests,     \* the requests the client sends
  MaxReceived,  \* messages the peer sends
  MaxSent       \* messages of the client after which it has no more requests

\* sizeof(std::uint32_t).
WordSize == 4

\* Message_Handshake: the sizes of reserved_, info_hash_ and peer_id_, and
\* "BitTorrent protocol".
ReservedSize == 8
HashSize == 20
PeerIdSize == 20
k_protocol == <<66, 105, 116, 84, 111, 114, 114, 101, 110, 116, 32, 112, 114, 111, 116, 111, 99, 111, 108>>
HandshakeSize == 1 + Len(k_protocol) + ReservedSize + HashSize + PeerIdSize

\* The identifiers of PeerMessageId.
MessageId == [Choke |-> 0, Unchoke |-> 1, Interested |-> 2, NotInterested |-> 3, Have |-> 4,
              Bitfield |-> 5, Request |-> 6, Piece |-> 7, Cancel |-> 8]
Types == DOMAIN MessageId

\* A message.  words are its 32-bit fields, bytes what follows them.
Message(type, words, bytes) == [type |-> type, words |-> words, bytes |-> bytes]
KeepAlive == Message("KeepAlive", <<>>, <<>>)
Malformed == Message("malformed", <<>>, <<>>)

VARIABLES
  pc,         \* the await of the coroutine
  stream,     \* bytes from the peer that are not read
  eof,        \* the peer has closed the connection
  length,     \* of the message being read, 0 before it is known
  bitfield_,  \* data_ of the bitfield without the identifier
  messages,   \* the messages read
  outgoing,   \* bytes from the client the peer has not read
  handshake, received, sent, understood
              \* what was sent by the peer and by the client, and what the peer
              \* read, as the bytes after the length

peerVars == <<eof, handshake, received>>
sendVars == <<outgoing, sent, understood>>
vars == <<pc, stream, length, bitfield_, messages, peerVars, sendVars>>

NoHandshake == "none"

Init ==
  /\ pc = "handshake"
  /\ stream = <<>> /\ eof = FALSE /\ length = 0
  /\ bitfield_ = <<>> /\ messages = <<>>
  /\ outgoing = <<>> /\ handshake = NoHandshake
  /\ received = <<>> /\ sent = <<>> /\ understood = <<>>

-----------------------------------------------------------------------------
(* Bytes.                                                                  *)

native_to_big(n) == <<n \div 16777216, (n \div 65536) % 256, (n \div 256) % 256, n % 256>>
big_to_native(b) == ((b[1] * 256 + b[2]) * 256 + b[3]) * 256 + b[4]

Drop(s, n) == SubSeq(s, n + 1, Len(s))

\* What follows the length of a message.
Payload(m) ==
  IF m.type = "KeepAlive" THEN <<>>
  ELSE <<IF m.type \in Types THEN MessageId[m.type] ELSE 20>>
         \o FlattenSeq([k \in DOMAIN m.words |-> native_to_big(m.words[k])]) \o m.bytes

\* What a peer of this protocol sends, of the messages the reader parses: a
\* piece has data, and everything fits its field.
Byte == 0 .. 255
FitsWord(n) == n \in Nat /\ n \div 16777216 \in Byte
WellFormed(m) ==
  /\ m = Message(m.type, m.words, m.bytes) /\ m.type # "malformed"
  /\ m.words \in Seq(Nat) /\ \A k \in DOMAIN m.words : FitsWord(m.words[k])
  /\ m.bytes \in Seq(Byte) /\ FitsWord(Len(Payload(m)))
  /\ m.type = "Have" => Len(m.words) = 1 /\ m.bytes = <<>>
  /\ m.type = "Piece" => Len(m.words) = 2 /\ m.bytes # <<>>
  /\ m.type = "Bitfield" => m.words = <<>>

\* What is not parsed: a Have, or a Piece, of another size.
IllFormed(payload) ==
  /\ payload \in Seq(Byte) /\ payload # <<>> /\ FitsWord(Len(payload))
  /\ \/ payload[1] = MessageId.Have /\ Len(payload) # 1 + WordSize
     \/ payload[1] = MessageId.Piece /\ Len(payload) <= 1 + 2 * WordSize

ASSUME PeerWireAssumption ==
  /\ \A m \in Messages : WellFormed(m)
  /\ \A payload \in BadPayloads : IllFormed(payload)

\* The length a peer writes counts what follows it.
Frame(payload) == native_to_big(Len(payload)) \o payload

\* Message_Base::serialize and those of Have and Request: the length is k_size
\* or k_size_no_payload, the size of the whole buffer.
serialize(m) == native_to_big(WordSize + Len(Payload(m))) \o Payload(m)

-----------------------------------------------------------------------------
(* The bitfield, most significant bit first.                               *)

\* 1u << (7u - offset).
Masks == <<128, 64, 32, 16, 8, 4, 2, 1>>

\* Mutant: least significant bit first.
MaskLowFirst(index) == Masks[8 - (index % 8)]

Mask(index) == Masks[(index % 8) + 1]

has_piece(data, index) ==
  index \div 8 < Len(data) /\ (data[index \div 8 + 1] \div Mask(index)) % 2 = 1

set_piece(data, index) ==
  IF index \div 8 >= Len(data) \/ has_piece(data, index) THEN data
  ELSE [data EXCEPT ![index \div 8 + 1] = @ + Mask(index)]

-----------------------------------------------------------------------------
(* Parsing.                                                                *)

TypeOf(id) ==
  IF \E t \in Types : MessageId[t] = id THEN CHOOSE t \in Types : MessageId[t] = id ELSE "Unknown"

\* Mutant: the identifier is not read.
HaveFieldsNoId == <<WordSize>>

\* The fields Message_Have::ParseNetwork and Message_Piece::ParseNetwork read.
HaveFields == <<1, WordSize>>
PieceFields == <<1, WordSize, WordSize>>

\* MakeMessage: the set of at most one message the bytes after the length are.
\* Have, Bitfield and Piece have a ParseNetwork of their own, the others
\* ignore what follows the identifier.
MakeMessage(data) ==
  LET type == TypeOf(data[1])
      have == Reads(data, HaveFields)
      part == Reads(data, PieceFields)
  IN CASE type = "Have" ->
            IF finalize(have) THEN {Message(type, <<big_to_native(Last(have.fields))>>, <<>>)} ELSE {}
       [] type = "Piece" ->
            IF get_remaining(part) \notin {0, -1}
            THEN {Message(type, <<big_to_native(part.fields[2]), big_to_native(part.fields[3])>>, part.rest)}
            ELSE {}
       [] type = "Bitfield" -> {Message(type, <<>>, Tail(data))}
       [] OTHER -> {Message(type, <<>>, <<>>)}

-----------------------------------------------------------------------------
(* The peer.  What it does after the client is gone does not matter.       *)

Open == pc \notin {"closed", "aborted"}

\* Only whether two hashes, or two ids, differ matters: one byte fills them.
TorrentHash == 7
PeerId == 8
Fill(byte, size) == [k \in 1 .. size |-> byte]

\* Message_Handshake::SerializeDefault, for any protocol, extensions and hash.
SerializeHandshake(pstr, reserved, info_hash) ==
  <<Len(pstr)>> \o pstr \o Fill(reserved, ReservedSize)
    \o Fill(info_hash, HashSize) \o Fill(PeerId, PeerIdSize)

\* A peer of the torrent, which has extensions, and others: of another
\* torrent, or of a protocol with a name as long or longer.
Handshake ==
  [torrent         |-> SerializeHandshake(k_protocol, 16, TorrentHash),
   other_torrent   |-> SerializeHandshake(k_protocol, 0, TorrentHash + 1),
   other_protocol  |-> SerializeHandshake(Tail(k_protocol) \o <<0>>, 0, TorrentHash),
   longer_protocol |-> SerializeHandshake(k_protocol \o <<0>>, 0, TorrentHash)]
Handshakes == DOMAIN Handshake

PeerHandshakes ==
  /\ Open /\ handshake = NoHandshake /\ ~eof
  /\ handshake' \in Handshakes
  /\ UNCHANGED <<pc, stream, length, bitfield_, messages, eof, received, sendVars>>

Send(m, payload) ==
  /\ received' = Append(received, m)
  /\ stream' = stream \o Frame(payload)

PeerSends ==
  /\ Open /\ handshake # NoHandshake /\ ~eof /\ Len(received) < MaxReceived
  /\ \/ \E m \in Messages : Send(m, Payload(m))
     \/ \E payload \in BadPayloads : Send(Malformed, payload)
  /\ UNCHANGED <<pc, length, bitfield_, messages, eof, handshake, sendVars>>

\* The connection ends; what was on its way may be lost from any byte on.
PeerCloses ==
  /\ Open /\ ~eof
  /\ eof' = TRUE
  /\ stream' \in Prefixes(stream)
  /\ UNCHANGED <<pc, length, bitfield_, messages, handshake, received, sendVars>>

\* The peer reads a message: a length and as many bytes.
PeerReads ==
  /\ Len(outgoing) >= WordSize
  /\ LET n == big_to_native(SubSeq(outgoing, 1, WordSize))
     IN /\ Len(outgoing) >= WordSize + n
        /\ understood' = Append(understood, SubSeq(outgoing, WordSize + 1, WordSize + n))
        /\ outgoing' = Drop(outgoing, WordSize + n)
  /\ UNCHANGED <<pc, stream, length, bitfield_, messages, peerVars, sent>>

-----------------------------------------------------------------------------
(* The client.                                                             *)

\* Message_Handshake::ParseNetwork: the name of the protocol is as long as
\* its first byte says.
ParseHandshake(buffer) ==
  Reads(buffer, <<1, buffer[1], ReservedSize, HashSize, PeerIdSize>>)

\* Mutant: the hash is not compared.
IsValidResponseAnyHash(fields) ==
  fields[1] = <<Len(k_protocol)>> /\ fields[2] = k_protocol

IsValidHandshakeResponse(fields) ==
  /\ fields[1] = <<Len(k_protocol)>> /\ fields[2] = k_protocol
  /\ fields[4] = Fill(TorrentHash, HashSize)

\* The handshakes the client takes, in a buffer of the size of its own.
ValidHandshakes ==
  {h \in Handshakes :
     LET parsed == ParseHandshake(SubSeq(Handshake[h], 1, HandshakeSize))
     IN finalize(parsed) /\ IsValidHandshakeResponse(parsed.fields)}

HandshakeRead ==
  /\ pc = "handshake" /\ handshake # NoHandshake
  /\ pc' = IF handshake \in ValidHandshakes THEN "bitfield" ELSE "closed"
  /\ UNCHANGED <<stream, length, bitfield_, messages, peerVars, sendVars>>

\* The await the loop goes on to: to send a request, or to read.  When there is
\* a request to send (the peer has unchoked the client, the backlog has room)
\* is left to Downloader.
NextAwait == {"messages"} \union (IF Len(sent) < MaxSent THEN {"request"} ELSE {})

\* After a part the piece may be whole, which is announced.
AwaitAfter(m) == NextAwait \union (IF m.type = "Piece" THEN {"have"} ELSE {})

\* The message read is handed to DownloadFromPeer, which expects a bitfield
\* first, or to the loop, which asserts that it has a handler for it.
Deliver(m) ==
  /\ messages' = Append(messages, m)
  /\ \/ /\ pc = "bitfield"
        /\ pc' = IF m.type = "Bitfield" THEN "unchoke" ELSE "closed"
        /\ bitfield_' = m.bytes
     \/ /\ pc = "messages"
        /\ pc' \in IF m.type \in {"KeepAlive", "Choke", "Unchoke", "Have", "Piece"}
                   THEN AwaitAfter(m) ELSE {"aborted"}
        /\ bitfield_' = IF m.type = "Have" THEN set_piece(bitfield_, m.words[1]) ELSE bitfield_

Reading == pc \in {"bitfield", "messages"}

\* Mutant: waits for a byte after the length.
LengthReceivedLate == Len(stream) > WordSize

LengthReceived == Len(stream) >= WordSize

\* ReadAnyMessage: the length.  A message of length 0 is a keep-alive.
ReadLength ==
  /\ Reading /\ length = 0 /\ LengthReceived
  /\ stream' = Drop(stream, WordSize)
  /\ length' = big_to_native(SubSeq(stream, 1, WordSize))
  /\ IF length' = 0 THEN Deliver(KeepAlive) ELSE UNCHANGED <<pc, bitfield_, messages>>
  /\ UNCHANGED <<peerVars, sendVars>>

\* Mutant: the identifier is not counted.
DataSizeNoId == length - 1

\* data.resize(length).
DataSize == length

\* The bytes of the message.  One that cannot be parsed ends the connection.
ReadData ==
  /\ Reading /\ length > 0 /\ Len(stream) >= length
  /\ LET data == SubSeq(stream, 1, DataSize)
     IN \/ \E m \in MakeMessage(data) : Deliver(m)
        \/ /\ MakeMessage(data) = {}
           /\ pc' = "closed"
           /\ UNCHANGED <<bitfield_, messages>>
  /\ stream' = Drop(stream, DataSize)
  /\ length' = 0
  /\ UNCHANGED <<peerVars, sendVars>>

\* async_read meets the end of the stream before it has what it waits for.
ReadFails ==
  /\ eof
  /\ \/ pc = "handshake" /\ handshake = NoHandshake
     \/ Reading /\ length = 0 /\ ~LengthReceived
     \/ Reading /\ length > 0 /\ Len(stream) < length
  /\ pc' = "closed"
  /\ UNCHANGED <<stream, length, bitfield_, messages, peerVars, sendVars>>

SendMessage(m) ==
  /\ outgoing' = outgoing \o serialize(m)
  /\ sent' = Append(sent, m)
  /\ UNCHANGED <<stream, length, bitfield_, messages, peerVars, understood>>

\* The loop takes its first or next piece: pop_piece_to_download may have none
\* for this peer, which ends the connection.
TakesPiece == pc' \in NextAwait' \union {"closed"}

SendUnchoke ==
  /\ pc = "unchoke"
  /\ SendMessage(Message("Unchoke", <<>>, <<>>))
  /\ pc' = "interested"

SendInterested ==
  /\ pc = "interested"
  /\ SendMessage(Message("Interested", <<>>, <<>>))
  /\ TakesPiece

\* A message is read before the next request is sent.
SendRequest ==
  /\ pc = "request"
  /\ \E m \in Requests : SendMessage(m)
  /\ pc' = "messages"

\* The piece that is whole is the one the last part read is of.
SendHave ==
  /\ pc = "have"
  /\ SendMessage(Message("Have", <<Last(messages).words[1]>>, <<>>))
  /\ TakesPiece

SendFails ==
  /\ eof /\ pc \in {"unchoke", "interested", "request", "have"}
  /\ pc' = "closed"
  /\ UNCHANGED <<stream, length, bitfield_, messages, peerVars, sendVars>>

Terminated == pc \in {"closed", "aborted"} /\ UNCHANGED vars

Next ==
  \/ PeerHandshakes \/ PeerSends \/ PeerCloses \/ PeerReads
  \/ HandshakeRead \/ ReadLength \/ ReadData \/ ReadFails
  \/ SendUnchoke \/ SendInterested \/ SendRequest \/ SendHave \/ SendFails
  \/ Terminated

\* The io_context runs what is ready: what has arrived is read, what is to be
\* sent is taken by the system.  The peer owes nothing.
Spec ==
  /\ Init /\ [][Next]_vars
  /\ WF_vars(HandshakeRead) /\ WF_vars(ReadLength) /\ WF_vars(ReadData)
  /\ WF_vars(ReadFails) /\ WF_vars(SendUnchoke) /\ WF_vars(SendInterested)
  /\ WF_vars(SendRequest) /\ WF_vars(SendHave)

-----------------------------------------------------------------------------
(* Properties.                                                             *)

TypeOK ==
  /\ pc \in {"handshake", "bitfield", "unchoke", "interested", "request", "messages", "have",
             "closed", "aborted"}
  /\ stream \in Seq(0 .. 255) /\ bitfield_ \in Seq(0 .. 255) /\ outgoing \in Seq(0 .. 255)
  /\ length \in Nat /\ eof \in BOOLEAN
  /\ Len(received) <= MaxReceived
  /\ Len(messages) <= MaxReceived
  /\ length > 0 => pc \in {"bitfield", "messages", "closed"}

\* What is known of a message when it is read: the arguments of those the loop
\* has no handler for are not parsed.
Parsed(m) ==
  IF m.type \in {"Have", "Piece", "Bitfield", "malformed"} THEN m
  ELSE Message(IF m.type \in Types \union {"KeepAlive"} THEN m.type ELSE "Unknown", <<>>, <<>>)

IsBitfield(m) == m.type = "Bitfield"

Channel == INSTANCE MessageChannel WITH
  FirstMessage <- IsBitfield,
  open <- Open, genuine <- handshake = "torrent",
  sent <- [k \in DOMAIN received |-> Parsed(received[k])], delivered <- messages, said <- sent

\* The code above the reader sees whole messages in the order they were sent
\* and nothing else, whatever is in them, keep-alives and unknown messages
\* included; it is handed nothing by, and says nothing to, one that did not
\* show that it is a peer of this torrent or did not begin with its bitfield.
ImplementsChannel == Channel!Spec

\* No message is waited for that is there: as long as the peer does not close
\* the connection, each message it sends is read or ends the connection
\* (a length or a message of which the last byte is missed would block the
\* coroutine, which has no timeout, for ever).
MessagesArrive ==
  \A n \in 1 .. MaxReceived :
    Len(received) = n ~> (Len(messages) >= n \/ eof \/ ~Open)

\* The messages not read, as the peer wrote them.
Rest == FlattenSeq([k \in 1 .. Len(received) - Len(messages) |->
                     Frame(Payload(received[Len(messages) + k]))])
NoMalformed == Malformed \notin ToSet(received)
\* Until the connection ends, the bytes not read are those of the messages not
\* read: a message is neither left in part nor read beyond its end
\* (ReadAnyMessage, data.resize).
FramingKept ==
  Open /\ ~eof /\ NoMalformed =>
    stream = Drop(Rest, IF length = 0 THEN 0 ELSE WordSize)

\* A piece is taken next: the client has said that it is interested, or that it
\* has the piece of the last part it read.
BetweenPieces ==
  \/ Last(sent).type = "Interested"
  \/ Last(sent).type = "Have" /\ Last(messages).type = "Piece"

\* The client gives up a connection only if the other side closed it, it is not
\* a peer of this torrent, it began with something other than its bitfield,
\* what it sent next is not well-formed, or, as it ends what it said between
\* two pieces, there is none to take.  A well-formed message never ends it
\* (MakeMessage, ReadMessage), nor does the loop in the middle of a piece.
GivesUpForCause ==
  [][Open /\ pc' = "closed" =>
       \/ eof
       \/ handshake # "torrent"
       \/ received[1].type # "Bitfield"
       \/ sent' # sent /\ BetweenPieces'
       \/ received[Len(messages) + 1] = Malformed]_vars

\* The pieces of a bitfield, by the description of the protocol: the high bit
\* of the first byte is piece 0.
Value(bits) ==
  128 * bits[0] + 64 * bits[1] + 32 * bits[2] + 16 * bits[3]
    + 8 * bits[4] + 4 * bits[5] + 2 * bits[6] + bits[7]
BitsOf(byte) == CHOOSE bits \in [0 .. 7 -> 0 .. 1] : Value(bits) = byte
Bits(bytes) == 0 .. 8 * Len(bytes) - 1
Announced(bytes) ==
  LET bits == [k \in DOMAIN bytes |-> BitsOf(bytes[k])]
  IN {i \in Bits(bytes) : bits[i \div 8 + 1][i % 8] = 1}
HavesOf(read) == {read[k].words[1] : k \in {j \in DOMAIN read : read[j].type = "Have"}}

\* The pieces the client thinks the peer has are those of the bitfield it sent
\* and of its Have messages that were read (has_piece, set_piece).
BitfieldExact ==
  pc \in {"request", "messages", "have"} =>
    LET all == Bits(received[1].bytes)
        known == {i \in all : has_piece(bitfield_, i)}
    IN known = all \intersect (Announced(received[1].bytes) \union HavesOf(messages))

\* The peer reads the messages the client sent.
PeerUnderstands == IsPrefix(understood, [k \in DOMAIN sent |-> Payload(sent[k])])
=============================================================================
