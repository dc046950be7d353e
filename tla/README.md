# Verification of bittorrent_client

TLA+ models of the BitTorrent client in `src/src`, TLC configurations that
check them on small instances, and TLAPS proofs of the download engine, of the
files, of the two together over crashes and restarts, and of the UDP tracker
client for every instance. The program reads a torrent file, asks trackers for peers,
downloads all pieces from them and writes the files; it is a leecher, it never
uploads. Everything below is read from the source; line numbers are those of
the files under `src/`.

## 1. Inventory

| component | state | operations | interacts with |
|---|---|---|---|
| Piece queue, `PiecesToDownload` (main.cpp 51-204) | `pieces_`, `to_retry_`, `next_piece_index_`, `downloaded_pieces_count_`; per `PieceState` `downloaded_`, `requested_`, `data_` | pop, push to retry, part received, piece downloaded | shared by all peer coroutines; `on_new_piece` callback to the files |
| Peer coroutine, `DownloadFromPeer`, `TryDownloadPiecesFromPeer` (main.cpp 205-310) | piece handle, `backlog`, the peer's bitfield and choke flag | connect, bitfield, unchoke, interested, request, read, have | one per peer; all on one `io_context` and one thread |
| Rounds, `DoOneTrackerRound`, `main` (main.cpp 312-361, 639-772) | the count of finished pieces | ask trackers, spawn, wait, repeat | the two above, tracker selection |
| Files, `FilesList`, `PhysicalFile`, `FilesOnDisk` (main.cpp 375-637) | handle and bytes written per file | create, write, close, walk the files of a byte range | called by the queue for every piece |
| UDP tracker, tracker_requests.cpp | socket, timer, two messages | connect, announce, receive with timeout | one coroutine and one callback that shares its locals |
| HTTP(S) tracker, utils_http.cpp | one socket | GET, read to the end | tracker selection |
| Tracker selection, torrent_client.cpp 195-420 | list of trackers, set of peers | build requests, try trackers, merge | both tracker clients |
| Peer wire protocol, torrent_messages.cpp/.h | none | handshake, framing, bitfield bytes | peer coroutine |
| Bencode parser, `src/bencoding` | position in the input | parse element, consume | torrent and response parsers |
| Torrent and tracker response parsers | values parsed so far | one handler per key | `TorrentClient::make` |
| Utilities, display, error codes, tests, build | none that matters | | |

What makes each part correct, and what is hard about it:

- *Queue and peers.* Every piece is in exactly one place (not handed out, held
  by one connection, waiting for another, stored) through any interleaving of
  coroutines that take, fail, retry and finish; the counters of a piece agree
  with its buffer; what is stored is whole; the assertions hold; the program
  ends, and only when it is complete. Hard: scope guards that put a piece back
  at every early return, chokes that discard requests, answers in any order,
  the gap between storing a piece and sending `Have`.
- *Files.* Each byte of the torrent is written to one place, a file is closed
  at its last byte and not before. Hard: pieces that straddle several files,
  arriving in any order; 32-bit products; empty files.
- *UDP tracker.* The callback never outlives the coroutine whose locals it
  writes; no answer is lost to the timer; a late answer is not taken for the
  current one; the announce ends. Hard: the race of timer and datagram,
  duplicated and delayed datagrams.
- *The program as a whole.* It may die at any step and be started again: what
  is on the disk stays right, what was there is not touched, and a run that
  returns has the whole torrent. Hard: nothing is read back, so what one run
  leaves is in the way of the next.
- *Tracker selection.* Whose peers are returned, however trackers fail; the
  info hash, arbitrary bytes, survives the query string.
- *The parsers and the wire format* are sequential; their hazards are lengths,
  signs, and the order of keys.

`PROJECT.json` lists the hazards, each at its line, with the properties that
cover it or the reason why none does.

## 2. Modules

| module | models | role |
|---|---|---|
| `TorrentLayout` | `get_piece_size`, the checks of `TorrentClient::make` | arithmetic, `Word` is 2^32 |
| `Downloader` | queue, peer coroutines, rounds, `main` | the core |
| `PieceBoard` | what the engine promises | abstract: claim, release, store |
| `MCDownloader` | | small instances |
| `Client`, `MCClient` | the engine with `FilesOnDisk` behind `on_new_piece`, `main`, a crash and a restart | composition |
| `TorrentStore` | what the program promises about the disk | abstract: put, finish, start again |
| `FilesList` | `FilesList::make`, `iterate_files` | operators with 32-bit products |
| `FilesOnDisk` | `PhysicalFile`, `FilesOnDisk`, the end of `main` | the writer |
| `MCFilesOnDisk` | | all small torrents |
| `UdpTracker`, `MCUdpTracker` | `UDP_TrackerAnnounce` and below | coroutine, callback, timer, network |
| `TrackerQuery` | `build_http_request`, `build_query_str` and the encoders | operators, and how a tracker reads a query |
| `TrackerClient` | `build_tracker_requests`, `request_torrent_peers`, `HTTP_GET` | one coroutine over several trackers |
| `TrackerResponse` | `ParseTrackerCompactResponseContent` | operators, used by `TrackerClient` |
| `PeerWire` | handshake, `ReadAnyMessage`, `SendMessage`, bitfield, the ways a connection ends | the bytes of one connection |
| `BytesReader` | `BytesReader` of utils_bytes.h | operators |
| `MessageChannel` | what a connection promises the code above it | abstract: the peer acts, deliver, say, give up |
| `Bencode` | `Parser` of be_element_ref_parse.cpp | the parser, its recursion as a stack |
| `BencodeValues` | what the parser hands to its callers | values, shared by the two below |
| `TorrentFile` | `ParseTorrentFileContent`, `TorrentClient::make` | one action per key |
| `MCTrackerClient`, `MCPeerWire`, `MCBencode`, `MCTorrentFile` | | the instances; `MCBencode` also holds the reference encoding |
| `ClientProofs` | | theorems about `Downloader` and about `Client` |
| `FilesOnDiskProofs`, `UdpTrackerProofs`, `TrackerClientProofs`, `PeerWireProofs`, `BencodeProofs`, `TorrentFileProofs` | | theorems about the module of that name |
| `SequenceLemmas` | | lemmas on numbers and sequences the proofs share |

### Downloader

All coroutines of a round share one thread, so the code from the end of one
`co_await` to the start of the next is one action. `pc[p]` names the operation
coroutine `p` awaits:

| `pc[p]` | awaited | ends with |
|---|---|---|
| `connect` | `TorrentPeer::start` | `Started` |
| `bitfield` | the first message | `ReadBitfield` |
| `unchoke`, `interested` | sending | `SentUnchoke`, `SentInterested` |
| `request` | sending a block request | `SentRequest` |
| `read` | a message | `ReadPiece`, `ReadKeepAlive`, `ReadChoke`, `ReadUnchoke`, `ReadHave`, `ReadUnhandled` |
| `have` | sending `Have` | `SentHave` |

Any of them may fail instead (`PeerFails`); the guard of
`TryDownloadPiecesFromPeer` is part of that action. `SentInterested` and
`SentHave` contain the whole search for the next piece (`TakeFresh`,
`TakeRetry`, `TakeNone`): the code pops indexes blindly and puts back those the
peer does not have, in that order, before the next `co_await`. `ReadPiece`
contains the handler, the counters and, for the last part, storing the piece
and erasing its state. `TrackerRound` takes any set of peers out of
`TrackerReplies`; `RoundEnd` is the return of `io_context.run()` with the
assertions of `main`. An assertion that fails ends the program
(`phase = "aborted"`): the build does not define `NDEBUG`.

Data: a block is its piece, offset and length, `data_` the set of bytes
filled. Peers follow the protocol: at most one answer per request, with the
bytes asked for, in any order; a choke may discard requests. What a dishonest
peer could send is not modelled; the code does not compare hashes.

### FilesOnDisk

A file's contents are a function from offset to the byte of the torrent
written there. `write_piece` is one action per piece: the walk over the files
(`FilesList`, products modulo `Word`), the creation, writing and closing of
each. `taken` are files that exist before the program starts: `CREATE_NEW`
fails on them, which `assert(file_)` does not see, since an invalid handle is
not null; the call after it fails. A file that is created gets its final size
at once (`try_create`), with blank bytes.

### Client

`Client` extends `Downloader` and instantiates `FilesOnDisk` as `Disk`: its
`pieces` is `Done`, its `state` is `phase` as the files see it. `Coroutine` is
the step of one coroutine with what it does to the disk: `on_new_piece` writes
the piece that the step stores, in the same step, and `WriteAborts` is the step
that ends in an assertion below `write_piece`, with part of the piece on the
disk. `MainRoundEnd` adds the last assertion of `main`, which is about bytes
written. `Restart` is the death of the process, of an assertion or of anything
else and at any step, and a new start: memory and handles are gone, the names
created are `taken` for the next run.

`TorrentStore` sees of it, for each byte of the torrent, whether the disk holds
that byte, a byte of a file that was there before, none, or a wrong one (which
`TorrentStore` never has), and whether `main` has returned.

### UdpTracker

`timeout` and `receive` are the two operations in flight. A completion may be
queued (`expired`, `received`, ...) before its handler has run, and a queued
completion can no longer be cancelled, which is where the race is.
`ReceiveCallback` is the lambda; `TimeoutWaited` and `ReadEndWaited` the two
places the coroutine resumes. The network keeps every reply, may deliver it
any number of times, in any order, or never; requests are lost when the
tracker does not act on them. The addresses are byte by byte (`Packed`,
`Addresses`), and a reply may be cut short by a byte; the client's requests
are the fields a tracker needs to answer.

### TrackerClient

`pc` is the await of the one coroutine: `build` the requests, then for each
tracker `resolve`, `connect`, `handshake` (https), `write`, `status`,
`headers`, `body`, or `udp`. Each may fail, which is `FetchFails`: the next
tracker. What the tracker sends is a sequence of lines and pieces of body;
`async_read_until` may read more than it looks for, so `Received` moves any
number of them into `response`, and `BodyIn` is what is left there after the
headers. (A response without any header line is an error in the code: the
empty line is searched for behind the end of the status line, which has used up
half of it. The model does the same.) The connection may close before the body
is whole; the code cannot tell, the parser of the response decides. Or the
tracker leaves it open: a read that what was sent does not complete
(`Starved`) then waits for ever (`Waits`), since nothing in `utils_http.cpp`
has a timeout. The outcome
of a UDP exchange is chosen among peers and failure: the exchange itself, and
the assertions in it, are in `UdpTracker`. `TrackerResponse` folds the key
handlers over the entries in the order they come in. `url.query` is the query
string `TrackerQuery` builds from the entries of the tracker's own URL and the
client's, byte by byte as the table of `is_char` has it; `QueryRead` is how a
tracker reads it (application/x-www-form-urlencoded).

### PeerWire

Two streams of bytes, either of which may be cut anywhere: `PeerSends` writes a
message whole and the reader waits for as many bytes as it asks for, as
`async_read` does; `PeerCloses` cuts what is on its way at any byte. `ReadLength` and
`ReadData` are the two reads of `ReadAnyMessage`, with what the caller does
with the message in the same step. The loop of `TryDownloadPiecesFromPeer` is
there as far as the connection sees it: each of the four places that send
(`SendUnchoke`, `SendInterested`, `SendRequest`, `SendHave`) may fail and ends the
connection then (`SendFails`), and where the loop takes a piece (`TakesPiece`)
there may be none, which ends it too. Whether there is one, and whether there is
a request to send, is chosen: `Downloader` has the piece and the backlog. The peer's side (`Frame`, `PeerReads`) is
external: it follows the protocol description the source refers to (BEP 3).
The handshake is parsed from its 68 bytes, field by field, as the rest is
(`BytesReader`): with the name of a longer protocol the fields behind it are
not where they should be.
`native_to_big`, the consumers of `BytesReader` and the masks of the bitfield
(a table of `1u << n`) are byte by byte, since the properties are about them.

### Bencode, TorrentFile

`Bencode`: the input is a sequence of characters and positions count those
consumed. Recursion is `stack`, one record for each list or dictionary under
way; `parse_element` is one element, or the opening of one, `CloseCall` the
return from the function on top. The five entry functions are `entry`.

`TorrentFile` takes what `Bencode` returns as a value, and is one action per
key handler, in the order of the entries: `parsed` and `info_parsed` are the
flags of `InvokeParserOptionalKey`, `metainfo` is the result. `ContentEnds`
contains the checks after the loop and `TorrentClient::make`, whose checks are
assertions: a torrent that fails one ends in `aborted`. Which error a failure
returns is left out.

### How the modules meet

`Downloader` and `FilesOnDisk` assume a layout that passes `ValidLayout`;
the assertions of `TorrentClient::make` are that, and `MadeAsHashed` of `TorrentFile`
says that what they let through are the pieces of the torrent.
`TrackerReplies` of `Downloader` stands for any result of `TrackerClient`, and
the `udp` outcomes of `TrackerClient` for those of `UdpTracker`. The messages
of `Downloader` are those `PeerWire` reads. Files are written by `FilesOnDisk`
in any order of pieces, which is what `StoredWhole` and `PieceAccounting` of
`Downloader` promise it: every piece once, and whole. `Client` has both in one
state space. `PeerWire` implements `MessageChannel`: the reads of `Downloader`
take whole messages in the order they were sent, which is what it delivers.

## 3. Runs

| run | instance | question |
|---|---|---|
| `downloader_safety` | 2 peers, 3 pieces, piece size 5, total 12, blocks of 2, backlog 2, `Word` 8 | the safety properties and the refinement of `PieceBoard` |
| `client` | 2 peers, one of them a seeder, 2 pieces of size 4, total 6, files of 1 and 5 bytes, blocks of 2, backlog 2, two runs of the program | the disk over runs and crashes; does `main` return |
| `downloader_unhandled` | as `downloader_safety` | a legal message without a handler |
| `files_on_disk` | all torrents of up to 3 files of 0 to 3 bytes, piece size 1 to 4, pieces in every order, at most one name taken | bytes, handles, exit |
| `files_word_wrap` | `Word` 4 | the 32-bit products |
| `udp_tracker` | up to 2 peers in a reply, error replies of 12, 16, 26 and 30 bytes, 3 datagrams on their way | races, lost and duplicated datagrams |
| `tracker_client` | up to 2 trackers of 8 URLs (every scheme, with and without host, port and query, one that does not parse) and an announce URL, 12 answers over 2 peers, info hashes with every byte | whose peers are returned, what trackers are told |
| `tracker_client_port` | the same | the port trackers are told |
| `peer_wire` | up to 3 messages out of 8 and 4 that are not well-formed; the client sends requests until it has sent 3 messages, and a Have after any part | framing, bitfield, when a connection is given up |
| `peer_wire_length` | the same | does the peer find the borders between messages |
| `torrent_file` | info dictionaries of up to 4 of 14 entries; files of up to 4 of 11 entries; 462 infos of 6 piece lengths, 7 counts of hashes and 11 lists of file sizes; `Word` 16 | order, repetition and absence of keys; which pieces a client is made with |
| `bencode` | the encodings of values nested up to three deep, and all their changes by one character | the grammar |

*Why the bounds are enough.* Downloader: two connections give every pairwise
interleaving; the model has no state that relates three, and the proofs cover
any number. A piece of 5 with blocks of 2 has full blocks and a short one, so
that the backlog of 2 is smaller than the number of blocks and fills; the last
piece is shorter (2 bytes). `Word` is 8, so that the product 5 * 2 of the last
piece wraps. Three pieces let one connection hold a piece, another wait in
`to_retry_` and a third be untouched, and let `TakeRetry` erase from the middle
of the queue. The state space is finite without a bound on failures or rounds.
Client: fewer pieces, since its graph is searched for cycles, and no symmetry;
the first piece straddles both files, so that a crash leaves one file complete
and one in part, and an abort of a write leaves part of a piece. One restart:
the disk a second restart meets differs from the first in nothing but the set
of names. FilesOnDisk: with three files and a piece of up to 4 bytes a piece
starts and ends inside files, at their borders, and spans a whole file in
between; files of no bytes are at every place. UdpTracker: an announce has two
exchanges and `k_retry_N_max` is 0, so the bounds are the peers in a reply, two
being enough to take one for the other or run past the first, and the replies
on their way, three being the answers to both requests and an error; the
error sizes fall below and on the sizes the code compares with, 16 and 20, with
and without whole addresses after the header. TrackerClient: what one
tracker does to another shows with two, and the model keeps nothing else
between them; the answers hold each key of a response right, wrong, missing,
repeated and in both orders. The info hashes hold every byte, twenty at
a time, and one is what an escape looks like. PeerWire: the state
of the reader between two messages is empty, so a third message shows whether the second was read right;
the messages have two bytes of bitfield and an index beyond it, fields above
255, and payloads one byte short and long; the handshakes are right, of another
torrent, of another protocol, and of one with a longer name. TorrentFile: four entries are a
whole info plus none, or three and one that is repeated; the tables hold
layouts that fit (5 bytes in two pieces of up to 3) and do not. The sizes lie
below, on and above `Word`, up to twice, as a length and as a count, and the sum of
file lengths, taken modulo `WideWord`, reaches it. Bencode: an element, its
position in a list, and a dictionary in both its places within another, each
with strings that contain the characters `e`, `:` and a digit; a change of one
character gives wrong and missing lengths, ends, colons and signs at every
depth.

Each property of a passing run has a mutant: a plausible bug in a mapped
definition that makes TLC find the property violated.

### Properties worth naming

- `PieceAccounting`: the partition of the pieces among unpopped, held, queued
  and stored, no duplicates in `to_retry_`, `pieces_` and the count of `main`
  in agreement.
- `BytesExact`: outstanding requests are disjoint from each other and from the
  bytes received, and the counters are cardinalities of what they count.
- `StoredWhole`: the code stores a piece when a *counter* reaches the size; the
  buffer is complete then.
- `BacklogBound`: `backlog` stays above the answers still due although chokes
  discard requests behind its back.
- `Control`: what the place a coroutine waits at says of what it owns.
- `HolderKeepsProgress`: the failure of one connection never resets what
  another is filling.
- `ImplementsBoard`: all of it as one abstract machine.
- `DiskExact`, `HandleMatchesProgress`: the files after any set of pieces in
  any order; `TakenFilesKept`: not a byte of a file that was there is touched,
  even by the piece that fails on it.
- `AbortsOnlyForCause` (files), `StopsOnlyForCause` (program),
  `AbortsOnlyOnErrorReply` (UDP): which assertions can fail, and why.
- `ImplementsStore`, `ExitHasFiles`, `ClientFinishes`: the program over crashes
  and restarts. There is no resuming: a run that finds a name of an earlier one
  stops at the first write to it, and a run that returns wrote every file.
- `CallbackNeverOutlivesFrame`, `TimeoutMeansNoAnswer`: the race of the
  receive with its timer.
- `PeersFromOwnAnnounce`: the peers are those, all and in order, of the answer
  to the client's own announce, made with the connection id the tracker gave,
  whatever copies and late datagrams come in between.
- `QueryReadBack`: a tracker reads from the query what the client put there.
- `OnlyAndAllAnswered`: the result is the peers of all good answers, once each,
  and nothing else, however trackers fail and responses are cut into reads.
- `ImplementsChannel`, `FramingKept`: no border between messages is ever lost,
  and nothing is said to or taken from a stranger. `GivesUpForCause`: unless the
  peer closed the connection, is a stranger or sent what is malformed, the client
  leaves only between two pieces, with nothing half done. `MessagesArrive`: no message that is
  there is waited for.
- `BitfieldExact`: `has_piece` after any mix of bitfield and `Have` is the
  arithmetic of the protocol description.
- `ValuesParsed`, `OnlyValuesParsed`: together, the parser accepts the encodings
  of values and nothing else; `ItemsTile` says it while it runs.
- `OverrunOnlyLastString`: see section 4.
- `ParsedExactly`, `InfoHashed`, `TiersKept`: a torrent is what the reference
  says in whatever order of keys, and comes from one dictionary, the one that
  is hashed.
- `MadeAsHashed`: the piece length and the count are cut to 32 bits, and the
  total is a 64-bit sum, before `make` compares them. A torrent that has as many
  hashes as pieces, and fits 64 bits, never becomes a client with other pieces;
  one that has not, and fits 32 bits, becomes none. The reference does not
  multiply: it divides the place of every byte by the length. (Nothing is said of a torrent that
  fits neither its hashes nor 32 bits; `make` may let it through.)
- `RequestReturns`: the HTTP exchange has no timeout, so `request_torrent_peers`
  need not return. It does, unless one tracker keeps it waiting for ever
  (`KeptWaiting`): silent in a TLS handshake, or with a response that it neither ends
  nor closes.

### Fairness

`Client!ClientFairSpec`, for `ClientFinishes`:

- `WF(CoroutineMoves(p))`: an operation that does not fail completes, the peer
  answers what was asked and not discarded, unchokes in the end, and closes a
  connection on which nothing is asked. The last is a real assumption: the
  client reads from peers without a timeout, and after a choke that discards
  requests it asks for nothing more. Without it the download may hang.
- `WF(MainRoundEnd)`: `io_context.run()` returns when no coroutine is left.
- `SF(ListsSeeder)`: a tracker that is asked again and again lists a peer that
  has everything.

Nothing obliges the process to die or to be started again.
`ClientFinishes` also assumes that from some point on connections do not break
and peers do not choke (`EventuallyReliable`), and that no round is left
without peers and no message without a handler arrives; before it anything may
happen. `PeerWire!Spec` assumes that the `io_context` runs a coroutine whose
operation is complete and the system takes what is sent, and nothing of the peer. `UdpTracker!Spec` assumes that the operating system completes what is
started and handlers that are queued run, and nothing of the network. `FilesOnDisk!Spec`
assumes that all pieces arrive, for `FilesComplete`. `TrackerClient!Spec` assumes
what the system ensures without the tracker: names are resolved or not, connections
are made or not, a request is written or not, and what has arrived, the end of
a connection included, is read; and that a UDP announce ends (`AnnounceEnds`). It
assumes nothing of a TLS handshake, nor of a connection that the tracker leaves
open, where the client has no timeout and a tracker that stays silent stops it.

## 4. Findings

Each of these has a run that TLC ends with a counterexample.

1. A legal message without a handler (`Interested`, `Request`, ...) aborts the
   whole program (main.cpp 276): `downloader_unhandled`.
2. `iterate_files(piece_index)` multiplies in 32 bits; a torrent that crosses
   4 GiB fails an assertion, or would write at the wrong place (main.cpp 504):
   `files_word_wrap`.
3. The announce to a UDP tracker carries the port of the tracker in place of
   the client's (tracker_requests.cpp 313; torrent_client.cpp 260 sends the
   client's to HTTP trackers): `tracker_client_port`.
4. The length prefix of messages that are sent counts its own four bytes
   (torrent_messages.h 84); that of messages that are read does not, nor does
   the protocol's: `peer_wire_length`.

Other disagreements, seen while modelling. The models contain the steps, no run
is spent on them.

- A round in which no tracker answers aborts (`assert` at main.cpp 337) though
  the loop of `main` is there to try again.
- A file of length 0 fails assertions of `iterate_files` (main.cpp 446, 620),
  unless only such files come after it; then it is never created.
- There is no resuming: after a crash the download can only be repeated once
  the files are removed (main.cpp 556). The message would be a failed assertion
  on the position in a file, since `assert(file_)` compares an invalid handle
  with null.
- The `left` and `downloaded` of an announce are pieces, not bytes (main.cpp
  316-317, torrent_client.cpp 261-263).
- `peers` is declared before the `io_context` its sockets belong to (main.cpp
  340-343), and destroyed after it.
- An error reply of a UDP tracker fails an assertion (tracker_requests.cpp
  280, 328) instead of failing that tracker.
- `consume_n` compares a length with the whole input instead of with what is
  left (be_element_ref_parse.cpp 230). `Parse` and `ParseString` accept `1:`,
  with a view beyond the end. Inside lists and dictionaries the missing end is
  noticed: `OverrunOnlyLastString`.
- `TorrentClient::make` validates what was read from a file by assertions
  (torrent_client.cpp 184-190).
- An empty list is accepted as the path of a file (be_torrent_file_parse.cpp
  170).
- SHA-1 hashes of pieces are never compared.

## 5. Proofs

Assumptions: those named in the modules. `WordAssumption` (`Word` is
positive) and `DownloaderAssumption`: the layout passes the checks of
`TorrentClient::make` (`ValidLayout`), the block size and the backlog are
positive, `NoPiece` is not a piece. Nothing is assumed of the number of peers,
which may be infinite. `UdpTrackerAssumption`: lists of peers are sequences of
addresses and sizes are numbers; how many datagrams are on their way, how long
the lists are and how many sizes there are is left open.
`FilesOnDiskAssumption` and `ClientAssumption`: file lengths are numbers, there
is a file, and the two marks for a byte that is none of the torrent's differ
from those and from each other; `Client`'s files have as many bytes as its
torrent. `PeerWireAssumption`: the messages of a peer fit the format (`WellFormed`:
numbers and the length fit 32 bits, a Piece has data, a bitfield no numbers) or are
a Have or a Piece of a size the code refuses (`IllFormed`); how many messages there
are and what is in them is left open. `TorrentFileAssumption`: a file is a sequence
of entries whose values are made of values (`AreValues`), a string being empty
exactly if its length is 0, and `WideWord` is the square of `Word`; how many values there are
and how deep they are nested is left open. `TrackerClientAssumption`: an answer is a
sequence of entries, and of a value that is a string with something in it the items
are numbers, the peers; which URLs there are, how many and what is answered is left
open. `BencodeAssumption`: inputs are sequences of characters, the functions called
are those of the interface, and `MaxLength` is a number. How many files there are, of which lengths, how many names are taken
and how often the program is started again is left open. The theorems on files
have one hypothesis more, in their statements: the pieces laid end to end fit
in 32 bits (`BelowWord`, `TorrentBelowWord`). For other torrents they are false,
as `files_word_wrap` shows.

`ClientProofs` begins with the engine, and that with a number. `get_piece_size`
multiplies in 32 bits, and its result is right nevertheless (`PieceSizeExact`). Product and total are congruent
to what they stand for modulo `Word`, and the size of the last piece is below
`Word`, so the subtraction gives it back.

Its first part proves the safety properties of `Downloader` by one inductive invariant,
`IInv`, the conjunction of `TypeOK`, `Control`, `PieceAccounting`, `BytesExact`,
`StoredWhole`, `BacklogBound`, `BookkeepingAssertsHold` and "exited implies
everything stored". They need each other:

- `ReadPiece` meets its assertions because the part lies within what was
  requested and does not overlap what was received (`BytesExact`), and counts
  as many bytes as the set grows (cardinalities of disjoint unions);
- `BytesExact` survives a step of another connection because that one works on
  another piece (`PieceAccounting`), and because the connection that holds a
  piece is inside the loop (`Control`);
- when the counter reaches the size, the buffer is a subset of `0 .. size - 1`
  with as many elements, so it is that set, and no request can still be
  outstanding (`LastPartFacts`): hence `StoredWhole`, and an empty `inflight`
  when the coroutine leaves the loop;
- `PieceAccounting` survives `TakeFresh` and `TakeRetry` by two facts on
  sequences: what concatenation with a range of fresh indexes and what
  `RemoveAt` do to a queue without repetitions (`QueueAfterPops`,
  `RemoveAtRange`);
- the exit assertions hold because a count equal to `PiecesCount` means
  `Done` is everything, hence `pieces_` and `to_retry_` are empty
  (`CountReached`).

There is one lemma per action, `NextIInv` puts them together, and the theorems
are projections of `Invariance`.

It then sorts the steps (`StepKinds`) into those that claim, complete
or release a piece and those that do none of it, and proves from `IInv`
`ProgressKept` (the action property `HolderKeepsProgress`) and
`EngineImplementsBoard` (every step is a step of `PieceBoard` or a stutter,
under `working = piece` and `files = FilesView`).

The first part of `FilesOnDiskProofs` is about the operators of `FilesList`. A sum
over a sequence is a recursive function, and there is no induction rule to cite for
what it computes; but a set of numbers has a least element (`LeastNumber`, from the
well-foundedness of finite sets), and a least counterexample does the same
(`RunningSum`, `Monotone`, `PiecesOfFiles`). The result is `RangeCut`: the calls
of `iterate_files` are distinct files, one after the other, that together are
the range; `RangeAccepted`: its assertions hold if no empty file comes before
one of some bytes; `PieceRange`: the range of a piece, computed in 32 bits, is
the bytes whose place divided by the piece size is the piece, and
`get_piece_size` (by `PieceSizeExact`) is its length.

The second part proves what `FilesOnDisk` checks, but for `FilesComplete`, from
`DiskInv`:

- at any time, in the middle of a piece that failed too: each byte on the disk
  is blank, the one of its place, or one of a file that was there (`Places`), no
  taken name was opened (`TakenLeft`), and what was not created is blank;
- between two pieces (`Progress`): a byte is there exactly if its piece was
  written, `written_` is the number of bytes there, a handle is open exactly if its
  file is created and not full, and no piece that was written has a byte in a
  taken file.

The second part needs the first for the files a piece does not reach, and gives
back the assertions: a file that is full is not opened again since all its
pieces were written, so that no name the run created itself is in the way
(`OpensUnlessTaken`), and since the new bytes were blank before, `written_` grows
by as many as the file has (`Put`) and never passes its size
(`NeverTooManyBytes`). When all pieces are there, all files are full
(`AllPiecesThere`), so the last assertion of `main` holds (`TotalsAgree`).

The second part of `ClientProofs` joins the two. Its invariant is `DiskInv` at all times, `IInv` as
long as no assertion failed (one that fails below `write_piece` leaves the
engine between two states), and `StopsOnlyForCause`. `FilesOnDiskProofs` is
instantiated with what `Client` has for its variables, so that its lemmas apply
as they are; the lemmas `Same...` say that this instance and that of `Client` are
one. The engine needs the files for the last assertion of `main`
(`AllBytesWritten`), the files need the engine for "each piece once"
(`CompletesEffect`). `Restart` sets the engine to its initial state and keeps
`DiskInv` with the names created so far taken (`StartAgainKeeps`). That `Client`
implements `TorrentStore` follows with `FileOfByte`, every byte is in a file, and
`BytesOnceAndInPlace`, which every step keeps.

`UdpTrackerProofs` proves what `UdpTracker` checks, but for its liveness, in
three layers. `RaceInv` is about the receive and the timer alone: inside
`AsyncReceiveWithTimeout` the callback has run exactly when nothing is queued
any more, outside it nothing is (`FrameKept`), and only a receive that got no
datagram is reported as cancelled (`NothingLost`); from it follow
`CallbackNeverOutlivesFrame` and `TimeoutMeansNoAnswer`. `MessageInv` adds that
everything on the network answers one of the two requests sent
(`Exchanges`, `Answers`): a copy of the connect reply is too short for an
announce, and an announce reply cannot come before the announce, so that
only an error reply reaches an assertion (`AbortsOnlyOnErrorReply`). That the
peers are those listed (`PeersFromOwnAnnounce`) is a fact on sequences:
the six bytes at `AddressAt(k)` of a packed list are address `k` (`PackedAt`),
and a list cut short is not made of whole addresses (`AddressesRead`).
`TypeOK` needs both, since the types alone do not keep the code from reading
addresses past the bytes it got.

`PeerWireProofs` proves what `PeerWire` checks, but for its liveness. Its first half is
about bytes. What the parser gives back is a matter of where the fields end
(`FieldEndsAre`) and what lies there (`ReadsAll`): `WellFormedParsed` and
`IllFormedNotParsed` say that a message is read as it was written, or not at all,
and `ValidHandshakesAre` that of the handshakes that of the torrent is taken; in the
one with a longer name the fields are one byte off, and its first byte gives it
away (`LongerNotAccepted`). `FlattenSeq` is a recursive function of the library: there
is no induction rule for it, but a function of its shape is unique up to any index
(`FlattensUnique`, by the least place two of them differ), so that it can be taken
apart at both ends (`FlattenAppend`, `FlattenTail`, in `SequenceLemmas`). The second half is the
invariant `WireInv`: there are messages' bytes `u`, one for each message sent and not
read, such that the stream, with what was lost after it, is `u` one after the other,
without the length that was read already (`Holds`). A stream that begins with a
length and has as many bytes can be cut in one way only (`CutAlike`), so each read
takes what was sent (`LengthTaken`, `DataTaken`), a message that is sent goes to the
end (`MoreSent`), and a connection that is cut leaves a prefix (`EndLost`). The
same steps are those of `MessageChannel`. `BitfieldInv` adds that the bits are the
pieces the peer spoke of, since adding a mask changes one bit of a byte, and that
only if it was not set (`BitOfValue`, `SetBit`). That a connection is given up only for
cause (`WireGivesUpForCause`) is about steps: what is read by one that closes an open
connection is, by `WireInv`, the message the peer sent next (`GaveUp`).

`TorrentFileProofs` proves what `TorrentFile` checks. The invariant `ParseInv` says
what a prefix of the file has left: the keys with `parsed_` are those of the prefix
(`Seen`), each field of the metainfo is what the *first* value of its key says
(`KeysRead`, `InfoRead`), and the parser of info was given the first info, with an
announce somewhere before it (`InfoInside`, `InfoDone`). A key handler meets a key
that was not seen before, so its value is the first (`FoundFirst`); when it fails,
that value is not one of a torrent, and when the loop is over, what is missing was
not in the file (`KeysThere`, `InfoKeysThere`). Hence nothing but torrents is parsed and
none is refused (`TorrentParsedExactly`), and all fields are of one dictionary, the
one at `info_position_` (`TorrentInfoHashed`). `TorrentTiersKept` is a fact on
sequences and cardinalities: two lists of trackers that list two sets of places in
order, one set before the other, put together list the union (`TrackersJoin`); it is
used for the URLs of a tier and for the tiers of a list (`TrackersFlatten`).
`TorrentMadeAsHashed` is arithmetic. The total is a sum modulo 2^64, and the
bytes of the files as long as these fit (`TotalSizeType`, by a least counterexample). Dividing
places by the length gives the indexes of the hashes exactly if the pieces fill the
total (`FillIs`, `PieceIs`); and a total that `n` pieces of a length fill, and also
as many of such a length as is left of both in 32 bits, leaves no room for what was cut
off, but from the length of a single piece, which is as long as the total
(`CutFill`).

`TrackerClientProofs` proves what `TrackerClient` checks of the trackers and
their answers. `RequestInv` has three parts. What was sent is what the client dropped, what it
keeps and what is still to come (`Exchanged`), at every await: a read that takes more than
it asked for changes only where the cut is (`ReceivedIs`, `HeadersTaken`), so a body
that is whole is the one the tracker sent, and one that is cut short is not
(`NotFull`, `FullWithBody`). The peers collected are those of the requests before the
current one (`CollectedInv`), and the requests are those of the URLs
(`RequestsInv`, `RequestsBuilt`). What the parser makes of an answer is what its *first*
`interval`, `peers` and `failure reason` say (`AnswerRead`, by one step per entry
with the keys it has seen), so a tracker's peers are counted exactly if the answer is accepted
(`PeersAreOffered`). `std::sort` and `std::unique` keep the peers and leave out what is
there twice: that sorting is possible at all is `SortingExists`, and `UniqueIs` needs
that what rises and is there twice stands side by side.
`QueriesReadBack` is about the query string, and assumes that hashes, keys and values are
sequences of bytes. What a character is written as decodes to that character wherever
it is put (`DecodedBlock`), so an encoded string decodes to what was encoded
(`EncodedDecoded`, by a counterexample of least length: there is no induction here). An
encoded string has no ampersand and an encoded key no equals sign, so the parts
between the ampersands are the entries as they were written (`BorderOf`), and the
first equals sign of a part is the one after the key (`EntryReadIs`).

`BencodeProofs` proves that the parser is sound and complete, for inputs of any length and nesting.
The recursion of the code is a stack in the model, but the elements it returns are trees,
and there is no induction over trees here. `ParseInv` therefore says that *some set* holds
every element parsed so far, with its items, each of them well spelled (`Closed`); a
step adds one element, whose items are in the set already (`ClosedGrows`). The calls under way have
read the beginning of a list or a dictionary (`CallSpelled`), and lie with the result side by
side from the first character to the current one (`Placed`): calling pushes an empty call
(`OneMorePlaced`), returning pops one and makes the one below longer (`FrontPlaced`,
`CallReturned`). `OnlyValuesAccepted` follows since the levels of the result do
not leave a set that is closed (`LevelsIn`, by a least counterexample), `InputTiled`
and `NoOtherOverrun` are parts of it: `consume_n` lets an element reach over the end, but
then nothing but the end of the parse, or of a call that misses its `e`, can come after it.
`TreesAccepted` is the other direction. A set `T` and its `root` *spell* the
input when every element of `T` is well spelled, has its items in `T`, and `root` covers the input.
Until the parse ends, there is a path down from `root` whose elements the
calls are reading (`On`), each with the items before the next (`Follows`, `Due`); so either an item
comes next, and its first character makes `parse_element` choose the right function
(`BeginsWell`, `TreeElement`), or the call is at its `e` (`WhatIsNext`). Nothing fails on the way,
and `root` is returned.

Only model-checked: liveness (`ClientFinishes`, `FilesComplete`,
`AnnounceEnds`, `RequestReturns`, `MessagesArrive`), which TLAPS cannot prove
under fairness; and `ValuesParsed`, that the encodings
of values, written down by recursion, have trees that spell them, which is what
`TreesAccepted` then speaks of. `Control`, `ExitComplete`,
`BytesOnceAndInPlace` and the `TypeOK` of `FilesOnDisk` and `UdpTracker` are the
other way round: they are proved, and no run lists them. The `TypeOK` of
`PeerWire` says what its variables hold; it is true of the run's instance, whose
cfg leaves it out for the properties that say more.

## 6. Not modelled

The display and reverse lookups (nothing reads what they count), error texts
and which error a failure returns, the ASIO adapter (third-party code), the
fields of a UDP announce no answer depends on, reading the torrent file, random
ids and SHA-1 (library calls), failures of the disk other than a name that is
taken (each fails an assertion), the lifetime of objects of `main`, a kill of the program inside `write_piece`
(`Restart` comes between two steps; an assertion that fails there does leave part of
a piece), and peers that break the protocol on purpose (`PeerWire` has
messages that are not well-formed, `Downloader` has none).

## 7. Plan

In this order; all is done.

1. `TorrentLayout`, `Downloader`, `PieceBoard`: the core, checked and proved.
2. `FilesList`, `FilesOnDisk`: checked and proved.
3. `UdpTracker`, `UdpTrackerProofs`: checked and proved.
4. The engine's part of `ClientProofs`: invariants, refinement.
5. `TrackerClient`, `TrackerQuery`, `TrackerResponse`: checked.
6. `PeerWire`, `MessageChannel`, `BytesReader`: checked and proved.
7. `Bencode`, `BencodeValues`: checked; `TorrentFile`: checked and proved.
8. `Client`, `TorrentStore`: the composition, crash and restart; checked and
   proved to implement its abstract specification.
9. `TrackerClientProofs`, `BencodeProofs`.
