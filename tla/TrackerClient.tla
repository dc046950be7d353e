---------------------------- MODULE TrackerClient ----------------------------
(***************************************************************************)
(* Asking the trackers of a torrent for peers: build_tracker_requests and  *)
(* request_torrent_peers of torrent_client.cpp, and HTTP_GET of            *)
(* utils_http.cpp below them.  One coroutine asks one tracker after the    *)
(* other.                                                                  *)
(*                                                                         *)
(* A URL is what the code looks at: scheme, host, port (0 when absent) and *)
(* query.  A peer is a number; their order is that of (ipv4_, port_).  An  *)
(* HTTP response is a sequence of lines and pieces of body; the body is    *)
(* read by TrackerResponse.  What the UDP exchange does is in UdpTracker,  *)
(* its outcome is chosen here.                                             *)
(***************************************************************************)
EXTENDS TrackerResponse, TrackerQuery

CONSTANTS
  Urls,        \* [parses, scheme, host, port, query], see above
  InfoHashes,  \* values of info_hash_ and peer_id_
  Counts,      \* numbers of pieces
  MaxTrackers, \* length of the announce-list
  Peers,       \* a set of numbers
  Answers,     \* the dictionaries that HTTP trackers answer, as sequences of entries
  ServerPort,  \* RequestInfo::server_port
  Word16       \* 2^16

ASSUME TrackerClientAssumption ==
  /\ MaxTrackers \in Nat /\ Peers \subseteq Nat
  /\ \A said \in Answers :
       LET values == {said[k].value : k \in DOMAIN said}
       IN /\ said \in Seq(Entries(values))
          /\ \A v \in values : IsNonEmptyString(v) => v.items \in Seq(Nat)
  /\ Word16 \in Nat \ {0} /\ ServerPort \in 0 .. Word16 - 1
  /\ \A url \in Urls : url.query \in Seq([key : Seq(Byte), val : Seq(Byte)])
  /\ InfoHashes \subseteq Seq(Byte) /\ Counts \subseteq Nat

VARIABLES
  tracker_url_utf8_, multi_trackers_,   \* the torrent
  pc,         \* the await of the coroutine
  all_infos,  \* the requests built
  current,    \* the request at hand
  response,   \* lines and pieces in the streambuf
  content,    \* the body read so far
  stream,     \* what the tracker sent and the client has not read
  answer,     \* what its body says
  ending,     \* how the connection ends after that
  all_peers, result,
  answered,   \* for each request, the peers the tracker sent in a good answer
  announced   \* the ports trackers were told

httpVars == <<response, content, stream, answer, ending>>
torrentVars == <<tracker_url_utf8_, multi_trackers_>>
vars == <<torrentVars, pc, all_infos, current, httpVars, all_peers, result,
          answered, announced>>

NoAnswer == <<>>

Init ==
  /\ tracker_url_utf8_ \in Urls
  /\ multi_trackers_ \in SeqOf(Urls, MaxTrackers)
  /\ pc = "build" /\ all_infos = <<>> /\ current = 0
  /\ response = <<>> /\ content = <<>> /\ stream = <<>> /\ answer = NoAnswer /\ ending = "eof"
  /\ all_peers = <<>> /\ result = "none"
  /\ answered = <<>> /\ announced = {}

-----------------------------------------------------------------------------
(* build_tracker_requests: the set of at most one request for a URL.       *)

DefaultPort(url) == IF url.scheme = "http" THEN 80 ELSE 443

build_http_request(url) ==
  IF ~url.host \/ ~HasAllKeys(url.query) THEN {}
  ELSE {[kind |-> url.scheme,
         port_ |-> IF url.port = 0 THEN DefaultPort(url) ELSE url.port % Word16,
         announces |-> ServerPort]}

\* AsyncAnnounce sends the port of the request.
build_udp_request(url) ==
  IF ~url.host \/ url.port = 0 THEN {}
  ELSE {[kind |-> "udp", port_ |-> url.port % Word16, announces |-> url.port % Word16]}

\* An exception of the URL library is a failure too.
build_from_one(url) ==
  IF ~url.parses THEN {}
  ELSE IF url.scheme \in {"http", "https"} THEN build_http_request(url)
  ELSE IF url.scheme = "udp" THEN build_udp_request(url)
  ELSE {}

\* The URLs asked, of the list if there is one.
Asked == IF multi_trackers_ = <<>> THEN <<tracker_url_utf8_>> ELSE multi_trackers_

\* Those that no request can be built for are left out.
build_tracker_requests == FlattenSeq([k \in DOMAIN Asked |-> SetToSeq(build_from_one(Asked[k]))])

-----------------------------------------------------------------------------
(* request_torrent_peers.                                                  *)

\* std::sort.
Sorted(s) ==
  LET order == CHOOSE p \in Bijection(DOMAIN s, DOMAIN s) :
                 \A i, j \in DOMAIN s : i < j => s[p[i]] <= s[p[j]]
  IN [k \in DOMAIN s |-> s[order[k]]]

\* std::unique: an element equal to the one before it is left out.
Unique(s) == FlattenSeq([k \in DOMAIN s |-> IF k > 1 /\ s[k] = s[k - 1] THEN <<>> ELSE <<s[k]>>])

RemoveDuplicates(s) == Unique(Sorted(s))

FirstAwait(request) == IF request.kind = "udp" THEN "udp" ELSE "resolve"

\* The loop over the requests, up to the next await: the peers of the current
\* tracker are added and the next one is asked.
TryAddPeers(new_peers) ==
  LET peers == all_peers \o new_peers
  IN \/ /\ current < Len(all_infos)
        /\ current' = current + 1
        /\ all_peers' = peers
        /\ pc' = FirstAwait(all_infos[current + 1])
        /\ UNCHANGED result
     \/ /\ current >= Len(all_infos)
        /\ all_peers' = RemoveDuplicates(peers)
        /\ result' = IF all_peers' # <<>> THEN "peers" ELSE "failed"
        /\ pc' = "done"
        /\ UNCHANGED current

\* Mutant: a tracker that fails ends the loop.
FetchFailsAll ==
  /\ result' = IF all_peers # <<>> THEN "peers" ELSE "failed"
  /\ pc' = "done"
  /\ UNCHANGED <<current, all_peers>>

\* Mutant: a tracker that fails is asked again.
FetchAgain ==
  /\ pc' = FirstAwait(all_infos[current])
  /\ UNCHANGED <<current, all_peers, result>>

FetchFails == TryAddPeers(<<>>)

Build ==
  /\ pc = "build"
  /\ all_infos' = build_tracker_requests
  /\ answered' = [k \in DOMAIN all_infos' |-> {}]
  /\ IF all_infos' = <<>>
     THEN /\ result' = "failed" /\ pc' = "done" /\ UNCHANGED current
     ELSE /\ current' = 1 /\ pc' = FirstAwait(all_infos'[1]) /\ UNCHANGED result
  /\ UNCHANGED <<torrentVars, httpVars, all_peers, announced>>

-----------------------------------------------------------------------------
(* HTTP_GET.  The tracker answers with a status line, headers, a blank line*)
(* and a body of two pieces, and closes the connection, early perhaps, or  *)
(* leaves it open, although asked to close it.                             *)

Body == <<"piece_1", "piece_2">>

Responses ==
  UNION {Prefixes(<<status, "blank">> \o Body) \union Prefixes(<<status, "header", "blank">> \o Body) :
           status \in {"200", "404", "not_HTTP"}}

\* The peers of a good answer: complete, after the blank line of a header, and
\* with well-formed values and no failure reason.
Offered(sent, said, end) ==
  IF /\ sent = <<"200", "header", "blank">> \o Body /\ end = "eof"
     /\ FirstOf(said, "failure reason") = {}
     /\ \A v \in FirstOf(said, "interval") : v.kind = "Integer" /\ v.n >= 0
     /\ \A v \in FirstOf(said, "peers") : v.kind = "String" /\ v.n > 0 /\ v.n % 6 = 0
  THEN UNION {ToSet(v.items) : v \in FirstOf(said, "peers")}
  ELSE {}

Request == all_infos[current]

\* HTTP_GET returns, and the connection with it.
Closed ==
  /\ response' = <<>> /\ content' = <<>> /\ stream' = <<>>
  /\ answer' = NoAnswer /\ ending' = "eof"

Resolved ==
  /\ pc = "resolve"
  /\ pc' = "connect"
  /\ UNCHANGED <<torrentVars, all_infos, current, httpVars, all_peers, result, answered, announced>>

\* HTTPSContext::connect also waits for the TLS handshake.
Connected ==
  /\ \/ pc = "connect" /\ pc' = IF Request.kind = "https" THEN "handshake" ELSE "write"
     \/ pc = "handshake" /\ pc' = "write"
  /\ UNCHANGED <<torrentVars, all_infos, current, httpVars, all_peers, result, answered, announced>>

Written ==
  /\ pc = "write"
  /\ announced' = announced \union {Request.announces}
  /\ \E sent \in Responses, said \in Answers, end \in {"eof", "reset", "open"} :
       /\ stream' = sent /\ answer' = said /\ ending' = end
       /\ answered' = [answered EXCEPT ![current] = Offered(sent, said, end)]
  /\ response' = <<>> /\ content' = <<>>
  /\ pc' = "status"
  /\ UNCHANGED <<torrentVars, all_infos, current, all_peers, result>>

\* What is in the streambuf when a read completes.  async_read_until may get
\* more than what it waits for, unless that is there already.
Received == {response \o SubSeq(stream, 1, n) : n \in 0 .. Len(stream)}

\* "\r\n\r\n": a blank line after the end of another, the status line being
\* consumed.
EndsHeaders(b) == \E k \in 1 .. Len(b) - 1 : b[k] \in {"header", "blank"} /\ b[k + 1] = "blank"

StatusRead ==
  /\ pc = "status"
  /\ \E b \in Received \ {<<>>} :
       /\ Head(b) = "200"
       /\ response' = Tail(b)
       /\ stream' = SubSeq(stream, Len(b) - Len(response) + 1, Len(stream))
  /\ pc' = "headers"
  /\ UNCHANGED <<torrentVars, all_infos, current, content, answer, ending, all_peers,
                 result, answered, announced>>

\* Mutant: the body starts with the next read.
BodyInNone(b) == <<>>

\* Lines are dropped up to the blank one; the rest is body.
BodyIn(b) == SubSeq(b, SelectInSeq(b, LAMBDA line : line = "blank") + 1, Len(b))

HeadersRead ==
  /\ pc = "headers"
  /\ \E b \in Received :
       /\ EndsHeaders(b) /\ (EndsHeaders(response) => b = response)
       /\ content' = BodyIn(b)
       /\ stream' = SubSeq(stream, Len(b) - Len(response) + 1, Len(stream))
  /\ response' = <<>>
  /\ pc' = "body"
  /\ UNCHANGED <<torrentVars, all_infos, current, answer, ending, all_peers, result,
                 answered, announced>>

\* add_content empties the streambuf.
BodyRead ==
  /\ pc = "body"
  /\ \E n \in 1 .. Len(stream) :
       /\ content' = content \o SubSeq(stream, 1, n)
       /\ stream' = SubSeq(stream, n + 1, Len(stream))
  /\ UNCHANGED <<torrentVars, pc, all_infos, current, response, answer, ending, all_peers,
                 result, answered, announced>>

\* ParseTrackerCompactResponseContent of the body, of which a part is no
\* dictionary, and TryGetOnlyPeers.
PeersOf(body) ==
  IF body # Body THEN {}
  ELSE {data.peers_ : data \in {d \in ParseTrackerCompactResponseContent(answer) :
                                  d.tag = "success"}}

BodyEnds ==
  /\ pc = "body" /\ stream = <<>> /\ ending = "eof"
  /\ \/ \E peers \in PeersOf(content) : TryAddPeers(peers)
     \/ PeersOf(content) = {} /\ FetchFails
  /\ Closed
  /\ UNCHANGED <<torrentVars, all_infos, answered, announced>>

\* A read that what the tracker sent does not complete.
Starved ==
  \/ pc \in {"status", "body"} /\ stream = <<>>
  \/ pc = "headers" /\ ~EndsHeaders(response \o stream)

\* An await that fails: a read that meets the end of the connection first, or
\* a status that is not "HTTP/... 200".
ReadFails ==
  \/ pc = "status" /\ stream # <<>> /\ Head(stream) # "200"
  \/ Starved /\ (ending = "reset" \/ (ending = "eof" /\ pc # "body"))

\* There is no timeout: the client waits for a connection that stays open.
Waits == Starved /\ ending = "open" /\ UNCHANGED vars

HttpFails ==
  /\ pc \in {"resolve", "connect", "handshake", "write"} \/ ReadFails
  /\ FetchFails
  /\ Closed
  /\ UNCHANGED <<torrentVars, all_infos, answered, announced>>

\* UDP_TrackerAnnounce: a nonempty list of peers, or a failure, before or
\* after the announce went out.
UdpAnswers ==
  /\ pc = "udp"
  /\ \E peers \in SeqOf(Peers, 2) \ {<<>>} :
       /\ answered' = [answered EXCEPT ![current] = ToSet(peers)]
       /\ TryAddPeers(peers)
  /\ announced' = announced \union {Request.announces}
  /\ UNCHANGED <<torrentVars, all_infos, httpVars>>

UdpFails ==
  /\ pc = "udp"
  /\ FetchFails
  /\ announced' \in {announced, announced \union {Request.announces}}
  /\ UNCHANGED <<torrentVars, all_infos, httpVars, answered>>

Terminated == pc = "done" /\ UNCHANGED vars

Next ==
  \/ Build \/ Resolved \/ Connected \/ Written \/ StatusRead \/ HeadersRead
  \/ BodyRead \/ BodyEnds \/ HttpFails \/ UdpAnswers \/ UdpFails
  \/ Waits \/ Terminated

\* The system resolves, connects and sends, or gives up; what has arrived is
\* read, and so is the end of a connection; a UDP announce ends (UdpTracker).
\* Nothing ends a TLS handshake a tracker is silent in.
Spec == Init /\ [][Next]_vars /\ WF_vars(pc # "handshake" /\ Next)

-----------------------------------------------------------------------------
(* Properties.                                                             *)

\* Whatever happened to the others, the peers of every tracker that gave a
\* good answer are in the result, and no others: neither a failure, nor a
\* body cut short, nor bytes read together with the headers lose or add any;
\* no peer is listed twice, since main starts a connection per element; and
\* the request fails only when there are none (request_torrent_peers,
\* HTTP_GET, ParseTrackerCompactResponseContent, RemoveDuplicates).
OnlyAndAllAnswered ==
  pc = "done" =>
    LET good == UNION {answered[k] : k \in DOMAIN answered}
    IN /\ ToSet(all_peers) = good /\ IsInjective(all_peers)
       /\ result = IF good = {} THEN "failed" ELSE "peers"

\* Every tracker of the list whose URL can be used has been asked, whatever
\* the other URLs are and however the other trackers fail
\* (build_tracker_requests, the loop of request_torrent_peers).
EveryUsableUrlAsked ==
  pc = "done" =>
    \A k \in DOMAIN multi_trackers_ : \A q \in build_from_one(multi_trackers_[k]) :
      \E n \in 1 .. current : all_infos[n] = q

\* Whatever the bytes of the hash and of the peer id and whatever query the
\* tracker's URL has of its own (a passkey), the tracker reads back the
\* entries that were meant (encode_query_key, encode_query_val,
\* build_query_str).
QueryReadBack ==
  pc = "build" /\ HasAllKeys(tracker_url_utf8_.query) =>
    \A hash \in InfoHashes, n \in Counts :
      LET query == Query(tracker_url_utf8_.query, hash, Reverse(hash), ServerPort, 0, n, n)
      IN QueryRead(build_query_str(query)) = query

\* An HTTP tracker keeps the client waiting for what it does not send.
KeptWaiting == pc = "handshake" \/ (ending = "open" /\ Starved)

\* request_torrent_peers returns, unless one HTTP tracker neither sends what the
\* client waits for nor closes the connection: nothing else can keep it from
\* the trackers that are left, no failure, no answer cut short, no UDP tracker,
\* and no tracker that has closed its connection.
RequestReturns == <>(pc = "done") \/ <>[]KeptWaiting

\* Trackers are told the port the client would listen on, not another.
TellsServerPort == announced \subseteq {ServerPort}
=============================================================================
