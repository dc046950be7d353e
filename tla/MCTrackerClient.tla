--------------------------- MODULE MCTrackerClient ---------------------------
(* Trackers of each kind, and URLs that no request can be built for.       *)
EXTENDS TrackerClient

Url(scheme, host, port) ==
  [parses |-> TRUE, scheme |-> scheme, host |-> host, port |-> port, query |-> <<>>]

\* "k=a/b=c&x", and an entry without a key.
Passkey == <<QueryEntry(<<107>>, <<97, 47, 98, 61, 99>>), QueryEntry(<<120>>, <<>>)>>
NoKey == <<QueryEntry(<<>>, <<97>>)>>

SomeUrls ==
  {Url("http", TRUE, 0), [Url("https", TRUE, 1) EXCEPT !.query = Passkey], Url("udp", TRUE, 1),
   [Url("http", TRUE, 1) EXCEPT !.query = NoKey],
   Url("http", FALSE, 0), Url("udp", TRUE, 0), Url("wss", TRUE, 1),
   [Url("http", TRUE, 0) EXCEPT !.parses = FALSE]}

\* All bytes, twenty at a time, and what looks like an escape.
SomeInfoHashes ==
  {[n \in 1 .. 20 |-> (20 * k + n - 1) % 256] : k \in 0 .. 12}
    \union {<<37, 50, 66, 38, 61, 43, 32, 59, 37, 37>>}
SomeCounts == {0, 10, 6882}

Interval == Entry("interval", Integer(60))
PeersBlob(peers) == Entry("peers", Addresses(peers, 6 * Len(peers)))
Failure == Entry("failure reason", String("failure", 7))

SomeAnswers ==
  {<<Interval, PeersBlob(peers)>> : peers \in {<<>>, <<1>>, <<2, 1>>, <<1, 1>>}}
    \union {<<PeersBlob(<<2>>), PeersBlob(<<1>>)>>, <<Interval>>,
            <<Entry("interval", Integer(-1)), PeersBlob(<<1>>)>>,
            <<Entry("peers", Addresses(<<1>>, 7))>>, <<Entry("peers", List(<<>>))>>,
            <<Failure, PeersBlob(<<1>>)>>, <<PeersBlob(<<2>>), Failure>>,
            <<Entry("warning", String("warning", 7))>>}
=============================================================================
