-------------------------- MODULE UdpTrackerProofs --------------------------
(***************************************************************************)
(* The receive of UdpTracker against its timer, and late datagrams, for    *)
(* every tracker and any number of datagrams on their way.                 *)
(***************************************************************************)
EXTENDS UdpTracker, SequenceTheorems, TLAPS

-----------------------------------------------------------------------------
(* The race of the receive with the timer.                                 *)

InReceive == pc \in {"wait", "drain"}

\* The coroutine is in AsyncReceiveWithTimeout as long as the receive is
\* under way, and it has finished exactly when its callback has run.
FrameKept ==
  /\ ~InReceive => receive = "off"
  /\ InReceive => (finished <=> receive = "off")
  /\ InReceive /\ read_end => finished
  /\ finished \in BOOLEAN /\ read_end \in BOOLEAN
  /\ receive \in {"off", "pending", "received", "failed", "cancelled"}
  /\ error \in {"none", "failed", "operation_aborted"}

\* A receive that has not got a datagram has none to lose.
NothingLost ==
  /\ receive \in {"pending", "failed", "cancelled"} => datagram = NoDatagram
  /\ receive # "off" => error = "none"
  /\ error = "operation_aborted" => datagram = NoDatagram
  /\ result = "timeout" => pc = "done" /\ error = "operation_aborted"

RaceInv == FrameKept /\ NothingLost

LEMMA RaceInit == Init => RaceInv
BY DEF Init, RaceInv, FrameKept, NothingLost, InReceive

\* Where a return from AsyncReceiveWithTimeout leads: out of it, and to a
\* timeout only from a cancelled receive.
LEMMA ReturnsLeave ==
  ASSUME Returns
  PROVE  /\ pc' \in {"send", "done"}
         /\ result' = "timeout" => (pc' = "done" /\ error = "operation_aborted") \/ result' = result
BY DEF Returns, ConnectReceived, AnnounceReceived, Retry, Fails, Finish, AssertFails, Connected

LEMMA RaceNext == RaceInv /\ [Next]_vars => RaceInv'
<1> SUFFICES ASSUME RaceInv, [Next]_vars PROVE RaceInv'
  OBVIOUS
<1> USE DEF RaceInv, FrameKept, NothingLost, InReceive
<1>1. CASE Resolved \/ ResolveOrSendFails
  BY <1>1 DEF Resolved, ResolveOrSendFails, Fails, Finish, sockVars, netVars
<1>2. CASE RequestSent
  BY <1>2 DEF RequestSent, StartReceive
<1>3. CASE TimerExpires
  BY <1>3 DEF TimerExpires, callVars, netVars
<1>4. CASE ReceiveCallback
  BY <1>4 DEF ReceiveCallback, Completion, CancelReadEnd, callVars, netVars
<1>5. CASE DatagramArrives
  BY <1>5 DEF DatagramArrives, callVars
<1>6. CASE ReceiveFails
  BY <1>6 DEF ReceiveFails, callVars, netVars
<1>7. CASE TrackerAnswers
  BY <1>7 DEF TrackerAnswers, callVars, sockVars
<1>8. CASE TimeoutWaited
  <2>1. CASE finished
    <3>1. Returns /\ receive = "off" /\ receive' = "off"
      BY <1>8, <2>1 DEF TimeoutWaited, MayReturn
    <3>2. UNCHANGED <<datagram, error, finished, read_total, read_end>>
      BY <1>8 DEF TimeoutWaited
    <3> QED BY <1>8, <3>1, <3>2, ReturnsLeave DEF TimeoutWaited
  <2>2. CASE ~finished
    BY <1>8, <2>2 DEF TimeoutWaited, MayReturn, netVars
  <2> QED BY <2>1, <2>2
<1>9. CASE ReadEndWaited
  <2>1. Returns /\ receive = "off" /\ UNCHANGED <<receive, datagram, error, finished>> /\ read_end' = FALSE
    BY <1>9 DEF ReadEndWaited
  <2> QED BY <2>1, <1>9, ReturnsLeave DEF ReadEndWaited
<1>10. CASE Terminated \/ UNCHANGED vars
  BY <1>10 DEF Terminated, vars, callVars, sockVars, netVars
<1> QED
  BY <1>1, <1>2, <1>3, <1>4, <1>5, <1>6, <1>7, <1>8, <1>9, <1>10 DEF Next

THEOREM RaceInvariance == Spec => []RaceInv
<1>1. Init /\ [][Next]_vars => []RaceInv
  BY RaceInit, RaceNext, PTL
<1> QED BY <1>1, PTL DEF Spec

\* The callback never runs on the frame of a coroutine that has returned.
THEOREM FrameOutlivesCallback == Spec => []CallbackNeverOutlivesFrame
<1>1. RaceInv => CallbackNeverOutlivesFrame
  BY DEF RaceInv, FrameKept, InReceive, CallbackNeverOutlivesFrame
<1> QED BY <1>1, RaceInvariance, PTL

\* An exchange times out only if the socket took no datagram.
THEOREM NoAnswerThrownAway == Spec => []TimeoutMeansNoAnswer
<1>1. RaceInv => TimeoutMeansNoAnswer
  BY DEF RaceInv, NothingLost, TimeoutMeansNoAnswer
<1> QED BY <1>1, RaceInvariance, PTL

-----------------------------------------------------------------------------
(* The bytes of a list of peers.                                           *)

LEMMA PackedType ==
  ASSUME NEW list \in Seq(Address)
  PROVE  Packed(list) \in Seq(AddressByte) /\ Len(Packed(list)) = AddressSize * Len(list)
<1>1. \A n \in 1 .. AddressSize * Len(list) : (n - 1) \div AddressSize + 1 \in 1 .. Len(list)
  BY DEF AddressSize
<1>2. \A n \in 1 .. AddressSize * Len(list) : (n - 1) % AddressSize \in 0 .. AddressSize - 1
  BY DEF AddressSize
<1>3. Len(list) \in Nat /\ AddressSize * Len(list) \in Nat
  BY DEF AddressSize
<1>4. \A n \in 1 .. Len(list) : list[n] \in Address
  OBVIOUS
<1>5. Packed(list) \in [1 .. AddressSize * Len(list) -> AddressByte]
  BY <1>1, <1>2, <1>4 DEF Packed, AddressByte
<1> QED BY <1>3, <1>5

\* The bytes of the address k are those of a list with that address alone.
LEMMA PackedAt ==
  ASSUME NEW list \in Seq(Address), NEW k \in 1 .. Len(list)
  PROVE  SubSeq(Packed(list), AddressAt(k) + 1, AddressAt(k) + AddressSize) = Packed(<<list[k]>>)
<1> DEFINE from == AddressAt(k)
<1>1. Len(list) \in Nat /\ from \in Nat /\ from + AddressSize <= AddressSize * Len(list)
  BY DEF AddressAt, AddressSize
<1>2. \A n \in 1 .. AddressSize :
        ((from + n) - 1) \div AddressSize + 1 = k /\ ((from + n) - 1) % AddressSize = n - 1
  BY DEF AddressAt, AddressSize
<1> HIDE DEF from
<1>3. \A n \in 1 .. AddressSize : Packed(list)[from + n] = <<list[k], n - 1>>
  <2> TAKE n \in 1 .. AddressSize
  <2>1. from + n \in 1 .. AddressSize * Len(list)
    BY <1>1 DEF AddressSize
  <2>2. \A m \in 1 .. AddressSize * Len(list) :
          Packed(list)[m] = <<list[(m - 1) \div AddressSize + 1], (m - 1) % AddressSize>>
    BY DEF Packed
  <2>3. Packed(list)[from + n]
          = <<list[((from + n) - 1) \div AddressSize + 1], ((from + n) - 1) % AddressSize>>
    BY <2>1, <2>2, Zenon
  <2> QED BY <1>2, <2>3
<1>4. SubSeq(Packed(list), from + 1, from + AddressSize) = [n \in 1 .. AddressSize |-> Packed(list)[from + n]]
  <2>1. Packed(list) \in Seq(AddressByte) /\ Len(Packed(list)) = AddressSize * Len(list)
    BY PackedType
  <2>2. \A i \in from + 1 .. from + AddressSize : Packed(list)[i] \in AddressByte
    BY <1>1, <2>1 DEF AddressSize
  <2>3. from + 1 \in Int /\ from + AddressSize \in Int /\ (from + AddressSize) - (from + 1) + 1 = AddressSize
    BY <1>1 DEF AddressSize
  <2> DEFINE sub == SubSeq(Packed(list), from + 1, from + AddressSize)
  <2>4. /\ sub \in Seq(AddressByte)
        /\ Len(sub) = IF from + 1 <= from + AddressSize THEN (from + AddressSize) - (from + 1) + 1 ELSE 0
        /\ \A i \in 1 .. (from + AddressSize) - (from + 1) + 1 : sub[i] = Packed(list)[(from + 1) + i - 1]
    BY <2>2, <2>3, SubSeqProperties
  <2> HIDE DEF sub
  <2>5. Len(sub) = AddressSize
    BY <1>1, <2>3, <2>4 DEF AddressSize
  <2>6. \A n \in 1 .. AddressSize : (from + 1) + n - 1 = from + n
    BY <1>1 DEF AddressSize
  <2>7. \A n \in 1 .. AddressSize : sub[n] = Packed(list)[from + n]
    BY <2>3, <2>4, <2>6
  <2>8. sub = [n \in 1 .. AddressSize |-> Packed(list)[from + n]]
    BY <2>4, <2>5, <2>7
  <2> QED BY <2>8 DEF sub
<1>5. Packed(<<list[k]>>) = [n \in 1 .. AddressSize |-> <<list[k], n - 1>>]
  <2>1. \A n \in 1 .. AddressSize : (n - 1) \div AddressSize = 0 /\ (n - 1) % AddressSize = n - 1
    BY DEF AddressSize
  <2> QED BY <2>1 DEF Packed, AddressSize
<1> QED BY <1>3, <1>4, <1>5 DEF from

-----------------------------------------------------------------------------
(* Which answers there are.  Requests are never repeated, so the first is  *)
(* the connect and the second the announce.                                *)

First == ConnectRequest(1)
Second == AnnounceRequest(2, 1)

ConnectReply == Reply("connect", First, 1, <<>>, <<>>, ConnectSize)
ListBytes(list, cut) == SubSeq(Packed(list), 1, AddressSize * Len(list) - cut)
AnnounceReply(list, cut) ==
  Reply("announce", Second, 0, list, ListBytes(list, cut), HeaderSize + Len(ListBytes(list, cut)))
ErrorReply(q, size) == Reply("error", q, 0, <<>>, <<>>, size)

\* An answer to a request that was sent.
AnswerTo(sent, m) ==
  \/ m = ConnectReply
  \/ /\ Second \in sent
     /\ \E list \in PeerLists, cut \in 0 .. 1 : cut <= AddressSize * Len(list) /\ m = AnnounceReply(list, cut)
  \/ \E q \in sent, size \in ErrorSizes : m = ErrorReply(q, size)

Genuine(m) == AnswerTo(requests, m)

\* The requests sent so far.
Exchanges ==
  /\ pc \in {"resolve", "send", "wait", "drain", "done"}
  /\ stage \in {"connect", "announce"}
  /\ attempt = 0
  /\ pc = "resolve" => stage = "connect"
  /\ pc \in {"resolve", "send"} /\ stage = "connect" => requests = {} /\ transaction_id_ = 0
  /\ InReceive /\ stage = "connect" => requests = {First} /\ transaction_id_ = 1
  /\ pc = "send" /\ stage = "announce" =>
       requests = {First} /\ transaction_id_ = 1 /\ connection_id_ = 1
  /\ InReceive /\ stage = "announce" => requests = {First, Second} /\ transaction_id_ = 2
  /\ requests \subseteq {First, Second}

Answers ==
  /\ \A m \in network : Genuine(m)
  /\ datagram = NoDatagram \/ Genuine(datagram)
  /\ receive = "received" => Genuine(datagram)
  /\ InReceive /\ finished /\ error = "none" => Genuine(datagram) /\ read_total = datagram.size

Results ==
  /\ AbortsOnlyOnErrorReply /\ PeersFromOwnAnnounce
  /\ failed_assert # "none" \/ result = "peers" => pc = "done"

MessageInv == Exchanges /\ Answers /\ Results

LEMMA MessageInit == Init => MessageInv
BY DEF Init, MessageInv, Exchanges, Answers, Results, InReceive, AbortsOnlyOnErrorReply, PeersFromOwnAnnounce

\* What the tracker may send now is an answer to one of the two requests.
LEMMA RepliesGenuine ==
  ASSUME Exchanges, NEW q \in requests, TrackerReplies(q), \A m \in network : Genuine(m)
  PROVE  \A m \in network' : Genuine(m)
<1>1. q = First \/ q = Second
  BY DEF Exchanges
<1>2. First.stage = "connect" /\ First.transaction_id_ = 1 /\ Second.stage = "announce"
  BY DEF First, Second, ConnectRequest, AnnounceRequest
<1>3. CASE q.stage = "connect" /\ network' = network \union {Reply("connect", q, q.transaction_id_, <<>>, <<>>, ConnectSize)}
  BY <1>1, <1>2, <1>3 DEF Genuine, AnswerTo, ConnectReply
<1>4. ASSUME q.stage = "announce",
             NEW list \in PeerLists, NEW cut \in 0 .. 1, cut <= AddressSize * Len(list),
             network' = network \union
               {Reply("announce", q, 0, list, ListBytes(list, cut), HeaderSize + Len(ListBytes(list, cut)))}
      PROVE  \A m \in network' : Genuine(m)
  <2>1. q = Second
    BY <1>1, <1>2, <1>4
  <2> QED BY <1>4, <2>1 DEF Genuine, AnswerTo, AnnounceReply
<1>5. ASSUME NEW size \in ErrorSizes, network' = network \union {Reply("error", q, 0, <<>>, <<>>, size)}
      PROVE  \A m \in network' : Genuine(m)
  BY <1>5 DEF Genuine, AnswerTo, ErrorReply
<1> QED BY <1>3, <1>4, <1>5 DEF TrackerReplies, ListBytes

\* The fields the checks on an answer look at.
LEMMA ReplyFields ==
  ASSUME NEW m, Genuine(m), requests \subseteq {First, Second}
  PROVE  \/ /\ m.action = "connect" /\ m.transaction_id_ = 1 /\ m.connection_id_ = 1
            /\ m.size = ConnectSize
         \/ /\ m.action = "announce" /\ m.transaction_id_ = 2 /\ Second \in requests
         \/ m.action = "error"
BY DEF Genuine, AnswerTo, ConnectReply, AnnounceReply, ErrorReply, Reply, First, Second, ConnectRequest, AnnounceRequest

\* The addresses read from an announce answer of whole addresses are those the
\* tracker listed.
LEMMA AddressesRead ==
  ASSUME NEW list \in PeerLists, NEW cut \in 0 .. 1, cut <= AddressSize * Len(list),
         datagram = AnnounceReply(list, cut), read_total = datagram.size, WholeAddresses
  PROVE  /\ datagram.list = list
         /\ Addresses = [k \in DOMAIN list |-> Packed(<<list[k]>>)]
<1> DEFINE size == AddressSize * Len(list)
<1>1. list \in Seq(Address) /\ Len(list) \in Nat /\ DOMAIN list = 1 .. Len(list)
  BY UdpTrackerAssumption
<1>2. Packed(list) \in Seq(AddressByte) /\ Len(Packed(list)) = size
  BY <1>1, PackedType
<1>3. datagram.list = list /\ datagram.bytes = ListBytes(list, cut)
      /\ datagram.size = HeaderSize + Len(ListBytes(list, cut))
  BY DEF AnnounceReply, Reply
<1>4. size \in Nat /\ size - cut \in Nat
  BY <1>1 DEF AddressSize
<1>5. Len(ListBytes(list, cut)) = size - cut
  BY <1>2, <1>4 DEF ListBytes
<1>6. read_total - HeaderSize = size - cut
  BY <1>3, <1>4, <1>5 DEF HeaderSize
<1>7. cut = 0
  BY <1>1, <1>6 DEF WholeAddresses, AddressSize
<1>8. ListBytes(list, cut) = Packed(list)
  BY <1>2, <1>4, <1>7 DEF ListBytes
<1>9. (read_total - HeaderSize) \div AddressSize = Len(list)
  BY <1>1, <1>6, <1>7 DEF AddressSize
<1>10. Addresses = [k \in 1 .. Len(list) |-> SubSeq(Packed(list), AddressAt(k) + 1, AddressAt(k) + AddressSize)]
  BY <1>3, <1>8, <1>9 DEF Addresses
<1>11. \A k \in 1 .. Len(list) :
         SubSeq(Packed(list), AddressAt(k) + 1, AddressAt(k) + AddressSize) = Packed(<<list[k]>>)
  BY <1>1, PackedAt
<1> QED BY <1>1, <1>3, <1>10, <1>11

LEMMA GenuineKept ==
  ASSUME requests \subseteq requests', NEW m, Genuine(m)
  PROVE  AnswerTo(requests', m)
BY DEF Genuine, AnswerTo

-----------------------------------------------------------------------------
(* A return from AsyncReceiveWithTimeout.                                  *)

\* The connect never fails an assertion on an answer to it, and goes on with
\* the connection id the tracker gave.
LEMMA ConnectReturns ==
  ASSUME RaceInv, MessageInv, InReceive, finished, stage = "connect", ConnectReceived
  PROVE  \/ /\ pc' = "done" /\ UNCHANGED <<stage, attempt, connection_id_, peers_>>
            /\ UNCHANGED failed_assert \/ datagram.action = "error"
            /\ result' \in {result, "failed", "timeout"}
         \/ /\ pc' = "send" /\ stage' = "announce" /\ connection_id_' = 1
            /\ UNCHANGED <<attempt, peers_, result, failed_assert>>
<1>1. ~RetriesLeft /\ requests = {First} /\ transaction_id_ = 1
  BY DEF RetriesLeft, RetryNMax, MessageInv, Exchanges
<1>2. CASE error \in {"operation_aborted", "failed"} \/ read_total < ConnectSize
  BY <1>1, <1>2 DEF ConnectReceived, Fails, Finish
<1>3. CASE error = "none"
  <2>1. Genuine(datagram) /\ Second \notin requests
    BY <1>1, <1>3 DEF MessageInv, Answers, First, Second, ConnectRequest, AnnounceRequest
  <2>2. \/ datagram.action = "error"
        \/ datagram.action = "connect" /\ datagram.transaction_id_ = 1 /\ datagram.connection_id_ = 1
    BY <1>1, <2>1, ReplyFields
  <2> QED BY <1>1, <1>3, <2>2 DEF ConnectReceived, Fails, Finish, AssertFails, Connected
<1> QED BY <1>2, <1>3 DEF RaceInv, FrameKept

\* The announce never fails an assertion on an answer to it or to the
\* connect, and returns the peers of its own answer.
LEMMA AnnounceReturns ==
  ASSUME RaceInv, MessageInv, InReceive, finished, stage = "announce", AnnounceReceived
  PROVE  /\ pc' = "done" /\ UNCHANGED <<stage, attempt, connection_id_>>
         /\ UNCHANGED failed_assert \/ datagram.action = "error"
         /\ \/ result' \in {result, "failed", "timeout"} /\ UNCHANGED peers_
            \/ /\ datagram.action = "announce" /\ datagram.transaction_id_ = 2
               /\ datagram.list # <<>>
               /\ peers_' = [k \in DOMAIN datagram.list |-> Packed(<<datagram.list[k]>>)]
<1>1. requests = {First, Second} /\ transaction_id_ = 2
  BY DEF MessageInv, Exchanges
<1>2. CASE error \in {"operation_aborted", "failed"} \/ read_total < HeaderSize \/ ~WholeAddresses
  BY <1>2 DEF AnnounceReceived, Fails, Finish
<1>3. CASE error = "none" /\ ~(read_total < HeaderSize) /\ WholeAddresses
  <2>1. Genuine(datagram) /\ read_total = datagram.size
    BY <1>3 DEF MessageInv, Answers
  <2>2. datagram # ConnectReply
    BY <1>3, <2>1 DEF ConnectReply, Reply, ConnectSize, HeaderSize
  <2>3. CASE \E q \in requests, size \in ErrorSizes : datagram = ErrorReply(q, size)
    <3>1. datagram.action = "error"
      BY <2>3 DEF ErrorReply, Reply
    <3> QED BY <1>3, <3>1 DEF AnnounceReceived, AssertFails
  <2>4. ASSUME NEW list \in PeerLists, NEW cut \in 0 .. 1, cut <= AddressSize * Len(list),
               datagram = AnnounceReply(list, cut)
        PROVE  /\ datagram.action = "announce" /\ datagram.transaction_id_ = 2
               /\ Addresses = [k \in DOMAIN datagram.list |-> Packed(<<datagram.list[k]>>)]
               /\ Addresses # <<>> => datagram.list # <<>>
    <3>1. datagram.action = "announce" /\ datagram.transaction_id_ = 2
      BY <2>4 DEF AnnounceReply, Reply, Second, AnnounceRequest
    <3>2. datagram.list = list /\ Addresses = [k \in DOMAIN list |-> Packed(<<list[k]>>)]
      BY <1>3, <2>1, <2>4, AddressesRead
    <3>3. ASSUME list = <<>> PROVE Addresses = <<>>
      BY <3>2, <3>3
    <3> QED BY <3>1, <3>2, <3>3
  <2>5. CASE \E list \in PeerLists, cut \in 0 .. 1 :
               cut <= AddressSize * Len(list) /\ datagram = AnnounceReply(list, cut)
    <3>1. /\ datagram.action = "announce" /\ datagram.transaction_id_ = 2
          /\ Addresses = [k \in DOMAIN datagram.list |-> Packed(<<datagram.list[k]>>)]
          /\ Addresses # <<>> => datagram.list # <<>>
      BY <2>4, <2>5
    <3> QED BY <1>1, <1>3, <3>1 DEF AnnounceReceived, Fails, Finish
  <2> QED BY <2>1, <2>2, <2>3, <2>5 DEF Genuine, AnswerTo
<1> QED BY <1>2, <1>3 DEF RaceInv, FrameKept

\* A return keeps the bookkeeping of the messages.
LEMMA ReturnsKeepMessages ==
  ASSUME RaceInv, MessageInv, InReceive, finished, Returns,
         receive' = "off", UNCHANGED <<datagram, requests, network>>
  PROVE  MessageInv'
<1>1. pc # "done" /\ failed_assert = "none" /\ result # "peers" /\ UNCHANGED transaction_id_
  BY DEF InReceive, MessageInv, Results, Returns
<1>2. CASE stage = "connect"
  <2>1. \/ /\ pc' = "done" /\ UNCHANGED <<stage, attempt, connection_id_, peers_>>
           /\ UNCHANGED failed_assert \/ datagram.action = "error"
           /\ result' \in {result, "failed", "timeout"}
        \/ /\ pc' = "send" /\ stage' = "announce" /\ connection_id_' = 1
           /\ UNCHANGED <<attempt, peers_, result, failed_assert>>
    BY <1>2, ConnectReturns DEF Returns
  <2>2. Exchanges'
    BY <1>1, <1>2, <2>1 DEF MessageInv, Exchanges, InReceive
  <2>3. Answers'
    BY <1>1, <2>1 DEF MessageInv, Answers, Genuine, InReceive
  <2>4. Results'
    BY <1>1, <2>1 DEF MessageInv, Results, AbortsOnlyOnErrorReply, PeersFromOwnAnnounce
  <2> QED BY <2>2, <2>3, <2>4 DEF MessageInv
<1>3. CASE stage = "announce"
  <2>1. /\ pc' = "done" /\ UNCHANGED <<stage, attempt, connection_id_>>
        /\ UNCHANGED failed_assert \/ datagram.action = "error"
        /\ \/ result' \in {result, "failed", "timeout"}
           \/ /\ datagram.action = "announce" /\ datagram.transaction_id_ = 2
              /\ datagram.list # <<>>
              /\ peers_' = [k \in DOMAIN datagram.list |-> Packed(<<datagram.list[k]>>)]
    BY <1>3, AnnounceReturns DEF Returns
  <2>2. Exchanges'
    BY <1>1, <1>3, <2>1 DEF MessageInv, Exchanges, InReceive
  <2>3. Answers'
    BY <1>1, <2>1 DEF MessageInv, Answers, Genuine, InReceive
  <2>4. AbortsOnlyOnErrorReply'
    BY <1>1, <2>1 DEF AbortsOnlyOnErrorReply
  <2>5. ASSUME datagram.transaction_id_ = 2
        PROVE  \E announce, connect \in requests :
                 /\ announce.stage = "announce" /\ announce.transaction_id_ = datagram.transaction_id_
                 /\ connect.stage = "connect" /\ connect.transaction_id_ = announce.connection_id_
    <3>1. First \in requests /\ Second \in requests
      BY <1>3 DEF MessageInv, Exchanges
    <3>2. /\ Second.stage = "announce" /\ Second.transaction_id_ = 2
          /\ First.stage = "connect" /\ First.transaction_id_ = Second.connection_id_
      BY DEF First, Second, ConnectRequest, AnnounceRequest
    <3> QED BY <2>5, <3>1, <3>2
  <2>6. PeersFromOwnAnnounce'
    BY <1>1, <2>1, <2>5 DEF PeersFromOwnAnnounce
  <2> QED BY <2>1, <2>2, <2>3, <2>4, <2>6 DEF MessageInv, Results
<1> QED BY <1>2, <1>3 DEF MessageInv, Exchanges

LEMMA MessageNext == RaceInv /\ MessageInv /\ [Next]_vars => MessageInv'
<1> SUFFICES ASSUME RaceInv, MessageInv, [Next]_vars PROVE MessageInv'
  OBVIOUS
<1> USE DEF InReceive
<1>1. CASE Resolved \/ ResolveOrSendFails
  <2>1. /\ pc \in {"resolve", "send"} /\ result' \in {result, "failed"}
        /\ (pc = "resolve" /\ pc' = "send") \/ pc' = "done"
        /\ UNCHANGED <<stage, attempt, transaction_id_, connection_id_, peers_, failed_assert>>
        /\ UNCHANGED <<receive, datagram, finished, error, read_total, requests, network>>
    BY <1>1 DEF Resolved, ResolveOrSendFails, Fails, Finish, sockVars, netVars
  <2>2. Exchanges'
    BY <2>1 DEF MessageInv, Exchanges
  <2>3. Answers'
    BY <2>1 DEF MessageInv, Answers, Genuine
  <2>4. Results'
    BY <2>1 DEF MessageInv, Results, AbortsOnlyOnErrorReply, PeersFromOwnAnnounce
  <2> QED BY <2>2, <2>3, <2>4 DEF MessageInv
<1>2. CASE RequestSent
  <2>1. /\ pc = "send" /\ pc' = "wait" /\ transaction_id_' = transaction_id_ + 1
        /\ requests' = requests \union
             {IF stage = "connect" THEN ConnectRequest(transaction_id_')
              ELSE AnnounceRequest(transaction_id_', connection_id_)}
        /\ receive' = "pending" /\ datagram' = NoDatagram /\ finished' = FALSE
        /\ UNCHANGED <<stage, attempt, connection_id_, peers_, result, failed_assert, network>>
    BY <1>2 DEF RequestSent, StartReceive
  <2>2. \/ stage = "connect" /\ requests' = {First} /\ transaction_id_' = 1
        \/ stage = "announce" /\ requests' = {First, Second} /\ transaction_id_' = 2
    BY <2>1 DEF MessageInv, Exchanges, First, Second
  <2>3. Exchanges'
    BY <2>1, <2>2 DEF MessageInv, Exchanges
  <2>4. \A m \in network' : AnswerTo(requests', m)
    BY <2>1, GenuineKept DEF MessageInv, Answers
  <2>5. Answers'
    BY <2>1, <2>4 DEF Answers, Genuine
  <2>6. Results'
    BY <2>1 DEF MessageInv, Results, AbortsOnlyOnErrorReply, PeersFromOwnAnnounce
  <2> QED BY <2>3, <2>5, <2>6 DEF MessageInv
<1>3. CASE TimerExpires
  <2>1. UNCHANGED <<callVars, receive, datagram, error, finished, read_total, netVars>>
    BY <1>3 DEF TimerExpires
  <2> QED BY <2>1 DEF callVars, netVars, MessageInv, Exchanges, Answers, Genuine, Results,
                      AbortsOnlyOnErrorReply, PeersFromOwnAnnounce
<1>4. CASE ReceiveCallback
  <2>1. /\ UNCHANGED <<callVars, datagram, netVars>> /\ receive' = "off"
        /\ error' = "none" => receive = "received" /\ read_total' = datagram.size
    BY <1>4 DEF ReceiveCallback, Completion
  <2>2. Answers'
    BY <2>1 DEF MessageInv, Answers, Genuine, callVars, netVars
  <2>3. Exchanges' /\ Results'
    BY <2>1 DEF callVars, netVars, MessageInv, Exchanges, Results, AbortsOnlyOnErrorReply, PeersFromOwnAnnounce
  <2> QED BY <2>2, <2>3 DEF MessageInv
<1>5. CASE DatagramArrives
  <2>1. pc \in {"wait", "drain"} /\ ~finished
    BY <1>5 DEF DatagramArrives, RaceInv, FrameKept
  <2>2. /\ datagram' \in network /\ network' \subseteq network
        /\ UNCHANGED <<callVars, finished, error, read_total, requests>>
    BY <1>5 DEF DatagramArrives
  <2>3. Answers'
    BY <2>1, <2>2 DEF MessageInv, Answers, Genuine
  <2>4. Exchanges'
    BY <2>2 DEF callVars, MessageInv, Exchanges
  <2>5. failed_assert' = "none" /\ result' # "peers"
    BY <2>1, <2>2 DEF callVars, MessageInv, Results
  <2>6. Results'
    BY <2>5 DEF Results, AbortsOnlyOnErrorReply, PeersFromOwnAnnounce
  <2> QED BY <2>3, <2>4, <2>6 DEF MessageInv
<1>6. CASE ReceiveFails
  <2>1. receive' = "failed" /\ UNCHANGED <<callVars, datagram, error, finished, read_total, netVars>>
    BY <1>6 DEF ReceiveFails
  <2> QED BY <2>1 DEF callVars, netVars, MessageInv, Exchanges, Answers, Genuine, Results,
                      AbortsOnlyOnErrorReply, PeersFromOwnAnnounce
<1>7. CASE TrackerAnswers
  <2>1. UNCHANGED <<callVars, sockVars, requests>>
    BY <1>7 DEF TrackerAnswers
  <2>2. \A m \in network' : Genuine(m)
    BY <1>7, RepliesGenuine DEF TrackerAnswers, MessageInv, Answers
  <2>3. Answers'
    BY <2>1, <2>2 DEF callVars, sockVars, MessageInv, Answers, Genuine
  <2>4. Exchanges' /\ Results'
    BY <2>1 DEF callVars, sockVars, MessageInv, Exchanges, Results, AbortsOnlyOnErrorReply, PeersFromOwnAnnounce
  <2> QED BY <2>3, <2>4 DEF MessageInv
<1>8. CASE TimeoutWaited
  <2>1. CASE finished
    BY <1>8, <2>1, ReturnsKeepMessages DEF TimeoutWaited, MayReturn, RaceInv, FrameKept, netVars
  <2>2. CASE ~finished
    <3>1. /\ pc = "wait" /\ pc' = "drain" /\ receive' \in {receive, "cancelled"}
          /\ UNCHANGED <<stage, attempt, transaction_id_, connection_id_, peers_, result, failed_assert>>
          /\ UNCHANGED <<datagram, error, finished, read_total, requests, network>>
      BY <1>8, <2>2 DEF TimeoutWaited, MayReturn, netVars
    <3> QED BY <3>1 DEF MessageInv, Exchanges, Answers, Genuine, Results,
                        AbortsOnlyOnErrorReply, PeersFromOwnAnnounce
  <2> QED BY <2>1, <2>2
<1>9. CASE ReadEndWaited
  BY <1>9, ReturnsKeepMessages DEF ReadEndWaited, RaceInv, FrameKept, netVars
<1>10. CASE Terminated \/ UNCHANGED vars
  BY <1>10 DEF Terminated, vars, callVars, sockVars, netVars, MessageInv, Exchanges, Answers, Genuine,
               Results, AbortsOnlyOnErrorReply, PeersFromOwnAnnounce
<1> QED
  BY <1>1, <1>2, <1>3, <1>4, <1>5, <1>6, <1>7, <1>8, <1>9, <1>10 DEF Next

THEOREM MessageInvariance == Spec => []MessageInv
<1>1. Init /\ [][Next]_vars => []MessageInv
  BY RaceInit, RaceNext, MessageInit, MessageNext, PTL
<1> QED BY <1>1, PTL DEF Spec

\* An answer that is late or a copy trips no assertion; only an error reply
\* does.
THEOREM OnlyErrorRepliesAbort == Spec => []AbortsOnlyOnErrorReply
<1>1. MessageInv => AbortsOnlyOnErrorReply
  BY DEF MessageInv, Results
<1> QED BY <1>1, MessageInvariance, PTL

\* The peers returned are those the tracker listed in its answer to the own
\* announce, every byte of them, for lists of every length.
THEOREM PeersAreOwn == Spec => []PeersFromOwnAnnounce
<1>1. MessageInv => PeersFromOwnAnnounce
  BY DEF MessageInv, Results
<1> QED BY <1>1, MessageInvariance, PTL

-----------------------------------------------------------------------------
(* Types.                                                                  *)

LEMMA NoDatagramType == NoDatagram \in Datagram
<1>1. <<>> \in Seq(AddressByte)
  OBVIOUS
<1> QED BY <1>1 DEF NoDatagram, Datagram

LEMMA TypeInit == Init => TypeOK
<1>1. <<>> \in Seq(Seq(AddressByte))
  OBVIOUS
<1> SUFFICES ASSUME Init PROVE TypeOK
  OBVIOUS
<1>2. peers_ \in Seq(Seq(AddressByte)) /\ datagram \in Datagram
  BY <1>1, NoDatagramType DEF Init
<1>3. network \subseteq Datagram
  BY DEF Init
<1>4. requests \subseteq [stage : {"connect", "announce"}, transaction_id_ : Nat, connection_id_ : Nat]
  BY DEF Init
<1>5. /\ attempt \in 0 .. RetryNMax /\ transaction_id_ \in Nat /\ connection_id_ \in Nat
      /\ read_total \in Nat
  BY DEF Init, RetryNMax
<1>6. finished \in BOOLEAN /\ read_end \in BOOLEAN
  BY DEF Init
<1>7. /\ pc \in {"resolve", "send", "wait", "drain", "done"} /\ stage \in {"connect", "announce"}
      /\ timeout \in {"off", "armed", "expired", "cancelled"}
      /\ receive \in {"off", "pending", "received", "failed", "cancelled"}
      /\ error \in {"none", "failed", "operation_aborted"}
      /\ result \in {"none", "peers", "failed", "timeout"}
      /\ failed_assert \in {"none", "action", "transaction_id", "connection_id"}
  BY DEF Init
<1> QED BY <1>2, <1>3, <1>4, <1>5, <1>6, <1>7, Zenon DEF TypeOK

LEMMA ReplyType ==
  ASSUME TypeOK, NEW q \in requests, TrackerReplies(q)
  PROVE  network' \subseteq Datagram
<1>1. network \subseteq Datagram /\ q.transaction_id_ \in Nat
  BY DEF TypeOK
<1>2. CASE network' = network \union {Reply("connect", q, q.transaction_id_, <<>>, <<>>, ConnectSize)}
  <2>1. <<>> \in Seq(AddressByte)
    OBVIOUS
  <2>2. Reply("connect", q, q.transaction_id_, <<>>, <<>>, ConnectSize) \in Datagram
    BY <1>1, <2>1 DEF Reply, Datagram, ConnectSize
  <2> QED BY <1>1, <1>2, <2>2
<1>3. ASSUME NEW list \in PeerLists, NEW cut \in 0 .. 1, cut <= AddressSize * Len(list),
             network' = network \union
               {Reply("announce", q, 0, list, ListBytes(list, cut), HeaderSize + Len(ListBytes(list, cut)))}
      PROVE  network' \subseteq Datagram
  <2>1. list \in Seq(Address)
    BY UdpTrackerAssumption
  <2>2. Packed(list) \in Seq(AddressByte) /\ Len(Packed(list)) = AddressSize * Len(list)
    BY <2>1, PackedType
  <2>3. AddressSize * Len(list) \in Nat /\ AddressSize * Len(list) - cut \in Nat
    BY <1>3, <2>1 DEF AddressSize
  <2>4. ListBytes(list, cut) \in Seq(AddressByte)
    BY <2>2, <2>3 DEF ListBytes
  <2>5. HeaderSize + Len(ListBytes(list, cut)) \in Nat
    BY <2>4 DEF HeaderSize
  <2> QED BY <1>1, <1>3, <2>4, <2>5 DEF Reply, Datagram
<1>4. ASSUME NEW size \in ErrorSizes, network' = network \union {Reply("error", q, 0, <<>>, <<>>, size)}
      PROVE  network' \subseteq Datagram
  <2>1. <<>> \in Seq(AddressByte) /\ size \in Nat
    BY UdpTrackerAssumption
  <2>2. Reply("error", q, 0, <<>>, <<>>, size) \in Datagram
    BY <1>1, <2>1 DEF Reply, Datagram
  <2> QED BY <1>1, <1>4, <2>2
<1> QED BY <1>2, <1>3, <1>4 DEF TrackerReplies, ListBytes

LEMMA ReturnsType ==
  ASSUME TypeOK, RaceInv, MessageInv, InReceive, finished, Returns
  PROVE  /\ pc' \in {"send", "done"} /\ stage' \in {"connect", "announce"}
         /\ attempt' \in 0 .. RetryNMax /\ connection_id_' \in Nat /\ transaction_id_' \in Nat
         /\ peers_' \in Seq(Seq(AddressByte)) /\ result' \in {"none", "peers", "failed", "timeout"}
         /\ failed_assert' \in {"none", "action", "transaction_id", "connection_id"}
<1>1. failed_assert' \in {"none", "action", "transaction_id", "connection_id"}
  BY DEF Returns, ConnectReceived, AnnounceReceived, Retry, Fails, Finish, AssertFails, Connected, TypeOK
<1>2. transaction_id_' \in Nat
  BY DEF Returns, TypeOK
<1>3. CASE stage = "connect"
  BY <1>1, <1>2, <1>3, ConnectReturns DEF Returns, TypeOK
<1>4. CASE stage = "announce"
  <2>1. result' \in {"none", "peers", "failed", "timeout"}
    BY <1>4 DEF Returns, AnnounceReceived, Fails, Finish, AssertFails, TypeOK
  <2>2. CASE UNCHANGED peers_
    BY <1>1, <1>2, <1>4, <2>1, <2>2, AnnounceReturns DEF Returns, TypeOK
  <2>3. CASE peers_' = [k \in DOMAIN datagram.list |-> Packed(<<datagram.list[k]>>)]
    <3>1. datagram.list \in Seq(Address)
      <4>1. datagram.list \in PeerLists \union {<<>>}
        BY DEF TypeOK, Datagram
      <4>2. <<>> \in Seq(Address)
        OBVIOUS
      <4> QED BY <4>1, <4>2, UdpTrackerAssumption
    <3>2. \A k \in DOMAIN datagram.list : Packed(<<datagram.list[k]>>) \in Seq(AddressByte)
      <4> TAKE k \in DOMAIN datagram.list
      <4>1. <<datagram.list[k]>> \in Seq(Address)
        BY <3>1
      <4> QED BY <4>1, PackedType
    <3>3. peers_' \in Seq(Seq(AddressByte))
      <4>1. Len(datagram.list) \in Nat /\ DOMAIN datagram.list = 1 .. Len(datagram.list)
        BY <3>1
      <4>2. peers_' \in [1 .. Len(datagram.list) -> Seq(AddressByte)]
        BY <2>3, <3>2, <4>1
      <4> QED BY <4>1, <4>2
    <3> QED BY <1>1, <1>2, <1>4, <2>1, <3>3, AnnounceReturns DEF Returns, TypeOK
  <2> QED BY <1>4, <2>2, <2>3, AnnounceReturns DEF Returns
<1> QED BY <1>3, <1>4 DEF TypeOK

LEMMA TypeNext == TypeOK /\ RaceInv /\ MessageInv /\ [Next]_vars => TypeOK'
<1> SUFFICES ASSUME TypeOK, RaceInv, MessageInv, [Next]_vars PROVE TypeOK'
  OBVIOUS
<1>1. CASE Resolved \/ ResolveOrSendFails
  BY <1>1 DEF Resolved, ResolveOrSendFails, Fails, Finish, sockVars, netVars, TypeOK
<1>2. CASE RequestSent
  <2>1. transaction_id_' \in Nat
    BY <1>2 DEF RequestSent, TypeOK
  <2>2. requests' \subseteq [stage : {"connect", "announce"}, transaction_id_ : Nat, connection_id_ : Nat]
    BY <1>2, <2>1 DEF RequestSent, ConnectRequest, AnnounceRequest, TypeOK
  <2> QED BY <1>2, <2>1, <2>2, NoDatagramType DEF RequestSent, StartReceive, TypeOK
<1>3. CASE TimerExpires
  BY <1>3 DEF TimerExpires, callVars, netVars, TypeOK
<1>4. CASE ReceiveCallback
  <2>1. error' \in {"none", "failed", "operation_aborted"} /\ read_end' \in BOOLEAN
    BY <1>4 DEF ReceiveCallback, Completion, CancelReadEnd
  <2>2. read_total' \in Nat
    BY <1>4 DEF ReceiveCallback, Datagram, TypeOK
  <2> QED BY <1>4, <2>1, <2>2 DEF ReceiveCallback, callVars, netVars, TypeOK
<1>5. CASE DatagramArrives
  BY <1>5 DEF DatagramArrives, callVars, TypeOK
<1>6. CASE ReceiveFails
  BY <1>6 DEF ReceiveFails, callVars, netVars, TypeOK
<1>7. CASE TrackerAnswers
  <2>1. network' \subseteq Datagram
    BY <1>7, ReplyType DEF TrackerAnswers
  <2> QED BY <1>7, <2>1 DEF TrackerAnswers, callVars, sockVars, TypeOK
<1>8. CASE TimeoutWaited
  <2>1. /\ pc = "wait" /\ timeout' = "off" /\ receive' \in {receive, "cancelled"}
        /\ UNCHANGED <<datagram, error, finished, read_total, read_end, netVars>>
    BY <1>8 DEF TimeoutWaited
  <2>2. CASE finished
    BY <1>8, <2>1, <2>2, ReturnsType DEF TimeoutWaited, MayReturn, InReceive, netVars, TypeOK
  <2>3. CASE ~finished
    BY <1>8, <2>1, <2>3 DEF TimeoutWaited, MayReturn, netVars, TypeOK
  <2> QED BY <2>2, <2>3
<1>9. CASE ReadEndWaited
  <2>1. /\ InReceive /\ finished /\ Returns /\ read_end' = FALSE
        /\ UNCHANGED <<timeout, receive, datagram, error, finished, read_total, netVars>>
    BY <1>9 DEF ReadEndWaited, InReceive, RaceInv, FrameKept
  <2> QED BY <2>1, ReturnsType DEF netVars, TypeOK
<1>10. CASE Terminated \/ UNCHANGED vars
  BY <1>10 DEF Terminated, vars, callVars, sockVars, netVars, TypeOK
<1> QED
  BY <1>1, <1>2, <1>3, <1>4, <1>5, <1>6, <1>7, <1>8, <1>9, <1>10 DEF Next

\* Every variable keeps its type, the peers returned among them: an address
\* is never read past the end of what was received.
THEOREM TypeCorrect == Spec => []TypeOK
<1>1. Init /\ [][Next]_vars => []TypeOK
  BY TypeInit, TypeNext, RaceInit, RaceNext, MessageInit, MessageNext, PTL
<1> QED BY <1>1, PTL DEF Spec
=============================================================================
