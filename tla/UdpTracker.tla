----------------------------- MODULE UdpTracker -----------------------------
(***************************************************************************)
(* UDP_TrackerAnnounce of tracker_requests.cpp: a connect exchange, then an*)
(* announce, over a socket whose datagrams may be lost, delayed, reordered *)
(* and duplicated.  Each receive races a timer (AsyncReceiveWithTimeout):  *)
(* the callback of the receive and the coroutine that waits for the timer  *)
(* run on one thread, in the order their completions are queued, and an    *)
(* operation whose completion is queued can no longer be cancelled.        *)
(*                                                                         *)
(* Transaction ids are the numbers of the requests sent: two draws of      *)
(* random() are taken to differ.                                           *)
(***************************************************************************)
EXTENDS Integers, Sequences, FiniteSets

CONSTANTS
  Address,     \* addresses of peers
  PeerLists,   \* the lists of peers a tracker may send
  ErrorSizes,  \* sizes of the error replies (action 3) a tracker may send
  MaxOnTheWay  \* bound on the answers that are on their way at once

ASSUME UdpTrackerAssumption ==
  /\ PeerLists \subseteq Seq(Address)
  /\ ErrorSizes \subseteq Nat

\* Message_UDP_Connect::k_size, Message_UDP_Announce_Response::k_header_size,
\* k_address_size and the size of its buffer.
ConnectSize == 16
HeaderSize == 20
AddressSize == 6
AnnounceBufferSize == HeaderSize + 128 * AddressSize

\* Mutant: one retry.
RetryOnce == 1

\* k_retry_N_max.
RetryNMax == 0

VARIABLES
  pc, stage,        \* where the coroutine waits, and in which exchange
  attempt,          \* i of AsyncConnect
  transaction_id_,  \* of the last request
  connection_id_,   \* as the tracker gave it, 0 before
  timeout,          \* the timer: "off", "armed", or its completion is queued
  receive,          \* async_receive_from: "off", "pending", or its completion is queued
  datagram,         \* what was received, while it matters
  error, finished, read_total,
  read_end,         \* whether the wait for read_end was cancelled
  requests, network,
  peers_,           \* the addresses the announce returns
  result, failed_assert

sockVars == <<timeout, receive, datagram, error, finished, read_total, read_end>>
callVars == <<pc, stage, attempt, transaction_id_, connection_id_, peers_, result, failed_assert>>
netVars  == <<requests, network>>
vars == <<callVars, sockVars, netVars>>

NoDatagram == [action |-> "none", transaction_id_ |-> 0, connection_id_ |-> 0,
               list |-> <<>>, bytes |-> <<>>, size |-> 0]

Init ==
  /\ pc = "resolve" /\ stage = "connect" /\ attempt = 0
  /\ transaction_id_ = 0 /\ connection_id_ = 0
  /\ timeout = "off" /\ receive = "off" /\ datagram = NoDatagram
  /\ error = "none" /\ finished = FALSE /\ read_total = 0 /\ read_end = FALSE
  /\ requests = {} /\ network = {}
  /\ peers_ = <<>> /\ result = "none" /\ failed_assert = "none"

-----------------------------------------------------------------------------
(* The messages.                                                           *)

\* Message_UDP_Connect and Message_UDP_Announce, as far as the tracker's
\* answer depends on them.
ConnectRequest(id) == [stage |-> "connect", transaction_id_ |-> id, connection_id_ |-> 0]
AnnounceRequest(id, connection) == [stage |-> "announce", transaction_id_ |-> id, connection_id_ |-> connection]

-----------------------------------------------------------------------------
(* The network and the tracker.                                            *)

\* list is what the tracker means by the bytes after the header.
Reply(action, q, connection, list, bytes, size) ==
  [action |-> action, transaction_id_ |-> q.transaction_id_,
   connection_id_ |-> connection, list |-> list, bytes |-> bytes, size |-> size]

\* The addresses one after the other, byte by byte.
Packed(list) ==
  [n \in 1 .. AddressSize * Len(list) |->
     <<list[(n - 1) \div AddressSize + 1], (n - 1) % AddressSize>>]

\* A tracker that gets a request may answer it, more than once if the
\* request was duplicated; a request or an answer that is lost is one the
\* tracker does not act on.  The list may be cut short.
TrackerReplies(q) ==
  \/ /\ q.stage = "connect"
     /\ network' = network \union {Reply("connect", q, q.transaction_id_, <<>>, <<>>, ConnectSize)}
  \/ /\ q.stage = "announce"
     /\ \E list \in PeerLists : \E cut \in 0 .. 1 :
          /\ cut <= AddressSize * Len(list)
          /\ LET bytes == SubSeq(Packed(list), 1, AddressSize * Len(list) - cut)
             IN  network' = network \union
                   {Reply("announce", q, 0, list, bytes, HeaderSize + Len(bytes))}
  \/ \E size \in ErrorSizes : network' = network \union {Reply("error", q, 0, <<>>, <<>>, size)}

TrackerAnswers ==
  /\ pc # "done"
  /\ Cardinality(network) < MaxOnTheWay
  /\ \E q \in requests : TrackerReplies(q)
  /\ UNCHANGED <<callVars, sockVars, requests>>

-----------------------------------------------------------------------------
(* AsyncReceiveWithTimeout.                                                *)

StartReceive ==
  /\ timeout' = "armed"
  /\ receive' = "pending"
  /\ datagram' = NoDatagram
  /\ error' = "none"
  /\ finished' = FALSE
  /\ read_total' = 0
  /\ read_end' = FALSE

\* A datagram completes the receive.  It may have a copy still on its way.
DatagramArrives ==
  /\ receive = "pending"
  /\ \E m \in network :
       /\ datagram' = m
       /\ \/ network' = network
          \/ network' = network \ {m}
  /\ receive' = "received"
  /\ UNCHANGED <<callVars, timeout, error, finished, read_total, read_end, requests>>

\* The receive completes with an error, such as an unreachable port.
ReceiveFails ==
  /\ receive = "pending"
  /\ receive' = "failed"
  /\ UNCHANGED <<callVars, timeout, datagram, error, finished, read_total, read_end, netVars>>

TimerExpires ==
  /\ timeout = "armed"
  /\ timeout' = "expired"
  /\ UNCHANGED <<callVars, receive, datagram, error, finished, read_total, read_end, netVars>>

BufferSize == IF stage = "connect" THEN ConnectSize ELSE AnnounceBufferSize

\* Mutant: whatever completes after the timer expired is a timeout.
CompletionAfterTimeout ==
  CASE receive = "cancelled" \/ pc = "drain" -> "operation_aborted"
    [] receive = "failed" /\ pc # "drain" -> "failed"
    [] receive = "received" /\ pc # "drain" ->
         IF datagram.size > BufferSize THEN "failed" ELSE "none"

\* The error code the callback gets.
Completion ==
  CASE receive = "cancelled" -> "operation_aborted"
    [] receive = "failed" -> "failed"
    [] receive = "received" -> IF datagram.size > BufferSize THEN "failed" ELSE "none"

\* Mutant: the second wait is not ended.
CancelReadEndNever == FALSE

\* read_end.cancel() ends the second wait if the coroutine is in it.
CancelReadEnd == pc = "drain"

\* The callback of async_receive_from.  A timer that is still armed is
\* cancelled unless the receive was.
ReceiveCallback ==
  /\ receive \in {"received", "failed", "cancelled"}
  /\ timeout' = IF receive # "cancelled" /\ timeout = "armed" THEN "cancelled" ELSE timeout
  /\ error' = Completion
  /\ read_total' = IF Completion = "none" THEN datagram.size ELSE 0
  /\ finished' = TRUE
  /\ read_end' = CancelReadEnd
  /\ receive' = "off"
  /\ UNCHANGED <<callVars, datagram, netVars>>

-----------------------------------------------------------------------------
(* AsyncConnect and AsyncAnnounce, from the end of a receive on.           *)

Finish(how) ==
  /\ pc' = "done"
  /\ result' = how
  /\ UNCHANGED <<stage, attempt, connection_id_, failed_assert>>

Fails(how) == Finish(how) /\ UNCHANGED peers_

\* The program is over.
AssertFails(which) ==
  /\ pc' = "done"
  /\ failed_assert' = which
  /\ UNCHANGED <<stage, attempt, connection_id_, peers_, result>>

RetriesLeft == attempt < RetryNMax

\* The loop goes on only after a timeout, while retries are left.
Retry ==
  /\ pc' = "send"
  /\ attempt' = attempt + 1
  /\ UNCHANGED <<stage, connection_id_, peers_, result, failed_assert>>

Connected ==
  /\ pc' = "send"
  /\ stage' = "announce"
  /\ connection_id_' = datagram.connection_id_
  /\ UNCHANGED <<attempt, peers_, result, failed_assert>>

ConnectReceived ==
  IF error = "operation_aborted"
    THEN IF RetriesLeft THEN Retry ELSE Fails("timeout")
  ELSE IF error = "failed" \/ read_total < ConnectSize THEN Fails("failed")
  ELSE IF datagram.action # "connect" THEN AssertFails("action")
  ELSE IF datagram.transaction_id_ # transaction_id_ THEN AssertFails("transaction_id")
  ELSE IF datagram.connection_id_ = 0 THEN AssertFails("connection_id")
  ELSE Connected

\* Mutant: what is left of the reader is not advanced.
AddressAtFirst(k) == 0

\* Where the bytes of address k start, after the header.
AddressAt(k) == AddressSize * (k - 1)

\* Message_UDP_Announce_Response::ParseNetwork: behind the header are whole
\* addresses, an ip and a port each, up to the end of what was received.
WholeAddresses == (read_total - HeaderSize) % AddressSize = 0

Addresses ==
  [k \in 1 .. (read_total - HeaderSize) \div AddressSize |->
     SubSeq(datagram.bytes, AddressAt(k) + 1, AddressAt(k) + AddressSize)]

AnnounceReceived ==
  IF error = "operation_aborted" THEN Fails("timeout")
  ELSE IF error = "failed" \/ read_total < HeaderSize THEN Fails("failed")
  ELSE IF ~WholeAddresses THEN Fails("failed")
  ELSE IF datagram.action # "announce" THEN AssertFails("action")
  ELSE IF datagram.transaction_id_ # transaction_id_ THEN AssertFails("transaction_id")
  ELSE IF Addresses = <<>> THEN Fails("failed")
  ELSE Finish("peers") /\ peers_' = Addresses

\* AsyncReceiveWithTimeout returns; the frame of its locals is gone.
Returns ==
  /\ IF stage = "connect" THEN ConnectReceived ELSE AnnounceReceived
  /\ UNCHANGED transaction_id_

\* Mutant: the second wait is left out.
MayReturnAtOnce == TRUE

MayReturn == finished

\* The wait for the timer is over.  If it expired the receive is cancelled,
\* which does nothing to one that has completed; if its callback has not
\* run, wait for it.
TimeoutWaited ==
  /\ pc = "wait"
  /\ timeout \in {"expired", "cancelled"}
  /\ timeout' = "off"
  /\ receive' = IF timeout = "expired" /\ receive = "pending" THEN "cancelled" ELSE receive
  /\ IF MayReturn THEN Returns
     ELSE pc' = "drain"
          /\ UNCHANGED <<stage, attempt, transaction_id_, connection_id_, peers_, result, failed_assert>>
  /\ UNCHANGED <<datagram, error, finished, read_total, read_end, netVars>>

ReadEndWaited ==
  /\ pc = "drain"
  /\ read_end
  /\ read_end' = FALSE
  /\ Returns
  /\ UNCHANGED <<timeout, receive, datagram, error, finished, read_total, netVars>>

-----------------------------------------------------------------------------
(* UDP_TrackerAnnounce.                                                    *)

Resolved ==
  /\ pc = "resolve"
  /\ pc' = "send"
  /\ UNCHANGED <<stage, attempt, transaction_id_, connection_id_, peers_, result, failed_assert,
                 sockVars, netVars>>

\* The request of the current exchange goes out and its receive starts.
RequestSent ==
  /\ pc = "send"
  /\ transaction_id_' = transaction_id_ + 1
  /\ requests' = requests \union
       {IF stage = "connect" THEN ConnectRequest(transaction_id_')
        ELSE AnnounceRequest(transaction_id_', connection_id_)}
  /\ StartReceive
  /\ pc' = "wait"
  /\ UNCHANGED <<stage, attempt, connection_id_, peers_, result, failed_assert, network>>

ResolveOrSendFails ==
  /\ pc \in {"resolve", "send"}
  /\ Fails("failed")
  /\ UNCHANGED <<transaction_id_, sockVars, netVars>>

Terminated == pc = "done" /\ UNCHANGED vars

Next ==
  \/ Resolved \/ RequestSent \/ ResolveOrSendFails
  \/ TimerExpires \/ TimeoutWaited \/ ReadEndWaited \/ ReceiveCallback
  \/ DatagramArrives \/ ReceiveFails \/ TrackerAnswers
  \/ Terminated

\* The operating system completes what was started and the io_context runs
\* the handlers that are queued; the network and the tracker owe nothing.
Spec ==
  /\ Init /\ [][Next]_vars
  /\ WF_vars(Resolved \/ RequestSent \/ ResolveOrSendFails)
  /\ WF_vars(TimerExpires) /\ WF_vars(ReceiveCallback)
  /\ WF_vars(TimeoutWaited) /\ WF_vars(ReadEndWaited)

-----------------------------------------------------------------------------
(* Properties.                                                             *)

AddressByte == Address \X (0 .. AddressSize - 1)

Datagram == [action : {"none", "connect", "announce", "error"}, transaction_id_ : Nat,
             connection_id_ : Nat, list : PeerLists \union {<<>>},
             bytes : Seq(AddressByte), size : Nat]

TypeOK ==
  /\ pc \in {"resolve", "send", "wait", "drain", "done"}
  /\ stage \in {"connect", "announce"}
  /\ attempt \in 0 .. RetryNMax
  /\ transaction_id_ \in Nat
  /\ connection_id_ \in Nat
  /\ timeout \in {"off", "armed", "expired", "cancelled"}
  /\ receive \in {"off", "pending", "received", "failed", "cancelled"}
  /\ datagram \in Datagram
  /\ error \in {"none", "failed", "operation_aborted"}
  /\ finished \in BOOLEAN
  /\ read_total \in Nat
  /\ read_end \in BOOLEAN
  /\ requests \subseteq [stage : {"connect", "announce"}, transaction_id_ : Nat, connection_id_ : Nat]
  /\ network \subseteq Datagram
  /\ peers_ \in Seq(Seq(AddressByte))
  /\ result \in {"none", "peers", "failed", "timeout"}
  /\ failed_assert \in {"none", "action", "transaction_id", "connection_id"}

\* The callback of the receive refers to the locals of the coroutine by
\* reference: it never runs, and is never left queued, once
\* AsyncReceiveWithTimeout has returned, whichever of the datagram and the
\* timer comes first.
CallbackNeverOutlivesFrame == pc \notin {"wait", "drain"} => receive = "off"

\* A datagram the socket took is never thrown away as a timeout, even when
\* the timer expired before its callback ran.
TimeoutMeansNoAnswer ==
  pc = "done" /\ result = "timeout" => datagram = NoDatagram

\* Since each request is sent once, a delayed or duplicated answer never
\* trips an assertion (a second copy of the connect answer makes the
\* announce fail, no more); only a tracker that reports an error does.
AbortsOnlyOnErrorReply == failed_assert # "none" => datagram.action = "error"

\* The peers a round uses are those, all and in order, that the tracker
\* listed in its answer to the client's own announce, made with the
\* connection id the tracker gave.
PeersFromOwnAnnounce ==
  result = "peers" =>
    /\ datagram.action = "announce" /\ datagram.list # <<>>
    /\ peers_ = [k \in DOMAIN datagram.list |-> Packed(<<datagram.list[k]>>)]
    /\ \E announce, connect \in requests :
         /\ announce.stage = "announce" /\ announce.transaction_id_ = datagram.transaction_id_
         /\ connect.stage = "connect" /\ connect.transaction_id_ = announce.connection_id_

\* The announce always comes to an end, even if every datagram is lost.
AnnounceEnds == <>(pc = "done")
=============================================================================
