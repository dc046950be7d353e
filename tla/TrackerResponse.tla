--------------------------- MODULE TrackerResponse ---------------------------
(***************************************************************************)
(* be_tracker_response_parse.cpp: what a client makes of the dictionary a  *)
(* tracker answers.  A result is a set of at most one value, empty for a   *)
(* failure.                                                                *)
(***************************************************************************)
EXTENDS BencodeValues

PackedPeerSize == 6
ResponseKeys == {"interval", "peers", "failure reason"}

NoData == [tag |-> "none", peers_ |-> <<>>]

GetOrCreateOnly(data, tag) ==
  IF data.tag \in {"none", tag} THEN {[data EXCEPT !.tag = tag]} ELSE {}

\* rerequest_dt_secs_ is never read.
ParseResponse_Interval(data, interval) ==
  IF ParsesAsUint64(interval) THEN GetOrCreateOnly(data, "success") ELSE {}

ParseResponse_Peers(data, peers_blob) ==
  IF IsNonEmptyString(peers_blob) /\ peers_blob.n % PackedPeerSize = 0
  THEN {[state EXCEPT !.peers_ = @ \o peers_blob.items] :
          state \in GetOrCreateOnly(data, "success")}
  ELSE {}

ParseResponse_Failure(data, failure) ==
  IF IsString(failure) THEN GetOrCreateOnly(data, "error") ELSE {}

ParseKey(data, entry) ==
  CASE entry.key = "interval"       -> ParseResponse_Interval(data, entry.value)
    [] entry.key = "peers"          -> ParseResponse_Peers(data, entry.value)
    [] entry.key = "failure reason" -> ParseResponse_Failure(data, entry.value)

\* The loop over the entries; OUTCOME_TRY ends it.
InvokeParserOptionalKey(state, entry) ==
  IF ~Found(ResponseKeys, state.parsed, entry) THEN state
  ELSE [parsed |-> state.parsed \union {entry.key},
        data   |-> UNION {ParseKey(data, entry) : data \in state.data}]

ParseTrackerCompactResponseContent(entries) ==
  LET end == FoldLeft(InvokeParserOptionalKey, [parsed |-> {}, data |-> {NoData}], entries)
  IN {data \in end.data : data.tag # "none"}
=============================================================================
