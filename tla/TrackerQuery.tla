---------------------------- MODULE TrackerQuery ----------------------------
(***************************************************************************)
(* The query string of an announce over HTTP: what build_http_request adds *)
(* to the URL and how cxxurl_detail writes it.  A string is a sequence of  *)
(* bytes.  The names of the keys the client adds, letters and underscores, *)
(* are shortened to one letter.                                            *)
(***************************************************************************)
EXTENDS Integers, SequencesExt

Byte == 0 .. 255

QueryEntry(key, val) == [key |-> key, val |-> val]

\* std::to_string.
Decimal(n) ==
  LET digits[m \in 0 .. n] ==
        IF m < 10 THEN <<48 + m>> ELSE Append(digits[m \div 10], 48 + (m % 10))
  IN digits[n]

\* The entries of the query: those of the tracker's URL, then the client's.
Query(own, info_hash, peer_id, server_port, uploaded, downloaded, left) ==
  own \o <<QueryEntry(<<105>>, info_hash), QueryEntry(<<112>>, peer_id), QueryEntry(<<80>>, Decimal(server_port)),
           QueryEntry(<<117>>, Decimal(uploaded)), QueryEntry(<<100>>, Decimal(downloaded)),
           QueryEntry(<<108>>, Decimal(left)), QueryEntry(<<99>>, Decimal(1))>>

\* is_char(c, 0x1F): letters, digits and ! $ & ' ( ) * + , - . / : ; = ? @ _ ~
IsChar(c) ==
  \/ c \in (38 .. 59) \union (63 .. 90) \union (97 .. 122)
  \/ c \in {33, 36, 61, 95, 126}

HexDigits == <<48, 49, 50, 51, 52, 53, 54, 55, 56, 57, 65, 66, 67, 68, 69, 70>>

\* Mutant: a plus sign is written as it is.
ValEscapesNoPlus == {38, 59}

\* The characters + & ; of a value, and + = & ; of a key.
ValEscapes == {43, 38, 59}
KeyEscapes == {43, 61, 38, 59}

Encode(c, escapes) ==
  IF c = 32 THEN <<43>>
  ELSE IF IsChar(c) /\ c \notin escapes THEN <<c>>
  ELSE <<37, HexDigits[c \div 16 + 1], HexDigits[(c % 16) + 1]>>

encode_query(s, escapes) == FlattenSeq([n \in DOMAIN s |-> Encode(s[n], escapes)])

\* build_query_str throws for an entry without a key.
HasAllKeys(query) == \A n \in DOMAIN query : query[n].key # <<>>

\* An entry without value has no equals sign.
EntryStr(e) ==
  encode_query(e.key, KeyEscapes)
    \o (IF e.val = <<>> THEN <<>> ELSE <<61>> \o encode_query(e.val, ValEscapes))

\* After the question mark.
build_query_str(query) ==
  Tail(FlattenSeq([n \in DOMAIN query |-> <<38>> \o EntryStr(query[n])]))

-----------------------------------------------------------------------------
(* How a tracker reads it (application/x-www-form-urlencoded).             *)

\* The places of the ampersands.
Ampersands(s) == FlattenSeq([n \in DOMAIN s |-> IF s[n] = 38 THEN <<n>> ELSE <<>>])

\* The parts of s between them.
Parts(s) ==
  LET border == <<0>> \o Ampersands(s) \o <<Len(s) + 1>>
  IN [n \in 1 .. Len(border) - 1 |-> SubSeq(s, border[n] + 1, border[n + 1] - 1)]

HexValue(c) == CHOOSE d \in 0 .. 15 : HexDigits[d + 1] = c

\* A percent sign takes the two characters that follow it.
Percent(s, n) == n > 0 /\ s[n] = 37
DecodedAt(s, n) ==
  IF Percent(s, n - 2) THEN <<16 * HexValue(s[n - 1]) + HexValue(s[n])>>
  ELSE IF Percent(s, n - 1) \/ Percent(s, n) THEN <<>>
  ELSE <<IF s[n] = 43 THEN 32 ELSE s[n]>>

Decoded(s) == FlattenSeq([n \in DOMAIN s |-> DecodedAt(s, n)])

\* The key ends at the first equals sign.
EntryRead(part) ==
  LET equals == {n \in DOMAIN part : part[n] = 61}
  IN IF equals = {} THEN QueryEntry(Decoded(part), <<>>)
     ELSE QueryEntry(Decoded(SubSeq(part, 1, Min(equals) - 1)),
                     Decoded(SubSeq(part, Min(equals) + 1, Len(part))))

QueryRead(s) == LET parts == Parts(s) IN [n \in DOMAIN parts |-> EntryRead(parts[n])]
=============================================================================
