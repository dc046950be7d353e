----------------------------- MODULE TorrentFile -----------------------------
(***************************************************************************)
(* From a .torrent file to a client: ParseTorrentFileContent of            *)
(* be_torrent_file_parse.cpp, one action per key, and the checks of        *)
(* TorrentClient::make.  The file is the dictionary that Bencode makes of  *)
(* it.  Which error a failure is, is left out.                             *)
(***************************************************************************)
EXTENDS BencodeValues, TorrentLayout

CONSTANTS
  Values,     \* the values there are
  Contents,   \* sequences of entries
  WideWord    \* 2^64

ASSUME TorrentFileAssumption ==
  /\ AreValues(Values) /\ Contents \subseteq Seq(Entries(Values))
  /\ WideWord = Word * Word

Sha1Length == 20

VARIABLES
  content,
  pc,             \* "keys", "info" inside of ParseInfo, "made", "failed", "aborted"
  at, info_at,    \* the next entry of the file and of its info
  parsed, info_parsed,   \* the keys with parsed_
  metainfo,
  info_position   \* the entry info_position_ is of, 0 for none

parseVars == <<at, info_at, parsed, info_parsed>>
vars == <<content, pc, parseVars, metainfo, info_position>>

\* pieces_SHA1_ is its size.
NoMetainfo ==
  [tracker_url_utf8_ |-> "", multi_trackers_ |-> <<>>, suggested_name_utf8_ |-> "",
   piece_length_bytes_ |-> 0, pieces_SHA1_ |-> 0, length_or_files_ |-> "none", files |-> <<>>]

Init ==
  /\ content \in Contents
  /\ pc = "keys" /\ at = 1 /\ info_at = 1
  /\ parsed = {} /\ info_parsed = {}
  /\ metainfo = NoMetainfo /\ info_position = 0

Fail ==
  /\ pc' = "failed"
  /\ UNCHANGED <<content, parseVars, metainfo, info_position>>

-----------------------------------------------------------------------------
(* The keys of the file.                                                   *)

Keys == {"announce", "info", "announce-list"}
AtKey == pc = "keys" /\ at <= Len(content)
Parses(key) == AtKey /\ content[at].key = key /\ Found(Keys, parsed, content[at])

\* The parser of a key succeeds.
KeyParsed(m) ==
  /\ metainfo' = m
  /\ at' = at + 1 /\ parsed' = parsed \union {content[at].key}
  /\ UNCHANGED <<content, pc, info_at, info_parsed, info_position>>

ParseAnnounce ==
  /\ Parses("announce")
  /\ LET str == content[at].value
     IN IF ~IsNonEmptyString(str) THEN Fail
        ELSE KeyParsed([metainfo EXCEPT !.tracker_url_utf8_ = str.text])

\* The URLs of a tier, what is not a URL left out.
Tier(urls, index) ==
  FlattenSeq([k \in DOMAIN urls |->
    IF IsNonEmptyString(urls[k]) THEN <<[url_utf8_ |-> urls[k].text, tier_ |-> index]>> ELSE <<>>])

\* Mutant: each tier that is a list is counted, not each element.
MultitrackersRenumbered(list) ==
  LET IsTier(e) == e.kind = "List"
      tiers == SelectSeq(list, IsTier)
  IN FlattenSeq([i \in DOMAIN tiers |-> Tier(tiers[i].items, i - 1)])

\* Those of all tiers, one after the other, what is not a tier left out.
Multitrackers(list) ==
  FlattenSeq([i \in DOMAIN list |->
    IF list[i].kind = "List" THEN Tier(list[i].items, i - 1) ELSE <<>>])

ParseAnnounceList ==
  /\ Parses("announce-list")
  /\ LET list == content[at].value
     IN IF list.kind # "List" THEN Fail
        ELSE KeyParsed([metainfo EXCEPT !.multi_trackers_ = @ \o Multitrackers(list.items)])

\* ParseInfo, up to its loop.
ParseInfo ==
  /\ Parses("info")
  /\ IF content[at].value.kind # "Dictionary" THEN Fail
     ELSE /\ pc' = "info"
          /\ UNCHANGED <<content, parseVars, metainfo, info_position>>

KeySkipped ==
  /\ AtKey /\ ~Found(Keys, parsed, content[at])
  /\ at' = at + 1
  /\ UNCHANGED <<content, pc, info_at, parsed, info_parsed, metainfo, info_position>>

-----------------------------------------------------------------------------
(* The keys of info.                                                       *)

InfoKeys == {"name", "piece length", "pieces", "length", "files"}
Info == content[at].value.items
AtInfoKey == pc = "info" /\ info_at <= Len(Info)
ParsesInfo(key) ==
  AtInfoKey /\ Info[info_at].key = key /\ Found(InfoKeys, info_parsed, Info[info_at])

InfoKeyParsed(m) ==
  /\ metainfo' = m
  /\ info_at' = info_at + 1 /\ info_parsed' = info_parsed \union {Info[info_at].key}
  /\ UNCHANGED <<content, pc, at, parsed, info_position>>

ParseInfo_Name ==
  /\ ParsesInfo("name")
  /\ LET name == Info[info_at].value
     IN IF ~IsString(name) THEN Fail
        ELSE InfoKeyParsed([metainfo EXCEPT !.suggested_name_utf8_ = name.text])

ParseInfo_PieceLength ==
  /\ ParsesInfo("piece length")
  /\ LET n == Info[info_at].value
     IN IF ~ParsesAsUint64(n) THEN Fail
        ELSE InfoKeyParsed([metainfo EXCEPT !.piece_length_bytes_ = n.n])

HashesAccepted(hashes) == IsNonEmptyString(hashes) /\ hashes.n % Sha1Length = 0

ParseInfo_Pieces ==
  /\ ParsesInfo("pieces")
  /\ LET hashes == Info[info_at].value
     IN IF ~HashesAccepted(hashes) THEN Fail
        ELSE InfoKeyParsed([metainfo EXCEPT !.pieces_SHA1_ = hashes.n])

\* Mutant: what was parsed first stays out of the way.
AmbiguousNever == FALSE

\* length_or_files_.index() != 0.
Ambiguous == metainfo.length_or_files_ # "none"

\* emplace<1>, and emplace<2> below.  A file is its length and the parts of its
\* path, which JoinUTF8PartsToString puts together.
ParseInfo_Length ==
  /\ ParsesInfo("length")
  /\ LET n == Info[info_at].value
     IN IF Ambiguous \/ ~ParsesAsUint64(n) THEN Fail
        ELSE InfoKeyParsed([metainfo EXCEPT
               !.length_or_files_ = "length", !.files = <<[length |-> n.n, path |-> <<>>]>>])

\* parse_file and ParseInfo_FilesFile: the set of at most one file.
FilesFile(file) ==
  IF file.kind # "Dictionary" THEN {}
  ELSE {[length |-> length.n, path |-> [k \in DOMAIN path.items |-> path.items[k].text]] :
          length \in {n \in FirstOf(file.items, "length") : ParsesAsUint64(n)},
          path \in {list \in FirstOf(file.items, "path") :
                      /\ list.kind = "List"
                      /\ \A k \in DOMAIN list.items : IsNonEmptyString(list.items[k])}}

ParseInfo_Files ==
  /\ ParsesInfo("files")
  /\ LET list == Info[info_at].value
         parsable == \A k \in DOMAIN list.items : FilesFile(list.items[k]) # {}
     IN IF Ambiguous \/ list.kind # "List" \/ list.items = <<>> \/ ~parsable THEN Fail
        ELSE InfoKeyParsed([metainfo EXCEPT
               !.length_or_files_ = "files",
               !.files = [k \in DOMAIN list.items |->
                            CHOOSE f \in FilesFile(list.items[k]) : TRUE]])

InfoKeySkipped ==
  /\ AtInfoKey /\ ~Found(InfoKeys, info_parsed, Info[info_at])
  /\ info_at' = info_at + 1
  /\ UNCHANGED <<content, pc, at, parsed, info_parsed, metainfo, info_position>>

\* After the loop of ParseInfo.
InfoAccepted ==
  /\ metainfo.tracker_url_utf8_ # ""
  /\ metainfo.piece_length_bytes_ > 0
  /\ metainfo.pieces_SHA1_ > 0
  /\ metainfo.length_or_files_ # "none"

\* ParseInfo returns, and its parser has a position to fill in.
InfoEnds ==
  /\ pc = "info" /\ info_at > Len(Info)
  /\ IF ~InfoAccepted THEN Fail
     ELSE /\ pc' = "keys"
          /\ at' = at + 1 /\ parsed' = parsed \union {"info"}
          /\ info_position' = at
          /\ UNCHANGED <<content, info_at, info_parsed, metainfo>>

-----------------------------------------------------------------------------
(* TorrentClient::make.                                                    *)

get_pieces_count == U32(metainfo.pieces_SHA1_ \div Sha1Length)
get_piece_size_bytes == U32(metainfo.piece_length_bytes_)
get_total_size_bytes ==
  FoldLeft(LAMBDA total, file : (total + file.length) % WideWord, 0, metainfo.files)

SizeExceptLastPiece == get_piece_size_bytes * (get_pieces_count - 1)

\* Mutant: the last piece may have any size.
MakeAcceptedAnyLast ==
  get_pieces_count > 0 /\ get_piece_size_bytes > 0 /\ SizeExceptLastPiece < get_total_size_bytes

\* Its assertions.
MakeAccepted ==
  /\ get_pieces_count > 0
  /\ get_piece_size_bytes > 0
  /\ SizeExceptLastPiece < get_total_size_bytes
  /\ get_total_size_bytes - SizeExceptLastPiece <= get_piece_size_bytes

\* The keys are read: the last check of ParseTorrentFileContent, and make.
ContentEnds ==
  /\ pc = "keys" /\ at > Len(content)
  /\ IF ~({"announce", "info"} \subseteq parsed) THEN Fail
     ELSE /\ pc' = IF MakeAccepted THEN "made" ELSE "aborted"
          /\ UNCHANGED <<content, parseVars, metainfo, info_position>>

Terminated == pc \in {"made", "failed", "aborted"} /\ UNCHANGED vars

Next ==
  \/ ParseAnnounce \/ ParseAnnounceList \/ ParseInfo \/ KeySkipped
  \/ ParseInfo_Name \/ ParseInfo_PieceLength \/ ParseInfo_Pieces
  \/ ParseInfo_Length \/ ParseInfo_Files \/ InfoKeySkipped \/ InfoEnds
  \/ ContentEnds \/ Terminated

Spec == Init /\ [][Next]_vars

-----------------------------------------------------------------------------
(* Properties.                                                             *)

Parsed == pc \in {"made", "aborted"}

\* Reference: the dictionaries that are the info of a torrent, in any order,
\* keys that occur again being ignored.
IsInfo(entries) ==
  /\ \A v \in FirstOf(entries, "name") : v.kind = "String"
  /\ \E v \in FirstOf(entries, "piece length") : v.kind = "Integer" /\ v.n > 0
  /\ \E v \in FirstOf(entries, "pieces") : v.kind = "String" /\ v.n > 0 /\ v.n % 20 = 0
  /\ FirstOf(entries, "length") = {} <=> FirstOf(entries, "files") # {}
  /\ \A v \in FirstOf(entries, "length") : v.kind = "Integer" /\ v.n >= 0
  /\ \A v \in FirstOf(entries, "files") :
       v.kind = "List" /\ v.items # <<>> /\ \A k \in DOMAIN v.items : FilesFile(v.items[k]) # {}

At(entries, key) == Min({k \in DOMAIN entries : entries[k].key = key})

\* Reference: a torrent has an announce, an info after it, and perhaps a list.
IsTorrent(entries) ==
  /\ \E v \in FirstOf(entries, "announce") : v.kind = "String" /\ v.n > 0
  /\ \E v \in FirstOf(entries, "info") : v.kind = "Dictionary" /\ IsInfo(v.items)
  /\ At(entries, "announce") < At(entries, "info")
  /\ \A v \in FirstOf(entries, "announce-list") : v.kind = "List"

\* Exactly torrents are parsed, whatever the order and number of their keys:
\* no key is lost, mistaken or required in a place (InvokeParserOptionalKey
\* and the checks after the loops), but that announce comes before info.
ParsedExactly == pc \notin {"keys", "info"} => (Parsed <=> IsTorrent(content))

\* What the client works with is from one info dictionary, the one whose
\* position becomes the info hash: peers of another torrent than the one that
\* is downloaded would be asked otherwise (info_position_).
InfoHashed ==
  Parsed =>
    LET info == content[info_position].value.items
    IN /\ \A v \in FirstOf(info, "piece length") : metainfo.piece_length_bytes_ = v.n
       /\ \A v \in FirstOf(info, "pieces") : metainfo.pieces_SHA1_ = v.n
       /\ \A v \in FirstOf(info, "name") : metainfo.suggested_name_utf8_ = v.text
       /\ \A v \in FirstOf(info, "length") :
            Len(metainfo.files) = 1 /\ metainfo.files[1].length = v.n
       /\ \A v \in FirstOf(info, "files") :
            /\ Len(metainfo.files) = Len(v.items)
            /\ \A k \in DOMAIN v.items : metainfo.files[k] \in FilesFile(v.items[k])

\* The places of the URLs in a list: the tier and the index there.
UrlPlaces(tiers) ==
  UNION {{<<i, k>> : k \in {k \in DOMAIN tiers[i].items :
                             tiers[i].items[k].kind = "String" /\ tiers[i].items[k].n > 0}} :
           i \in {i \in DOMAIN tiers : tiers[i].kind = "List"}}

UpTo(v, u) == v[1] < u[1] \/ (v[1] = u[1] /\ v[2] <= u[2])

\* The trackers are all the URLs of the announce-list, in order, each with the
\* index of its tier, elements that are no tiers counted (ParseAnnounceList).
TiersKept ==
  Parsed =>
    \A list \in FirstOf(content, "announce-list") :
      LET tiers == list.items
          urls == UrlPlaces(tiers)
          trackers == metainfo.multi_trackers_
      IN /\ Len(trackers) = Cardinality(urls)
         /\ \A n \in DOMAIN trackers : \E u \in urls :
              /\ trackers[n].tier_ = u[1] - 1
              /\ trackers[n].url_utf8_ = tiers[u[1]].items[u[2]].text
              /\ n = Cardinality({v \in urls : UpTo(v, u)})

\* Reference: the torrent, whatever integers it is kept in.  Its hashes are of
\* the bytes of its files, one after the other, cut every L bytes.
HashesCount == metainfo.pieces_SHA1_ \div 20
TorrentSize == FoldLeft(LAMBDA total, file : total + file.length, 0, metainfo.files)
PieceOf(byte) == byte \div metainfo.piece_length_bytes_
Piece(i) == {byte \in 0 .. TorrentSize - 1 : PieceOf(byte) = i}

\* There is a hash of every piece and of nothing else.
Hashed == {PieceOf(byte) : byte \in 0 .. TorrentSize - 1} = 0 .. HashesCount - 1

\* The bytes a client writes piece i to.
ClientPiece(i) ==
  LET begin == get_piece_size_bytes * i
  IN begin .. begin
       + PieceBytes(get_pieces_count, get_piece_size_bytes, get_total_size_bytes, i) - 1

\* A client that was made has the pieces that the hashes are of, however large
\* the count and the length of the pieces were before they became 32-bit: what
\* it asks for, by index and offset, would be other bytes otherwise.  When both
\* fit, exactly torrents with as many hashes as pieces are accepted
\* (TorrentClient::make and get_total_size_bytes).
MadeAsHashed ==
  Parsed /\ TorrentSize < WideWord =>
    /\ pc = "made" /\ Hashed =>
         /\ get_pieces_count = HashesCount
         /\ \A i \in 0 .. HashesCount - 1 : ClientPiece(i) = Piece(i)
    /\ HashesCount < Word /\ metainfo.piece_length_bytes_ < Word =>
         (pc = "made" <=> Hashed)
=============================================================================
