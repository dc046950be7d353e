-------------------------- MODULE TorrentFileProofs --------------------------
(***************************************************************************)
(* What is parsed is exactly the torrents, whatever the order of their     *)
(* keys, and a client that was made has a layout the download can rest on. *)
(***************************************************************************)
EXTENDS TorrentFile, SequenceLemmas

-----------------------------------------------------------------------------
(* The invariant.                                                          *)

FileRecords == [length : Nat, path : Seq(STRING)]

\* (The provers do not know that STRING has the empty string.)
Texts == STRING \union {""}

Metainfos ==
  [tracker_url_utf8_ : Texts, multi_trackers_ : Seq([url_utf8_ : STRING, tier_ : Nat]),
   suggested_name_utf8_ : Texts, piece_length_bytes_ : Nat, pieces_SHA1_ : Nat,
   length_or_files_ : {"none", "length", "files"}, files : Seq(FileRecords)]

ParseTypes ==
  /\ content \in Seq(Entries(Values))
  /\ pc \in {"keys", "info", "made", "failed", "aborted"}
  /\ at \in 1 .. Len(content) + 1 /\ info_at \in Nat \ {0}
  /\ metainfo \in Metainfos

\* What the keys of the file that were read have left in m.
KeysRead(entries, read, m) ==
  /\ IF "announce" \in read
     THEN \E v \in FirstOf(entries, "announce") :
            v.kind = "String" /\ v.n > 0 /\ m.tracker_url_utf8_ = v.text
     ELSE m.tracker_url_utf8_ = ""
  /\ IF "announce-list" \in read
     THEN \E v \in FirstOf(entries, "announce-list") :
            v.kind = "List" /\ m.multi_trackers_ = Multitrackers(v.items)
     ELSE m.multi_trackers_ = <<>>

NameRead(entries, read, m) ==
  "name" \in read =>
    \E v \in FirstOf(entries, "name") : v.kind = "String" /\ m.suggested_name_utf8_ = v.text

PieceLengthRead(entries, read, m) ==
  IF "piece length" \in read
  THEN \E v \in FirstOf(entries, "piece length") :
         v.kind = "Integer" /\ v.n >= 0 /\ m.piece_length_bytes_ = v.n
  ELSE m.piece_length_bytes_ = 0

PiecesRead(entries, read, m) ==
  IF "pieces" \in read
  THEN \E v \in FirstOf(entries, "pieces") :
         v.kind = "String" /\ v.n > 0 /\ v.n % 20 = 0 /\ m.pieces_SHA1_ = v.n
  ELSE m.pieces_SHA1_ = 0

LengthRead(entries, m) ==
  \E v \in FirstOf(entries, "length") :
    /\ v.kind = "Integer" /\ v.n >= 0
    /\ m.length_or_files_ = "length"
    /\ Len(m.files) = 1 /\ m.files[1].length = v.n

FilesRead(entries, m) ==
  \E v \in FirstOf(entries, "files") :
    /\ v.kind = "List" /\ v.items # <<>>
    /\ m.length_or_files_ = "files"
    /\ Len(m.files) = Len(v.items)
    /\ \A k \in DOMAIN v.items : m.files[k] \in FilesFile(v.items[k])

LengthOrFilesRead(entries, read, m) ==
  IF "length" \in read THEN "files" \notin read /\ LengthRead(entries, m)
  ELSE IF "files" \in read THEN FilesRead(entries, m)
  ELSE m.length_or_files_ = "none"

\* What those of info have left.
InfoRead(entries, read, m) ==
  /\ NameRead(entries, read, m) /\ PieceLengthRead(entries, read, m)
  /\ PiecesRead(entries, read, m) /\ LengthOrFilesRead(entries, read, m)

\* The first info is at n, announce before it.
InfoAt(n) ==
  /\ n \in DOMAIN content /\ content[n].key = "info"
  /\ content[n].value.kind = "Dictionary"
  /\ \A k \in 1 .. n - 1 : content[k].key # "info"

InfoNotYet == info_parsed = {} /\ info_at = 1 /\ InfoRead(<<>>, {}, metainfo)

InfoInside ==
  /\ InfoAt(at) /\ info_at <= Len(Info) + 1
  /\ info_parsed = Seen(InfoKeys, Info, info_at) /\ InfoRead(Info, info_parsed, metainfo)

InfoDone ==
  /\ info_position < at /\ InfoAt(info_position)
  /\ \E k \in 1 .. info_position - 1 : content[k].key = "announce"
  /\ LET info == content[info_position].value.items
     IN /\ info_parsed = Seen(InfoKeys, info, Len(info) + 1)
        /\ InfoRead(info, info_parsed, metainfo) /\ InfoAccepted

ReadInv ==
  /\ parsed = Seen(Keys, content, at) /\ KeysRead(content, parsed, metainfo)
  /\ pc = "info" => InfoInside
  /\ pc # "info" /\ "info" \notin parsed => InfoNotYet
  /\ pc # "info" /\ "info" \in parsed => InfoDone
  /\ pc \in {"made", "aborted"} => at > Len(content) /\ {"announce", "info"} \subseteq parsed

ParseInv ==
  /\ ParseTypes
  /\ pc # "failed" => ReadInv
  /\ pc = "failed" => ~IsTorrent(content)
  /\ pc \in {"made", "aborted"} => (pc = "made" <=> MakeAccepted)

-----------------------------------------------------------------------------
(* The values of keys.                                                     *)

LEMMA FirstAt ==
  ASSUME NEW T, NEW entries \in Seq(T), NEW key, NEW k, IsFirst(entries, key, k)
  PROVE  /\ k \in 1 .. Len(entries) /\ At(entries, key) = k
         /\ FirstOf(entries, key) = {entries[k].value}
BY LeastWithKey, Zenon DEF FirstOf, At

LEMMA FirstNone ==
  ASSUME NEW T, NEW entries \in Seq(T), NEW key,
         \A k \in 1 .. Len(entries) : entries[k].key # key
  PROVE  FirstOf(entries, key) = {}
<1>1. DOMAIN entries = 1 .. Len(entries)
  BY SeqDomain, Zenon
<1> QED BY <1>1 DEF FirstOf

\* A key has at most one first value.
LEMMA FirstOne ==
  ASSUME NEW entries, NEW key, NEW v \in FirstOf(entries, key), NEW w \in FirstOf(entries, key)
  PROVE  v = w
BY DEF FirstOf

\* A value of a key is that of an entry.
LEMMA FirstIsValue ==
  ASSUME NEW T, NEW entries \in Seq(Entries(T)), NEW key, NEW v \in FirstOf(entries, key)
  PROVE  /\ v \in T /\ \E k \in 1 .. Len(entries) : entries[k].key = key
         /\ At(entries, key) \in 1 .. Len(entries) /\ v = entries[At(entries, key)].value
         /\ entries[At(entries, key)].key = key
<1>1. \E k \in 1 .. Len(entries) : entries[k].key = key
  BY FirstNone
<1>2. PICK k : IsFirst(entries, key, k)
  BY <1>1, FirstExists
<1>3. /\ k \in 1 .. Len(entries) /\ At(entries, key) = k
      /\ FirstOf(entries, key) = {entries[k].value}
  BY <1>2, FirstAt
<1>4. entries[k] \in Entries(T)
  BY <1>3, SeqDomain
<1> QED BY <1>1, <1>2, <1>3, <1>4 DEF Entries, IsFirst

\* An entry that is found is the first with its key.
LEMMA FoundFirst ==
  ASSUME NEW T, NEW entries \in Seq(T), NEW n \in 1 .. Len(entries), NEW keys, NEW read,
         read = Seen(keys, entries, n), Found(keys, read, entries[n])
  PROVE  IsFirst(entries, entries[n].key, n)
<1>1. DOMAIN entries = 1 .. Len(entries)
  BY SeqDomain, Zenon
<1> QED BY <1>1 DEF Found, Seen, IsFirst

LEMMA EntryOf ==
  ASSUME NEW entries \in Seq(Entries(Values)), NEW n \in 1 .. Len(entries)
  PROVE  /\ entries[n].key \in STRING /\ entries[n].value \in Values
         /\ entries[n].value.text \in STRING /\ entries[n].value.n \in Int
<1>1. entries[n] \in Entries(Values)
  BY SeqDomain
<1>2. entries[n].key \in STRING /\ entries[n].value \in Values
  BY <1>1 DEF Entries
<1> QED BY <1>2, TorrentFileAssumption DEF AreValues

LEMMA ValueIs ==
  ASSUME NEW v \in Values
  PROVE  /\ v.text \in STRING /\ v.n \in Int
         /\ v.kind = "String" => v.n \in Nat /\ (v.text = "" <=> v.n = 0)
         /\ v.kind = "List" => v.items \in Seq(Values)
         /\ v.kind = "Dictionary" => v.items \in Seq(Entries(Values))
BY TorrentFileAssumption DEF AreValues

\* What is made of an element of files is a file.
LEMMA FilesFileIs ==
  ASSUME NEW v \in Values, NEW f \in FilesFile(v)
  PROVE  f \in FileRecords
<1>1. v.kind = "Dictionary"
  BY DEF FilesFile
<1>2. v.items \in Seq(Entries(Values))
  BY <1>1, ValueIs
<1>3. PICK length \in FirstOf(v.items, "length"), path \in FirstOf(v.items, "path") :
        /\ ParsesAsUint64(length) /\ path.kind = "List"
        /\ f = [length |-> length.n, path |-> [k \in DOMAIN path.items |-> path.items[k].text]]
  BY <1>1 DEF FilesFile
<1>4. length \in Values /\ path \in Values
  BY <1>2, FirstIsValue
<1>5. length.n \in Nat
  <2>1. length.n \in Int
    BY <1>4, ValueIs
  <2>2. length.n >= 0
    BY <1>3 DEF ParsesAsUint64
  <2> QED BY <2>1, <2>2
<1>6. path.items \in Seq(Values)
  BY <1>3, <1>4, ValueIs
<1>7. [k \in DOMAIN path.items |-> path.items[k].text] \in Seq(STRING)
  <2>1. Len(path.items) \in Nat /\ DOMAIN path.items = 1 .. Len(path.items)
        /\ \A k \in 1 .. Len(path.items) : path.items[k] \in Values
    BY <1>6, SeqDomain, Zenon
  <2>2. \A k \in 1 .. Len(path.items) : path.items[k].text \in STRING
    BY <2>1, ValueIs
  <2> QED BY <2>1, <2>2
<1> QED BY <1>3, <1>5, <1>7 DEF FileRecords

-----------------------------------------------------------------------------
(* The total size, computed in 64 bits (cut) or not.  FoldLeft is a         *)
(* recursive function of the sets of indexes.                              *)

Added(total, file, cut) ==
  IF cut THEN (total + file.length) % WideWord ELSE total + file.length

AddsUp(f, S, files, cut) ==
  f = [s \in SUBSET S |->
         IF s = {} THEN 0 ELSE Added(f[s \ {Max(s)}], files[Max(s)], cut)]

TotalOf(files) ==
  CHOOSE f : f = [s \in SUBSET DOMAIN files |->
                    IF s = {} THEN 0 ELSE (f[s \ {Max(s)}] + files[Max(s)].length) % WideWord]
SizeOf(files) ==
  CHOOSE f : f = [s \in SUBSET DOMAIN files |->
                    IF s = {} THEN 0 ELSE f[s \ {Max(s)}] + files[Max(s)].length]

LEMMA TotalSizeIs ==
  get_total_size_bytes = TotalOf(metainfo.files)[DOMAIN metainfo.files]
BY DEF get_total_size_bytes, TotalOf, FoldLeft, MapThenFoldSet

LEMMA TorrentSizeIs ==
  TorrentSize = SizeOf(metainfo.files)[DOMAIN metainfo.files]
BY DEF TorrentSize, SizeOf, FoldLeft, MapThenFoldSet

LEMMA AddsUpExists ==
  ASSUME NEW files, NEW n \in Nat, NEW cut \in BOOLEAN
  PROVE  \E f : AddsUp(f, 1 .. n, files, cut)
<1> DEFINE Has(k) == \E f : AddsUp(f, 1 .. k, files, cut)
           Missing == {k \in 0 .. n : ~Has(k)}
<1> HIDE DEF Has
<1>1. ASSUME Missing # {} PROVE FALSE
  <2>1. PICK k \in Missing : \A j \in Missing : k <= j
    <3>1. Missing \in SUBSET Nat
      OBVIOUS
    <3> HIDE DEF Missing
    <3> QED BY <1>1, <3>1, LeastNumber
  <2>2. k \in Nat /\ ~Has(k)
    BY <2>1
  <2>3. CASE k = 0
    <3> DEFINE f == [s \in SUBSET (1 .. 0) |-> 0]
    <3>1. \A s \in SUBSET (1 .. 0) : s = {}
      OBVIOUS
    <3>2. AddsUp(f, 1 .. 0, files, cut)
      BY <3>1 DEF AddsUp
    <3> QED BY <2>2, <2>3, <3>2 DEF Has
  <2>4. CASE k # 0
    <3>1. k - 1 \in 0 .. n /\ k - 1 \notin Missing
      BY <2>1, <2>4
    <3>2. PICK g : AddsUp(g, 1 .. k - 1, files, cut)
      BY <3>1 DEF Has
    <3> DEFINE h == [s \in SUBSET (1 .. k) |->
                       IF k \in s THEN Added(g[s \ {k}], files[k], cut) ELSE g[s]]
    <3>3. ASSUME NEW s \in SUBSET (1 .. k)
          PROVE  h[s] = IF s = {} THEN 0 ELSE Added(h[s \ {Max(s)}], files[Max(s)], cut)
      <4>1. s # {} => Max(s) \in s /\ \A j \in s : j <= Max(s)
        BY <2>2, MaxIs
      <4>2. CASE k \in s
        <5>1. Max(s) = k
          <6> DEFINE m == Max(s)
          <6>1. m \in s /\ k <= m
            BY <4>1, <4>2
          <6> HIDE DEF m
          <6>2. m = k
            BY <6>1, <2>2
          <6> QED BY <6>2 DEF m
        <5>2. s \ {k} \in SUBSET (1 .. k) /\ k \notin s \ {k} /\ s # {}
          BY <4>2
        <5>3. h[s \ {k}] = g[s \ {k}] /\ h[s] = Added(g[s \ {k}], files[k], cut)
          BY <4>2, <5>2
        <5> HIDE DEF h
        <5> QED BY <5>1, <5>2, <5>3
      <4>3. CASE k \notin s
        <5>1. s \in SUBSET (1 .. k - 1) /\ \A x : s \ {x} \in SUBSET (1 .. k) /\ k \notin s \ {x}
          <6>1. \A j \in s : j \in 1 .. k /\ j # k
            BY <4>3
          <6>2. \A j \in 1 .. k : j # k => j \in 1 .. k - 1
            BY <2>2
          <6> QED BY <6>1, <6>2
        <5>2. h[s] = g[s] /\ \A x : h[s \ {x}] = g[s \ {x}]
          BY <4>3, <5>1
        <5>3. g[s] = IF s = {} THEN 0 ELSE Added(g[s \ {Max(s)}], files[Max(s)], cut)
          BY <3>2, <5>1, Zenon DEF AddsUp
        <5> HIDE DEF h
        <5> QED BY <5>2, <5>3
      <4> QED BY <4>2, <4>3
    <3>4. AddsUp(h, 1 .. k, files, cut)
      <4>1. h = [s \in SUBSET (1 .. k) |-> h[s]]
        OBVIOUS
      <4> HIDE DEF h
      <4> QED BY <3>3, <4>1 DEF AddsUp
    <3> QED BY <2>2, <3>4 DEF Has
  <2> QED BY <2>3, <2>4
<1>2. n \in 0 .. n
  OBVIOUS
<1> QED BY <1>1, <1>2 DEF Has

LEMMA TotalAddsUp ==
  ASSUME NEW files, NEW n \in Nat, DOMAIN files = 1 .. n
  PROVE  \A s \in SUBSET (1 .. n) :
           TotalOf(files)[s] =
             IF s = {} THEN 0 ELSE (TotalOf(files)[s \ {Max(s)}] + files[Max(s)].length) % WideWord
<1> DEFINE Is(f) == f = [s \in SUBSET DOMAIN files |->
                           IF s = {} THEN 0 ELSE (f[s \ {Max(s)}] + files[Max(s)].length) % WideWord]
<1>1. PICK g : AddsUp(g, 1 .. n, files, TRUE)
  BY AddsUpExists
<1>2. Is(g)
  BY <1>1 DEF AddsUp, Added
<1>3. Is(CHOOSE f : Is(f))
  <2> HIDE DEF Is
  <2> QED BY <1>2
<1>4. Is(TotalOf(files))
  BY <1>3 DEF TotalOf
<1> DEFINE t == TotalOf(files)
<1> HIDE DEF t
<1>5. Is(t)
  BY <1>4 DEF t
<1>6. \A s \in SUBSET (1 .. n) :
        t[s] = IF s = {} THEN 0 ELSE (t[s \ {Max(s)}] + files[Max(s)].length) % WideWord
  BY <1>5, Zenon
<1> QED BY <1>6 DEF t

LEMMA SizeAddsUp ==
  ASSUME NEW files, NEW n \in Nat, DOMAIN files = 1 .. n
  PROVE  \A s \in SUBSET (1 .. n) :
           SizeOf(files)[s] =
             IF s = {} THEN 0 ELSE SizeOf(files)[s \ {Max(s)}] + files[Max(s)].length
<1> DEFINE Is(f) == f = [s \in SUBSET DOMAIN files |->
                           IF s = {} THEN 0 ELSE f[s \ {Max(s)}] + files[Max(s)].length]
<1>1. PICK g : AddsUp(g, 1 .. n, files, FALSE)
  BY AddsUpExists
<1>2. Is(g)
  BY <1>1 DEF AddsUp, Added
<1>3. Is(CHOOSE f : Is(f))
  <2> HIDE DEF Is
  <2> QED BY <1>2
<1>4. Is(SizeOf(files))
  BY <1>3 DEF SizeOf
<1> DEFINE t == SizeOf(files)
<1> HIDE DEF t
<1>5. Is(t)
  BY <1>4 DEF t
<1>6. \A s \in SUBSET (1 .. n) :
        t[s] = IF s = {} THEN 0 ELSE t[s \ {Max(s)}] + files[Max(s)].length
  BY <1>5, Zenon
<1> QED BY <1>6 DEF t

LEMMA WideWordIs == WideWord \in Nat \ {0} /\ WideWord = Word * Word
BY TorrentFileAssumption, WordAssumption

\* The total is a number of 64 bits, and the bytes of the files when they fit.
LEMMA TotalSizeType ==
  ASSUME metainfo.files \in Seq(FileRecords)
  PROVE  /\ get_total_size_bytes \in 0 .. WideWord - 1
         /\ TorrentSize \in Nat
         /\ TorrentSize < WideWord => get_total_size_bytes = TorrentSize
<1> DEFINE files == metainfo.files
           f == TotalOf(files)
           g == SizeOf(files)
           n == Len(files)
<1>1. n \in Nat /\ DOMAIN files = 1 .. n /\ \A k \in 1 .. n : files[k].length \in Nat
  <2>1. \A k \in 1 .. n : files[k] \in FileRecords
    BY SeqDomain, Zenon
  <2> QED BY <2>1, SeqDomain DEF FileRecords
<1>2. get_total_size_bytes = f[1 .. n] /\ TorrentSize = g[1 .. n]
  BY <1>1, TotalSizeIs, TorrentSizeIs
<1> HIDE DEF files, n
<1>3. \A s \in SUBSET (1 .. n) :
        f[s] = IF s = {} THEN 0 ELSE (f[s \ {Max(s)}] + files[Max(s)].length) % WideWord
  BY <1>1, TotalAddsUp, Zenon
<1>4. \A s \in SUBSET (1 .. n) :
        g[s] = IF s = {} THEN 0 ELSE g[s \ {Max(s)}] + files[Max(s)].length
  BY <1>1, SizeAddsUp, Zenon
<1> HIDE DEF f, g
<1> DEFINE Fits(x, y) == x \in 0 .. WideWord - 1 /\ y \in Nat /\ (y < WideWord => x = y)
           Good(k) == \A s \in SUBSET (1 .. k) : Fits(f[s], g[s])
           Bad == {k \in 0 .. n : ~Good(k)}
<1>5. ASSUME Bad # {} PROVE FALSE
  <2>1. PICK k \in Bad : \A j \in Bad : k <= j
    <3>1. Bad \in SUBSET Nat
      OBVIOUS
    <3> HIDE DEF Bad
    <3> QED BY <1>5, <3>1, LeastNumber
  <2>2. PICK s \in SUBSET (1 .. k) : ~Fits(f[s], g[s])
    BY <2>1
  <2>3. k \in Nat /\ k <= n /\ s \in SUBSET (1 .. n)
    BY <2>1, <2>2, <1>1
  <2>4. s # {}
    <3>1. {} \in SUBSET (1 .. n) /\ Fits(0, 0)
      BY WideWordIs
    <3>2. f[{}] = 0 /\ g[{}] = 0
      BY <3>1, <1>3, <1>4
    <3> QED BY <2>2, <3>1, <3>2
  <2> DEFINE m == Max(s)
  <2>5. m \in s /\ \A j \in s : j <= m
    BY <2>2, <2>3, <2>4, MaxIs
  <2>6. f[s] = (f[s \ {m}] + files[m].length) % WideWord /\ g[s] = g[s \ {m}] + files[m].length
    BY <2>3, <2>4, <1>3, <1>4
  <2> HIDE DEF m
  <2>7. m - 1 \in 0 .. n /\ m - 1 < k /\ m \in 1 .. n /\ s \ {m} \in SUBSET (1 .. m - 1)
    BY <2>2, <2>3, <2>5, <1>1
  <2>8. Good(m - 1)
    <3> HIDE DEF Good
    <3> QED BY <2>1, <2>3, <2>7
  <2>9. Fits(f[s \ {m}], g[s \ {m}]) /\ files[m].length \in Nat
    <3> HIDE DEF Fits
    <3> QED BY <2>7, <2>8, <1>1
  <2> DEFINE x == f[s \ {m}]
             y == g[s \ {m}]
             l == files[m].length
  <2>10. f[s] = (x + l) % WideWord /\ g[s] = y + l
    BY <2>6
  <2>11. x \in Nat /\ y \in Nat /\ l \in Nat /\ (y < WideWord => x = y)
    BY <2>9, WideWordIs
  <2> HIDE DEF x, y, l
  <2>12. f[s] \in 0 .. WideWord - 1 /\ g[s] \in Nat
    BY <2>10, <2>11, WideWordIs
  <2>13. ASSUME g[s] < WideWord PROVE f[s] = g[s]
    <3>1. x = y /\ x + l \in 0 .. WideWord - 1
      BY <2>10, <2>11, <2>13, WideWordIs
    <3>2. (x + l) % WideWord = x + l
      BY <3>1, WideWordIs
    <3> QED BY <3>1, <3>2, <2>10
  <2> QED BY <2>2, <2>12, <2>13
<1>6. Good(n)
  <2> HIDE DEF Good
  <2> QED BY <1>1, <1>5
<1> QED BY <1>2, <1>6

-----------------------------------------------------------------------------
(* Steps that read a key of the file.                                      *)

LEMMA ContentIs ==
  ASSUME ParseTypes
  PROVE  /\ content \in Seq(Entries(Values)) /\ Len(content) \in Nat
         /\ DOMAIN content = 1 .. Len(content) /\ at \in Nat \ {0} /\ metainfo \in Metainfos
BY SeqDomain DEF ParseTypes

\* A torrent's first info is one.
LEMMA InfoIsFirst ==
  ASSUME ParseTypes, NEW n, InfoAt(n)
  PROVE  /\ IsFirst(content, "info", n) /\ n \in 1 .. Len(content) /\ At(content, "info") = n
         /\ FirstOf(content, "info") = {content[n].value}
         /\ content[n].value \in Values /\ content[n].value.items \in Seq(Entries(Values))
         /\ IsTorrent(content) => IsInfo(content[n].value.items)
<1>1. content \in Seq(Entries(Values)) /\ IsFirst(content, "info", n)
  BY ContentIs DEF InfoAt, IsFirst
<1>2. /\ n \in 1 .. Len(content) /\ At(content, "info") = n
      /\ FirstOf(content, "info") = {content[n].value}
  BY <1>1, FirstAt, Zenon
<1>3. content[n].value \in Values
  BY <1>1, <1>2, EntryOf
<1>4. content[n].value.items \in Seq(Entries(Values))
  BY <1>3, ValueIs DEF InfoAt
<1>5. IsTorrent(content) => IsInfo(content[n].value.items)
  BY <1>2, Zenon DEF IsTorrent
<1> QED BY <1>1, <1>2, <1>3, <1>4, <1>5

LEMMA FailKeeps ==
  ASSUME ParseInv, Fail, ~IsTorrent(content)
  PROVE  ParseInv'
<1>1. /\ pc' = "failed" /\ content' = content /\ at' = at /\ info_at' = info_at
      /\ metainfo' = metainfo
  BY DEF Fail, parseVars
<1>2. ParseTypes'
  BY <1>1 DEF ParseInv, ParseTypes
<1>3. IsTorrent(content)' <=> IsTorrent(content)
  BY <1>1, Zenon
<1> QED BY <1>1, <1>2, <1>3 DEF ParseInv

\* A metainfo with the same info.
SameInfo(m, n) ==
  /\ m.suggested_name_utf8_ = n.suggested_name_utf8_
  /\ m.piece_length_bytes_ = n.piece_length_bytes_ /\ m.pieces_SHA1_ = n.pieces_SHA1_
  /\ m.length_or_files_ = n.length_or_files_ /\ m.files = n.files

LEMMA SameInfoRead ==
  ASSUME NEW entries, NEW read, NEW m, NEW n, SameInfo(m, n), InfoRead(entries, read, n)
  PROVE  InfoRead(entries, read, m)
<1>1. NameRead(entries, read, m)
  BY DEF SameInfo, InfoRead, NameRead
<1>2. PieceLengthRead(entries, read, m)
  BY DEF SameInfo, InfoRead, PieceLengthRead
<1>3. PiecesRead(entries, read, m)
  BY DEF SameInfo, InfoRead, PiecesRead
<1>4. LengthOrFilesRead(entries, read, m)
  BY DEF SameInfo, InfoRead, LengthOrFilesRead, LengthRead, FilesRead
<1> QED BY <1>1, <1>2, <1>3, <1>4 DEF InfoRead

\* A step over a key that is not that of an info.
LEMMA KeyStep ==
  ASSUME ParseInv, AtKey, content' = content, pc' = pc, at' = at + 1, info_at' = info_at,
         info_parsed' = info_parsed, info_position' = info_position,
         parsed' = Seen(Keys, content, at + 1), "info" \in parsed' <=> "info" \in parsed,
         metainfo' \in Metainfos, SameInfo(metainfo', metainfo),
         KeysRead(content, parsed', metainfo'),
         "info" \in parsed => metainfo'.tracker_url_utf8_ = metainfo.tracker_url_utf8_
  PROVE  ParseInv'
<1>1. /\ pc = "keys" /\ at \in 1 .. Len(content) /\ ParseTypes /\ ReadInv
  BY DEF ParseInv, AtKey, ParseTypes
<1>2. ParseTypes'
  BY <1>1 DEF ParseTypes
<1>3. (parsed = Seen(Keys, content, at) /\ KeysRead(content, parsed, metainfo))'
  OBVIOUS
<1>4. ASSUME "info" \notin parsed' PROVE InfoNotYet'
  <2>1. InfoNotYet
    BY <1>1, <1>4 DEF ReadInv
  <2>2. InfoRead(<<>>, {}, metainfo')
    BY <2>1, SameInfoRead, Zenon DEF InfoNotYet
  <2> QED BY <2>1, <2>2 DEF InfoNotYet
<1>5. ASSUME "info" \in parsed' PROVE InfoDone'
  <2>1. InfoDone
    BY <1>1, <1>5 DEF ReadInv
  <2> DEFINE info == content[info_position].value.items
  <2>2. InfoRead(info, info_parsed, metainfo) /\ info_parsed = Seen(InfoKeys, info, Len(info) + 1)
    BY <2>1 DEF InfoDone
  <2>3. InfoRead(info, info_parsed, metainfo')
    <3> HIDE DEF info
    <3> QED BY <2>2, SameInfoRead, Zenon
  <2>4. InfoAccepted'
    BY <2>1, <1>5 DEF InfoDone, InfoAccepted, SameInfo
  <2>5. info_position < at' /\ InfoAt(info_position)'
    BY <2>1, <1>1 DEF InfoDone, InfoAt
  <2> QED BY <2>1, <2>2, <2>3, <2>4, <2>5 DEF InfoDone
<1>6. ReadInv'
  BY <1>1, <1>3, <1>4, <1>5 DEF ReadInv
<1> QED BY <1>1, <1>2, <1>6 DEF ParseInv

LEMMA KeySkippedKeeps ==
  ASSUME ParseInv, KeySkipped
  PROVE  ParseInv'
<1>1. /\ AtKey /\ ~Found(Keys, parsed, content[at]) /\ at' = at + 1
      /\ UNCHANGED <<content, pc, info_at, parsed, info_parsed, metainfo, info_position>>
  BY DEF KeySkipped
<1>2. /\ ReadInv /\ ParseTypes /\ at \in Nat \ {0}
  BY <1>1, ContentIs DEF ParseInv, AtKey
<1>3. parsed = Seen(Keys, content, at) /\ KeysRead(content, parsed, metainfo)
  BY <1>2 DEF ReadInv
<1>4. Seen(Keys, content, at + 1) = parsed
  BY <1>1, <1>2, <1>3, SeenStep DEF Found
<1>5. metainfo \in Metainfos /\ SameInfo(metainfo, metainfo)
  BY <1>2, ContentIs DEF SameInfo
<1> QED BY <1>1, <1>3, <1>4, <1>5, KeyStep

\* The key at hand is read for the first time.
LEMMA ParsesFirst ==
  ASSUME ParseInv, NEW key \in Keys, Parses(key)
  PROVE  /\ pc = "keys" /\ AtKey /\ ReadInv /\ ParseTypes /\ at \in 1 .. Len(content)
         /\ content[at].key = key /\ key \notin parsed
         /\ content \in Seq(Entries(Values)) /\ content[at].value \in Values
         /\ IsFirst(content, key, at) /\ At(content, key) = at
         /\ FirstOf(content, key) = {content[at].value}
         /\ Seen(Keys, content, at + 1) = parsed \union {key}
<1>1. /\ pc = "keys" /\ AtKey /\ ReadInv /\ ParseTypes /\ content[at].key = key
      /\ Found(Keys, parsed, content[at]) /\ key \notin parsed
  BY DEF ParseInv, Parses, AtKey, Found
<1>2. content \in Seq(Entries(Values)) /\ at \in 1 .. Len(content) /\ at \in Nat \ {0}
  BY <1>1, ContentIs DEF AtKey
<1>3. parsed = Seen(Keys, content, at)
  BY <1>1 DEF ReadInv
<1>4. IsFirst(content, key, at)
  BY <1>1, <1>2, <1>3, FoundFirst
<1>5. At(content, key) = at /\ FirstOf(content, key) = {content[at].value}
  BY <1>2, <1>4, FirstAt, Zenon
<1>6. content[at].value \in Values
  BY <1>2, EntryOf
<1>7. Seen(Keys, content, at + 1) = parsed \union {key}
  BY <1>1, <1>2, <1>3, SeenStep
<1> QED BY <1>1, <1>2, <1>4, <1>5, <1>6, <1>7

\* After the info there is an announce.
LEMMA AnnouncedBefore ==
  ASSUME ParseInv, pc = "keys", "info" \in parsed
  PROVE  "announce" \in parsed
<1>1. ReadInv /\ InfoDone /\ at \in Nat
  BY ContentIs DEF ParseInv, ReadInv
<1>2. PICK k \in 1 .. info_position - 1 : content[k].key = "announce"
  BY <1>1 DEF InfoDone
<1>3. k \in 1 .. at - 1
  BY <1>1, <1>2, ContentIs DEF InfoDone, InfoAt, ParseInv
<1> QED BY <1>1, <1>2, <1>3 DEF ReadInv, Seen, Keys

LEMMA ParseAnnounceKeeps ==
  ASSUME ParseInv, ParseAnnounce
  PROVE  ParseInv'
<1> DEFINE str == content[at].value
<1>1. Parses("announce") /\ "announce" \in Keys
  BY DEF ParseAnnounce, Keys
<1>2. /\ pc = "keys" /\ AtKey /\ ReadInv /\ ParseTypes /\ "announce" \notin parsed
      /\ content[at].key = "announce" /\ str \in Values
      /\ FirstOf(content, "announce") = {str}
      /\ Seen(Keys, content, at + 1) = parsed \union {"announce"}
  BY <1>1, ParsesFirst
<1>3. IF ~IsNonEmptyString(str) THEN Fail
      ELSE KeyParsed([metainfo EXCEPT !.tracker_url_utf8_ = str.text])
  BY DEF ParseAnnounce
<1> HIDE DEF str
<1>4. CASE ~IsNonEmptyString(str)
  <2>1. ~IsTorrent(content)
    BY <1>2, <1>4 DEF IsTorrent, IsNonEmptyString, IsString
  <2> QED BY <1>3, <1>4, <2>1, FailKeeps
<1>5. CASE IsNonEmptyString(str)
  <2>1. KeyParsed([metainfo EXCEPT !.tracker_url_utf8_ = str.text])
    BY <1>3, <1>5
  <2>2. /\ metainfo' = [metainfo EXCEPT !.tracker_url_utf8_ = str.text]
        /\ at' = at + 1 /\ parsed' = parsed \union {"announce"}
        /\ content' = content /\ pc' = pc /\ info_at' = info_at
        /\ info_parsed' = info_parsed /\ info_position' = info_position
    BY <2>1, <1>2 DEF KeyParsed
  <2>3. str.text \in Texts /\ str.kind = "String" /\ str.n > 0
    <3>1. str.text \in STRING
      BY <1>2, ValueIs
    <3> QED BY <3>1, <1>5 DEF IsNonEmptyString, IsString, Texts
  <2>4. metainfo \in Metainfos
    BY <1>2, ContentIs
  <2>5. /\ metainfo' \in Metainfos /\ SameInfo(metainfo', metainfo)
        /\ metainfo'.tracker_url_utf8_ = str.text
        /\ metainfo'.multi_trackers_ = metainfo.multi_trackers_
    BY <2>2, <2>3, <2>4 DEF Metainfos, SameInfo
  <2>6. KeysRead(content, parsed', metainfo')
    <3>1. KeysRead(content, parsed, metainfo)
      BY <1>2 DEF ReadInv
    <3>2. "announce" \in parsed' /\ ("announce-list" \in parsed' <=> "announce-list" \in parsed)
      BY <2>2
    <3> QED BY <3>1, <3>2, <2>3, <2>5, <1>2 DEF KeysRead
  <2>7. "info" \notin parsed /\ "info" \notin parsed'
    BY <1>2, <2>2, AnnouncedBefore
  <2> QED BY <1>2, <2>2, <2>5, <2>6, <2>7, KeyStep
<1> QED BY <1>4, <1>5

Trackers == [url_utf8_ : STRING, tier_ : Nat]

LEMMA TierType ==
  ASSUME NEW urls \in Seq(Values), NEW index \in Nat
  PROVE  Tier(urls, index) \in Seq(Trackers)
<1> DEFINE One(k) == IF IsNonEmptyString(urls[k])
                     THEN <<[url_utf8_ |-> urls[k].text, tier_ |-> index]>> ELSE <<>>
           s == [k \in DOMAIN urls |-> One(k)]
<1>1. Len(urls) \in Nat /\ DOMAIN urls = 1 .. Len(urls) /\ \A k \in 1 .. Len(urls) : urls[k] \in Values
  BY SeqDomain, Zenon
<1>2. ASSUME NEW k \in 1 .. Len(urls) PROVE One(k) \in Seq(Trackers)
  <2>1. urls[k].text \in STRING
    BY <1>1, ValueIs
  <2>2. [url_utf8_ |-> urls[k].text, tier_ |-> index] \in Trackers
    BY <2>1 DEF Trackers
  <2> HIDE DEF Trackers
  <2>3. <<[url_utf8_ |-> urls[k].text, tier_ |-> index]>> \in Seq(Trackers)
    BY <2>2
  <2>4. <<>> \in Seq(Trackers)
    OBVIOUS
  <2> QED BY <2>3, <2>4
<1> DEFINE Lists == Seq(Trackers)
<1>3. s \in Seq(Lists)
  <2> HIDE DEF One, Lists
  <2> QED BY <1>1, <1>2 DEF Lists
<1>4. Tier(urls, index) = FlattenSeq(s)
  BY DEF Tier
<1> HIDE DEF s
<1> QED BY <1>3, <1>4, FlattenInSeq, Zenon

LEMMA MultitrackersType ==
  ASSUME NEW list \in Seq(Values)
  PROVE  Multitrackers(list) \in Seq(Trackers)
<1> DEFINE One(i) == IF list[i].kind = "List" THEN Tier(list[i].items, i - 1) ELSE <<>>
           s == [i \in DOMAIN list |-> One(i)]
           Lists == Seq(Trackers)
<1>1. Len(list) \in Nat /\ DOMAIN list = 1 .. Len(list) /\ \A i \in 1 .. Len(list) : list[i] \in Values
  BY SeqDomain, Zenon
<1>2. ASSUME NEW i \in 1 .. Len(list) PROVE One(i) \in Lists
  <2>1. list[i].kind = "List" => list[i].items \in Seq(Values)
    BY <1>1, ValueIs
  <2>2. i - 1 \in Nat
    BY <1>1
  <2>3. list[i].kind = "List" => Tier(list[i].items, i - 1) \in Lists
    BY <2>1, <2>2, TierType
  <2>4. <<>> \in Lists
    OBVIOUS
  <2> HIDE DEF Lists
  <2> QED BY <2>3, <2>4
<1>3. s \in Seq(Lists)
  <2> HIDE DEF One, Lists
  <2> QED BY <1>1, <1>2
<1>4. Multitrackers(list) = FlattenSeq(s)
  BY DEF Multitrackers
<1> HIDE DEF s
<1> QED BY <1>3, <1>4, FlattenInSeq, Zenon

LEMMA ParseAnnounceListKeeps ==
  ASSUME ParseInv, ParseAnnounceList
  PROVE  ParseInv'
<1> DEFINE list == content[at].value
           m == [metainfo EXCEPT !.multi_trackers_ = @ \o Multitrackers(list.items)]
<1>1. Parses("announce-list") /\ "announce-list" \in Keys
  BY DEF ParseAnnounceList, Keys
<1>2. /\ pc = "keys" /\ AtKey /\ ReadInv /\ ParseTypes /\ "announce-list" \notin parsed
      /\ content[at].key = "announce-list" /\ list \in Values
      /\ FirstOf(content, "announce-list") = {list}
      /\ Seen(Keys, content, at + 1) = parsed \union {"announce-list"}
  BY <1>1, ParsesFirst
<1>3. IF list.kind # "List" THEN Fail ELSE KeyParsed(m)
  BY DEF ParseAnnounceList
<1>4. CASE list.kind # "List"
  <2> HIDE DEF list
  <2>1. ~IsTorrent(content)
    BY <1>2, <1>4 DEF IsTorrent
  <2> QED BY <1>3, <1>4, <2>1, FailKeeps
<1>5. CASE list.kind = "List"
  <2>1. KeyParsed(m)
    BY <1>3, <1>5
  <2>2. /\ metainfo' = m
        /\ at' = at + 1 /\ parsed' = parsed \union {"announce-list"}
        /\ content' = content /\ pc' = pc /\ info_at' = info_at
        /\ info_parsed' = info_parsed /\ info_position' = info_position
    BY <2>1, <1>2 DEF KeyParsed
  <2>3. metainfo \in Metainfos
    BY <1>2, ContentIs
  <2>4. KeysRead(content, parsed, metainfo) /\ metainfo.multi_trackers_ = <<>>
    BY <1>2 DEF ReadInv, KeysRead
  <2>5. Multitrackers(list.items) \in Seq(Trackers)
    BY <1>2, <1>5, ValueIs, MultitrackersType
  <2> HIDE DEF list
  <2>6. /\ m.multi_trackers_ = Multitrackers(list.items)
        /\ m.tracker_url_utf8_ = metainfo.tracker_url_utf8_ /\ SameInfo(m, metainfo)
    <3>1. <<>> \o Multitrackers(list.items) = Multitrackers(list.items)
      BY <2>5, ConcatEmptySeq, Zenon
    <3> QED BY <2>3, <2>4, <3>1 DEF Metainfos, SameInfo
  <2>7. m \in Metainfos
    <3>1. m = [metainfo EXCEPT !.multi_trackers_ = Multitrackers(list.items)]
      BY <2>3, <2>6 DEF Metainfos
    <3> HIDE DEF m
    <3> QED BY <2>3, <2>5, <3>1 DEF Metainfos, Trackers
  <2> HIDE DEF m
  <2>8. KeysRead(content, parsed', metainfo')
    <3>1. "announce-list" \in parsed' /\ ("announce" \in parsed' <=> "announce" \in parsed)
      BY <2>2
    <3> QED BY <3>1, <2>2, <2>4, <2>6, <1>2, <1>5 DEF KeysRead
  <2>9. "info" \in parsed' <=> "info" \in parsed
    BY <2>2
  <2> QED BY <1>2, <2>2, <2>6, <2>7, <2>8, <2>9, KeyStep
<1> QED BY <1>4, <1>5

LEMMA ParseInfoKeeps ==
  ASSUME ParseInv, ParseInfo
  PROVE  ParseInv'
<1> DEFINE info == content[at].value
<1>1. Parses("info") /\ "info" \in Keys
  BY DEF ParseInfo, Keys
<1>2. /\ pc = "keys" /\ AtKey /\ ReadInv /\ ParseTypes /\ "info" \notin parsed
      /\ at \in 1 .. Len(content) /\ content[at].key = "info" /\ info \in Values
      /\ IsFirst(content, "info", at) /\ FirstOf(content, "info") = {info}
  BY <1>1, ParsesFirst
<1>3. CASE info.kind # "Dictionary"
  <2>1. ~IsTorrent(content)
    BY <1>2, <1>3 DEF IsTorrent
  <2>2. Fail
    BY <1>3 DEF ParseInfo
  <2> QED BY <2>1, <2>2, FailKeeps
<1>4. CASE info.kind = "Dictionary"
  <2>1. /\ pc' = "info" /\ content' = content /\ at' = at /\ info_at' = info_at
        /\ parsed' = parsed /\ info_parsed' = info_parsed
        /\ metainfo' = metainfo /\ info_position' = info_position
    BY <1>4 DEF ParseInfo, parseVars
  <2>2. InfoNotYet
    BY <1>2 DEF ReadInv
  <2>3. InfoAt(at)
    BY <1>2, <1>4 DEF InfoAt, IsFirst
  <2>4. Info \in Seq(Entries(Values)) /\ Len(Info) \in Nat
    BY <1>2, <2>3, InfoIsFirst, SeqDomain DEF Info
  <2>5. Seen(InfoKeys, Info, 1) = {}
    BY DEF Seen
  <2>6. InfoRead(Info, {}, metainfo)
    BY <2>2 DEF InfoNotYet, InfoRead, NameRead, PieceLengthRead, PiecesRead, LengthOrFilesRead
  <2>7. InfoInside
    BY <2>2, <2>3, <2>4, <2>5, <2>6 DEF InfoInside, InfoNotYet
  <2>8. InfoInside' /\ ParseTypes'
    <3>1. InfoInside'
      BY <2>1, <2>7 DEF InfoInside, Info, InfoAt
    <3> QED BY <3>1, <2>1, <1>2 DEF ParseTypes
  <2> QED BY <2>1, <2>8, <1>2 DEF ParseInv, ReadInv
<1> QED BY <1>3, <1>4

-----------------------------------------------------------------------------
(* Steps that read a key of info.                                          *)

LEMMA InsideInfo ==
  ASSUME ParseInv, pc = "info"
  PROVE  /\ ReadInv /\ ParseTypes /\ InfoInside /\ InfoAt(at)
         /\ Info \in Seq(Entries(Values)) /\ Len(Info) \in Nat /\ info_at \in Nat \ {0}
         /\ metainfo \in Metainfos /\ content \in Seq(Entries(Values)) /\ at \in Nat \ {0}
         /\ info_parsed = Seen(InfoKeys, Info, info_at) /\ InfoRead(Info, info_parsed, metainfo)
         /\ IsTorrent(content) => IsInfo(Info)
<1>1. /\ ReadInv /\ ParseTypes /\ InfoInside /\ InfoAt(at) /\ info_at \in Nat \ {0}
      /\ info_parsed = Seen(InfoKeys, Info, info_at) /\ InfoRead(Info, info_parsed, metainfo)
  BY DEF ParseInv, ReadInv, InfoInside, ParseTypes
<1>2. Info \in Seq(Entries(Values)) /\ (IsTorrent(content) => IsInfo(Info))
  BY <1>1, InfoIsFirst DEF Info
<1>3. Len(Info) \in Nat
  BY <1>2, SeqDomain, Zenon
<1> QED BY <1>1, <1>2, <1>3, ContentIs

LEMMA ParsesInfoFirst ==
  ASSUME ParseInv, NEW key \in InfoKeys, ParsesInfo(key)
  PROVE  /\ pc = "info" /\ AtInfoKey /\ info_at \in 1 .. Len(Info)
         /\ Info[info_at].key = key /\ key \notin info_parsed /\ Info[info_at].value \in Values
         /\ FirstOf(Info, key) = {Info[info_at].value}
         /\ Seen(InfoKeys, Info, info_at + 1) = info_parsed \union {key}
<1>1. /\ pc = "info" /\ AtInfoKey /\ Info[info_at].key = key /\ info_at <= Len(Info)
      /\ Found(InfoKeys, info_parsed, Info[info_at]) /\ key \notin info_parsed
  BY DEF ParsesInfo, AtInfoKey, Found
<1>2. /\ Info \in Seq(Entries(Values)) /\ info_at \in Nat \ {0} /\ Len(Info) \in Nat
      /\ info_parsed = Seen(InfoKeys, Info, info_at)
  BY <1>1, InsideInfo
<1> DEFINE info == Info
<1> HIDE DEF info
<1>3. info_at \in 1 .. Len(info) /\ info = Info
  BY <1>1, <1>2 DEF info
<1>4. IsFirst(info, key, info_at)
  BY <1>1, <1>2, <1>3, FoundFirst
<1>5. FirstOf(info, key) = {info[info_at].value}
  BY <1>2, <1>3, <1>4, FirstAt, Zenon
<1>6. info[info_at].value \in Values
  BY <1>2, <1>3, EntryOf
<1>7. Seen(InfoKeys, info, info_at + 1) = info_parsed \union {key}
  BY <1>1, <1>2, <1>3, SeenStep
<1> QED BY <1>1, <1>3, <1>5, <1>6, <1>7

\* A step over a key of info.
LEMMA InfoKeyStep ==
  ASSUME ParseInv, AtInfoKey, content' = content, pc' = pc, at' = at, parsed' = parsed,
         info_position' = info_position, info_at' = info_at + 1,
         info_parsed' = Seen(InfoKeys, Info, info_at + 1), metainfo' \in Metainfos,
         metainfo'.tracker_url_utf8_ = metainfo.tracker_url_utf8_,
         metainfo'.multi_trackers_ = metainfo.multi_trackers_,
         InfoRead(Info, info_parsed', metainfo')
  PROVE  ParseInv'
<1>1. /\ pc = "info" /\ ReadInv /\ ParseTypes /\ InfoInside /\ info_at <= Len(Info)
      /\ info_at \in Nat \ {0} /\ Len(Info) \in Nat
  BY InsideInfo DEF AtInfoKey
<1>2. ParseTypes'
  BY <1>1 DEF ParseTypes
<1>3. Info' = Info
  BY DEF Info
<1>4. InfoInside'
  BY <1>1, <1>3 DEF InfoInside, InfoAt
<1>5. KeysRead(content, parsed, metainfo')
  BY <1>1 DEF ReadInv, KeysRead
<1>6. ReadInv'
  BY <1>1, <1>4, <1>5 DEF ReadInv
<1> QED BY <1>1, <1>2, <1>6 DEF ParseInv

LEMMA InfoKeySkippedKeeps ==
  ASSUME ParseInv, InfoKeySkipped
  PROVE  ParseInv'
<1>1. /\ AtInfoKey /\ pc = "info" /\ ~Found(InfoKeys, info_parsed, Info[info_at])
      /\ info_at' = info_at + 1
      /\ UNCHANGED <<content, pc, at, parsed, info_parsed, metainfo, info_position>>
  BY DEF InfoKeySkipped, AtInfoKey
<1>2. /\ info_parsed = Seen(InfoKeys, Info, info_at) /\ InfoRead(Info, info_parsed, metainfo)
      /\ info_at \in Nat \ {0} /\ metainfo \in Metainfos
  BY <1>1, InsideInfo
<1> DEFINE info == Info
<1> HIDE DEF info
<1>3. Seen(InfoKeys, info, info_at + 1) = Seen(InfoKeys, info, info_at)
  BY <1>1, <1>2, SeenStep DEF Found, info
<1>4. info_parsed' = Seen(InfoKeys, Info, info_at + 1)
  BY <1>1, <1>2, <1>3 DEF info
<1> QED BY <1>1, <1>2, <1>4, InfoKeyStep

\* The parser of a key of info succeeds or fails.
LEMMA InfoKeyKeeps ==
  ASSUME ParseInv, NEW key \in InfoKeys, ParsesInfo(key), NEW m \in Metainfos,
         m.tracker_url_utf8_ = metainfo.tracker_url_utf8_,
         m.multi_trackers_ = metainfo.multi_trackers_,
         InfoRead(Info, info_parsed \union {key}, m), InfoKeyParsed(m)
  PROVE  ParseInv'
<1>1. /\ AtInfoKey /\ Info[info_at].key = key
      /\ Seen(InfoKeys, Info, info_at + 1) = info_parsed \union {key}
  BY ParsesInfoFirst
<1>2. /\ metainfo' = m /\ info_at' = info_at + 1 /\ info_parsed' = info_parsed \union {key}
      /\ content' = content /\ pc' = pc /\ at' = at /\ parsed' = parsed
      /\ info_position' = info_position
  BY <1>1 DEF InfoKeyParsed
<1> QED BY <1>1, <1>2, InfoKeyStep

LEMMA InfoFailKeeps ==
  ASSUME ParseInv, pc = "info", Fail, ~IsInfo(Info)
  PROVE  ParseInv'
BY InsideInfo, FailKeeps

LEMMA ParseInfo_NameKeeps ==
  ASSUME ParseInv, ParseInfo_Name
  PROVE  ParseInv'
<1> DEFINE name == Info[info_at].value
           m == [metainfo EXCEPT !.suggested_name_utf8_ = name.text]
<1>1. ParsesInfo("name") /\ "name" \in InfoKeys /\ IF ~IsString(name) THEN Fail ELSE InfoKeyParsed(m)
  BY DEF ParseInfo_Name, InfoKeys
<1>2. pc = "info" /\ "name" \notin info_parsed /\ name \in Values /\ FirstOf(Info, "name") = {name}
  BY <1>1, ParsesInfoFirst
<1>3. metainfo \in Metainfos /\ InfoRead(Info, info_parsed, metainfo)
  BY <1>2, InsideInfo
<1> HIDE DEF name
<1>4. CASE ~IsString(name)
  <2>1. ~IsInfo(Info)
    BY <1>2, <1>4 DEF IsInfo, IsString
  <2> QED BY <1>1, <1>2, <1>4, <2>1, InfoFailKeeps
<1>5. CASE IsString(name)
  <2>1. name.text \in Texts /\ name.kind = "String"
    <3>1. name.text \in STRING
      BY <1>2, ValueIs
    <3> QED BY <3>1, <1>5 DEF IsString, Texts
  <2>2. /\ m \in Metainfos /\ m.suggested_name_utf8_ = name.text
        /\ m.tracker_url_utf8_ = metainfo.tracker_url_utf8_
        /\ m.multi_trackers_ = metainfo.multi_trackers_
        /\ m.piece_length_bytes_ = metainfo.piece_length_bytes_
        /\ m.pieces_SHA1_ = metainfo.pieces_SHA1_
        /\ m.length_or_files_ = metainfo.length_or_files_ /\ m.files = metainfo.files
    BY <1>3, <2>1 DEF Metainfos
  <2> HIDE DEF m
  <2>3. NameRead(Info, info_parsed \union {"name"}, m)
    BY <1>2, <2>1, <2>2 DEF NameRead
  <2>4. PieceLengthRead(Info, info_parsed \union {"name"}, m)
    BY <1>3, <2>2 DEF InfoRead, PieceLengthRead
  <2>5. PiecesRead(Info, info_parsed \union {"name"}, m)
    BY <1>3, <2>2 DEF InfoRead, PiecesRead
  <2>6. LengthOrFilesRead(Info, info_parsed \union {"name"}, m)
    BY <1>3, <2>2 DEF InfoRead, LengthOrFilesRead, LengthRead, FilesRead
  <2>7. InfoRead(Info, info_parsed \union {"name"}, m)
    BY <2>3, <2>4, <2>5, <2>6 DEF InfoRead
  <2> QED BY <1>1, <1>5, <2>2, <2>7, InfoKeyKeeps
<1> QED BY <1>4, <1>5

LEMMA ParseInfo_PieceLengthKeeps ==
  ASSUME ParseInv, ParseInfo_PieceLength
  PROVE  ParseInv'
<1> DEFINE n == Info[info_at].value
           m == [metainfo EXCEPT !.piece_length_bytes_ = n.n]
           key == "piece length"
<1>1. ParsesInfo(key) /\ key \in InfoKeys /\ IF ~ParsesAsUint64(n) THEN Fail ELSE InfoKeyParsed(m)
  BY DEF ParseInfo_PieceLength, InfoKeys
<1>2. pc = "info" /\ key \notin info_parsed /\ n \in Values /\ FirstOf(Info, key) = {n}
  BY <1>1, ParsesInfoFirst
<1>3. metainfo \in Metainfos /\ InfoRead(Info, info_parsed, metainfo)
  BY <1>2, InsideInfo
<1> HIDE DEF n
<1>4. n.n \in Int
  BY <1>2, ValueIs
<1>5. CASE ~ParsesAsUint64(n)
  <2>1. ~IsInfo(Info)
    <3>1. IsInfo(Info) => n.kind = "Integer" /\ n.n > 0
      BY <1>2, Zenon DEF IsInfo
    <3> QED BY <3>1, <1>4, <1>5 DEF ParsesAsUint64
  <2> QED BY <1>1, <1>2, <1>5, <2>1, InfoFailKeeps
<1>6. CASE ParsesAsUint64(n)
  <2>1. n.kind = "Integer" /\ n.n >= 0 /\ n.n \in Nat
    BY <1>4, <1>6 DEF ParsesAsUint64
  <2>2. /\ m \in Metainfos /\ m.piece_length_bytes_ = n.n
        /\ m.tracker_url_utf8_ = metainfo.tracker_url_utf8_
        /\ m.multi_trackers_ = metainfo.multi_trackers_
        /\ m.suggested_name_utf8_ = metainfo.suggested_name_utf8_
        /\ m.pieces_SHA1_ = metainfo.pieces_SHA1_
        /\ m.length_or_files_ = metainfo.length_or_files_ /\ m.files = metainfo.files
    BY <1>3, <2>1 DEF Metainfos
  <2> HIDE DEF m
  <2>3. NameRead(Info, info_parsed \union {key}, m)
    BY <1>3, <2>2 DEF InfoRead, NameRead
  <2>4. PieceLengthRead(Info, info_parsed \union {key}, m)
    BY <1>2, <2>1, <2>2 DEF PieceLengthRead
  <2>5. PiecesRead(Info, info_parsed \union {key}, m)
    BY <1>3, <2>2 DEF InfoRead, PiecesRead
  <2>6. LengthOrFilesRead(Info, info_parsed \union {key}, m)
    BY <1>3, <2>2 DEF InfoRead, LengthOrFilesRead, LengthRead, FilesRead
  <2>7. InfoRead(Info, info_parsed \union {key}, m)
    BY <2>3, <2>4, <2>5, <2>6 DEF InfoRead
  <2> QED BY <1>1, <1>6, <2>2, <2>7, InfoKeyKeeps
<1> QED BY <1>5, <1>6

LEMMA ParseInfo_PiecesKeeps ==
  ASSUME ParseInv, ParseInfo_Pieces
  PROVE  ParseInv'
<1> DEFINE hashes == Info[info_at].value
           m == [metainfo EXCEPT !.pieces_SHA1_ = hashes.n]
<1>1. /\ ParsesInfo("pieces") /\ "pieces" \in InfoKeys
      /\ IF ~HashesAccepted(hashes) THEN Fail ELSE InfoKeyParsed(m)
  BY DEF ParseInfo_Pieces, InfoKeys
<1>2. /\ pc = "info" /\ "pieces" \notin info_parsed /\ hashes \in Values
      /\ FirstOf(Info, "pieces") = {hashes}
  BY <1>1, ParsesInfoFirst
<1>3. metainfo \in Metainfos /\ InfoRead(Info, info_parsed, metainfo)
  BY <1>2, InsideInfo
<1> HIDE DEF hashes
<1>4. HashesAccepted(hashes) <=> hashes.kind = "String" /\ hashes.n > 0 /\ hashes.n % 20 = 0
  BY DEF HashesAccepted, IsNonEmptyString, IsString, Sha1Length
<1>5. CASE ~HashesAccepted(hashes)
  <2>1. ~IsInfo(Info)
    BY <1>2, <1>4, <1>5, Zenon DEF IsInfo
  <2> QED BY <1>1, <1>2, <1>5, <2>1, InfoFailKeeps
<1>6. CASE HashesAccepted(hashes)
  <2>1. hashes.kind = "String" /\ hashes.n > 0 /\ hashes.n % 20 = 0 /\ hashes.n \in Nat
    BY <1>2, <1>4, <1>6, ValueIs
  <2>2. /\ m \in Metainfos /\ m.pieces_SHA1_ = hashes.n
        /\ m.tracker_url_utf8_ = metainfo.tracker_url_utf8_
        /\ m.multi_trackers_ = metainfo.multi_trackers_
        /\ m.suggested_name_utf8_ = metainfo.suggested_name_utf8_
        /\ m.piece_length_bytes_ = metainfo.piece_length_bytes_
        /\ m.length_or_files_ = metainfo.length_or_files_ /\ m.files = metainfo.files
    BY <1>3, <2>1 DEF Metainfos
  <2> HIDE DEF m
  <2>3. NameRead(Info, info_parsed \union {"pieces"}, m)
    BY <1>3, <2>2 DEF InfoRead, NameRead
  <2>4. PieceLengthRead(Info, info_parsed \union {"pieces"}, m)
    BY <1>3, <2>2 DEF InfoRead, PieceLengthRead
  <2>5. PiecesRead(Info, info_parsed \union {"pieces"}, m)
    BY <1>2, <2>1, <2>2 DEF PiecesRead
  <2>6. LengthOrFilesRead(Info, info_parsed \union {"pieces"}, m)
    BY <1>3, <2>2 DEF InfoRead, LengthOrFilesRead, LengthRead, FilesRead
  <2>7. InfoRead(Info, info_parsed \union {"pieces"}, m)
    BY <2>3, <2>4, <2>5, <2>6 DEF InfoRead
  <2> QED BY <1>1, <1>6, <2>2, <2>7, InfoKeyKeeps
<1> QED BY <1>5, <1>6

\* length and files exclude each other.
LEMMA AmbiguousIff ==
  ASSUME NEW entries, NEW read, NEW m, LengthOrFilesRead(entries, read, m)
  PROVE  /\ m.length_or_files_ # "none" <=> "length" \in read \/ "files" \in read
         /\ "length" \in read => FirstOf(entries, "length") # {}
         /\ "files" \in read => FirstOf(entries, "files") # {}
BY DEF LengthOrFilesRead, LengthRead, FilesRead

LEMMA ParseInfo_LengthKeeps ==
  ASSUME ParseInv, ParseInfo_Length
  PROVE  ParseInv'
<1> DEFINE n == Info[info_at].value
           files == <<[length |-> n.n, path |-> <<>>]>>
           m == [metainfo EXCEPT !.length_or_files_ = "length", !.files = files]
<1>1. /\ ParsesInfo("length") /\ "length" \in InfoKeys
      /\ IF Ambiguous \/ ~ParsesAsUint64(n) THEN Fail ELSE InfoKeyParsed(m)
  BY DEF ParseInfo_Length, InfoKeys
<1>2. /\ pc = "info" /\ "length" \notin info_parsed /\ n \in Values
      /\ FirstOf(Info, "length") = {n}
  BY <1>1, ParsesInfoFirst
<1>3. metainfo \in Metainfos /\ InfoRead(Info, info_parsed, metainfo)
  BY <1>2, InsideInfo
<1>4. /\ metainfo.length_or_files_ # "none" <=> "files" \in info_parsed
      /\ "files" \in info_parsed => FirstOf(Info, "files") # {}
  BY <1>2, <1>3, AmbiguousIff, Zenon DEF InfoRead
<1> HIDE DEF n
<1>5. CASE Ambiguous \/ ~ParsesAsUint64(n)
  <2>1. IsInfo(Info) => FirstOf(Info, "files") = {} /\ n.kind = "Integer" /\ n.n >= 0
    BY <1>2, Zenon DEF IsInfo
  <2>2. ~IsInfo(Info)
    BY <2>1, <1>4, <1>5 DEF ParsesAsUint64, Ambiguous
  <2> QED BY <1>1, <1>2, <1>5, <2>2, InfoFailKeeps
<1>6. CASE ~Ambiguous /\ ParsesAsUint64(n)
  <2>1. n.kind = "Integer" /\ n.n >= 0 /\ n.n \in Nat
    <3>1. n.n \in Int
      BY <1>2, ValueIs
    <3> QED BY <3>1, <1>6 DEF ParsesAsUint64
  <2>2. files \in Seq(FileRecords) /\ Len(files) = 1 /\ files[1].length = n.n
    <3>1. [length |-> n.n, path |-> <<>>] \in FileRecords
      BY <2>1 DEF FileRecords
    <3> HIDE DEF FileRecords
    <3> QED BY <3>1
  <2> HIDE DEF files
  <2>3. /\ m \in Metainfos /\ m.length_or_files_ = "length" /\ m.files = files
        /\ m.tracker_url_utf8_ = metainfo.tracker_url_utf8_
        /\ m.multi_trackers_ = metainfo.multi_trackers_
        /\ m.suggested_name_utf8_ = metainfo.suggested_name_utf8_
        /\ m.piece_length_bytes_ = metainfo.piece_length_bytes_
        /\ m.pieces_SHA1_ = metainfo.pieces_SHA1_
    BY <1>3, <2>2 DEF Metainfos
  <2> HIDE DEF m
  <2>4. NameRead(Info, info_parsed \union {"length"}, m)
    BY <1>3, <2>3 DEF InfoRead, NameRead
  <2>5. PieceLengthRead(Info, info_parsed \union {"length"}, m)
    BY <1>3, <2>3 DEF InfoRead, PieceLengthRead
  <2>6. PiecesRead(Info, info_parsed \union {"length"}, m)
    BY <1>3, <2>3 DEF InfoRead, PiecesRead
  <2>7. LengthOrFilesRead(Info, info_parsed \union {"length"}, m)
    BY <1>2, <1>4, <1>6, <2>1, <2>2, <2>3 DEF LengthOrFilesRead, LengthRead, Ambiguous
  <2>8. InfoRead(Info, info_parsed \union {"length"}, m)
    BY <2>4, <2>5, <2>6, <2>7 DEF InfoRead
  <2> QED BY <1>1, <1>6, <2>3, <2>8, InfoKeyKeeps
<1> QED BY <1>5, <1>6

LEMMA ParseInfo_FilesKeeps ==
  ASSUME ParseInv, ParseInfo_Files
  PROVE  ParseInv'
<1> DEFINE list == Info[info_at].value
           parsable == \A k \in DOMAIN list.items : FilesFile(list.items[k]) # {}
           files == [k \in DOMAIN list.items |-> CHOOSE f \in FilesFile(list.items[k]) : TRUE]
           m == [metainfo EXCEPT !.length_or_files_ = "files", !.files = files]
<1>1. /\ ParsesInfo("files") /\ "files" \in InfoKeys
      /\ IF Ambiguous \/ list.kind # "List" \/ list.items = <<>> \/ ~parsable
         THEN Fail ELSE InfoKeyParsed(m)
  BY DEF ParseInfo_Files, InfoKeys
<1>2. /\ pc = "info" /\ "files" \notin info_parsed /\ list \in Values
      /\ FirstOf(Info, "files") = {list}
  BY <1>1, ParsesInfoFirst
<1>3. metainfo \in Metainfos /\ InfoRead(Info, info_parsed, metainfo)
  BY <1>2, InsideInfo
<1>4. /\ metainfo.length_or_files_ # "none" <=> "length" \in info_parsed
      /\ "length" \in info_parsed => FirstOf(Info, "length") # {}
  BY <1>2, <1>3, AmbiguousIff, Zenon DEF InfoRead
<1> HIDE DEF list
<1>5. CASE Ambiguous \/ list.kind # "List" \/ list.items = <<>> \/ ~parsable
  <2>1. IsInfo(Info) =>
          FirstOf(Info, "length") = {} /\ list.kind = "List" /\ list.items # <<>> /\ parsable
    BY <1>2, Zenon DEF IsInfo
  <2>2. ~IsInfo(Info)
    BY <2>1, <1>4, <1>5, Zenon DEF Ambiguous
  <2> QED BY <1>1, <1>2, <1>5, <2>2, InfoFailKeeps, Zenon
<1>6. CASE ~(Ambiguous \/ list.kind # "List" \/ list.items = <<>> \/ ~parsable)
  <2>1. list.items \in Seq(Values) /\ list.kind = "List" /\ list.items # <<>> /\ parsable
    BY <1>2, <1>6, ValueIs
  <2>2. /\ Len(list.items) \in Nat /\ DOMAIN list.items = 1 .. Len(list.items)
        /\ \A k \in 1 .. Len(list.items) : list.items[k] \in Values
    BY <2>1, SeqDomain, Zenon
  <2>3. \A k \in 1 .. Len(list.items) :
          files[k] \in FilesFile(list.items[k]) /\ files[k] \in FileRecords
    <3> TAKE k \in 1 .. Len(list.items)
    <3>1. FilesFile(list.items[k]) # {}
      BY <2>1, <2>2
    <3>2. files[k] = CHOOSE f \in FilesFile(list.items[k]) : TRUE
      BY <2>2
    <3> HIDE DEF files
    <3>3. files[k] \in FilesFile(list.items[k])
      BY <3>1, <3>2, Zenon
    <3> QED BY <3>3, <2>2, FilesFileIs
  <2>4. files = [k \in 1 .. Len(list.items) |-> files[k]]
    BY <2>2
  <2> HIDE DEF files
  <2>5. files \in Seq(FileRecords) /\ Len(files) = Len(list.items)
    <3> HIDE DEF FileRecords
    <3>1. files \in [1 .. Len(list.items) -> FileRecords]
      BY <2>3, <2>4, Zenon
    <3> QED BY <3>1, <2>2, FunctionIsSeq
  <2>6. /\ m \in Metainfos /\ m.length_or_files_ = "files" /\ m.files = files
        /\ m.tracker_url_utf8_ = metainfo.tracker_url_utf8_
        /\ m.multi_trackers_ = metainfo.multi_trackers_
        /\ m.suggested_name_utf8_ = metainfo.suggested_name_utf8_
        /\ m.piece_length_bytes_ = metainfo.piece_length_bytes_
        /\ m.pieces_SHA1_ = metainfo.pieces_SHA1_
    BY <1>3, <2>5 DEF Metainfos
  <2>7. InfoKeyParsed(m)
    BY <1>1, <1>6 DEF files
  <2> HIDE DEF m
  <2>8. NameRead(Info, info_parsed \union {"files"}, m)
    BY <1>3, <2>6 DEF InfoRead, NameRead
  <2>9. PieceLengthRead(Info, info_parsed \union {"files"}, m)
    BY <1>3, <2>6 DEF InfoRead, PieceLengthRead
  <2>10. PiecesRead(Info, info_parsed \union {"files"}, m)
    BY <1>3, <2>6 DEF InfoRead, PiecesRead
  <2>11. FilesRead(Info, m)
    BY <1>2, <2>1, <2>2, <2>3, <2>5, <2>6, Zenon DEF FilesRead
  <2>12. LengthOrFilesRead(Info, info_parsed \union {"files"}, m)
    BY <1>4, <1>6, <2>11 DEF LengthOrFilesRead, Ambiguous
  <2>13. InfoRead(Info, info_parsed \union {"files"}, m)
    BY <2>8, <2>9, <2>10, <2>12 DEF InfoRead
  <2> QED BY <1>1, <2>6, <2>7, <2>13, InfoKeyKeeps
<1> QED BY <1>5, <1>6

-----------------------------------------------------------------------------
(* The ends of info and of the file.                                       *)

\* A key was read if it is there.
LEMMA ReadIffThere ==
  ASSUME NEW entries \in Seq(Entries(Values)), NEW keys, NEW key \in keys
  PROVE  key \in Seen(keys, entries, Len(entries) + 1) <=> FirstOf(entries, key) # {}
<1>1. Len(entries) \in Nat
  BY SeqDomain, Zenon
<1>2. key \in Seen(keys, entries, Len(entries) + 1)
        <=> \E k \in 1 .. Len(entries) : entries[k].key = key
  BY <1>1 DEF Seen
<1>3. ASSUME NEW k \in 1 .. Len(entries), entries[k].key = key
      PROVE  FirstOf(entries, key) # {}
  <2>1. PICK j : IsFirst(entries, key, j)
    BY <1>3, FirstExists
  <2> QED BY <2>1, FirstAt
<1> QED BY <1>2, <1>3, FirstNone

LEMMA InfoKeysThere ==
  ASSUME NEW entries \in Seq(Entries(Values)), NEW read,
         read = Seen(InfoKeys, entries, Len(entries) + 1)
  PROVE  /\ "name" \in read <=> FirstOf(entries, "name") # {}
         /\ "piece length" \in read <=> FirstOf(entries, "piece length") # {}
         /\ "pieces" \in read <=> FirstOf(entries, "pieces") # {}
         /\ "length" \in read <=> FirstOf(entries, "length") # {}
         /\ "files" \in read <=> FirstOf(entries, "files") # {}
<1>1. \A key \in InfoKeys : key \in read <=> FirstOf(entries, key) # {}
  BY ReadIffThere
<1> QED BY <1>1, Zenon DEF InfoKeys

\* The checks after the loop let through what is an info.
LEMMA AcceptedIsInfo ==
  ASSUME NEW entries \in Seq(Entries(Values)), NEW read,
         read = Seen(InfoKeys, entries, Len(entries) + 1),
         InfoRead(entries, read, metainfo), InfoAccepted
  PROVE  IsInfo(entries)
<1>1. /\ "name" \in read <=> FirstOf(entries, "name") # {}
      /\ "length" \in read <=> FirstOf(entries, "length") # {}
      /\ "files" \in read <=> FirstOf(entries, "files") # {}
  BY InfoKeysThere
<1>2. \A v \in FirstOf(entries, "name") : v.kind = "String"
  BY <1>1, FirstOne, Zenon DEF InfoRead, NameRead
<1>3. \E v \in FirstOf(entries, "piece length") : v.kind = "Integer" /\ v.n > 0
  <2>1. PieceLengthRead(entries, read, metainfo) /\ metainfo.piece_length_bytes_ > 0
    BY DEF InfoRead, InfoAccepted
  <2>2. ASSUME "piece length" \notin read PROVE FALSE
    <3>1. metainfo.piece_length_bytes_ = 0
      BY <2>1, <2>2, Zenon DEF PieceLengthRead
    <3> QED BY <2>1, <3>1
  <2>3. PICK v \in FirstOf(entries, "piece length") :
          v.kind = "Integer" /\ metainfo.piece_length_bytes_ = v.n
    BY <2>1, <2>2, Zenon DEF PieceLengthRead
  <2>4. v.n > 0
    BY <2>1, <2>3
  <2> QED BY <2>3, <2>4
<1>4. \E v \in FirstOf(entries, "pieces") : v.kind = "String" /\ v.n > 0 /\ v.n % 20 = 0
  <2>1. PiecesRead(entries, read, metainfo) /\ metainfo.pieces_SHA1_ > 0
    BY DEF InfoRead, InfoAccepted
  <2>2. "pieces" \in read
    BY <2>1 DEF PiecesRead
  <2> QED BY <2>1, <2>2, Zenon DEF PiecesRead
<1>5. LengthOrFilesRead(entries, read, metainfo) /\ metainfo.length_or_files_ # "none"
  BY DEF InfoRead, InfoAccepted
<1>6. FirstOf(entries, "length") = {} <=> FirstOf(entries, "files") # {}
  BY <1>1, <1>5, Zenon DEF LengthOrFilesRead
<1>7. \A v \in FirstOf(entries, "length") : v.kind = "Integer" /\ v.n >= 0
  BY <1>1, <1>5, FirstOne, Zenon DEF LengthOrFilesRead, LengthRead
<1>8. ASSUME NEW v \in FirstOf(entries, "files")
      PROVE  /\ v.kind = "List" /\ v.items # <<>>
             /\ \A k \in DOMAIN v.items : FilesFile(v.items[k]) # {}
  <2>1. "files" \in read /\ "length" \notin read
    BY <1>1, <1>5, <1>8 DEF LengthOrFilesRead
  <2>2. PICK w \in FirstOf(entries, "files") :
          /\ w.kind = "List" /\ w.items # <<>>
          /\ \A k \in DOMAIN w.items : metainfo.files[k] \in FilesFile(w.items[k])
    BY <1>5, <2>1 DEF LengthOrFilesRead, FilesRead
  <2>3. v = w
    BY FirstOne
  <2> QED BY <2>2, <2>3
<1> QED BY <1>2, <1>3, <1>4, <1>6, <1>7, <1>8, Zenon DEF IsInfo

\* They let through every info.
LEMMA InfoIsAccepted ==
  ASSUME NEW entries \in Seq(Entries(Values)), NEW read,
         read = Seen(InfoKeys, entries, Len(entries) + 1),
         InfoRead(entries, read, metainfo), IsInfo(entries)
  PROVE  /\ metainfo.piece_length_bytes_ > 0 /\ metainfo.pieces_SHA1_ > 0
         /\ metainfo.length_or_files_ # "none"
<1>1. /\ "piece length" \in read <=> FirstOf(entries, "piece length") # {}
      /\ "pieces" \in read <=> FirstOf(entries, "pieces") # {}
      /\ "length" \in read <=> FirstOf(entries, "length") # {}
      /\ "files" \in read <=> FirstOf(entries, "files") # {}
  BY InfoKeysThere
<1>2. metainfo.piece_length_bytes_ > 0
  <2>1. PICK v \in FirstOf(entries, "piece length") : v.n > 0
    BY DEF IsInfo
  <2>2. PICK w \in FirstOf(entries, "piece length") : metainfo.piece_length_bytes_ = w.n
    BY <1>1, <2>1 DEF InfoRead, PieceLengthRead
  <2>3. v = w
    BY FirstOne
  <2> QED BY <2>1, <2>2, <2>3
<1>3. metainfo.pieces_SHA1_ > 0
  <2>1. "pieces" \in read
    BY <1>1 DEF IsInfo
  <2> QED BY <2>1 DEF InfoRead, PiecesRead
<1>4. metainfo.length_or_files_ # "none"
  <2>1. "length" \in read \/ "files" \in read
    BY <1>1 DEF IsInfo
  <2> QED BY <2>1, AmbiguousIff DEF InfoRead
<1> QED BY <1>2, <1>3, <1>4

\* The URL is set by an announce.
LEMMA UrlIffAnnounced ==
  ASSUME ParseInv, pc # "failed"
  PROVE  metainfo.tracker_url_utf8_ # "" <=> "announce" \in parsed
<1>1. /\ KeysRead(content, parsed, metainfo) /\ content \in Seq(Entries(Values))
  BY ContentIs DEF ParseInv, ReadInv
<1>2. ASSUME "announce" \in parsed PROVE metainfo.tracker_url_utf8_ # ""
  <2>1. PICK v \in FirstOf(content, "announce") :
          v.kind = "String" /\ v.n > 0 /\ metainfo.tracker_url_utf8_ = v.text
    BY <1>1, <1>2 DEF KeysRead
  <2>2. v \in Values
    BY <1>1, FirstIsValue
  <2>3. v.text = "" <=> v.n = 0
    BY <2>1, <2>2, ValueIs
  <2>4. v.n # 0
    <3>1. v.n \in Int /\ v.n > 0
      BY <2>1, <2>2, ValueIs
    <3> QED BY <3>1
  <2>5. v.text # ""
    BY <2>3, <2>4, Zenon
  <2> QED BY <2>1, <2>5
<1> QED BY <1>1, <1>2 DEF KeysRead

LEMMA InfoEndsKeeps ==
  ASSUME ParseInv, InfoEnds
  PROVE  ParseInv'
<1>1. /\ pc = "info" /\ info_at > Len(Info)
      /\ IF ~InfoAccepted THEN Fail
         ELSE /\ pc' = "keys" /\ at' = at + 1 /\ parsed' = parsed \union {"info"}
              /\ info_position' = at
              /\ UNCHANGED <<content, info_at, info_parsed, metainfo>>
  BY DEF InfoEnds
<1>2. /\ ReadInv /\ ParseTypes /\ InfoInside /\ InfoAt(at)
      /\ Info \in Seq(Entries(Values)) /\ Len(Info) \in Nat /\ info_at \in Nat \ {0}
      /\ content \in Seq(Entries(Values)) /\ at \in Nat \ {0}
      /\ info_parsed = Seen(InfoKeys, Info, info_at) /\ InfoRead(Info, info_parsed, metainfo)
      /\ IsTorrent(content) => IsInfo(Info)
  BY <1>1, InsideInfo
<1>3. info_at = Len(Info) + 1
  BY <1>1, <1>2 DEF InfoInside
<1>4. /\ parsed = Seen(Keys, content, at) /\ KeysRead(content, parsed, metainfo)
      /\ metainfo.tracker_url_utf8_ # "" <=> "announce" \in parsed
  BY <1>1, <1>2, UrlIffAnnounced DEF ReadInv
<1>5. at \in 1 .. Len(content) /\ At(content, "info") = at /\ content[at].key = "info"
  BY <1>2, InfoIsFirst DEF InfoAt
<1>6. CASE ~InfoAccepted
  <2>1. ASSUME IsTorrent(content) PROVE FALSE
    <3>1. IsInfo(Info)
      BY <1>2, <2>1
    <3>2. /\ metainfo.piece_length_bytes_ > 0 /\ metainfo.pieces_SHA1_ > 0
          /\ metainfo.length_or_files_ # "none"
      BY <1>2, <1>3, <3>1, InfoIsAccepted
    <3>3. PICK v \in FirstOf(content, "announce") : At(content, "announce") < At(content, "info")
      BY <2>1 DEF IsTorrent
    <3> DEFINE k == At(content, "announce")
    <3>4. k \in 1 .. Len(content) /\ content[k].key = "announce"
      BY <1>2, FirstIsValue
    <3>5. k \in 1 .. at - 1
      BY <3>3, <3>4, <1>2, <1>5
    <3> HIDE DEF k
    <3>6. "announce" \in parsed
      BY <3>4, <3>5, <1>4 DEF Seen, Keys
    <3> QED BY <1>4, <1>6, <3>2, <3>6 DEF InfoAccepted
  <2> QED BY <1>1, <1>6, <2>1, FailKeeps
<1>7. CASE InfoAccepted
  <2>1. /\ pc' = "keys" /\ at' = at + 1 /\ parsed' = parsed \union {"info"}
        /\ info_position' = at /\ content' = content /\ info_at' = info_at
        /\ info_parsed' = info_parsed /\ metainfo' = metainfo
    BY <1>1, <1>7
  <2>2. ParseTypes'
    BY <2>1, <1>2, <1>5 DEF ParseTypes
  <2>3. parsed' = Seen(Keys, content, at + 1)
    <3>1. content[at].key \in Keys
      BY <1>5 DEF Keys
    <3> DEFINE keys == Keys
               n == at
    <3>2. n \in Nat \ {0} /\ content[n].key \in keys
      BY <1>2, <3>1
    <3> HIDE DEF keys, n
    <3>3. Seen(keys, content, n + 1) = Seen(keys, content, n) \union {content[n].key}
      BY <3>2, SeenStep
    <3>4. Seen(Keys, content, at + 1) = Seen(Keys, content, at) \union {content[at].key}
      BY <3>3, Zenon DEF keys, n
    <3> QED BY <2>1, <3>4, <1>4, <1>5
  <2>4. KeysRead(content, parsed', metainfo)
    <3>1. /\ "announce" \in parsed' <=> "announce" \in parsed
          /\ "announce-list" \in parsed' <=> "announce-list" \in parsed
      BY <2>1
    <3> QED BY <3>1, <1>4 DEF KeysRead
  <2>5. \E k \in 1 .. at - 1 : content[k].key = "announce"
    BY <1>4, <1>7 DEF InfoAccepted, Seen
  <2>6. InfoDone'
    <3>1. info_position' < at' /\ InfoAt(info_position)'
      BY <2>1, <1>2 DEF InfoAt
    <3>2. /\ info_parsed = Seen(InfoKeys, Info, Len(Info) + 1)
          /\ InfoRead(Info, info_parsed, metainfo)
      BY <1>2, <1>3
    <3>3. InfoAccepted'
      BY <1>7, <2>1 DEF InfoAccepted
    <3> QED BY <2>1, <2>5, <3>1, <3>2, <3>3 DEF InfoDone, Info
  <2>7. ReadInv'
    BY <2>1, <2>3, <2>4, <2>6 DEF ReadInv
  <2> QED BY <2>1, <2>2, <2>7 DEF ParseInv
<1> QED BY <1>6, <1>7

\* At the end of the file its keys are those that were read.
LEMMA KeysThere ==
  ASSUME ParseInv, pc # "failed", at > Len(content)
  PROVE  /\ "announce" \in parsed <=> FirstOf(content, "announce") # {}
         /\ "announce-list" \in parsed <=> FirstOf(content, "announce-list") # {}
         /\ "info" \in parsed <=> FirstOf(content, "info") # {}
<1>1. content \in Seq(Entries(Values)) /\ Len(content) \in Nat /\ at \in 1 .. Len(content) + 1
  BY ContentIs DEF ParseInv, ParseTypes
<1>2. parsed = Seen(Keys, content, Len(content) + 1)
  <2>1. at = Len(content) + 1
    BY <1>1
  <2> QED BY <2>1 DEF ParseInv, ReadInv
<1>3. \A key \in Keys : key \in parsed <=> FirstOf(content, key) # {}
  BY <1>1, <1>2, ReadIffThere
<1> QED BY <1>3, Zenon DEF Keys

\* The checks of make are about the metainfo only.
LEMMA LayoutKept ==
  ASSUME metainfo' = metainfo
  PROVE  MakeAccepted' <=> MakeAccepted
<1>1. (get_total_size_bytes = TotalOf(metainfo.files)[DOMAIN metainfo.files])'
  BY TotalSizeIs, PTL
<1>2. (TotalOf(metainfo.files)[DOMAIN metainfo.files])'
        = TotalOf(metainfo.files)[DOMAIN metainfo.files]
  OBVIOUS
<1>3. get_total_size_bytes' = get_total_size_bytes
  BY <1>1, <1>2, TotalSizeIs, Zenon
<1>4. get_pieces_count' = get_pieces_count /\ get_piece_size_bytes' = get_piece_size_bytes
  BY DEF get_pieces_count, get_piece_size_bytes
<1>5. SizeExceptLastPiece' = SizeExceptLastPiece
  BY DEF SizeExceptLastPiece, get_pieces_count, get_piece_size_bytes
<1> QED BY <1>3, <1>4, <1>5, Zenon DEF MakeAccepted

LEMMA ContentEndsKeeps ==
  ASSUME ParseInv, ContentEnds
  PROVE  ParseInv'
<1>1. /\ pc = "keys" /\ at > Len(content)
      /\ IF ~({"announce", "info"} \subseteq parsed) THEN Fail
         ELSE /\ pc' = IF MakeAccepted THEN "made" ELSE "aborted"
              /\ UNCHANGED <<content, parseVars, metainfo, info_position>>
  BY DEF ContentEnds
<1>2. CASE ~({"announce", "info"} \subseteq parsed)
  <2>1. FirstOf(content, "announce") = {} \/ FirstOf(content, "info") = {}
    BY <1>1, <1>2, KeysThere
  <2>2. ~IsTorrent(content)
    BY <2>1 DEF IsTorrent
  <2> QED BY <1>1, <1>2, <2>2, FailKeeps
<1>3. CASE {"announce", "info"} \subseteq parsed
  <2>1. /\ pc' \in {"made", "aborted"} /\ (pc' = "made" <=> MakeAccepted)
        /\ content' = content /\ at' = at /\ info_at' = info_at /\ parsed' = parsed
        /\ info_parsed' = info_parsed /\ metainfo' = metainfo /\ info_position' = info_position
    BY <1>1, <1>3 DEF parseVars
  <2>2. ParseTypes /\ ReadInv /\ InfoDone
    BY <1>1, <1>3 DEF ParseInv, ReadInv
  <2>3. ParseTypes'
    BY <2>1, <2>2 DEF ParseTypes
  <2>4. InfoDone'
    BY <2>1, <2>2 DEF InfoDone, InfoAt, InfoAccepted
  <2>5. ReadInv'
    BY <2>1, <2>2, <2>4, <1>1, <1>3 DEF ReadInv
  <2>6. MakeAccepted' <=> MakeAccepted
    BY <2>1, LayoutKept
  <2> QED BY <2>1, <2>3, <2>5, <2>6 DEF ParseInv
<1> QED BY <1>2, <1>3

-----------------------------------------------------------------------------
(* The specification.                                                      *)

LEMMA InitParses ==
  ASSUME Init
  PROVE  ParseInv
<1>1. /\ content \in Contents /\ pc = "keys" /\ at = 1 /\ info_at = 1 /\ parsed = {}
      /\ info_parsed = {} /\ metainfo = NoMetainfo
  BY DEF Init
<1>2. content \in Seq(Entries(Values)) /\ Len(content) \in Nat
  <2>1. content \in Seq(Entries(Values))
    BY <1>1, TorrentFileAssumption
  <2> QED BY <2>1
<1>3. metainfo \in Metainfos
  <2>1. <<>> \in Seq(FileRecords) /\ <<>> \in Seq([url_utf8_ : STRING, tier_ : Nat])
    OBVIOUS
  <2>2. "" \in Texts
    BY DEF Texts
  <2>3. 0 \in Nat /\ "none" \in {"none", "length", "files"}
    OBVIOUS
  <2> QED BY <1>1, <2>1, <2>2, <2>3, Zenon DEF NoMetainfo, Metainfos
<1>4. ParseTypes
  BY <1>1, <1>2, <1>3 DEF ParseTypes
<1>5. parsed = Seen(Keys, content, at)
  <2>1. 1 .. at - 1 = {}
    BY <1>1
  <2> QED BY <1>1, <2>1, Zenon DEF Seen
<1>6. KeysRead(content, parsed, metainfo)
  BY <1>1 DEF KeysRead, NoMetainfo
<1>7. InfoNotYet
  BY <1>1 DEF InfoNotYet, InfoRead, NameRead, PieceLengthRead, PiecesRead, LengthOrFilesRead,
              NoMetainfo
<1>8. ReadInv
  BY <1>1, <1>5, <1>6, <1>7 DEF ReadInv
<1> QED BY <1>1, <1>4, <1>8 DEF ParseInv

LEMMA StutterKeeps ==
  ASSUME ParseInv, UNCHANGED vars
  PROVE  ParseInv'
<1>1. /\ content' = content /\ pc' = pc /\ at' = at /\ info_at' = info_at /\ parsed' = parsed
      /\ info_parsed' = info_parsed /\ metainfo' = metainfo /\ info_position' = info_position
  BY DEF vars, parseVars
<1>2. ParseTypes'
  BY <1>1 DEF ParseInv, ParseTypes
<1>3. ASSUME pc # "failed" PROVE ReadInv'
  <2>1. ReadInv
    BY <1>3 DEF ParseInv
  <2>2. InfoInside => InfoInside'
    BY <1>1 DEF InfoInside, InfoAt, Info
  <2>3. InfoDone => InfoDone'
    BY <1>1 DEF InfoDone, InfoAt, InfoAccepted
  <2>4. InfoNotYet => InfoNotYet'
    BY <1>1 DEF InfoNotYet
  <2> QED BY <1>1, <2>1, <2>2, <2>3, <2>4 DEF ReadInv
<1>4. MakeAccepted' <=> MakeAccepted
  BY <1>1, LayoutKept
<1> QED BY <1>1, <1>2, <1>3, <1>4 DEF ParseInv

LEMMA NextKeeps ==
  ASSUME ParseInv, [Next]_vars
  PROVE  ParseInv'
<1>1. CASE ParseAnnounce       BY <1>1, ParseAnnounceKeeps
<1>2. CASE ParseAnnounceList   BY <1>2, ParseAnnounceListKeeps
<1>3. CASE ParseInfo           BY <1>3, ParseInfoKeeps
<1>4. CASE KeySkipped          BY <1>4, KeySkippedKeeps
<1>5. CASE ParseInfo_Name      BY <1>5, ParseInfo_NameKeeps
<1>6. CASE ParseInfo_PieceLength BY <1>6, ParseInfo_PieceLengthKeeps
<1>7. CASE ParseInfo_Pieces    BY <1>7, ParseInfo_PiecesKeeps
<1>8. CASE ParseInfo_Length    BY <1>8, ParseInfo_LengthKeeps
<1>9. CASE ParseInfo_Files     BY <1>9, ParseInfo_FilesKeeps
<1>10. CASE InfoKeySkipped     BY <1>10, InfoKeySkippedKeeps
<1>11. CASE InfoEnds           BY <1>11, InfoEndsKeeps
<1>12. CASE ContentEnds        BY <1>12, ContentEndsKeeps
<1>13. CASE Terminated         BY <1>13, StutterKeeps DEF Terminated
<1>14. CASE UNCHANGED vars     BY <1>14, StutterKeeps
<1> QED BY <1>1, <1>2, <1>3, <1>4, <1>5, <1>6, <1>7, <1>8, <1>9, <1>10, <1>11, <1>12,
           <1>13, <1>14, Zenon DEF Next

\* The keys that were read, and what they have left, through all of the file:
\* the inductive invariant of parsing.
THEOREM TorrentParseInv == Spec => []ParseInv
<1>1. Init => ParseInv
  BY InitParses
<1>2. ParseInv /\ [Next]_vars => ParseInv'
  BY NextKeeps
<1> QED BY <1>1, <1>2, PTL DEF Spec

-----------------------------------------------------------------------------
(* What it implies.                                                        *)

\* What was read to its end, as a torrent.
LEMMA ReadDone ==
  ASSUME ParseInv, Parsed
  PROVE  /\ ReadInv /\ InfoDone /\ "announce" \in parsed /\ pc # "failed" /\ at > Len(content)
         /\ metainfo \in Metainfos
BY DEF ParseInv, ReadInv, Parsed, ParseTypes

LEMMA ReadInfo ==
  ASSUME ParseInv, Parsed
  PROVE  LET info == content[info_position].value.items
         IN  /\ info \in Seq(Entries(Values)) /\ InfoAt(info_position)
             /\ info_parsed = Seen(InfoKeys, info, Len(info) + 1)
             /\ InfoRead(info, info_parsed, metainfo) /\ InfoAccepted
             /\ IsInfo(info)
<1> DEFINE info == content[info_position].value.items
<1>1. /\ InfoAt(info_position) /\ info_parsed = Seen(InfoKeys, info, Len(info) + 1)
      /\ InfoRead(info, info_parsed, metainfo) /\ InfoAccepted /\ ParseTypes
  BY ReadDone DEF InfoDone, ParseInv
<1>2. info \in Seq(Entries(Values))
  BY <1>1, InfoIsFirst
<1> HIDE DEF info
<1>3. IsInfo(info)
  BY <1>1, <1>2, AcceptedIsInfo
<1> QED BY <1>1, <1>2, <1>3 DEF info

LEMMA ReadIsTorrent ==
  ASSUME ParseInv, Parsed
  PROVE  IsTorrent(content)
<1>1. /\ ReadInv /\ InfoDone /\ "announce" \in parsed /\ pc # "failed" /\ at > Len(content)
      /\ InfoAt(info_position) /\ ParseTypes
  BY ReadDone DEF InfoDone, ParseInv
<1>2. /\ content \in Seq(Entries(Values)) /\ At(content, "info") = info_position
      /\ FirstOf(content, "info") = {content[info_position].value}
      /\ info_position \in 1 .. Len(content)
  BY <1>1, InfoIsFirst, ContentIs
<1>3. \E v \in FirstOf(content, "announce") : v.kind = "String" /\ v.n > 0
  BY <1>1 DEF ReadInv, KeysRead
<1>4. \E v \in FirstOf(content, "info") : v.kind = "Dictionary" /\ IsInfo(v.items)
  <2>1. content[info_position].value.kind = "Dictionary"
    BY <1>1 DEF InfoAt
  <2> QED BY <1>2, <2>1, ReadInfo
<1>5. At(content, "announce") < At(content, "info")
  <2>1. PICK k \in 1 .. info_position - 1 : content[k].key = "announce"
    BY <1>1 DEF InfoDone
  <2>2. k \in 1 .. Len(content) /\ info_position \in Nat /\ k < info_position
    BY <1>2
  <2>3. PICK j \in 1 .. k : IsFirst(content, "announce", j)
    BY <1>2, <2>1, <2>2, FirstExists
  <2>4. At(content, "announce") = j
    BY <1>2, <2>3, FirstAt
  <2> QED BY <1>2, <2>2, <2>4
<1>6. \A v \in FirstOf(content, "announce-list") : v.kind = "List"
  <2> SUFFICES ASSUME NEW v \in FirstOf(content, "announce-list") PROVE v.kind = "List"
    OBVIOUS
  <2>1. "announce-list" \in parsed
    BY <1>1, KeysThere
  <2>2. PICK w \in FirstOf(content, "announce-list") : w.kind = "List"
    BY <1>1, <2>1 DEF ReadInv, KeysRead
  <2>3. v = w
    BY FirstOne
  <2> QED BY <2>2, <2>3
<1> QED BY <1>3, <1>4, <1>5, <1>6 DEF IsTorrent

\* Exactly the torrents are parsed, whatever there is in the file and in
\* whichever order (ParseTorrentFileContent).
THEOREM TorrentParsedExactly == Spec => []ParsedExactly
<1>1. ParseInv => ParsedExactly
  <2> SUFFICES ASSUME ParseInv, pc \notin {"keys", "info"} PROVE Parsed <=> IsTorrent(content)
    BY DEF ParsedExactly
  <2>1. CASE Parsed
    BY <2>1, ReadIsTorrent
  <2>2. CASE ~Parsed
    BY <2>2 DEF ParseInv, ParseTypes, Parsed
  <2> QED BY <2>1, <2>2
<1> QED BY <1>1, TorrentParseInv, PTL

\* What the client works with is what the info dictionary says whose position
\* becomes the info hash (ParseInfo, info_position_).
THEOREM TorrentInfoHashed == Spec => []InfoHashed
<1>1. ParseInv => InfoHashed
  <2> DEFINE info == content[info_position].value.items
  <2> SUFFICES ASSUME ParseInv, Parsed
               PROVE  /\ \A v \in FirstOf(info, "piece length") : metainfo.piece_length_bytes_ = v.n
                      /\ \A v \in FirstOf(info, "pieces") : metainfo.pieces_SHA1_ = v.n
                      /\ \A v \in FirstOf(info, "name") : metainfo.suggested_name_utf8_ = v.text
                      /\ \A v \in FirstOf(info, "length") :
                           Len(metainfo.files) = 1 /\ metainfo.files[1].length = v.n
                      /\ \A v \in FirstOf(info, "files") :
                           /\ Len(metainfo.files) = Len(v.items)
                           /\ \A k \in DOMAIN v.items : metainfo.files[k] \in FilesFile(v.items[k])
    BY Zenon DEF InfoHashed
  <2>1. /\ info \in Seq(Entries(Values)) /\ InfoRead(info, info_parsed, metainfo) /\ IsInfo(info)
        /\ info_parsed = Seen(InfoKeys, info, Len(info) + 1)
    BY ReadInfo
  <2> HIDE DEF info
  <2>2. /\ "name" \in info_parsed <=> FirstOf(info, "name") # {}
        /\ "piece length" \in info_parsed <=> FirstOf(info, "piece length") # {}
        /\ "pieces" \in info_parsed <=> FirstOf(info, "pieces") # {}
        /\ "length" \in info_parsed <=> FirstOf(info, "length") # {}
        /\ "files" \in info_parsed <=> FirstOf(info, "files") # {}
    BY <2>1, InfoKeysThere
  <2>3. ASSUME NEW v \in FirstOf(info, "piece length") PROVE metainfo.piece_length_bytes_ = v.n
    BY <2>1, <2>2, FirstOne, Zenon DEF InfoRead, PieceLengthRead
  <2>4. ASSUME NEW v \in FirstOf(info, "pieces") PROVE metainfo.pieces_SHA1_ = v.n
    BY <2>1, <2>2, FirstOne, Zenon DEF InfoRead, PiecesRead
  <2>5. ASSUME NEW v \in FirstOf(info, "name") PROVE metainfo.suggested_name_utf8_ = v.text
    BY <2>1, <2>2, FirstOne, Zenon DEF InfoRead, NameRead
  <2>6. ASSUME NEW v \in FirstOf(info, "length")
        PROVE  Len(metainfo.files) = 1 /\ metainfo.files[1].length = v.n
    BY <2>1, <2>2, FirstOne, Zenon DEF InfoRead, LengthOrFilesRead, LengthRead
  <2>7. ASSUME NEW v \in FirstOf(info, "files")
        PROVE  /\ Len(metainfo.files) = Len(v.items)
               /\ \A k \in DOMAIN v.items : metainfo.files[k] \in FilesFile(v.items[k])
    <3>1. FirstOf(info, "length") = {}
      BY <2>1, <2>7 DEF IsInfo
    <3>2. FilesRead(info, metainfo)
      BY <2>1, <2>2, <2>7, <3>1, Zenon DEF InfoRead, LengthOrFilesRead
    <3> QED BY <3>2, FirstOne, Zenon DEF FilesRead
  <2> QED BY <2>3, <2>4, <2>5, <2>6, <2>7
<1> QED BY <1>1, TorrentParseInv, PTL

\* n pieces of size bytes, the last one perhaps shorter, have total bytes.
Fill(n, size, total) == size * (n - 1) < total /\ total <= size * n

\* Its bytes divided by the size are the indexes of the pieces.
LEMMA FillIs ==
  ASSUME NEW n \in Nat \ {0}, NEW size \in Nat \ {0}, NEW total \in Nat
  PROVE  {b \div size : b \in 0 .. total - 1} = 0 .. n - 1 <=> Fill(n, size, total)
<1> DEFINE S == {b \div size : b \in 0 .. total - 1}
<1>1. \A q \in Nat : q * size \in Nat /\ (q + 1) * size = q * size + size
  OBVIOUS
<1>2. (n - 1) * size = size * (n - 1) /\ n * size = size * n /\ n - 1 \in Nat
  OBVIOUS
<1>3. \A b \in 0 .. total - 1, q \in Nat : b \div size = q <=> b \in q * size .. (q + 1) * size - 1
  BY QuotientIs
<1>4. \A b \in 0 .. total - 1 : b \div size \in Nat
  <2> TAKE b \in 0 .. total - 1
  <2>1. /\ b % size \in 0 .. size - 1 /\ b \div size \in Int
        /\ b = size * (b \div size) + (b % size)
    BY DivMod
  <2> DEFINE x == b \div size
  <2>2. x \in Int /\ x * size > -size
    BY <2>1
  <2> HIDE DEF x
  <2>3. ~(x <= -1)
    <3> SUFFICES ASSUME x <= -1 PROVE FALSE
      OBVIOUS
    <3>1. x * size <= -1 * size
      BY <2>2, MulMonotone
    <3> QED BY <3>1, <2>2
  <2>4. x \in Nat
    BY <2>2, <2>3
  <2> QED BY <2>4 DEF x
<1>5. ASSUME S = 0 .. n - 1 PROVE Fill(n, size, total)
  <2>1. n - 1 \in 0 .. n - 1
    BY <1>2
  <2>2. PICK b \in 0 .. total - 1 : b \div size = n - 1
    BY <2>1, <1>5
  <2>3. (n - 1) * size <= b
    BY <2>2, <1>1, <1>2, <1>3
  <2>4. (n - 1) * size < total
    BY <2>2, <2>3, <1>1, <1>2
  <2>5. ASSUME ~(total <= n * size) PROVE FALSE
    <3>1. n * size \in 0 .. total - 1
      BY <2>5, <1>1
    <3>2. (n * size) \div size = n
      BY <3>1, <1>1, <1>3
    <3>3. n \in S
      BY <3>1, <3>2
    <3> HIDE DEF S
    <3> QED BY <3>3, <1>5
  <2> QED BY <2>4, <2>5, <1>2 DEF Fill
<1>6. ASSUME Fill(n, size, total) PROVE S = 0 .. n - 1
  <2>1. (n - 1) * size < total /\ total <= n * size
    BY <1>2, <1>6 DEF Fill
  <2>2. ASSUME NEW b \in 0 .. total - 1 PROVE b \div size \in 0 .. n - 1
    <3> DEFINE q == b \div size
    <3>1. q \in Nat /\ b \in q * size .. (q + 1) * size - 1
      BY <1>3, <1>4
    <3> HIDE DEF q
    <3>2. ~(n <= q)
      <4> SUFFICES ASSUME n <= q PROVE FALSE
        OBVIOUS
      <4>1. n * size <= q * size
        BY <3>1, MulMonotone
      <4> QED BY <4>1, <3>1, <2>1, <1>1
    <3>3. q \in 0 .. n - 1
      BY <3>1, <3>2
    <3> QED BY <3>3 DEF q
  <2>3. ASSUME NEW q \in 0 .. n - 1 PROVE q \in S
    <3>1. q * size <= (n - 1) * size
      BY MulMonotone
    <3>2. q * size \in 0 .. total - 1 /\ q \in Nat
      BY <3>1, <2>1, <1>1, <1>2
    <3>3. (q * size) \div size = q
      BY <3>2, <1>1, <1>3
    <3> QED BY <3>2, <3>3
  <2> QED BY <2>2, <2>3
<1> QED BY <1>5, <1>6

\* The bytes of one of those pieces.
LEMMA PieceIs ==
  ASSUME NEW n \in Nat \ {0}, NEW size \in Nat \ {0}, NEW total \in Nat,
         Fill(n, size, total), NEW i \in 0 .. n - 1
  PROVE  {b \in 0 .. total - 1 : b \div size = i}
           = size * i .. size * i + PieceBytes(n, size, total, i) - 1
<1> DEFINE bytes == PieceBytes(n, size, total, i)
<1>1. /\ i \in Nat /\ i * size \in Nat /\ (i + 1) * size = i * size + size
      /\ size * i = i * size /\ (n - 1) * size = size * (n - 1) /\ n * size = size * (n - 1) + size
      /\ (n - 1) * size < total /\ total <= n * size /\ size * (n - 1) \in Nat
  BY DEF Fill
<1>2. \A b \in 0 .. total - 1 : b \div size = i <=> b \in i * size .. (i + 1) * size - 1
  BY <1>1, QuotientIs
<1>3. CASE i < n - 1
  <2>1. (i + 1) * size <= (n - 1) * size
    BY <1>1, <1>3, MulMonotone
  <2>2. bytes = size
    BY <1>3 DEF PieceBytes
  <2>3. \A b \in Int : b \in 0 .. total - 1 /\ b \in i * size .. (i + 1) * size - 1
                       <=> b \in size * i .. size * i + bytes - 1
    BY <1>1, <2>1, <2>2
  <2> HIDE DEF bytes
  <2>4. {b \in 0 .. total - 1 : b \div size = i} = size * i .. size * i + bytes - 1
    BY <1>1, <1>2, <2>2, <2>3
  <2> QED BY <2>4 DEF bytes
<1>4. CASE ~(i < n - 1)
  <2>1. i = n - 1 /\ bytes = total - size * (n - 1)
    BY <1>4 DEF PieceBytes
  <2>2. \A b \in Int : b \in 0 .. total - 1 /\ b \in i * size .. (i + 1) * size - 1
                       <=> b \in size * i .. size * i + bytes - 1
    BY <1>1, <2>1
  <2> HIDE DEF bytes
  <2>3. {b \in 0 .. total - 1 : b \div size = i} = size * i .. size * i + bytes - 1
    BY <1>1, <1>2, <2>1, <2>2
  <2> QED BY <2>3 DEF bytes
<1> QED BY <1>3, <1>4

LEMMA CutIs ==
  ASSUME NEW m \in Nat
  PROVE  m % Word \in 0 .. Word - 1 /\ m \div Word \in Int /\ m = Word * (m \div Word) + (m % Word)
<1>1. m \in Int /\ Word \in Nat \ {0}
  BY WordAssumption
<1> QED BY <1>1, DivMod, Zenon

\* Pieces that fill the bytes as they are and with their count and size cut to
\* 32 bits are as many and, but for a single piece, as long.
LEMMA CutFill ==
  ASSUME NEW n \in Nat \ {0}, NEW size \in Nat \ {0}, NEW total \in Nat,
         Fill(n, size, total), U32(n) > 0, U32(size) > 0, Fill(U32(n), U32(size), total)
  PROVE  U32(n) = n /\ (U32(size) = size \/ n = 1)
<1> DEFINE c == U32(n)
           s == U32(size)
           a == n \div Word
           b == size \div Word
<1>1. /\ c \in 1 .. Word - 1 /\ a \in Int /\ n = Word * a + c
      /\ s \in 1 .. Word - 1 /\ b \in Int /\ size = Word * b + s
      /\ Word \in Nat \ {0}
  <2>1. /\ c \in 0 .. Word - 1 /\ a \in Int /\ n = Word * a + c
        /\ s \in 0 .. Word - 1 /\ b \in Int /\ size = Word * b + s
    BY CutIs, Zenon DEF U32
  <2>2. c > 0 /\ s > 0
    OBVIOUS
  <2> HIDE DEF a, b, c, s
  <2> QED BY <2>1, <2>2, WordAssumption
<1>2. Fill(c, s, total)
  OBVIOUS
<1> HIDE DEF a, b, c, s
<1>3. \A x \in Int, y \in 1 .. Word - 1 : Word * x + y > 0 => x >= 0
  <2> SUFFICES ASSUME NEW x \in Int, NEW y \in 1 .. Word - 1, x <= -1 PROVE ~(Word * x + y > 0)
    OBVIOUS
  <2>1. x * Word <= -1 * Word /\ x * Word = Word * x
    BY <1>1, MulMonotone
  <2> QED BY <2>1, <1>1
<1>4. a \in Nat /\ b \in Nat
  BY <1>1, <1>3
<1>5. Word * b \in Nat /\ s <= size
  BY <1>1, <1>4
<1>6. s * c < size * (n - 1) + 1 => FALSE
  <2>1. size * (n - 1) \in Nat /\ s * c \in Nat
    BY <1>1
  <2> QED BY <2>1, <1>2 DEF Fill
<1>7. a = 0
  <2> SUFFICES ASSUME a >= 1 PROVE FALSE
    BY <1>4
  <2>1. 1 * Word <= a * Word /\ a * Word = Word * a
    BY <1>1, <1>4, MulMonotone
  <2>2. c <= n - 1 /\ n - 1 \in Nat
    BY <1>1, <2>1
  <2>3. c * s <= (n - 1) * s
    BY <1>1, <2>2, MulMonotone
  <2>4. s * (n - 1) <= size * (n - 1)
    BY <1>1, <1>5, <2>2, MulMonotone
  <2>5. s * c = c * s /\ (n - 1) * s = s * (n - 1) /\ s * c \in Nat /\ s * (n - 1) \in Nat
        /\ size * (n - 1) \in Nat
    BY <1>1, <2>2
  <2> QED BY <1>6, <2>3, <2>4, <2>5
<1>8. n = c
  BY <1>1, <1>7
<1>9. b = 0 \/ n = 1
  <2> SUFFICES ASSUME b >= 1, n >= 2 PROVE FALSE
    BY <1>4
  <2>1. 1 * Word <= b * Word /\ b * Word = Word * b
    BY <1>1, <1>4, MulMonotone
  <2>2. s + s <= size
    BY <1>1, <2>1
  <2>3. (s + s) * (n - 1) <= size * (n - 1)
    BY <1>1, <2>2, MulMonotone
  <2>4. 1 * s <= (n - 1) * s
    BY <1>1, MulMonotone
  <2>5. /\ (s + s) * (n - 1) = (n - 1) * s + (n - 1) * s /\ s * c = (n - 1) * s + s
        /\ (n - 1) * s \in Nat /\ size * (n - 1) \in Nat
    BY <1>1, <1>8
  <2> QED BY <1>6, <2>3, <2>4, <2>5, <1>1
<1>10. b = 0 => s = size
  BY <1>1
<1> QED BY <1>8, <1>9, <1>10 DEF c, s

\* A client that was made has the pieces that the hashes are of, and with sizes
\* that fit in 32 bits a client is made exactly if there are as many hashes as
\* pieces (TorrentClient::make).
THEOREM TorrentMadeAsHashed == Spec => []MadeAsHashed
<1>1. ParseInv => MadeAsHashed
  <2> DEFINE n == HashesCount
             size == metainfo.piece_length_bytes_
             total == TorrentSize
  <2> SUFFICES ASSUME ParseInv, Parsed, total < WideWord
               PROVE  /\ pc = "made" /\ Hashed =>
                           /\ get_pieces_count = n
                           /\ \A i \in 0 .. n - 1 : ClientPiece(i) = Piece(i)
                      /\ n < Word /\ size < Word => (pc = "made" <=> Hashed)
    BY DEF MadeAsHashed
  <2>1. metainfo \in Metainfos /\ (pc = "made" <=> MakeAccepted)
    BY DEF ParseInv, ParseTypes, Parsed
  <2>2. total \in Nat /\ get_total_size_bytes = total
    <3>1. metainfo.files \in Seq(FileRecords)
      BY <2>1 DEF Metainfos
    <3> QED BY <3>1, TotalSizeType
  <2>3. n \in Nat \ {0} /\ size \in Nat \ {0}
    <3>1. InfoAccepted /\ PiecesRead(content[info_position].value.items, info_parsed, metainfo)
      BY ReadInfo DEF InfoRead
    <3>2. metainfo.pieces_SHA1_ \in Nat \ {0} /\ size \in Nat \ {0}
      <4>1. metainfo.pieces_SHA1_ \in Nat /\ metainfo.piece_length_bytes_ \in Nat
        BY <2>1 DEF Metainfos
      <4>2. metainfo.pieces_SHA1_ > 0 /\ metainfo.piece_length_bytes_ > 0
        BY <3>1 DEF InfoAccepted
      <4> QED BY <4>1, <4>2
    <3>3. metainfo.pieces_SHA1_ % 20 = 0
      BY <3>1, <3>2 DEF PiecesRead
    <3> DEFINE hashes == metainfo.pieces_SHA1_
    <3>4. hashes \in Nat \ {0} /\ hashes % 20 = 0 /\ n = hashes \div 20
      BY <3>2, <3>3 DEF HashesCount
    <3> HIDE DEF n, hashes
    <3>5. n \in Nat \ {0}
      BY <3>4
    <3> QED BY <3>2, <3>5
  <2>4. get_pieces_count = U32(n) /\ get_piece_size_bytes = U32(size)
    BY DEF get_pieces_count, get_piece_size_bytes, HashesCount, Sha1Length
  <2>5. Hashed <=> Fill(n, size, total)
    BY <2>2, <2>3, FillIs DEF Hashed, PieceOf
  <2>6. MakeAccepted <=> U32(n) > 0 /\ U32(size) > 0 /\ Fill(U32(n), U32(size), total)
    <3> DEFINE c == U32(n)
               s == U32(size)
    <3>1. c \in Nat /\ s \in Nat
      BY <2>3, WordAssumption DEF U32
    <3>2. MakeAccepted <=> /\ c > 0 /\ s > 0
                           /\ s * (c - 1) < total /\ total - s * (c - 1) <= s
      BY <2>2, <2>4 DEF MakeAccepted, SizeExceptLastPiece
    <3> HIDE DEF c, s, n, size, total
    <3>3. s * c = s * (c - 1) + s /\ s * (c - 1) \in Int
      BY <3>1
    <3>4. MakeAccepted <=> c > 0 /\ s > 0 /\ Fill(c, s, total)
      BY <3>1, <3>2, <3>3, <2>2 DEF Fill
    <3> QED BY <3>4 DEF c, s, n, size, total
  <2>7. ASSUME pc = "made", Hashed
        PROVE  get_pieces_count = n /\ \A i \in 0 .. n - 1 : ClientPiece(i) = Piece(i)
    <3>1. /\ Fill(n, size, total) /\ Fill(U32(n), U32(size), total)
          /\ U32(n) > 0 /\ U32(size) > 0
      BY <2>1, <2>5, <2>6, <2>7
    <3>2. U32(n) = n /\ (U32(size) = size \/ n = 1)
      BY <2>2, <2>3, <3>1, CutFill
    <3>3. ASSUME NEW i \in 0 .. n - 1 PROVE ClientPiece(i) = Piece(i)
      <4>1. Piece(i) = size * i .. size * i + PieceBytes(n, size, total, i) - 1
        BY <2>2, <2>3, <3>1, PieceIs DEF Piece, PieceOf
      <4>2. ClientPiece(i) = U32(size) * i .. U32(size) * i + PieceBytes(n, U32(size), total, i) - 1
        BY <2>2, <2>4, <3>2 DEF ClientPiece
      <4>3. CASE U32(size) = size
        BY <4>1, <4>2, <4>3
      <4>4. CASE n = 1
        <5>1. i = 0 /\ size * i = 0 /\ U32(size) * i = 0
          BY <4>4, <2>3, WordAssumption DEF U32
        <5>2. PieceBytes(n, size, total, i) = total /\ PieceBytes(n, U32(size), total, i) = total
          BY <5>1, <4>4, <2>2, <2>3, WordAssumption DEF PieceBytes, U32
        <5> QED BY <4>1, <4>2, <5>1, <5>2
      <4> QED BY <3>2, <4>3, <4>4
    <3> QED BY <2>4, <3>2, <3>3
  <2>8. ASSUME n < Word, size < Word PROVE pc = "made" <=> Hashed
    <3>1. U32(n) = n /\ U32(size) = size
      BY <2>3, <2>8, WordAssumption DEF U32
    <3> QED BY <3>1, <2>1, <2>3, <2>5, <2>6
  <2> QED BY <2>7, <2>8
<1> QED BY <1>1, TorrentParseInv, PTL

-----------------------------------------------------------------------------
(* The trackers of the announce-list, one after the other.                 *)

TrackerAt(x, u, tiers) == x.tier_ = u[1] - 1 /\ x.url_utf8_ = tiers[u[1]].items[u[2]].text
UpToIn(U, u) == {v \in U : UpTo(v, u)}

\* t has the trackers at the places of U, in their order.
TrackersOf(t, U, tiers) ==
  /\ IsFiniteSet(U) /\ Len(t) = Cardinality(U)
  /\ \A n \in 1 .. Len(t) : \E u \in U : TrackerAt(t[n], u, tiers) /\ n = Cardinality(UpToIn(U, u))

Before(U, V) == \A u \in U, v \in V : UpTo(u, v) /\ ~UpTo(v, u)

LEMMA NoTrackers ==
  ASSUME NEW tiers
  PROVE  TrackersOf(<<>>, {}, tiers)
<1>1. IsFiniteSet({}) /\ Cardinality({}) = 0 /\ Len(<<>>) = 0 /\ 1 .. 0 = {}
  BY FS_EmptySet
<1> QED BY <1>1, Zenon DEF TrackersOf

LEMMA OneTracker ==
  ASSUME NEW x, NEW u, NEW tiers, TrackerAt(x, u, tiers), UpTo(u, u)
  PROVE  TrackersOf(<<x>>, {u}, tiers)
<1>1. IsFiniteSet({u}) /\ Cardinality({u}) = 1
  BY FS_Singleton, Zenon
<1>2. UpToIn({u}, u) = {u}
  BY DEF UpToIn
<1>3. Len(<<x>>) = 1 /\ <<x>>[1] = x
  OBVIOUS
<1>4. ASSUME NEW n \in 1 .. Len(<<x>>)
      PROVE  \E v \in {u} : TrackerAt(<<x>>[n], v, tiers) /\ n = Cardinality(UpToIn({u}, v))
  <2>1. n = 1
    BY <1>3
  <2>2. TrackerAt(<<x>>[n], u, tiers) /\ n = Cardinality(UpToIn({u}, u))
    BY <1>1, <1>2, <1>3, <2>1, Zenon
  <2> QED BY <2>2
<1> QED BY <1>1, <1>3, <1>4, Zenon DEF TrackersOf

LEMMA TrackersJoin ==
  ASSUME NEW s \in Seq(Trackers), NEW t \in Seq(Trackers), NEW U, NEW V, NEW tiers,
         TrackersOf(s, U, tiers), TrackersOf(t, V, tiers), Before(U, V)
  PROVE  TrackersOf(s \o t, U \union V, tiers)
<1> DEFINE W == U \union V
           r == s \o t
<1>1. /\ Len(s) \in Nat /\ Len(t) \in Nat /\ Len(r) = Len(s) + Len(t)
      /\ \A i \in 1 .. Len(s) + Len(t) : r[i] = IF i <= Len(s) THEN s[i] ELSE t[i - Len(s)]
  OBVIOUS
<1>2. /\ IsFiniteSet(U) /\ Len(s) = Cardinality(U) /\ IsFiniteSet(V) /\ Len(t) = Cardinality(V)
  BY DEF TrackersOf
<1>3. U \intersect V = {}
  BY DEF Before
<1>4. IsFiniteSet(W) /\ Cardinality(W) = Cardinality(U) + Cardinality(V)
  <2>1. Cardinality(U \intersect V) = 0
    BY <1>3, FS_EmptySet, Zenon
  <2>2. /\ IsFiniteSet(W)
        /\ Cardinality(W) = Cardinality(U) + Cardinality(V) - Cardinality(U \intersect V)
    BY <1>2, FS_Union, Zenon
  <2> QED BY <1>1, <1>2, <2>1, <2>2
<1>5. ASSUME NEW n \in 1 .. Len(s)
      PROVE  \E u \in W : TrackerAt(r[n], u, tiers) /\ n = Cardinality(UpToIn(W, u))
  <2>1. PICK u \in U : TrackerAt(s[n], u, tiers) /\ n = Cardinality(UpToIn(U, u))
    BY DEF TrackersOf
  <2>2. UpToIn(W, u) = UpToIn(U, u)
    BY DEF UpToIn, Before
  <2>3. r[n] = s[n]
    <3>1. n \in 1 .. Len(s) + Len(t) /\ n <= Len(s)
      BY <1>1
    <3> HIDE DEF r
    <3> QED BY <3>1, <1>1
  <2> HIDE DEF r
  <2> QED BY <2>1, <2>2, <2>3, Zenon
<1>6. ASSUME NEW n \in 1 .. Len(s) + Len(t), ~(n <= Len(s))
      PROVE  \E u \in W : TrackerAt(r[n], u, tiers) /\ n = Cardinality(UpToIn(W, u))
  <2> DEFINE m == n - Len(s)
  <2>0. m \in 1 .. Len(t) /\ n = Len(s) + m
    BY <1>1, <1>6
  <2>3. r[n] = t[m]
    <3> HIDE DEF r
    <3> QED BY <1>1, <1>6
  <2> HIDE DEF m, r
  <2>1. PICK u \in V : TrackerAt(t[m], u, tiers) /\ m = Cardinality(UpToIn(V, u))
    BY <2>0 DEF TrackersOf
  <2>2. UpToIn(W, u) = U \union UpToIn(V, u)
    BY DEF UpToIn, Before
  <2>4. U \intersect UpToIn(V, u) = {}
    BY <1>3 DEF UpToIn
  <2>5. IsFiniteSet(UpToIn(V, u))
    <3>1. UpToIn(V, u) \in SUBSET V
      BY DEF UpToIn
    <3> QED BY <3>1, <1>2, FS_Subset
  <2>6. Cardinality(U \union UpToIn(V, u)) = n
    <3>1. Cardinality(U \intersect UpToIn(V, u)) = 0
      BY <2>4, FS_EmptySet, Zenon
    <3>2. Cardinality(U \union UpToIn(V, u))
            = Cardinality(U) + Cardinality(UpToIn(V, u)) - Cardinality(U \intersect UpToIn(V, u))
      BY <1>2, <2>5, FS_Union, Zenon
    <3>3. m \in Int
      BY <2>0
    <3> QED BY <1>1, <1>2, <2>0, <2>1, <3>1, <3>2, <3>3
  <2> QED BY <2>1, <2>2, <2>3, <2>6, Zenon
<1>7. ASSUME NEW n \in 1 .. Len(r)
      PROVE  \E u \in W : TrackerAt(r[n], u, tiers) /\ n = Cardinality(UpToIn(W, u))
  <2>1. n \in 1 .. Len(s) \/ (n \in 1 .. Len(s) + Len(t) /\ ~(n <= Len(s)))
    BY <1>1
  <2> HIDE DEF r, W
  <2> QED BY <2>1, <1>5, <1>6
<1>8. Len(r) = Cardinality(W)
  BY <1>1, <1>2, <1>4
<1> HIDE DEF r, W
<1>9. TrackersOf(r, W, tiers)
  BY <1>4, <1>7, <1>8, Zenon DEF TrackersOf
<1> QED BY <1>9 DEF r, W

\* What the places of each part are in order, those of all parts are.
LEMMA TrackersFlatten ==
  ASSUME NEW s \in Seq(Seq(Trackers)), NEW P, NEW tiers,
         \A k \in 1 .. Len(s) : TrackersOf(s[k], P[k], tiers),
         \A k \in 1 .. Len(s) : \A j \in 1 .. k - 1 : Before(P[j], P[k])
  PROVE  TrackersOf(FlattenSeq(s), UNION {P[k] : k \in 1 .. Len(s)}, tiers)
<1> DEFINE f == Flattening(s)
           U(k) == UNION {P[j] : j \in 1 .. k}
           Bad == {k \in 1 .. Len(s) : ~TrackersOf(f[k], U(k), tiers)}
<1>0. Len(s) \in Nat /\ \A k \in 1 .. Len(s) : s[k] \in Seq(Trackers)
  BY SeqDomain
<1>1. CASE s = <<>>
  <2>1. UNION {P[k] : k \in 1 .. Len(s)} = {}
    BY <1>1
  <2> QED BY <1>1, <2>1, FlattenEmpty, NoTrackers, Zenon
<1>2. CASE s # <<>>
  <2>1. /\ Len(s) \in Nat \ {0} /\ FlattenSeq(s) = f[Len(s)] /\ f[1] = s[1]
        /\ \A i \in 2 .. Len(s) : f[i] = f[i - 1] \o s[i]
        /\ \A i \in 1 .. Len(s) : f[i] \in Seq(Trackers)
    BY <1>2, FlatteningStep
  <2> HIDE DEF f
  <2>2. TrackersOf(f[1], U(1), tiers)
    <3>1. 1 \in 1 .. Len(s)
      BY <2>1
    <3>2. U(1) = P[1]
      <4>1. 1 .. 1 = {1}
        OBVIOUS
      <4> QED BY <4>1
    <3>3. TrackersOf(s[1], P[1], tiers)
      BY <3>1
    <3> HIDE DEF U
    <3> QED BY <3>2, <3>3, <2>1, Zenon
  <2>3. ASSUME NEW k \in 2 .. Len(s), TrackersOf(f[k - 1], U(k - 1), tiers)
        PROVE  TrackersOf(f[k], U(k), tiers)
    <3>1. k \in 1 .. Len(s) /\ k - 1 \in 1 .. Len(s) /\ k \in Nat
      BY <1>0
    <3>2. U(k) = U(k - 1) \union P[k]
      <4>1. \A j : j \in 1 .. k <=> (j \in 1 .. k - 1 \/ j = k)
        BY <3>1
      <4> QED BY <4>1
    <3>3. Before(U(k - 1), P[k])
      <4>1. \A j \in 1 .. k - 1 : Before(P[j], P[k])
        BY <3>1
      <4> QED BY <4>1 DEF Before
    <3>4. TrackersOf(s[k], P[k], tiers) /\ f[k] = f[k - 1] \o s[k]
      BY <2>1, <3>1
    <3>5. f[k - 1] \in Seq(Trackers) /\ s[k] \in Seq(Trackers)
      BY <1>0, <2>1, <3>1
    <3> HIDE DEF U
    <3>6. TrackersOf(f[k - 1] \o s[k], U(k - 1) \union P[k], tiers)
      BY <2>3, <3>3, <3>4, <3>5, TrackersJoin
    <3> QED BY <3>2, <3>4, <3>6, Zenon
  <2>4. Bad = {}
    <3> SUFFICES ASSUME Bad # {} PROVE FALSE
      OBVIOUS
    <3>1. Bad \in SUBSET Nat /\ Bad \in SUBSET (1 .. Len(s))
      OBVIOUS
    <3>2. PICK k \in Bad : \A j \in Bad : k <= j
      <4> HIDE DEF Bad
      <4> QED BY <3>1, LeastNumber
    <3>3. k \in 1 .. Len(s) /\ ~TrackersOf(f[k], U(k), tiers)
      OBVIOUS
    <3> HIDE DEF U
    <3>4. k # 1
      BY <2>2, <3>3
    <3>5. k \in 2 .. Len(s) /\ k - 1 \in 1 .. Len(s) /\ ~(k <= k - 1)
      BY <3>3, <3>4, <1>0
    <3>6. k - 1 \notin Bad
      BY <3>2, <3>5
    <3> QED BY <2>3, <3>3, <3>5, <3>6
  <2>5. TrackersOf(f[Len(s)], U(Len(s)), tiers)
    <3>1. Len(s) \in 1 .. Len(s)
      BY <2>1
    <3> HIDE DEF U
    <3> QED BY <2>4, <3>1
  <2> QED BY <2>1, <2>5, Zenon
<1> QED BY <1>1, <1>2

TierPlaces(tiers, i) ==
  {<<i, k>> : k \in {k \in DOMAIN tiers[i].items :
                       tiers[i].items[k].kind = "String" /\ tiers[i].items[k].n > 0}}

LEMMA TierTrackers ==
  ASSUME NEW tiers \in Seq(Values), NEW i \in 1 .. Len(tiers), tiers[i].kind = "List"
  PROVE  TrackersOf(Tier(tiers[i].items, i - 1), TierPlaces(tiers, i), tiers)
<1> DEFINE urls == tiers[i].items
           x(k) == [url_utf8_ |-> urls[k].text, tier_ |-> i - 1]
           One(k) == IF IsNonEmptyString(urls[k]) THEN <<x(k)>> ELSE <<>>
           s == [k \in DOMAIN urls |-> One(k)]
           Place(k) == IF IsNonEmptyString(urls[k]) THEN {<<i, k>>} ELSE {}
           P == [k \in DOMAIN urls |-> Place(k)]
           Sequences == Seq(Trackers)
<1>1. i \in Nat /\ i - 1 \in Nat /\ urls \in Seq(Values)
  <2>1. Len(tiers) \in Nat /\ tiers[i] \in Values
    BY SeqDomain
  <2>2. tiers[i].items \in Seq(Values)
    BY <2>1, ValueIs, Zenon
  <2> HIDE DEF urls
  <2>3. i \in Nat /\ i - 1 \in Nat
    BY <2>1
  <2> QED BY <2>2, <2>3 DEF urls
<1>2. Len(urls) \in Nat /\ DOMAIN urls = 1 .. Len(urls) /\ \A k \in 1 .. Len(urls) : urls[k] \in Values
  BY <1>1, SeqDomain, Zenon
<1> HIDE DEF urls
<1>3. ASSUME NEW k \in 1 .. Len(urls) PROVE One(k) \in Sequences
  <2>1. urls[k].text \in STRING
    BY <1>2, ValueIs
  <2>2. x(k) \in Trackers
    BY <1>1, <2>1 DEF Trackers
  <2> HIDE DEF x
  <2>3. <<x(k)>> \in Sequences /\ <<>> \in Sequences
    BY <2>2
  <2> QED BY <2>3
<1>4. s \in Seq(Sequences) /\ Len(s) = Len(urls)
  <2>1. s \in [1 .. Len(urls) -> Sequences]
    <3> HIDE DEF One, Sequences
    <3> QED BY <1>2, <1>3
  <2> HIDE DEF s, Sequences
  <2> QED BY <1>2, <2>1, FunctionIsSeq
<1>5. ASSUME NEW k \in 1 .. Len(urls) PROVE TrackersOf(s[k], P[k], tiers)
  <2>1. s[k] = One(k) /\ P[k] = Place(k)
    BY <1>2
  <2> HIDE DEF s, P
  <2>2. CASE IsNonEmptyString(urls[k])
    <3>1. One(k) = <<x(k)>> /\ Place(k) = {<<i, k>>}
      BY <2>2
    <3>2. TrackerAt(x(k), <<i, k>>, tiers)
      BY DEF TrackerAt, urls
    <3>3. UpTo(<<i, k>>, <<i, k>>)
      BY <1>1 DEF UpTo
    <3> HIDE DEF x
    <3>4. TrackersOf(<<x(k)>>, {<<i, k>>}, tiers)
      BY <3>2, <3>3, OneTracker
    <3> QED BY <2>1, <3>1, <3>4, Zenon
  <2>3. CASE ~IsNonEmptyString(urls[k])
    <3>1. One(k) = <<>> /\ Place(k) = {}
      BY <2>3
    <3> QED BY <2>1, <3>1, NoTrackers, Zenon
  <2> QED BY <2>2, <2>3
<1>6. ASSUME NEW k \in 1 .. Len(urls), NEW j \in 1 .. k - 1 PROVE Before(P[j], P[k])
  <2>1. j \in 1 .. Len(urls) /\ j \in Nat /\ k \in Nat /\ j < k
    BY <1>2
  <2>2. P[j] \subseteq {<<i, j>>} /\ P[k] \subseteq {<<i, k>>}
    BY <1>2, <2>1
  <2>3. UpTo(<<i, j>>, <<i, k>>) /\ ~UpTo(<<i, k>>, <<i, j>>)
    BY <1>1, <2>1 DEF UpTo
  <2> HIDE DEF P
  <2> QED BY <2>2, <2>3 DEF Before
<1>7. UNION {P[k] : k \in 1 .. Len(s)} = TierPlaces(tiers, i)
  <2>1. \A k \in 1 .. Len(urls) : P[k] = Place(k)
    BY <1>2
  <2> HIDE DEF P
  <2> DEFINE Urls == {k \in 1 .. Len(urls) : IsNonEmptyString(urls[k])}
  <2>2. TierPlaces(tiers, i) = {<<i, k>> : k \in Urls}
    <3>1. Urls = {k \in DOMAIN urls : urls[k].kind = "String" /\ urls[k].n > 0}
      BY <1>2, Zenon DEF IsNonEmptyString, IsString
    <3> QED BY <3>1, Zenon DEF TierPlaces, urls
  <2>3. \A k \in Urls : P[k] = {<<i, k>>}
    BY <2>1
  <2>4. \A k \in 1 .. Len(urls) : k \notin Urls => P[k] = {}
    BY <2>1
  <2>5. Urls \subseteq 1 .. Len(urls)
    OBVIOUS
  <2> HIDE DEF Urls
  <2>6. ASSUME NEW k \in Urls
        PROVE  k \in 1 .. Len(s) /\ <<i, k>> \in P[k]
    BY <1>4, <2>3, <2>5
  <2>7. ASSUME NEW k \in 1 .. Len(s), NEW u \in P[k]
        PROVE  k \in Urls /\ u = <<i, k>>
    BY <1>4, <2>3, <2>4
  <2>8. \A u : u \in UNION {P[k] : k \in 1 .. Len(s)} <=> \E k \in Urls : u = <<i, k>>
    BY <2>6, <2>7
  <2>9. \A u : u \in TierPlaces(tiers, i) <=> \E k \in Urls : u = <<i, k>>
    BY <2>2, Zenon
  <2> QED BY <2>8, <2>9, Zenon
<1>8. Tier(urls, i - 1) = FlattenSeq(s)
  BY DEF Tier
<1> HIDE DEF s, P
<1>9. TrackersOf(FlattenSeq(s), UNION {P[k] : k \in 1 .. Len(s)}, tiers)
  BY <1>4, <1>5, <1>6, TrackersFlatten
<1> QED BY <1>7, <1>8, <1>9, Zenon DEF urls

LEMMA MultitrackersOf ==
  ASSUME NEW tiers \in Seq(Values)
  PROVE  TrackersOf(Multitrackers(tiers), UrlPlaces(tiers), tiers)
<1> DEFINE One(i) == IF tiers[i].kind = "List" THEN Tier(tiers[i].items, i - 1) ELSE <<>>
           s == [i \in DOMAIN tiers |-> One(i)]
           Place(i) == IF tiers[i].kind = "List" THEN TierPlaces(tiers, i) ELSE {}
           P == [i \in DOMAIN tiers |-> Place(i)]
           Sequences == Seq(Trackers)
<1>1. Len(tiers) \in Nat /\ DOMAIN tiers = 1 .. Len(tiers) /\ \A i \in 1 .. Len(tiers) : tiers[i] \in Values
  BY SeqDomain, Zenon
<1>2. ASSUME NEW i \in 1 .. Len(tiers) PROVE One(i) \in Sequences
  <2>1. tiers[i].kind = "List" => tiers[i].items \in Seq(Values)
    BY <1>1, ValueIs
  <2>2. i - 1 \in Nat
    BY <1>1
  <2>3. tiers[i].kind = "List" => Tier(tiers[i].items, i - 1) \in Sequences
    BY <2>1, <2>2, TierType
  <2>4. <<>> \in Sequences
    OBVIOUS
  <2> HIDE DEF Sequences
  <2> QED BY <2>3, <2>4
<1>3. s \in Seq(Sequences) /\ Len(s) = Len(tiers)
  <2>1. s \in [1 .. Len(tiers) -> Sequences]
    <3> HIDE DEF One, Sequences
    <3> QED BY <1>1, <1>2
  <2> HIDE DEF s, Sequences
  <2> QED BY <1>1, <2>1, FunctionIsSeq
<1>4. ASSUME NEW i \in 1 .. Len(tiers) PROVE TrackersOf(s[i], P[i], tiers)
  <2>1. s[i] = One(i) /\ P[i] = Place(i)
    BY <1>1
  <2> HIDE DEF s, P
  <2>2. CASE tiers[i].kind = "List"
    BY <2>1, <2>2, TierTrackers
  <2>3. CASE tiers[i].kind # "List"
    BY <2>1, <2>3, NoTrackers, Zenon
  <2> QED BY <2>2, <2>3
<1>5. ASSUME NEW i \in 1 .. Len(tiers), NEW j \in 1 .. i - 1 PROVE Before(P[j], P[i])
  <2>1. j \in 1 .. Len(tiers) /\ j \in Nat /\ i \in Nat /\ j < i
    BY <1>1
  <2>2. (\A u \in P[j] : u[1] = j) /\ (\A v \in P[i] : v[1] = i)
    BY <1>1, <2>1 DEF TierPlaces
  <2> HIDE DEF P
  <2>3. ASSUME NEW u \in P[j], NEW v \in P[i] PROVE UpTo(u, v) /\ ~UpTo(v, u)
    BY <2>1, <2>2 DEF UpTo
  <2> QED BY <2>3 DEF Before
<1>6. UNION {P[i] : i \in 1 .. Len(s)} = UrlPlaces(tiers)
  <2>1. \A i \in 1 .. Len(tiers) : P[i] = Place(i)
    BY <1>1
  <2>2. UrlPlaces(tiers) = UNION {TierPlaces(tiers, i) : i \in {i \in 1 .. Len(tiers) : tiers[i].kind = "List"}}
    BY <1>1, Zenon DEF UrlPlaces, TierPlaces
  <2> HIDE DEF P
  <2> QED BY <1>3, <2>1, <2>2
<1>7. Multitrackers(tiers) = FlattenSeq(s)
  BY DEF Multitrackers
<1> HIDE DEF s, P
<1>8. TrackersOf(FlattenSeq(s), UNION {P[i] : i \in 1 .. Len(s)}, tiers)
  BY <1>3, <1>4, <1>5, TrackersFlatten
<1> QED BY <1>6, <1>7, <1>8, Zenon

\* Every URL of the announce-list is a tracker, in the order of the list and
\* with the index of its tier, however many elements are no tiers and however
\* many of a tier are no URLs (ParseAnnounceList).
THEOREM TorrentTiersKept == Spec => []TiersKept
<1>1. ParseInv => TiersKept
  <2> SUFFICES ASSUME ParseInv, Parsed, NEW list \in FirstOf(content, "announce-list")
               PROVE  LET urls == UrlPlaces(list.items)
                          trackers == metainfo.multi_trackers_
                      IN  /\ Len(trackers) = Cardinality(urls)
                          /\ \A n \in DOMAIN trackers : \E u \in urls :
                               /\ trackers[n].tier_ = u[1] - 1
                               /\ trackers[n].url_utf8_ = list.items[u[1]].items[u[2]].text
                               /\ n = Cardinality({v \in urls : UpTo(v, u)})
    BY Zenon DEF TiersKept
  <2>1. /\ KeysRead(content, parsed, metainfo) /\ pc # "failed" /\ at > Len(content)
        /\ content \in Seq(Entries(Values))
    BY ReadDone, ContentIs DEF ReadInv, ParseInv
  <2>2. "announce-list" \in parsed
    BY <2>1, KeysThere
  <2>3. list.kind = "List" /\ metainfo.multi_trackers_ = Multitrackers(list.items)
    <3>1. PICK v \in FirstOf(content, "announce-list") :
            v.kind = "List" /\ metainfo.multi_trackers_ = Multitrackers(v.items)
      BY <2>1, <2>2, Zenon DEF KeysRead
    <3>2. v = list
      BY FirstOne
    <3> QED BY <3>1, <3>2
  <2>4. list.items \in Seq(Values)
    <3>1. list \in Values
      BY <2>1, FirstIsValue
    <3> QED BY <2>3, <3>1, ValueIs
  <2> DEFINE trackers == metainfo.multi_trackers_
             urls == UrlPlaces(list.items)
  <2>5. TrackersOf(trackers, urls, list.items) /\ DOMAIN trackers = 1 .. Len(trackers)
    <3>1. TrackersOf(Multitrackers(list.items), urls, list.items)
      BY <2>4, MultitrackersOf
    <3>2. DOMAIN Multitrackers(list.items) = 1 .. Len(Multitrackers(list.items))
      BY <2>4, MultitrackersType, SeqDomain
    <3> QED BY <2>3, <3>1, <3>2, Zenon
  <2> HIDE DEF trackers, urls
  <2>6. /\ Len(trackers) = Cardinality(urls)
        /\ \A n \in DOMAIN trackers : \E u \in urls :
             /\ trackers[n].tier_ = u[1] - 1
             /\ trackers[n].url_utf8_ = list.items[u[1]].items[u[2]].text
             /\ n = Cardinality({v \in urls : UpTo(v, u)})
    BY <2>5, Zenon DEF TrackersOf, TrackerAt, UpToIn
  <2> QED BY <2>6 DEF trackers, urls
<1> QED BY <1>1, TorrentParseInv, PTL
=============================================================================
