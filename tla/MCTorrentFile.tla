---------------------------- MODULE MCTorrentFile ----------------------------
(* Files with every few entries of info, with every order of the keys      *)
(* around one of a few infos, and with infos of many sizes, of the piece   *)
(* and of the files, some too large for 32 bits (4, with Word = 16).       *)
EXTENDS TorrentFile

CONSTANTS MaxInfoKeys, MaxKeys   \* entries of an info and of a file

Url1 == String("url 1", 5)
Url2 == String("url 2", 5)
Empty == String("", 0)

File(length, path) == Dictionary(<<Entry("length", length), Entry("path", List(path))>>)
FileOfSize(n) == File(Integer(n), <<Url1>>)

\* Of a torrent of two pieces of up to 3 bytes, and what is wrong with others.
FilesValues ==
  {List(<<FileOfSize(2), FileOfSize(3)>>), List(<<>>), List(<<FileOfSize(2), File(Integer(1), <<Empty>>)>>),
   List(<<Dictionary(<<Entry("path", List(<<Url1>>)), Entry("length", Integer(5)),
                       Entry("length", Integer(-1))>>)>>)}

InfoEntries ==
  {Entry("name", String("name", 4)), Entry("name", Integer(1)),
   Entry("piece length", Integer(3)), Entry("piece length", Integer(16)),
   Entry("pieces", String("hashes", 40)), Entry("pieces", String("hashes", 30)),
   Entry("length", Integer(5)), Entry("length", Integer(7)), Entry("length", Integer(-1)),
   Entry("private", Integer(1))}
     \union {Entry("files", files) : files \in FilesValues}

Infos ==
  [kind : {"Dictionary"}, text : {""}, n : {0}, items : SeqOf(InfoEntries, MaxInfoKeys)]

GoodInfo(n) ==
  Dictionary(<<Entry("length", Integer(n)), Entry("name", String("name", 4)),
               Entry("piece length", Integer(3)), Entry("pieces", String("hashes", 40))>>)

Lists ==
  {List(<<List(<<Url1, Url2>>), List(<<Url1>>)>>), List(<<Url1, List(<<Empty, Url2>>)>>), List(<<>>), Url1}

FileEntries ==
  {Entry("announce", Url1), Entry("announce", Empty), Entry("created by", Url2),
   Entry("info", GoodInfo(5)), Entry("info", GoodInfo(4)), Entry("info", Dictionary(<<>>)), Entry("info", Url1)}
     \union {Entry("announce-list", list) : list \in Lists}

FilesSizes == {<<3>>, <<5>>, <<16>>, <<19>>, <<25>>, <<40>>, <<250>>, <<2, 3>>, <<0, 45, 0>>, <<200, 50>>, <<200, 60>>}
PieceLengths == {3, 8, 15, 16, 19, 35}
HashesSizes == {20, 40, 100, 320, 340, 360, 640}

SizedInfos ==
  {Dictionary(<<Entry("piece length", Integer(length)), Entry("pieces", String("hashes", hashes)),
                Entry("files", List([k \in DOMAIN sizes |-> FileOfSize(sizes[k])]))>>) :
     length \in PieceLengths, hashes \in HashesSizes, sizes \in FilesSizes}

SomeContents ==
  {<<Entry("announce", Url1), Entry("info", info)>> : info \in Infos \union SizedInfos}
    \union SeqOf(FileEntries, MaxKeys)

\* The values of those entries and their parts.
Parts(values) ==
  UNION {IF v.kind = "Dictionary" THEN {e.value : e \in ToSet(v.items)} ELSE ToSet(v.items) : v \in values}

SomeValues ==
  LET values == {e.value : e \in FileEntries \union InfoEntries} \union SizedInfos
      files == Parts(values) \union Parts(Parts(values))
  IN Infos \union values \union files \union Parts(files) \union Parts(Parts(files))
=============================================================================
