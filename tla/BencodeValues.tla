---------------------------- MODULE BencodeValues ----------------------------
(***************************************************************************)
(* Parsed bencoded data as the parsers of torrent files and of tracker     *)
(* responses see it: an ElementRef is a value of one of four kinds, a      *)
(* dictionary is the sequence of its entries, in the order of the input    *)
(* and with the keys that occur again.                                     *)
(***************************************************************************)
EXTENDS Integers, SequencesExt, FiniteSetsExt

Value(kind, text, n, items) == [kind |-> kind, text |-> text, n |-> n, items |-> items]

\* A string of n characters, and a string of addresses of 6 characters each.
String(text, n) == Value("String", text, n, <<>>)
Addresses(peers, n) == Value("String", "addresses", n, peers)

\* An integer; n is negative for what std::uint64_t does not hold.
Integer(n) == Value("Integer", "", n, <<>>)
List(items) == Value("List", "", 0, items)
Dictionary(entries) == Value("Dictionary", "", 0, entries)
Entry(key, value) == [key |-> key, value |-> value]
Entries(values) == [key : STRING, value : values]

\* What the parser makes: values whose parts are among them.
AreValues(values) ==
  \A v \in values :
    /\ v.text \in STRING /\ v.n \in Int
    /\ v.kind = "String" => v.n \in Nat /\ (v.text = "" <=> v.n = 0)
    /\ v.kind = "List" => v.items \in Seq(values)
    /\ v.kind = "Dictionary" => v.items \in Seq(Entries(values))

\* ElementRefAs<T>(e) and the checks that follow it.
IsString(e) == e.kind = "String"
IsNonEmptyString(e) == IsString(e) /\ e.n > 0
ParsesAsUint64(e) == e.kind = "Integer" /\ e.n >= 0

\* Mutant: parsed_ is not looked at.
FoundAgain(keys, parsed, entry) == entry.key \in keys

\* InvokeParserOptionalKey: the parser of a key is called the first time.
Found(keys, parsed, entry) == entry.key \in keys \ parsed

\* The set of at most one value a key has, the first one.
FirstOf(entries, key) ==
  LET at == {k \in DOMAIN entries : entries[k].key = key}
  IN IF at = {} THEN {} ELSE {entries[Min(at)].value}
=============================================================================
