------------------------------ MODULE MCBencode ------------------------------
(* Inputs: the encodings of small values, and what a single change of one  *)
(* character makes of them.                                                *)
EXTENDS Bencode

Value(id, text, items) == [id |-> id, text |-> text, items |-> items]

RECURSIVE Encode(_)
Encode(v) ==
  CASE v.id = "Integer" -> <<"i">> \o v.text \o <<"e">>
    [] v.id = "String" -> <<ToString(Len(v.text)), ":">> \o v.text
    [] OTHER -> <<IF v.id = "List" THEN "l" ELSE "d">>
                  \o FlattenSeq([k \in DOMAIN v.items |-> Encode(v.items[k])]) \o <<"e">>

\* The element a value is when its encoding begins at a position.
RECURSIVE Tree(_, _)
Tree(v, start) ==
  LET end == start + Len(Encode(v))
      StartOf(k) == start + 1 + Len(FlattenSeq([j \in 1 .. k - 1 |-> Encode(v.items[j])]))
  IN CASE v.id = "Integer" -> Element(v.id, start, end, start + 1, end - 1, <<>>)
       [] v.id = "String" -> Element(v.id, start, end, end - Len(v.text), end, <<>>)
       [] OTHER -> Element(v.id, start, end, start + 1, end - 1,
                           [k \in DOMAIN v.items |-> Tree(v.items[k], StartOf(k))])

RECURSIVE WithItems(_)
WithItems(e) == {e} \union UNION {WithItems(e.items[k]) : k \in DOMAIN e.items}

Integer(text) == Value("Integer", text, <<>>)
String(text) == Value("String", text, <<>>)

Strings == {String(<<>>), String(<<"e">>)}
Scalars == Strings \union {Integer(<<"0">>), Integer(<<"-", "1">>)}
Lists(S, n) == {Value("List", <<>>, items) : items \in SeqOf(S, n)}
Dictionaries(S) ==
  {Value("Dictionary", <<>>, <<key, v>>) : key \in Strings, v \in S}
    \union {Value("Dictionary", <<>>, <<>>)}
Nested == Lists(Strings, 1) \union Dictionaries(Strings)

Values ==
  Scalars \union {Integer(<<"1", "0">>), String(<<":", "1">>)}
    \union Lists(Scalars, 2) \union Lists(Nested, 1) \union Dictionaries(Scalars \union Nested)
    \union {Value("Dictionary", <<>>, <<String(<<>>), Integer(<<"0">>), String(<<"e">>), v>>) : v \in Nested}

Alphabet == {"i", "l", "d", "e", ":", "-", "0", "1", "2"}
Encodings == {Encode(v) : v \in Values}
Meaning == [s \in Encodings |-> CHOOSE v \in Values : Encode(v) = s]

Changed(s) ==
  {RemoveAt(s, k) : k \in DOMAIN s} \union {SubSeq(s, 1, n) : n \in 0 .. Len(s)}
    \union {ReplaceAt(s, k, c) : k \in DOMAIN s, c \in Alphabet}
    \union {InsertAt(s, k, c) : k \in DOMAIN s, c \in Alphabet}

SmallInputs == Encodings \union UNION {Changed(s) : s \in Encodings}

-----------------------------------------------------------------------------
(* Reference: what an accepted input says.                                 *)

\* The encoding of a value spells its tree, and is parsed as that.
ValuesParsed ==
  input \in Encodings =>
    LET root == Tree(Meaning[input], 0)
        T == WithItems(root)
    IN Spells(T, root) /\ TreeParsed(T, root)
=============================================================================
