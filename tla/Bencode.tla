------------------------------- MODULE Bencode -------------------------------
(***************************************************************************)
(* The parser of bencoded data, be_element_ref_parse.cpp.  The calls of    *)
(* parse_list and parse_dictionary that are not over are on a stack; an    *)
(* action is one pass of their loops, or a whole integer or string.        *)
(*                                                                         *)
(* The input is a sequence of characters; positions count the characters   *)
(* before them, as current_ - start_ does.  What a StringRef or an         *)
(* IntegerRef refers to is the range [from, to) of the input.              *)
(***************************************************************************)
EXTENDS Integers, SequencesExt

CONSTANTS
  Inputs,     \* sequences over Characters
  Entries,    \* the functions called, of those below
  MaxLength   \* of std::uint64_t

ASSUME BencodeAssumption ==
  /\ Inputs \subseteq Seq(STRING)
  /\ Entries \subseteq {"Parse", "ParseString", "ParseInteger", "ParseList", "ParseDictionary"}
  /\ MaxLength \in Nat

DigitChars == <<"0", "1", "2", "3", "4", "5", "6", "7", "8", "9">>
Digits == ToSet(DigitChars)

VARIABLES
  entry, input,
  current,   \* current_
  stack,     \* the calls under way: kind, start, the items and the key so far
  pc,        \* "start", "element" and "done"
  elements,  \* the result
  error      \* the ParseErrorc, "none" so far

vars == <<entry, input, current, stack, pc, elements, error>>

Init ==
  /\ entry \in Entries /\ input \in Inputs
  /\ current = 0 /\ stack = <<>> /\ pc = "start"
  /\ elements = <<>> /\ error = "none"

-----------------------------------------------------------------------------
(* The input.                                                              *)

has_data == current < Len(input)

\* *current_, "" at the end.
Char == IF has_data THEN input[current + 1] ELSE ""

\* The first position from p on that holds no digit.
DigitsEnd(p) ==
  CHOOSE q \in p .. Len(input) :
    /\ \A k \in p + 1 .. q : input[k] \in Digits
    /\ q < Len(input) => input[q + 1] \notin Digits

DigitValue == [d \in Digits |-> CHOOSE n \in 0 .. 9 : DigitChars[n + 1] = d]

\* The value of digits.
Number(digits) ==
  LET value[k \in 0 .. Len(digits)] ==
        IF k = 0 THEN 0 ELSE 10 * value[k - 1] + DigitValue[digits[k]]
  IN value[Len(digits)]

Element(id, start, end, from, to, items) ==
  [id |-> id, start |-> start, end |-> end, from |-> from, to |-> to, items |-> items]

-----------------------------------------------------------------------------
(* Results of the calls.                                                   *)

Fail(ec) ==
  /\ error' = ec
  /\ pc' = "done"
  /\ UNCHANGED <<current, stack, elements>>

\* key.as_string().
IsKey(e) == e.id = "String"

\* Mutant: the key stays after its value.
KeyKept(top, e) == IF top.id = "Dictionary" /\ top.key = <<>> THEN <<e>> ELSE top.key

\* The key that waits for its value, after e was parsed.
KeyAfter(top, e) == IF top.id = "Dictionary" /\ top.key = <<>> THEN <<e>> ELSE <<>>

\* An element that ends at a position is returned to the call on top of calls,
\* or to the function that was called first.
Return(calls, e) ==
  \/ /\ calls = <<>>
     /\ elements' = Append(elements, e)
     /\ stack' = calls
     /\ pc' = IF entry = "Parse" /\ e.end < Len(input) THEN "element" ELSE "done"
     /\ current' = e.end
     /\ UNCHANGED error
  \/ /\ calls # <<>>
     /\ LET top == Last(calls)
            expects_key == top.id = "Dictionary" /\ top.key = <<>>
        IN IF expects_key /\ ~IsKey(e)
           THEN Fail("NonStringAsDictionaryKey")
           ELSE /\ stack' = Append(Front(calls),
                     [top EXCEPT !.items = IF expects_key THEN @ ELSE @ \o top.key \o <<e>>,
                                 !.key = KeyAfter(top, e)])
                /\ pc' = "element"
                /\ current' = e.end
                /\ UNCHANGED <<elements, error>>

-----------------------------------------------------------------------------
(* parse_integer and parse_string.                                         *)

\* Where the digits of an integer begin, after a sign.
AfterSign(begin) ==
  IF begin < Len(input) /\ input[begin + 1] = "-" THEN begin + 1 ELSE begin

\* The characters of [begin, last), a sign and digits, are an integer: there
\* are digits, and no zero in front nor after a sign.
IsInteger(begin, last) ==
  LET first == AfterSign(begin)
  IN /\ last > first
     /\ input[first + 1] = "0" => first = begin /\ last = begin + 1

IntegerEnd == DigitsEnd(AfterSign(current + 1))

parse_integer ==
  IF Char # "i" THEN Fail("MissingIntegerStart")
  ELSE IF IntegerEnd < Len(input) /\ input[IntegerEnd + 1] = "e"
          /\ IsInteger(current + 1, IntegerEnd)
  THEN Return(stack, Element("Integer", current, IntegerEnd + 1, current + 1, IntegerEnd, <<>>))
  ELSE Fail("BadInteger")

\* Mutant: a string may not end where the input ends.
FitsBeforeEnd(begin, length) == begin + length < Len(input)

\* consume_n(length), at the position begin: the condition does not look at
\* the position.
Fits(begin, length) == length < Len(input)

parse_string ==
  LET last == DigitsEnd(current)
      length == Number(SubSeq(input, current + 1, last))
  IN IF last = current \/ (last < Len(input) /\ input[last + 1] # ":")
     THEN Fail("UnexpectedStringLength")
     ELSE IF last = Len(input) THEN Fail("MissingStringStart")
     ELSE IF length > MaxLength THEN Fail("BadStringLength")
     ELSE IF ~Fits(last + 1, length) THEN Fail("StringOutOfBound")
     ELSE Return(stack, Element("String", current, last + 1 + length,
                                last + 1, last + 1 + length, <<>>))

-----------------------------------------------------------------------------
(* parse_list, parse_dictionary, parse_element.                            *)

Call(id) == [id |-> id, start |-> current, items |-> <<>>, key |-> <<>>]

\* consume(k_list_start) or consume(k_dictionary_start), up to the loop.
Open(id, ch, missing) ==
  IF Char # ch THEN Fail(missing)
  ELSE /\ stack' = Append(stack, Call(id))
       /\ current' = current + 1
       /\ pc' = "element"
       /\ UNCHANGED <<elements, error>>

parse_list == Open("List", "l", "MissingListStart")
parse_dictionary == Open("Dictionary", "d", "MissingDictionaryStart")

\* The call is at the head of its loop, not between a key and its value.
AtLoopHead == stack # <<>> /\ Last(stack).key = <<>>

\* Mutant: an e ends a dictionary between a key and its value too.
LoopEndsAnywhere == stack # <<>> /\ (~has_data \/ Char = "e")

LoopEnds == AtLoopHead /\ (~has_data \/ Char = "e")

\* Mutant: the end of the input ends a list or a dictionary.
CloseCallAtEnd ==
  /\ pc = "element" /\ LoopEnds
  /\ LET top == Last(stack)
     IN Return(Front(stack),
               Element(top.id, top.start, current + 1, top.start + 1, current, top.items))
  /\ UNCHANGED <<entry, input>>

\* The loop is over: consume(k_element_end).
CloseCall ==
  /\ pc = "element" /\ LoopEnds
  /\ LET top == Last(stack)
     IN IF ~has_data
        THEN Fail(IF top.id = "List" THEN "MissingListEnd" ELSE "MissingDictionaryEnd")
        ELSE Return(Front(stack),
                    Element(top.id, top.start, current + 1, top.start + 1, current, top.items))
  /\ UNCHANGED <<entry, input>>

parse_element ==
  /\ pc = "element" /\ ~LoopEnds
  /\ CASE ~has_data  -> Fail("UnexpectedEnd")
       [] Char = "i" -> parse_integer
       [] Char = "l" -> parse_list
       [] Char = "d" -> parse_dictionary
       [] OTHER      -> parse_string
  /\ UNCHANGED <<entry, input>>

\* The functions of the interface.
Start ==
  /\ pc = "start"
  /\ CASE entry = "ParseInteger"    -> parse_integer
       [] entry = "ParseString"     -> parse_string
       [] entry = "ParseList"       -> parse_list
       [] entry = "ParseDictionary" -> parse_dictionary
       [] entry = "Parse"           -> /\ pc' = "element"
                                       /\ UNCHANGED <<current, stack, elements, error>>
  /\ UNCHANGED <<entry, input>>

Terminated == pc = "done" /\ UNCHANGED vars

Next == Start \/ parse_element \/ CloseCall \/ Terminated

Spec == Init /\ [][Next]_vars

-----------------------------------------------------------------------------
(* Properties.                                                             *)

Accepted == pc = "done" /\ error = "none"

\* A call under way has its items side by side, from its opening character to
\* the call it has made or to the current position: nothing of the input is
\* skipped or read twice (the loops of parse_list and parse_dictionary).
SideBySide(parts, from, to) ==
  /\ \A n \in DOMAIN parts : parts[n].start = IF n = 1 THEN from ELSE parts[n - 1].end
  /\ to = IF parts = <<>> THEN from ELSE Last(parts).end

EndOf(k) == IF k < Len(stack) THEN stack[k + 1].start ELSE current
ItemsTile ==
  \A k \in DOMAIN stack :
    SideBySide(stack[k].items \o stack[k].key, stack[k].start + 1, EndOf(k))

\* What is accepted lies in the input, so that the views of the result can be
\* read.  The comparison in consume_n alone does not give that: what it lets
\* through is refused later, by the missing end of the list or dictionary it
\* is in, and only a string outside of any, the last element of the result,
\* may still reach over the end.
OverrunOnlyLastString ==
  Accepted =>
    \A k \in DOMAIN elements :
      elements[k].end > Len(input) => k = Len(elements) /\ elements[k].id = "String"

\* The characters of an element spell what it refers to, its items side by
\* side between its ends, and each key of a dictionary is a string.
AllDigits(p, q) == \A k \in p + 1 .. q : input[k] \in Digits
Spelled(e) ==
  CASE e.id = "Integer" ->
         /\ input[e.start + 1] = "i" /\ e.from = e.start + 1
         /\ IsInteger(e.from, e.to) /\ AllDigits(AfterSign(e.from), e.to)
         /\ input[e.to + 1] = "e" /\ e.end = e.to + 1
    [] e.id = "String" ->
         /\ e.start < e.from - 1 /\ AllDigits(e.start, e.from - 1)
         /\ input[e.from] = ":"
         /\ e.to = e.from + Number(SubSeq(input, e.start + 1, e.from - 1)) /\ e.end = e.to
    [] OTHER ->
         /\ input[e.start + 1] = IF e.id = "List" THEN "l" ELSE "d"
         /\ e.from = e.start + 1 /\ SideBySide(e.items, e.from, e.to)
         /\ e.id = "Dictionary" =>
              /\ Len(e.items) % 2 = 0
              /\ \A k \in DOMAIN e.items : k % 2 = 1 => IsKey(e.items[k])
         /\ input[e.to + 1] = "e" /\ e.end = e.to + 1

EntryOf == [Integer |-> "ParseInteger", String |-> "ParseString", List |-> "ParseList",
            Dictionary |-> "ParseDictionary"]

\* The elements n levels below those of the result.
ElementsAt ==
  LET level[n \in 0 .. Len(input)] ==
        IF n = 0 THEN ToSet(elements) ELSE UNION {ToSet(e.items) : e \in level[n - 1]}
  IN level

\* What was consumed spells the result, however the values nest: nothing else
\* is accepted, but zeros in front of the length of a string (the checks of
\* parse_integer, parse_string, parse_list and parse_dictionary).
OnlyValuesParsed ==
  Accepted =>
    /\ \A n \in 0 .. Len(input) : \A e \in ElementsAt[n] : Spelled(e)
    /\ SideBySide(elements, 0, current)

\* The elements of T spell the whole input, root and what is below it.
Spells(T, root) ==
  LET Position == 0 .. Len(input)
  IN /\ root \in T /\ root.start = 0 /\ root.end = Len(input)
     /\ \A e \in T :
          /\ e \in [id : {"Integer", "String", "List", "Dictionary"}, start : Position,
                   end : Position, from : Position, to : Position, items : Seq(T)]
          /\ Spelled(e) /\ e.start < e.end
          /\ e.id \in {"Integer", "String"} => e.items = <<>>
          /\ e.id = "String" => e.to - e.from <= MaxLength

\* An input that is spelled by root is accepted by the function for its kind,
\* and the result is root, whatever characters its strings hold and however
\* deep it nests (parse_element and below).
TreeParsed(T, root) ==
  Spells(T, root) /\ pc = "done" /\ entry \in {"Parse", EntryOf[root.id]} =>
    error = "none" /\ elements = <<root>>
=============================================================================
