---------------------------- MODULE JsonDecoder ----------------------------
(***************************************************************************)
(* Values from JSON (dustin/gojson/decode.go): a text is scanned once to   *)
(* see that it is valid and a second time to build the value, into an      *)
(* empty interface or into the fields of a struct; what no field asks for  *)
(* is skipped, and the scanner is brought to the place behind it.          *)
(*                                                                         *)
(* Only operators.  A value is [lit] (a word or number as it is written),  *)
(* [str], [items] or [fields].                                             *)
(***************************************************************************)
EXTENDS JsonScanner

-----------------------------------------------------------------------------
(* strings *)

\* The printable characters of ASCII, in order, from the space on (but the
\* backquote).
Ascii ==
    <<" ", "!", "\"", "#", "$", "%", "&", "'", "(", ")", "*", "+", ",", "-", ".", "/",
      "0", "1", "2", "3", "4", "5", "6", "7", "8", "9", ":", ";", "<", "=", ">", "?",
      "@", "A", "B", "C", "D", "E", "F", "G", "H", "I", "J", "K", "L", "M", "N", "O",
      "P", "Q", "R", "S", "T", "U", "V", "W", "X", "Y", "Z", "[", "\\", "]", "^", "_",
      "other", "a", "b", "c", "d", "e", "f", "g", "h", "i", "j", "k", "l", "m", "n", "o",
      "p", "q", "r", "s", "t", "u", "v", "w", "x", "y", "z", "{", "|", "}", "~">>
IndexIn(order, c) == SelectInSeq(order, LAMBDA d : d = c)
Character(code) ==
    IF code \in 32 .. 126 THEN Ascii[code - 31]
    ELSE IF code = 9 THEN "\t" ELSE IF code = 10 THEN "\n" ELSE IF code = 13 THEN "\r" ELSE "other"

HexInOrder ==
    <<"0", "1", "2", "3", "4", "5", "6", "7", "8", "9", "a", "b", "c", "d", "e", "f",
      "A", "B", "C", "D", "E", "F">>
HexValue(c) == LET i == IndexIn(HexInOrder, c) IN IF i > 16 THEN i - 7 ELSE i - 1

\* getu4: the code after "\u", or -1.
Getu4(s) ==
    IF Len(s) >= 6 /\ s[1] = "\\" /\ s[2] = "u" /\ ToSet(SubSeq(s, 3, 6)) \subseteq Hex
    THEN FoldLeft(LAMBDA n, c : 16 * n + HexValue(c), 0, SubSeq(s, 3, 6))
    ELSE -1

HighSurrogate == 55296 .. 56319
LowSurrogate == 56320 .. 57343

\* How many characters an escape takes and what it stands for: a pair of
\* surrogates is one character, and one that is alone is replaced.
Escape(s) ==
    IF s[2] = "u"
    THEN [takes |-> IF Getu4(s) \in HighSurrogate /\ Getu4(SubSeq(s, 7, Len(s))) \in LowSurrogate
                    THEN 12 ELSE 6,
          char |-> Character(Getu4(s))]
    ELSE [takes |-> 2,
          char |-> IF s[2] \in {"\"", "\\", "/", "'"} THEN s[2]
                   ELSE [b |-> "other", f |-> "other", n |-> "\n", r |-> "\r", t |-> "\t"][s[2]]]

\* The text between the quotes, for a string that the scanner has taken.
RECURSIVE Unescaped(_)
Unescaped(s) ==
    IF s = << >> THEN << >>
    ELSE IF s[1] # "\\" THEN <<s[1]>> \o Unescaped(Tail(s))
    ELSE <<Escape(s).char>> \o Unescaped(SubSeq(s, Escape(s).takes + 1, Len(s)))

\* UnquoteBytes: space around the quotes goes.
UnquoteBytes(s) ==
    Unescaped(SubSeq(s, 2, SelectLastInSeq(s, LAMBDA c : c \notin Spaces) - 1))

-----------------------------------------------------------------------------
(* decoding *)

\* A decoder: the scanner, the offset, and what an undone character has meant.
Decoder == [scan |-> Scanner, off |-> 0, redo |-> "none"]

Undo(d, op) == [d EXCEPT !.off = @ - 1, !.redo = op]

Met(d, t) == [d |-> [scan |-> t.scan, off |-> d.off + 1, redo |-> "none"], op |-> t.op]
ReadOne(text, d) ==
    IF d.redo # "none" THEN Met(d, [scan |-> d.scan, op |-> d.redo])
    ELSE IF d.off < Len(text) THEN Met(d, Step(d.scan, text[d.off + 1]))
    ELSE Met(d, [scan |-> d.scan, op |-> IF Complete(d.scan) THEN "End" ELSE "Error"])

\* scanWhile: past all characters that mean op, and the next one.
RECURSIVE ScanWhile(_, _, _)
PastOrNot(text, r, op) == IF r.op = op THEN ScanWhile(text, r.d, op) ELSE r
ScanWhile(text, d, op) == PastOrNot(text, ReadOne(text, d), op)

\* A value and the decoder behind it, or none.
Is(value, d) == [value |-> value, d |-> d]
NoValue == [none |-> TRUE]
PhaseError(d) == Is(NoValue, d)

\* literalInterface; start is the offset of the first character.
LiteralEnd(text, start, r) ==
    LET item == SubSeq(text, start + 1, r.d.off - 1)
    IN  Is(IF item[1] = "\"" THEN [str |-> UnquoteBytes(item)] ELSE [lit |-> item],
           Undo(r.d, r.op))
LiteralInterface(text, d) == LiteralEnd(text, d.off - 1, ScanWhile(text, d, "Continue"))

\* The key of a member: its name and what has been met behind it.
KeyEnd(text, start, r) ==
    [name |-> UnquoteBytes(SubSeq(text, start + 1, r.d.off - 1)),
     colon |-> IF r.op = "SkipSpace" THEN ScanWhile(text, r.d, "SkipSpace") ELSE r]
KeyAt(text, d) == KeyEnd(text, d.off - 1, ScanWhile(text, d, "Continue"))

\* The field of a struct for a name: the one called so, or else the first whose
\* name differs only in its case; an interface takes every name.
EveryName == << >>
Unknown == <<"unknown">>
Lower(c) == LET i == IndexIn(Ascii, c) IN IF i \in 34 .. 59 THEN Ascii[i + 32] ELSE c
Fold(name) == [i \in DOMAIN name |-> Lower(name[i])]
FieldFor(want, name) ==
    LET alike == SelectSeq(want, LAMBDA f : Fold(f) = Fold(name))
    IN  IF want = EveryName \/ name \in ToSet(alike) THEN name
        ELSE IF alike = << >> THEN Unknown ELSE alike[1]

\* Past a value nobody asks for: the scanner is told of an empty string instead,
\* and the key of a member that only begins would be finished, too.
Told(s, chars) == FoldLeft(LAMBDA t, c : Step(t, c).scan, s, chars)
Finished(s) ==
    IF s.parse # << >> /\ Last(s.parse) = "ObjectKey" THEN Told(s, <<":", "\"", "\"", "}">>) ELSE s
Past(d, value) ==
    IF value = Error THEN PhaseError(d)
    ELSE Is([lit |-> value],
            [off |-> d.off + Len(value), redo |-> "none",
             scan |-> Finished(Told(IF d.redo = "none" THEN d.scan
                                    ELSE [d.scan EXCEPT !.step = "BeginValue"], <<"\"", "\"">>))])
Skip(text, d) == Past(d, NextValue(SubSeq(text, d.off + 1, Len(text))))

\* r is what has been met at the beginning of a value, at that of a part or behind
\* one; value is what there is of an array or object so far.
RECURSIVE PartsFrom(_, _, _, _, _)
ValueOf(text, r, want) ==
    IF r.op = "BeginLiteral" THEN LiteralInterface(text, r.d)
    ELSE IF r.op \in {"BeginArray", "BeginObject"}
    THEN PartsFrom(text, ScanWhile(text, r.d, "SkipSpace"),
                   IF r.op = "BeginArray" THEN [items |-> << >>] ELSE [fields |-> << >>], FALSE, want)
    ELSE PhaseError(r.d)
ValueInterface(text, d) == ValueOf(text, ScanWhile(text, d, "SkipSpace"), EveryName)

WithElement(value, e) ==
    IF e.value = NoValue THEN e ELSE Is([items |-> Append(value.items, e.value)], e.d)
WithMember(value, field, e) ==
    IF e.value = NoValue THEN e
    ELSE Is(IF field = Unknown THEN value ELSE [fields |-> (field :> e.value) @@ value.fields], e.d)
Member(text, value, field, d) ==
    WithMember(value, field, IF field = Unknown THEN Skip(text, d) ELSE ValueInterface(text, d))
MemberOf(text, value, key, want) ==
    IF key.colon.op # "ObjectKey" THEN PhaseError(key.colon.d)
    ELSE Member(text, value, FieldFor(want, key.name), key.colon.d)

\* One part more; behind a part there is a comma.
OneMore(text, r, value, after, want) ==
    IF after THEN IF r.op \in {"ArrayValue", "ObjectValue"} THEN Is(value, r.d) ELSE PhaseError(r.d)
    ELSE IF "items" \in DOMAIN value
    THEN WithElement(value, ValueInterface(text, Undo(r.d, r.op)))
    ELSE IF r.op = "BeginLiteral" THEN MemberOf(text, value, KeyAt(text, r.d), want)
    ELSE PhaseError(r.d)
AndOn(text, e, after, want) ==
    IF e.value = NoValue THEN e
    ELSE PartsFrom(text, ScanWhile(text, e.d, "SkipSpace"), e.value, after, want)
PartsFrom(text, r, value, after, want) ==
    IF r.op \in {"EndArray", "EndObject"} THEN Is(value, r.d)
    ELSE AndOn(text, OneMore(text, r, value, after, want), ~after, want)

\* Unmarshal into an empty interface.
Unmarshal(text) ==
    IF Validate(text) THEN ValueInterface(text, Decoder).value ELSE NoValue

\* Unmarshal into a struct whose fields are empty interfaces: null leaves it as it
\* is, and every other value but an object is an error.
Null == [lit |-> <<"n", "u", "l", "l">>]
Into(value) ==
    IF value = Null THEN [fields |-> << >>] ELSE IF "fields" \in DOMAIN value THEN value ELSE NoValue
UnmarshalInto(text, names) ==
    IF Validate(text)
    THEN Into(ValueOf(text, ScanWhile(text, Decoder, "SkipSpace"), names).value) ELSE NoValue
=============================================================================
