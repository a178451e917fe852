---------------------------- MODULE JsonPointer ----------------------------
(***************************************************************************)
(* Values at a path in a JSON text (dustin/go-jsonpointer): found on the   *)
(* way through the text (bytes.go), or in the value that is decoded from   *)
(* it (map.go).                                                            *)
(*                                                                         *)
(* Only operators.  A path is a text, a pointer the sequence of its names. *)
(***************************************************************************)
EXTENDS JsonDecoder

Nil == <<"nil">>
Panic == <<"panic">>

-----------------------------------------------------------------------------
(* pointers *)

Replace(name, code, c) ==
    LET begins == {i \in 1 .. Len(name) - 1 : name[i] = "~" /\ name[i + 1] = code}
        Now(i) == IF i \in begins THEN <<c>> ELSE IF i - 1 \in begins THEN << >> ELSE <<name[i]>>
    IN  FlattenSeq([i \in DOMAIN name |-> Now(i)])

\* unescape, in this order.
Unescape(name) == Replace(Replace(name, "0", "~"), "1", "/")

ParsePointer(path) ==
    LET Split(names, c) ==
            IF c = "/" THEN Append(names, << >>)
            ELSE Append(Front(names), Append(Last(names), c))
        names == FoldLeft(Split, << >>, path)
    IN  [i \in DOMAIN names |-> Unescape(names[i])]

EncodePointer(pointer) ==
    LET Escaped(c) == IF c = "/" THEN <<"~", "1">> ELSE IF c = "~" THEN <<"~", "0">> ELSE <<c>>
        Encoded(name) == FlattenSeq([i \in DOMAIN name |-> Escaped(name[i])])
    IN  FlattenSeq([i \in DOMAIN pointer |-> <<"/">> \o Encoded(pointer[i])])

\* strconv.Itoa, and Atoi for the digits that it makes.
DigitsInOrder == SubSeq(HexInOrder, 1, 10)
RECURSIVE Itoa(_)
Itoa(n) ==
    IF n < 10 THEN <<DigitsInOrder[n + 1]>>
    ELSE Append(Itoa(n \div 10), DigitsInOrder[(n % 10) + 1])
Atoi(name) == FoldLeft(LAMBDA n, c : 10 * n + IndexIn(DigitsInOrder, c) - 1, 0, name)

-----------------------------------------------------------------------------
(* on the way through the text *)

\* Mutant: an element that is passed over is not counted.
MovedUncounted(current, op, literal) ==
    IF op = "BeginArray" THEN Append(current, <<"0">>)
    ELSE IF op = "BeginObject" THEN Append(current, << >>)
    ELSE IF op = "ObjectKey" THEN Append(Front(current), UnquoteBytes(literal))
    ELSE IF op \in {"EndArray", "EndObject"} THEN Front(current)
    ELSE current

\* The pointer to what comes next, after what the scanner has met.
Moved(current, op, literal) ==
    IF op = "BeginArray" THEN Append(current, <<"0">>)
    ELSE IF op = "BeginObject" THEN Append(current, << >>)
    ELSE IF op = "ObjectKey" THEN Append(Front(current), UnquoteBytes(literal))
    ELSE IF op = "ArrayValue" THEN Append(Front(current), Itoa(Atoi(Last(current)) + 1))
    ELSE IF op \in {"EndArray", "EndObject"} THEN Front(current)
    ELSE current

\* One character further: what the scanner has met, where the last literal began
\* and the pointer to what comes next.
Further(text, w, t) ==
    [scan |-> t.scan, op |-> t.op, offset |-> w.offset + 1,
     began |-> IF t.op = "BeginLiteral" THEN w.offset ELSE w.began,
     current |-> Moved(w.current, t.op, SubSeq(text, w.began + 1, w.offset))]
Start == [scan |-> Scanner, op |-> "Continue", offset |-> 0, began |-> 0, current |-> << >>]

\* The way through the text, one place for each character.
Way(text) ==
    Tail(FoldLeft(LAMBDA way, c : Append(way, Further(text, Last(way), Step(Last(way).scan, c))),
                  <<Start>>, text))

\* A value comes next.
Arrives(w) == w.op \in {"BeginArray", "ArrayValue", "ObjectKey"}

\* What is found when the value that is sought begins after offset.
Here(rest) ==
    LET i == SelectInSeq(rest, LAMBDA c : c \notin Spaces)
    IN  IF i = 0 THEN Panic
        ELSE IF rest[i] = "]" THEN Nil
        ELSE NextValue(rest)

From(text, offset) == SubSeq(text, offset + 1, Len(text))

FindOn(way, text, needle) ==
    LET i == SelectInSeq(way, LAMBDA w : w.op = "Error" \/ (Arrives(w) /\ w.current = needle))
    IN  IF i = 0 THEN Nil
        ELSE IF way[i].op = "Error" THEN Error
        ELSE Here(From(text, i))
Find(text, path) == IF path = << >> THEN text ELSE FindOn(Way(text), text, ParsePointer(path))

\* Where values begin: their paths, how deep they are and what comes there.
Arrivals(way) ==
    LET places == SelectSeq(way, Arrives)
    IN  [i \in DOMAIN places |->
            [path |-> EncodePointer(places[i].current), depth |-> Len(places[i].current),
             offset |-> places[i].offset]]

ListPointersOn(way) ==
    IF way = << >> \/ \E i \in DOMAIN way : way[i].op = "Error" THEN Error
    ELSE LET arrivals == Arrivals(way)
         IN  << << >> >> \o [i \in DOMAIN arrivals |-> arrivals[i].path]
ListPointers(text) == ListPointersOn(Way(text))

\* The order of texts.
Before(a, b) ==
    \E i \in DOMAIN b \cap 1 .. Len(a) + 1 :
        /\ SubSeq(a, 1, i - 1) = SubSeq(b, 1, i - 1)
        /\ i <= Len(a) => (a[i] # b[i] /\ IndexIn(Ascii, a[i]) < IndexIn(Ascii, b[i]))

\* FindMany at one place: what it has found, how many paths are left, and the
\* depth to which a path may lead; a value that does not end stops it.
Following(text, paths, m, w) ==
    LET matched == IF m.matched > w.depth THEN w.depth ELSE m.matched
        next == {p \in paths : ~Before(p, w.path) /\ \A q \in paths : Before(q, p) => Before(q, w.path)}
        value == NextValue(From(text, w.offset))
    IN  IF m.left = 0 \/ m.matched < w.depth - 1 THEN m
        ELSE IF w.path \notin next
        THEN [m EXCEPT !.matched = IF \E p \in next : IsPrefix(w.path, p) THEN matched + 1 ELSE matched]
        ELSE IF value = Error THEN [m EXCEPT !.left = 0, !.err = TRUE]
        ELSE [m EXCEPT !.matched = matched + 1, !.left = @ - 1, !.found = (w.path :> value) @@ @]
FindManyOn(arrivals, text, paths) ==
    LET rest == paths \ {<< >>}
        whole == IF << >> \in paths THEN << >> :> text ELSE << >>
    IN  FoldLeft(LAMBDA m, w : Following(text, rest, m, w),
                 [matched |-> 0, left |-> Cardinality(rest), err |-> FALSE, found |-> whole], arrivals)
FindMany(text, paths) == FindManyOn(Arrivals(Way(text)), text, paths)

-----------------------------------------------------------------------------
(* in the decoded value *)

IsDigits(name) == name # << >> /\ ToSet(name) \subseteq Digits

\* Get, from an object: Nil where there is nothing.
GetFrom(value, name) ==
    LET key == Replace(Replace(name, "1", "/"), "0", "~")
    IN  IF "fields" \in DOMAIN value /\ key \in DOMAIN value.fields THEN value.fields[key]
        ELSE IF "items" \in DOMAIN value /\ IsDigits(name) /\ Atoi(name) < Len(value.items)
        THEN value.items[Atoi(name) + 1]
        ELSE Null
Get(value, path) ==
    LET Split(names, c) ==
            IF c = "/" THEN Append(names, << >>)
            ELSE Append(Front(names), Append(Last(names), c))
    IN  FoldLeft(GetFrom, value, FoldLeft(Split, << >>, path))
=============================================================================
