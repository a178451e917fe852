-------------------------------- MODULE Json --------------------------------
(***************************************************************************)
(* The scanner as it reads a text piece by piece, and what the operators   *)
(* that rest on it have to give for the texts of the grammar of JSON: the  *)
(* Twitter client tells the messages of a stream apart with a pointer and  *)
(* decodes them into structs (anaconda/streaming.go:328-334).              *)
(***************************************************************************)
EXTENDS JsonPointer

CONSTANTS
    Strings,     \* some strings: their texts and what they stand for
    Scalars,     \* the texts of some words and numbers
    MaxPieces,   \* bound on the pieces of a text that is read
    MaxMarks,    \* and on those of a document without space
    Atoms,       \* texts that may be strings, numbers and words
    Pointers,    \* the pointers that are looked for
    StructFields \* the fields of a struct

VARIABLES
    text,        \* what has been read
    scan,        \* the scanner
    pieces       \* the pieces that were read

Marks == {<<"{">>, <<"}">>, <<"[">>, <<"]">>, <<":">>, <<",">>, <<" ">>}
Pieces == Marks \cup Scalars \cup {s.text : s \in Strings}

Init == text = << >> /\ scan = Scanner /\ pieces = << >>

\* After an error nothing more is read.
Read(piece) ==
    /\ Len(pieces) < MaxPieces /\ scan.step # "Error"
    /\ scan' = ScanAll(scan, piece)
    /\ text' = text \o piece
    /\ pieces' = Append(pieces, piece)

Next == \E piece \in Pieces : Read(piece)

Spec == Init /\ [][Next]_<<text, scan, pieces>>

-----------------------------------------------------------------------------
(* the grammar: whether some pieces are a text of it *)

Cut(s, i, j) == SubSeq(s, i + 1, Len(s) - j)
IsBlank(s) == ToSet(s) \subseteq {<<" ">>}
Splits(s, p) == {k \in DOMAIN s : s[k] = <<p>>}

RECURSIVE IsValue(_), IsElements(_), IsMembers(_)
IsElement(s) ==
    \E i, j \in 0 .. Len(s) :
        /\ i + j < Len(s) /\ IsBlank(SubSeq(s, 1, i)) /\ IsBlank(Cut(s, Len(s) - j, 0))
        /\ IsValue(Cut(s, i, j))
IsMember(s) ==
    \E k \in Splits(s, ":") :
        /\ \E i \in 1 .. k - 1 : /\ s[i] \in {t.text : t \in Strings}
                                 /\ IsBlank(SubSeq(s, 1, i - 1) \o SubSeq(s, i + 1, k - 1))
        /\ IsElement(Cut(s, k, 0))
IsElements(s) ==
    IsElement(s) \/ \E k \in Splits(s, ",") : IsElement(SubSeq(s, 1, k - 1)) /\ IsElements(Cut(s, k, 0))
IsMembers(s) ==
    IsMember(s) \/ \E k \in Splits(s, ",") : IsMember(SubSeq(s, 1, k - 1)) /\ IsMembers(Cut(s, k, 0))
IsValue(s) ==
    IF Len(s) = 1 THEN s[1] \in Scalars \cup {t.text : t \in Strings}
    ELSE LET inner == Cut(s, 1, 1)
         IN  \/ s[1] = <<"[">> /\ Last(s) = <<"]">> /\ (IsBlank(inner) \/ IsElements(inner))
             \/ s[1] = <<"{">> /\ Last(s) = <<"}">> /\ (IsBlank(inner) \/ IsMembers(inner))

-----------------------------------------------------------------------------
(* the grammar: its texts *)

\* A text with its value and its parts: their pointers and texts, as they come.
Item(t, value, parts) == [text |-> t, value |-> value, parts |-> parts]
Blank(n) == [i \in 1 .. n |-> " "]
Bare == {Item(t, [lit |-> t], << >>) : t \in Scalars}
        \cup {Item(s.text, [str |-> s.name], << >>) : s \in Strings}

Under(name, item) ==
    <<[pointer |-> <<name>>, text |-> item.text]>> \o
    [k \in DOMAIN item.parts |-> [item.parts[k] EXCEPT !.pointer = <<name>> \o @]]

\* A list of elements or members, and one more; the first place of an array that
\* has none is a part, too, with nothing there.
NoList == [text |-> << >>, value |-> << >>, parts |-> << >>, count |-> 0]
EmptyArray(n) ==
    Item(<<"[">> \o Blank(n) \o <<"]">>, [items |-> << >>],
         <<[pointer |-> <<Itoa(0)>>, text |-> Nil]>>)
EmptyObjectOf(n) == Item(<<"{">> \o Blank(n) \o <<"}">>, [fields |-> << >>], << >>)
Comma(l) == IF l = NoList THEN << >> ELSE <<",">>
PlusElement(l, e) ==
    [text |-> l.text \o Comma(l) \o e.item.text \o e.after,
     value |-> Append(l.value, e.item.value),
     parts |-> l.parts \o Under(Itoa(l.count), e.item), count |-> l.count + 1]
PlusMember(l, m) ==
    [text |-> l.text \o Comma(l) \o m.key \o m.item.text \o m.after,
     value |-> (m.name :> m.item.value) @@ l.value,
     parts |-> l.parts \o Under(m.name, m.item), count |-> l.count + 1]
ArrayOf(l) == Item(<<"[">> \o l.text \o <<"]">>, [items |-> l.value], l.parts)
ObjectOf(l) == Item(<<"{">> \o l.text \o <<"}">>, [fields |-> l.value], l.parts)

\* By the number of pieces: values; elements, which have space around them;
\* members, which have a key; and the lists of them.  The text of a part begins
\* right after the bracket, comma or colon before it.
Level(G, n, blanks) ==
    LET splits(k) == {p \in (0 .. blanks) \X (0 .. blanks) : p[1] + p[2] + k <= n}
        inside == IF n - 2 \in 0 .. blanks THEN {n - 2} ELSE {}
        values ==
            IF n = 0 THEN {} ELSE IF n = 1 THEN Bare
            ELSE {ArrayOf(l) : l \in G[n - 2].elements} \cup {EmptyArray(k) : k \in inside}
                 \cup {ObjectOf(l) : l \in G[n - 2].members} \cup {EmptyObjectOf(k) : k \in inside}
        spaced(k, v) == [item |-> [v EXCEPT !.text = Blank(k[1]) \o @], after |-> Blank(k[2])]
        element ==
            UNION {{spaced(k, v) : v \in IF k = <<0, 0>> THEN values ELSE G[n - k[1] - k[2]].values} :
                   k \in splits(0)}
        member ==
            UNION {{[item |-> e.item, after |-> e.after, name |-> s.name,
                     key |-> Blank(k[1]) \o s.text \o Blank(k[2]) \o <<":">>] :
                        e \in G[n - 2 - k[1] - k[2]].element, s \in Strings} :
                   k \in splits(2)}
    IN  [values |-> values, element |-> element, member |-> member,
         elements |-> {PlusElement(NoList, e) : e \in element} \cup
                      UNION {{PlusElement(l, e) : l \in G[i].elements, e \in G[n - 1 - i].element} :
                             i \in 0 .. n - 1},
         members |-> {PlusMember(NoList, m) : m \in member} \cup
                     UNION {{PlusMember(l, m) : l \in G[i].members, m \in G[n - 1 - i].member} :
                            i \in 0 .. n - 1}]
Grammar(max, blanks) ==
    FoldLeft(LAMBDA G, n : (n :> Level(G, n, blanks)) @@ G, << >>, [i \in 1 .. max + 1 |-> i - 1])
DocumentsOf(G) == UNION {{[e.item EXCEPT !.text = @ \o e.after] : e \in G[n].element} : n \in DOMAIN G}

\* The texts of the grammar: short ones, which may have space everywhere, and
\* longer ones without.
Documents == DocumentsOf(Grammar(MaxPieces, MaxPieces)) \cup DocumentsOf(Grammar(MaxMarks, 0))

\* Strings, numbers and words by themselves.
Without(s, n) == SubSeq(s, n + 1, Len(s))
AllDigits(s) == s # << >> /\ ToSet(s) \subseteq Digits
IsFraction(s) == s # << >> => (s[1] = "." /\ AllDigits(Tail(s)))
IsExponent(s) ==
    s # << >> =>
        /\ s[1] \in {"e", "E"}
        /\ \/ AllDigits(Tail(s))
           \/ Len(s) > 2 /\ s[2] \in {"+", "-"} /\ AllDigits(Without(s, 2))
IsUnsigned(s) ==
    \E i, j \in 0 .. Len(s) :
        /\ i <= j /\ AllDigits(SubSeq(s, 1, i)) /\ (i > 1 => s[1] # "0")
        /\ IsFraction(SubSeq(s, i + 1, j))
        /\ IsExponent(Without(s, j))
IsNumber(s) == s # << >> /\ IsUnsigned(IF s[1] = "-" THEN Tail(s) ELSE s)
RECURSIVE IsInside(_)
IsInside(s) ==
    s # << >> =>
        \/ s[1] \notin Control \cup {"\"", "\\"} /\ IsInside(Tail(s))
        \/ /\ Len(s) >= 2 /\ s[1] = "\\" /\ s[2] \in {"\"", "\\", "/", "b", "f", "n", "r", "t"}
           /\ IsInside(Without(s, 2))
        \/ /\ Len(s) >= 6 /\ s[1] = "\\" /\ s[2] = "u" /\ ToSet(SubSeq(s, 3, 6)) \subseteq Hex
           /\ IsInside(Without(s, 6))
IsString(s) == Len(s) >= 2 /\ s[1] = "\"" /\ Last(s) = "\"" /\ IsInside(Tail(Front(s)))
Words == {<<"t", "r", "u", "e">>, <<"f", "a", "l", "s", "e">>, <<"n", "u", "l", "l">>}
IsAtom(s) == IsNumber(s) \/ IsString(s) \/ s \in Words

-----------------------------------------------------------------------------
(* properties *)

\* What a struct takes from an object: for each field the last member whose name
\* is that of the field, or only differs from it in its case and is that of no
\* other field.
TakenFrom(d) ==
    LET fields == ToSet(StructFields)
        For(f) == {k \in DOMAIN d.parts :
                      /\ Len(d.parts[k].pointer) = 1
                      /\ LET name == d.parts[k].pointer[1]
                         IN  f = name \/ (Fold(f) = Fold(name) /\ name \notin fields)}
    IN  [f \in {g \in fields : For(g) # {}} |-> Unmarshal(d.parts[Max(For(f))].text)]

\* The scanner takes a text, and may be at its end, just if it is a text of the
\* grammar, however brackets, keys and commas are nested (scanner.go), and what is
\* decoded from the text is its value: of several members with one name the last
\* one, and in a struct nothing is displaced by the members it has no field for
\* (decode.go).
ReadsJson ==
    /\ Complete(scan) <=> IsElement(pieces)
    /\ text = << >> =>
        /\ \A t \in Atoms : Validate(t) <=> IsAtom(t)
        /\ \A d \in Documents :
              /\ Unmarshal(d.text) = d.value
              /\ UnmarshalInto(d.text, StructFields) =
                     IF "fields" \in DOMAIN d.value THEN [fields |-> TakenFrom(d)]
                     ELSE IF d.value = Null THEN [fields |-> << >>] ELSE NoValue

\* No name comes twice in an object of the document.
NamesAreDistinct(d) == \A i, j \in DOMAIN d.parts : d.parts[i].pointer = d.parts[j].pointer => i = j

\* The parts that are found by two pointers in one pass are those found one by one,
\* or it fails for the first place of an empty array.
FindsBoth(found, P, many) ==
    IF many.err THEN \E p \in P : found[p] = [part |-> TRUE, text |-> Nil]
    ELSE \A p \in P :
            IF found[p].text = Nil THEN EncodePointer(p) \notin DOMAIN many.found
            ELSE many.found[EncodePointer(p)] = found[p].text
GetsSame(found, value) ==
    \A p \in Pointers :
        Get(value, EncodePointer(p)) =
            IF found[p].text = Nil THEN Null ELSE Unmarshal(found[p].text)

\* Find undoes "~0" before "~1" (bytes.go:29), where RFC 6901 has it the other way
\* round: it takes a name with "~1" in it for one with "/".
ReadsBack(p) ==
    \A name \in ToSet(p) : \A i \in 2 .. Len(name) : SubSeq(name, i - 1, i) # <<"~", "1">>

\* What there is at a pointer: the text of the first part that has it.
FoundIn(parts) ==
    [p \in Pointers |->
        LET i == SelectInSeq(parts, LAMBDA part : part.pointer = p)
        IN  [part |-> i # 0, text |-> IF i = 0 THEN Nil ELSE parts[i].text]]
FindsIn(d, way, arrivals, found) ==
    /\ \A p \in Pointers :
          LET needle == ParsePointer(EncodePointer(p))
          IN  /\ needle = p <=> ReadsBack(p)
              /\ ReadsBack(p) => FindOn(way, d.text, needle) = found[p].text
    /\ ListPointersOn(way) = << << >> >> \o
           [k \in DOMAIN d.parts |-> EncodePointer(d.parts[k].pointer)]
    /\ NamesAreDistinct(d) =>
          /\ GetsSame(found, d.value)
          /\ \A P \in SUBSET Pointers : Cardinality(P) = 2 =>
                FindsBoth(found, P, FindManyOn(arrivals, d.text, {EncodePointer(p) : p \in P}))
FindsAlong(d, way) == FindsIn(d, way, Arrivals(way), FoundIn(d.parts))

\* A text in which Find panics ends where a value should begin.
PanicsAtEnd(way) ==
    \A p \in Pointers :
        FindOn(way, text, p) = Panic =>
            Last(SelectSeq(text, LAMBDA c : c # " ")) \in {"[", ",", ":"}

\* In a text of the grammar Find answers the first part that its pointer leads to,
\* but for pointers with "~1" in a name, which it reads as others, against the RFC
\* that the package claims (doc.go:1); ListPointers answers the pointers to all
\* parts.  If no name comes twice, Get finds the part in the decoded value for
\* every pointer, and FindMany finds in one pass what there is at every path, or
\* fails for the first place of an empty array.  In a text that is cut off Find
\* may panic, where FindDecode's comment has an error (bytes.go:78), but only if
\* the text ends where the part should begin (bytes.go, map.go).
FindsParts ==
    /\ text = << >> => \A d \in Documents : FindsAlong(d, Way(d.text))
    /\ PanicsAtEnd(Way(text))
=============================================================================
