------------------------------- MODULE MCJson -------------------------------
(***************************************************************************)
(* JSON texts of up to five pieces, documents of up to nine, with two      *)
(* names: "/~a, and ~1A.                                                   *)
(***************************************************************************)
EXTENDS SequencesExt

VARIABLES text, scan, pieces

SlashName == <<"\"", "/", "~", "a">>
TildeName == <<"~", "1", "A">>
SomeStrings == {
    [text |-> <<"\"", "\\", "\"", "/", "~", "a", "\"">>, name |-> SlashName],
    [text |-> <<"\"", "~", "1", "\\", "u", "0", "0", "4", "1", "\"">>, name |-> TildeName]}

\* What may be a number, a string or a word.
TextsOf(parts, n) == {FlattenSeq(s) : s \in BoundedSeq(parts, n)}
SomeAtoms ==
    TextsOf({<<"-">>, <<"+">>, <<"0">>, <<"1">>, <<".">>, <<"e">>}, 4) \cup
    {<<"\"">> \o t : t \in TextsOf({<<"\"">>, <<"\\">>, <<"u">>, <<"n">>, <<"0", "a">>}, 4)} \cup
    {<<"\"", c, "\"">> : c \in {"\n", "\t", "other"}} \cup
    TextsOf({<<"t">>, <<"r", "u">>, <<"e">>, <<"f", "a">>, <<"l">>, <<"s">>, <<"n", "u">>}, 3)

SomePointers ==
    {<<<<"0">>>>, <<<<"1">>>>, <<SlashName>>, <<<<"0">>, <<"0">>>>,
     <<SlashName, <<"0">>>>, <<SlashName, SlashName>>, <<TildeName>>}

\* The name ~1A is that of the second field alone, the other one only differs from
\* that of a field in its case.
SomeFields == <<<<"~", "1", "a">>, TildeName, <<"\"", "/", "~", "A">>>>

INSTANCE Json WITH
    Strings <- SomeStrings, Scalars <- {<<"0">>}, MaxPieces <- 5, MaxMarks <- 9,
    Atoms <- SomeAtoms, Pointers <- SomePointers, StructFields <- SomeFields
=============================================================================
