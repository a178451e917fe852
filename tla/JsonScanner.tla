---------------------------- MODULE JsonScanner ----------------------------
(***************************************************************************)
(* The JSON scanner (dustin/gojson/scanner.go), which reads a text one     *)
(* character at a time.                                                    *)
(*                                                                         *)
(* Only operators.  A text is a sequence of characters; a character that   *)
(* is not written in ASCII is "other".                                     *)
(***************************************************************************)
EXTENDS Integers, SequencesExt

Digits  == {"0", "1", "2", "3", "4", "5", "6", "7", "8", "9"}
Hex     == Digits \cup {"a", "b", "c", "d", "e", "f", "A", "B", "C", "D", "E", "F"}
Spaces  == {" ", "\t", "\r", "\n"}
Control == {"\t", "\r", "\n"}      \* below 0x20

-----------------------------------------------------------------------------
(* the scanner *)

\* A scanner after Reset: the function that takes the next character, what the
\* text is in the middle of, whether the value is complete, and the error.
Scanner == [step |-> "BeginValue", parse |-> << >>, endTop |-> FALSE, err |-> FALSE]

\* A scanner goes on to a step and says what it has met.
To(s, step, op) == [scan |-> [s EXCEPT !.step = step], op |-> op]
Push(s, step, state, op) == To([s EXCEPT !.parse = Append(@, state)], step, op)
Change(s, step, state, op) == To([s EXCEPT !.parse = Append(Front(@), state)], step, op)
Pop(s, op) ==
    IF Len(s.parse) = 1
    THEN To([s EXCEPT !.parse = << >>, !.endTop = TRUE], "EndTop", op)
    ELSE To([s EXCEPT !.parse = Front(@)], "EndValue", op)
Fail(s) == To([s EXCEPT !.err = TRUE], "Error", "Error")

\* The first character of a literal and what follows it.
Literal == [ x \in {"\"", "-", "0", "t", "f", "n"} |->
    CASE x = "\"" -> "InString" [] x = "-" -> "Neg" [] x = "0" -> "0"
      [] x = "t" -> "T" [] x = "f" -> "F" [] x = "n" -> "N"]

\* In true, false and null: the character that must come and the next step.
Word ==
    [T |-> <<"r", "Tr">>, Tr |-> <<"u", "Tru">>, Tru |-> <<"e", "EndValue">>,
     F |-> <<"a", "Fa">>, Fa |-> <<"l", "Fal">>, Fal |-> <<"s", "Fals">>,
     Fals |-> <<"e", "EndValue">>,
     N |-> <<"u", "Nu">>, Nu |-> <<"l", "Nul">>, Nul |-> <<"l", "EndValue">>]

\* The four digits after "\u".
HexDigit ==
    [InStringEscU |-> "InStringEscU1", InStringEscU1 |-> "InStringEscU12",
     InStringEscU12 |-> "InStringEscU123", InStringEscU123 |-> "InString"]

\* After the value the text may only have space; the complaint comes with the
\* next character.
EndTop(s, c) ==
    [scan |-> IF c \in Spaces THEN s ELSE Fail(s).scan, op |-> "End"]

\* After a value: at the top, after a key, a member or an element.
EndValue(s, c) ==
    LET state == Last(s.parse)
    IN  IF s.parse = << >> THEN EndTop([s EXCEPT !.step = "EndTop", !.endTop = TRUE], c)
        ELSE IF c \in Spaces THEN To(s, "EndValue", "SkipSpace")
        ELSE IF state = "ObjectKey" /\ c = ":" THEN Change(s, "BeginValue", "ObjectValue", "ObjectKey")
        ELSE IF state = "ObjectValue" /\ c = "," THEN Change(s, "BeginString", "ObjectKey", "ObjectValue")
        ELSE IF state = "ArrayValue" /\ c = "," THEN To(s, "BeginValue", "ArrayValue")
        ELSE IF state = "ObjectValue" /\ c = "}" THEN Pop(s, "EndObject")
        ELSE IF state = "ArrayValue" /\ c = "]" THEN Pop(s, "EndArray")
        ELSE Fail(s)

\* The beginning of a value, and of a key.
BeginValue(s, c) ==
    IF c \in Spaces THEN To(s, s.step, "SkipSpace")
    ELSE IF c = "{" THEN Push(s, "BeginStringOrEmpty", "ObjectKey", "BeginObject")
    ELSE IF c = "[" THEN Push(s, "BeginValueOrEmpty", "ArrayValue", "BeginArray")
    ELSE IF c \in DOMAIN Literal THEN To(s, Literal[c], "BeginLiteral")
    ELSE IF c \in Digits THEN To(s, "1", "BeginLiteral")
    ELSE Fail(s)
BeginString(s, c) ==
    IF c \in Spaces THEN To(s, s.step, "SkipSpace")
    ELSE IF c = "\"" THEN To(s, "InString", "BeginLiteral")
    ELSE Fail(s)

\* Inside strings, words and numbers: the step that follows, "ends" when the
\* value has ended before the character, "fails" when it must not come.
InString(s, c) ==
    IF s.step = "InString"
    THEN IF c = "\"" THEN "EndValue" ELSE IF c = "\\" THEN "InStringEsc"
         ELSE IF c \in Control THEN "fails" ELSE "InString"
    ELSE IF s.step = "InStringEsc"
    THEN IF c \in {"b", "f", "n", "r", "t", "\\", "/", "\""} THEN "InString"
         ELSE IF c = "u" THEN "InStringEscU" ELSE "fails"
    ELSE IF c \in Hex THEN HexDigit[s.step] ELSE "fails"
InWord(s, c) == IF c = Word[s.step][1] THEN Word[s.step][2] ELSE "fails"
InNumber(s, c) ==
    LET digit == c \in Digits
    IN  IF s.step = "Neg" /\ c = "0" THEN "0"
        ELSE IF s.step \in {"Neg", "1"} /\ digit THEN "1"
        ELSE IF s.step \in {"1", "0"} /\ c = "." THEN "Dot"
        ELSE IF s.step \in {"Dot", "Dot0"} /\ digit THEN "Dot0"
        ELSE IF s.step \in {"1", "0", "Dot0"} /\ c \in {"e", "E"} THEN "E"
        ELSE IF s.step = "E" /\ c \in {"+", "-"} THEN "ESign"
        ELSE IF s.step \in {"E", "ESign", "E0"} /\ digit THEN "E0"
        ELSE IF s.step \in {"1", "0", "Dot0", "E0"} THEN "ends"
        ELSE "fails"
InLiteral(s, c) ==
    IF s.step \in {"InString", "InStringEsc"} \cup DOMAIN HexDigit THEN InString(s, c)
    ELSE IF s.step \in DOMAIN Word THEN InWord(s, c)
    ELSE InNumber(s, c)
Literals == {"InString", "InStringEsc", "Neg", "0", "1", "Dot", "Dot0", "E", "ESign", "E0"}
            \cup DOMAIN HexDigit \cup DOMAIN Word

\* Mutant: a bracket after a comma ends an array, too.
EmptyAfterComma(s, c) ==
    \/ s.step \in {"BeginValueOrEmpty", "BeginValue"} /\ c = "]"
    \/ s.step = "BeginStringOrEmpty" /\ c = "}"

\* An array or object that ends before its first part.
Empty(s, c) ==
    \/ s.step = "BeginValueOrEmpty" /\ c = "]"
    \/ s.step = "BeginStringOrEmpty" /\ c = "}"

\* What a character means; next is the step that follows in a literal.
StepTo(s, c, next) ==
    IF s.step = "Error" \/ next = "fails" THEN Fail(s)
    ELSE IF s.step = "EndTop" THEN EndTop(s, c)
    ELSE IF s.step = "EndValue" \/ Empty(s, c) \/ next = "ends"
    THEN EndValue(IF c = "}" /\ Empty(s, c)
                  THEN [s EXCEPT !.parse = Append(Front(@), "ObjectValue")] ELSE s, c)
    ELSE IF s.step \in {"BeginValue", "BeginValueOrEmpty"} THEN BeginValue(s, c)
    ELSE IF s.step \in {"BeginString", "BeginStringOrEmpty"} THEN BeginString(s, c)
    ELSE To(s, next, "Continue")
Step(s, c) == StepTo(s, c, IF s.step \in Literals THEN InLiteral(s, c) ELSE "none")

\* EOF: whether the text may end here.
Complete(s) == ~s.err /\ (s.endTop \/ LET t == Step(s, " ").scan IN t.endTop /\ ~t.err)

ScanAll(s, text) == FoldLeft(LAMBDA t, c : Step(t, c).scan, s, text)
Validate(text) == Complete(ScanAll(Scanner, text))


\* The first whole value of a text, and an error if there is none.
Error == <<"error">>

NextValue(text) ==
    LET Next(u, c) ==
            IF u.op \in {"End", "Error"} THEN u
            ELSE LET t == Step(u.scan, c)
                 IN  [scan |-> t.scan, op |-> t.op,
                      length |-> IF t.op = "End" THEN u.length ELSE u.length + 1]
        end == FoldLeft(Next, [scan |-> Scanner, op |-> "Continue", length |-> 0], text)
    IN  IF end.op = "Error" \/ (end.op # "End" /\ ~Complete(end.scan)) THEN Error
        ELSE SubSeq(text, 1, end.length)
=============================================================================
