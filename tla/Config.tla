------------------------------- MODULE Config -------------------------------
(***************************************************************************)
(* Configuration files as they are read, against a reading in one pass: of *)
(* a value character by character, of a file line by line.                 *)
(***************************************************************************)
EXTENDS ConfigReader

CONSTANTS
    Before, Field, \* a text that lacks the value of a field, which is a string
    Beginnings,    \* how the value may begin
    Chars,         \* the characters that may come then
    MaxChars,      \* bound on them
    Lines,         \* lines of files: their texts and what they say
    MaxLines,      \* bound on them
    Numbers        \* of the texts that are numbers, which one

VARIABLES
    beginning,     \* how the value began
    rest           \* what came then

Init == beginning \in Beginnings /\ rest = << >>

Read(c) ==
    /\ Len(rest) < MaxChars
    /\ rest' = Append(rest, c)
    /\ UNCHANGED beginning

Next == \E c \in Chars : Read(c)

Spec == Init /\ [][Next]_<<beginning, rest>>

-----------------------------------------------------------------------------
(* a value in one pass *)

\* Where the pass is, what the value is so far, and the spaces since its last
\* character: before the value, outside or inside of quotes, behind a backslash
\* there, at the CR between a backslash and the end of the line, in a comment,
\* behind the value, or lost.
ValueStart == [mode |-> "before", value |-> << >>, spaces |-> << >>]
Go(v, mode) == [v EXCEPT !.mode = mode]
Take(v, mode, text) == [mode |-> mode, value |-> v.value \o v.spaces \o text, spaces |-> << >>]

Outside(v, c) ==
    CASE c \in {" ", "\t"} -> IF v.mode = "before" THEN v ELSE [v EXCEPT !.spaces = Append(@, c)]
      [] c = "\r" -> v
      [] c = "\n" -> Go(v, "behind")
      [] c \in {";", "#"} -> Go(v, "comment")
      [] c = "\"" -> Take(v, "inside", << >>)
      [] c = "\\" -> Take(v, "backslash", << >>)
      [] OTHER -> Take(v, "outside", <<c>>)
Inside(v, c) ==
    CASE c = "\"" -> Go(v, "outside")
      [] c = "\\" -> Go(v, "escape")
      [] c = "\r" -> v
      [] c = "\n" -> Go(v, "lost")
      [] OTHER -> Take(v, "inside", <<c>>)
Escaped(v, c) ==
    CASE c \in {"\"", "\\"} -> Take(v, "inside", <<c>>)
      [] c = "n" -> Take(v, "inside", <<"\n">>)
      [] c = "t" -> Take(v, "inside", <<"\t">>)
      [] OTHER -> Go(v, "lost")
Behind(v, c) ==
    IF IsWhiteSpace(c) \/ c = "\n" THEN v
    ELSE Go(v, IF c \in {";", "#"} THEN "comment" ELSE "lost")
ValueChar(v, c) ==
    CASE c = "NUL" -> Go(v, "lost")
      [] v.mode \in {"before", "outside"} -> Outside(v, c)
      [] v.mode = "inside" -> Inside(v, c)
      [] v.mode = "escape" -> Escaped(v, c)
      [] v.mode = "backslash" /\ c = "\r" -> Go(v, "return")
      [] v.mode \in {"backslash", "return"} -> Go(v, IF c = "\n" THEN "outside" ELSE "lost")
      [] v.mode = "comment" -> IF c = "\n" THEN Go(v, "behind") ELSE v
      [] v.mode = "behind" -> Behind(v, c)
      [] OTHER -> v
OnePass(text) ==
    LET v == FoldLeft(ValueChar, ValueStart, text)
    IN  IF v.mode \in {"before", "outside", "comment", "behind"} THEN {v.value} ELSE {}

-----------------------------------------------------------------------------
(* a file line by line *)

Text(lines) == FoldLeft(LAMBDA text, l : text \o l.text \o <<"\n">>, << >>, lines)

\* A line may begin a section, set a field or be in error, or say nothing; the
\* first error ends the reading.
FileStart == [result |-> "ok", section |-> << >>, config |-> << >>]
SetTo(f, field, value) == [f EXCEPT !.config = (field :> value) @@ @]
Follow(f, line) ==
    LET field == <<f.section, line.name>>
    IN  IF f.result = "failed" \/ line.says = "nothing" THEN f
        ELSE IF line.says = "section" THEN [f EXCEPT !.section = line.name]
        ELSE IF line.says = "error" \/ field \notin DOMAIN ConfigFormat THEN [f EXCEPT !.result = "failed"]
        ELSE IF ConfigFormat[field] = "string" THEN SetTo(f, field, line.value)
        ELSE IF line.value \in DOMAIN Numbers THEN SetTo(f, field, Numbers[line.value])
        ELSE [f EXCEPT !.result = "failed"]

-----------------------------------------------------------------------------
(* properties *)

\* Whatever the text, unquote finds the quotes and backslashes of a literal in
\* order, as its comment says the scanner sees to (read.go:17): a value that is
\* first scanned, with quotes, continued lines, comments, spaces and CR LF, then
\* freed of CR and then unquoted is the one that a single pass reads, and it is
\* in error just if that pass is lost.  A file sets what its lines say one by one,
\* each in the section above it, of two lines for one field the last; it is in
\* error just if a line is, and the settings before that line are kept.
ReadsConfiguration ==
    /\ LET value == beginning \o rest
           read == ReadInto(Before \o value)
       IN  /\ read.result # "panicked"
           /\ read.result = "ok" <=> OnePass(value) # {}
           /\ read.result = "ok" => OnePass(value) = {read.config[Field]}
    /\ beginning \o rest = << >> =>
        \A lines \in BoundedSeq(Lines, MaxLines) :
            LET file == ReadInto(Text(lines))
                said == FoldLeft(Follow, FileStart, lines)
            IN  file.result = said.result /\ file.config = said.config
=============================================================================
