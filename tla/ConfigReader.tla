---------------------------- MODULE ConfigReader ----------------------------
(***************************************************************************)
(* How the configuration file is read (scalingdata/gcfg): a scanner makes  *)
(* tokens of the text, a value is unquoted after it has been scanned, and  *)
(* it is put into the field that its section and its name are folded to.   *)
(*                                                                         *)
(* Only operators.  A text is a sequence of characters; "NUL" is the one   *)
(* the scanner does not allow.                                             *)
(***************************************************************************)
EXTENDS Integers, SequencesExt

CONSTANT ConfigFormat \* of each field, a section and a name: "string" or "int"

Small   == <<"a", "b", "c", "d", "e", "f", "g", "h", "i", "j", "k", "l", "m",
             "n", "o", "p", "q", "r", "s", "t", "u", "v", "w", "x", "y", "z">>
Capital == <<"A", "B", "C", "D", "E", "F", "G", "H", "I", "J", "K", "L", "M",
             "N", "O", "P", "Q", "R", "S", "T", "U", "V", "W", "X", "Y", "Z">>
IsLetter(c) == c \in ToSet(Small) \cup ToSet(Capital)
Digits == <<"0", "1", "2", "3", "4", "5", "6", "7", "8", "9">>
IsDigit(c) == c \in ToSet(Digits)
IsWhiteSpace(c) == c \in {" ", "\t", "\r"}
EOF == "EOF"
LineEnds == {"EOF", "EOL"}

-----------------------------------------------------------------------------
(* the scanner: where it is, whether a value comes next, and whether it has *)
(* complained                                                               *)

Ch(s) == IF s.at <= Len(s.src) THEN s.src[s.at] ELSE EOF

\* It looks at each character as it arrives there.
MoveTo(s, i) ==
    [s EXCEPT !.at = i, !.err = @ \/ \E k \in s.at + 1 .. i : k <= Len(s.src) /\ s.src[k] = "NUL"]
AfterChar(s) == MoveTo(s, Min({s.at, Len(s.src)}) + 1)
Complain(s, wrong) == [s EXCEPT !.err = @ \/ wrong]
Scanner(src) == MoveTo([src |-> src, at |-> 0, nextVal |-> FALSE, err |-> FALSE], 1)

\* On to the first character that is none of these, or to the end.
Skip(s, These(_)) ==
    MoveTo(s, Min({i \in s.at .. Len(s.src) : ~These(s.src[i])} \cup {Len(s.src) + 1}))

From(s, t) == SubSeq(s.src, s.at, t.at - 1)

\* A character after a backslash.
ScanEscape(s, others) == Complain(AfterChar(s), Ch(s) \notin {"\\", "\""} \cup others)

\* The name of a subsection, behind its first quote; the last one is passed over.
\* After a complaint the file is not read any further, whatever comes.
PastStringChar(c, s) == IF c = "\\" THEN ScanEscape(s, {}) ELSE Complain(s, c \in {"\n", EOF})
RECURSIVE ScanString(_)
ScanString(s) ==
    IF s.err \/ Ch(s) = "\"" THEN AfterChar(s) ELSE ScanString(PastStringChar(Ch(s), AfterChar(s)))

\* Behind a backslash outside of quotes a line must end, perhaps with CR LF.
PastCR(s) == IF Ch(s) = "\r" THEN AfterChar(s) ELSE s
LineGoesOn(s) == Complain(AfterChar(s), Ch(s) # "\n")
\* Mutant: CR LF does not continue a line.
ContinuedOnlyByLF(s) == LineGoesOn(s)
Continued(s) == LineGoesOn(PastCR(s))

\* The value so far ends where the last character was that is no space.
PastValueChar(quoted, c, s) ==
    IF c = "\\" THEN IF quoted THEN ScanEscape(s, {"n", "t"}) ELSE Continued(s)
    ELSE Complain(s, c = EOF \/ (c = "\n" /\ quoted))
Longer(v, c, quoted, s) ==
    [s |-> s, quoted |-> quoted, end |-> IF quoted \/ ~IsWhiteSpace(c) THEN s.at ELSE v.end]
OneOn(v, c) == Longer(v, c, v.quoted # (c = "\""), PastValueChar(v.quoted, c, AfterChar(v.s)))
RECURSIVE ScanValue(_)
ScanValue(v) ==
    IF v.s.err \/ (~v.quoted /\ Ch(v.s) \in {EOF, "\n", ";", "#"}) THEN v
    ELSE ScanValue(OneOn(v, Ch(v.s)))

\* What the end of the lines may bring along is nowhere a part of a value.
StripCR(lit) == SelectSeq(lit, LAMBDA c : c # "\r")
ValueFrom(at, v) ==
    [s |-> [v.s EXCEPT !.nextVal = FALSE], tok |-> "STRING",
     lit |-> StripCR(SubSeq(v.s.src, at, v.end - 1))]
ScanValString(s) == ValueFrom(s.at, ScanValue([s |-> s, quoted |-> FALSE, end |-> s.at]))

Token(s, tok) == [s |-> s, tok |-> tok, lit |-> << >>]
Mark == [c \in {EOF, "\n", "[", "]", "="} |->
            CASE c = EOF -> "EOF" [] c = "\n" -> "EOL" [] c = "[" -> "LBRACK"
              [] c = "]" -> "RBRACK" [] c = "=" -> "ASSIGN"]
Named(s, t) == [s |-> t, tok |-> "IDENT", lit |-> From(s, t)]
Quoted(s, t) == [s |-> t, tok |-> "STRING", lit |-> From(s, t)]

\* A comment is skipped, and the scanner stands at the end of its line.
SkipComment(s) ==
    IF Ch(s) \in {";", "#"} /\ ~s.nextVal THEN Skip(AfterChar(s), LAMBDA c : c # "\n") ELSE s
ScanHere(s) ==
    LET c == Ch(s)
    IN  IF s.nextVal THEN ScanValString(s)
        ELSE IF IsLetter(c)
        THEN Named(s, Skip(s, LAMBDA x : IsLetter(x) \/ IsDigit(x) \/ x = "-"))
        ELSE IF c = "\"" THEN Quoted(s, ScanString(AfterChar(s)))
        ELSE IF c \in DOMAIN Mark
        THEN Token([AfterChar(s) EXCEPT !.nextVal = c = "="], Mark[c])
        ELSE Token(Complain(AfterChar(s), TRUE), "ILLEGAL")
Scan(s) == ScanHere(SkipComment(Skip(s, IsWhiteSpace)))

\* The scanner does not depend on its reader: the tokens that can be had of a text,
\* to its end or to the first complaint.
RECURSIVE TokensFrom(_, _)
OneMoreToken(tokens, next) ==
    IF next.tok = "EOF" \/ next.s.err THEN Append(tokens, next)
    ELSE TokensFrom(Append(tokens, next), next.s)
TokensFrom(tokens, s) == OneMoreToken(tokens, Scan(s))

-----------------------------------------------------------------------------
(* values *)

Panic == <<"panic">>
Unescape == [c \in {"\\", "\"", "n", "t"} |->
                CASE c = "n" -> "\n" [] c = "t" -> "\t" [] OTHER -> c]

\* Without quotes and backslashes; it relies on the scanner for their order.
UnquoteChar(u, c) ==
    IF u.text = Panic THEN u
    ELSE IF u.esc
    THEN IF c \in DOMAIN Unescape THEN [u EXCEPT !.text = Append(@, Unescape[c]), !.esc = FALSE]
         ELSE IF ~u.q /\ c = "\n" THEN [u EXCEPT !.esc = FALSE]
         ELSE [u EXCEPT !.text = Panic]
    ELSE IF c = "\"" THEN [u EXCEPT !.q = ~@]
    ELSE IF c = "\\" THEN [u EXCEPT !.esc = TRUE]
    ELSE [u EXCEPT !.text = Append(@, c)]
Unquoted(u) == IF u.q \/ u.esc THEN Panic ELSE u.text
Unquote(lit) ==
    Unquoted(FoldLeft(UnquoteChar, [text |-> << >>, q |-> FALSE, esc |-> FALSE], lit))

\* The fields that are meant: cases are folded, and a hyphen is an underscore.
Fold(name) ==
    [i \in DOMAIN name |->
        IF name[i] = "-" THEN "_"
        ELSE IF name[i] \in ToSet(Capital)
        THEN Small[CHOOSE k \in DOMAIN Capital : Capital[k] = name[i]] ELSE name[i]]
FieldFold(sect, name) ==
    {f \in DOMAIN ConfigFormat : Fold(f[1]) = Fold(sect) /\ Fold(f[2]) = Fold(name)}

\* A number in decimal digits, or behind 0x in hexadecimal ones: none or one.
TrimSpace(val) ==
    LET kept == {i \in DOMAIN val : val[i] \notin {" ", "\t", "\r", "\n"}}
    IN  IF kept = {} THEN << >> ELSE SubSeq(val, Min(kept), Max(kept))
Prefix0x(val) == IsPrefix(<<"0", "x">>, val)
Positional(val, digits) ==
    LET At(c) == CHOOSE k \in DOMAIN digits : digits[k] = c
    IN  IF val = << >> \/ ~(ToSet(val) \subseteq ToSet(digits)) THEN {}
        ELSE {FoldLeft(LAMBDA n, c : Len(digits) * n + At(c) - 1, 0, val)}
Unsigned(val) ==
    IF Prefix0x(val)
    THEN Positional(Fold(SubSeq(val, 3, Len(val))), Digits \o SubSeq(Small, 1, 6))
    ELSE Positional(val, Digits)
Signed(v) ==
    IF v = << >> THEN {}
    ELSE IF v[1] = "-" THEN {-n : n \in Unsigned(Tail(v))}
    ELSE IF v[1] = "+" THEN Positional(Tail(v), Digits)
    ELSE Unsigned(v)
ParseInt(val) == Signed(TrimSpace(val))

\* What a value gives a field of a kind: nothing if it is none for it.
Setting(kind, value) == IF kind = "int" THEN ParseInt(value) ELSE {value}

-----------------------------------------------------------------------------
(* a file *)

\* The token that comes n tokens on; after the last one there is nothing else.
Tok(r, n) == r.tokens[Min({r.at + n, Len(r.tokens)})]
Complaint(r, n) == Tok(r, n).s.err
Fail(r) == [r EXCEPT !.result = "failed"]

\* [section] or [section "subsection"], and the end of the line.
Header(r, named, sub, close) ==
    IF Complaint(r, 2) \/ Tok(r, 1).tok # "IDENT" THEN Fail(r)
    ELSE IF sub = Panic THEN [r EXCEPT !.result = "panicked"]
    ELSE IF (named /\ sub = << >>) \/ Complaint(r, close) \/ Tok(r, close).tok # "RBRACK"
    THEN Fail(r)
    ELSE IF Tok(r, close + 1).tok \notin LineEnds THEN Fail(r)
    ELSE [r EXCEPT !.at = @ + close + 1, !.sect = Tok(r, 1).lit, !.sub = sub]
SectionHeader(r) ==
    IF Tok(r, 2).tok = "STRING" THEN Header(r, TRUE, Unquote(Tok(r, 2).lit), 3)
    ELSE Header(r, FALSE, << >>, 2)

\* Section and name have to be those of a field, and there are no subsections; a
\* variable without a value would be one of the kinds that are not used.
Put(r, settings) ==
    IF settings = {} THEN Fail(r)
    ELSE LET s == CHOOSE x \in settings : TRUE IN [r EXCEPT !.config = (s[1] :> s[2]) @@ @]
SetField(r, name, blank, value) ==
    IF blank \/ r.sub # << >> THEN Fail(r)
    ELSE Put(r, UNION {{<<f, v>> : v \in Setting(ConfigFormat[f], value)} :
                       f \in FieldFold(r.sect, name)})

\* name = value, and the end of the line.
Assigned(r, name, blank, value, end) ==
    IF value = Panic THEN [r EXCEPT !.result = "panicked"]
    ELSE IF Complaint(r, end) \/ Tok(r, end).tok \notin LineEnds THEN Fail(r)
    ELSE SetField([r EXCEPT !.at = @ + end], name, blank, value)
ValueTok(r, blank) == IF blank THEN << >> ELSE Unquote(Tok(r, 2).lit)
Variable(r, blank) ==
    IF r.sect = << >> \/ Complaint(r, 1) \/ ~(blank \/ Tok(r, 1).tok = "ASSIGN") THEN Fail(r)
    ELSE IF ~blank /\ (Complaint(r, 2) \/ Tok(r, 2).tok # "STRING") THEN Fail(r)
    ELSE Assigned(r, Tok(r, 0).lit, blank, ValueTok(r, blank), IF blank THEN 1 ELSE 3)

ReadLine(r) ==
    IF Complaint(r, 0) THEN Fail(r)
    ELSE IF Tok(r, 0).tok = "EOF" THEN [r EXCEPT !.result = "ok"]
    ELSE IF Tok(r, 0).tok = "EOL" THEN [r EXCEPT !.at = @ + 1]
    ELSE IF Tok(r, 0).tok = "LBRACK" THEN SectionHeader(r)
    ELSE IF Tok(r, 0).tok = "IDENT" THEN Variable(r, Tok(r, 1).tok \in LineEnds)
    ELSE Fail(r)

\* What is read, and what was set; the fields that were not keep what they had.
RECURSIVE ReadOn(_)
ReadOn(r) == IF r.result # "reading" THEN r ELSE ReadOn(ReadLine(r))
ReadInto(src) ==
    ReadOn([tokens |-> TokensFrom(<< >>, Scanner(src)), at |-> 1, sect |-> << >>,
            sub |-> << >>, config |-> << >>, result |-> "reading"])
=============================================================================
