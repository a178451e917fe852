------------------------------ MODULE MCConfig ------------------------------
(***************************************************************************)
(* Values of up to four characters of nine, some behind a letter, a space  *)
(* and a backslash, and files of up to three lines of eighteen.  The       *)
(* fields are those of the program by their initials: Db.Filename,         *)
(* Server.Port and Twitter.Consumer_Key.                                   *)
(***************************************************************************)
EXTENDS SequencesExt, Integers

VARIABLES beginning, rest

Filename == <<<<"D">>, <<"F">>>>
JunebugFormat ==
    (Filename :> "string") @@ (<<<<"S">>, <<"P">>>> :> "int")
    @@ (<<<<"T">>, <<"C", "_", "K">>>> :> "string")

Line(text, says, name, value) == [text |-> text, says |-> says, name |-> name, value |-> value]
SectionLine(text, name) == Line(text, "section", name, << >>)
SetLine(text, name, value) == Line(text, "set", name, value)
OtherLine(text, says) == Line(text, says, << >>, << >>)

SomeLines ==
    {SectionLine(<<"[", "d", "]">>, <<"D">>),
     SectionLine(<<" ", "[", "S", " ", "]", "\r">>, <<"S">>),
     SectionLine(<<"[", "t", "]", ";", "[">>, <<"T">>),
     SectionLine(<<"[", "n", "]">>, <<"n">>),
     SectionLine(<<"[", "d", " ", "\"", "\\", "\"", "]", "\"", "]">>, <<"d", "\"">>),
     SetLine(<<"f", "=", "8">>, <<"F">>, <<"8">>),
     SetLine(<<"F", " ", "=", "a", "#", "=">>, <<"F">>, <<"a">>),
     SetLine(<<"p", "=", "8", " ", "\\", "\n">>, <<"P">>, <<"8", " ">>),
     SetLine(<<"p", "=", "0", "x", "1", "F">>, <<"P">>, <<"0", "x", "1", "F">>),
     SetLine(<<"p", "=", "\"", "-", "0", "8", "\\", "n", "\"", ";">>, <<"P">>, <<"-", "0", "8", "\n">>),
     SetLine(<<"p", "=", "8", "a">>, <<"P">>, <<"8", "a">>),
     SetLine(<<"p", "=">>, <<"P">>, << >>),
     SetLine(<<"C", "-", "k", "=", "\\", "\r", "\n", "=">>, <<"C", "_", "K">>, <<"=">>),
     OtherLine(<<" ", "#", "f", "=">>, "nothing"),
     OtherLine(<<"f">>, "error"),
     OtherLine(<<"[", "d", " ", "\"", "\"", "]">>, "error"),
     OtherLine(<<"f", " ", "f", "=", "a">>, "error"),
     OtherLine(<<"[", "d", "]", "f", "=", "a">>, "error")}

SomeNumbers ==
    (<<"8">> :> 8) @@ (<<"8", " ">> :> 8) @@ (<<"0", "x", "1", "F">> :> 31)
    @@ (<<"-", "0", "8", "\n">> :> -8)

INSTANCE Config WITH
    ConfigFormat <- JunebugFormat,
    Before <- <<"[", "d", "]", "\n", "f", "=">>, Field <- Filename,
    Beginnings <- {<< >>, <<"a", " ", "\\">>},
    Chars <- {"a", "n", " ", "\"", "\\", "\n", "\r", ";", "NUL"}, MaxChars <- 4,
    Lines <- SomeLines, MaxLines <- 3, Numbers <- SomeNumbers
=============================================================================
