------------------------------ MODULE MCRouter ------------------------------
(***************************************************************************)
(* The router with the program's routes, and with any three of seventeen   *)
(* that share prefixes, parameters and methods.                            *)
(***************************************************************************)
EXTENDS SequencesExt

VARIABLES trees, routes

\* Paths to the router: "connection", "status" and "send" are a, b, a, and
\* "static" is b.
JunebugRoutes == <<
    <<"GET", <<"/">> >>, <<"GET", <<"/", "b", "/", "*", "f">> >>,
    <<"GET", <<"/", "a">> >>, <<"PUT", <<"/", "a">> >>,
    <<"DELETE", <<"/", "a", "/", ":", "u">> >>, <<"GET", <<"/", "a", "/", ":", "u">> >>,
    <<"PUT", <<"/", "a", "/", ":", "u", "/", "a">> >>,
    <<"GET", <<"/", "a", "/", ":", "u", "/", "b", "/", ":", "m">> >> >>
OtherRoutes ==
    {<<"PUT", p>> : p \in {<<"/", ":", "x">>, <<"/", "a", "b">>}} \cup
    {<<"GET", p>> : p \in {
        <<"/">>, <<"/", "a">>, <<"/", "b">>, <<"/", "a", "b">>, <<"/", "a", "/">>,
        <<"/", "a", "/", "b">>, <<"/", "a", "/", ":", "x">>, <<"/", "a", ":", "x">>,
        <<"/", "a", "/", ":", "x", "/", "b">>, <<"/", "a", "/", ":", "x", "/", ":", "y">>,
        <<"/", ":", "x">>, <<"/", ":", "x", "/", "b">>,
        <<"/", ":", "x", "/", ":", "y", "/", "*", "z">>,
        <<"/", "*", "z">>, <<"/", "b", "/", "*", "y">>}}
ShortPaths == BoundedSeq({"/", "a", "b", "A"}, 3)
LongPaths == BoundedSeq({<<"/", "a">>, <<"/", "b">>}, 3)
AskedPaths ==
    {<< >>} \cup {<<"/">> \o p : p \in ShortPaths} \cup
    {FlattenSeq(p) \o slash : p \in LongPaths, slash \in {<< >>, <<"/">>}}

\* Slashes, dots and letters in any order.
UncleanPaths == BoundedSeq({"/", ".", "a"}, 5)

INSTANCE Router WITH
    Own <- JunebugRoutes, Routes <- OtherRoutes, MaxRoutes <- 3,
    Asked <- AskedPaths, Unclean <- UncleanPaths
=============================================================================
