------------------------------- MODULE Router -------------------------------
(***************************************************************************)
(* The router of the HTTP server (julienschmidt/httprouter): a tree of     *)
(* routes for each method, filled before the server starts (http.go:229-   *)
(* 241), and the way each request takes through it, redirects included.    *)
(***************************************************************************)
EXTENDS RouteTree

CONSTANTS
    Own,         \* the program's own routes, in their order
    Routes,      \* what else may be registered: pairs of a method and a path
    MaxRoutes,   \* bound on the routes registered of these
    Asked,       \* the paths clients ask for
    Unclean      \* paths to be cleaned

VARIABLES
    trees,       \* a tree for each method that has routes
    routes       \* what was registered

-----------------------------------------------------------------------------
(* path.go *)

\* buf[w] = c, where the buffer is made only when it begins to differ from the
\* path.
NoBuffer == << >>
BufApp(buf, path, w, c) ==
    IF buf # NoBuffer THEN ReplaceAt(buf, w + 1, c)
    ELSE IF path[w + 1] = c THEN NoBuffer
    ELSE ReplaceAt([i \in DOMAIN path |-> IF i <= w THEN path[i] ELSE ""], w + 1, c)

\* The place of the last slash written before w, at least 1.
LastSlash(written, w) ==
    AtLeast(SelectLastInSubSeq(written, 3, w, LAMBDA c : c = Slash) - 1, 1)

\* Mutant: the place is looked for in the path that is read.
BackInPath(buf, path, w) == IF w > 1 THEN LastSlash(path, w) ELSE w

\* Back over the element before "..".
Back(buf, path, w) ==
    IF w > 1 THEN LastSlash(IF buf = NoBuffer THEN path ELSE buf, w) ELSE w

\* An element is copied, with a slash before it unless it is the first.
RECURSIVE Copy(_, _, _, _)
Copy(buf, path, w, element) ==
    IF element = << >> THEN [buf |-> buf, w |-> w]
    ELSE Copy(BufApp(buf, path, w, Head(element)), path, w + 1, Tail(element))

\* From place r of the path on, w places being written.
RECURSIVE Clean(_, _, _, _, _)
Clean(path, r, buf, w, trailing) ==
    LET left == Without(path, r)
        element == SubSeq(left, 1, UpToSlash(left))
    IN  IF left = << >> THEN
             LET out == IF trailing /\ w > 1 THEN Copy(buf, path, w, <<Slash>>)
                        ELSE [buf |-> buf, w |-> w]
             IN  SubSeq(IF out.buf = NoBuffer THEN path ELSE out.buf, 1, out.w)
        ELSE IF element = << >> THEN Clean(path, r + 1, buf, w, trailing)
        ELSE IF element = <<".">> THEN
             Clean(path, r + 1, buf, w, trailing \/ left = <<".">>)
        ELSE IF element = <<".", ".">> THEN
             Clean(path, r + 2, buf, Back(buf, path, w), trailing)
        ELSE LET copied == Copy(buf, path, w, IF w > 1 THEN <<Slash>> \o element ELSE element)
             IN  Clean(path, r + Len(element), copied.buf, copied.w, trailing)

CleanPath(path) ==
    LET trailing == Len(path) > 2 /\ Last(path) = Slash
    IN  IF path = << >> THEN <<Slash>>
        ELSE IF path[1] = Slash THEN Clean(path, 1, NoBuffer, 1, trailing)
        ELSE Clean(path, 0, [i \in 1 .. Len(path) + 1 |-> IF i = 1 THEN Slash ELSE ""], 1, trailing)

-----------------------------------------------------------------------------
(* router.go *)

\* Router.Handle.
Handled(ts, m, path) ==
    (m :> AddRoute(IF m \in DOMAIN ts THEN ts[m] ELSE Node, path, path)) @@ ts

\* A router without routes, or the one that StartServer fills.
Init ==
    \E list \in {<< >>, Own} :
        /\ routes = ToSet(list)
        /\ trees = FoldLeft(LAMBDA ts, r : Handled(ts, r[1], r[2]), << >>, list)

\* After a panic the server does not start.
Register(m, path) ==
    /\ Cardinality(routes) < MaxRoutes /\ path[1] = Slash
    /\ trees' = Handled(trees, m, path)
    /\ trees'[m] # Panic
    /\ routes' = routes \cup {<<m, path>>}

Next == \E r \in Routes : Register(r[1], r[2])

Spec == Init /\ [][Next]_<<trees, routes>>

\* ServeHTTP, as set up by New: trailing slashes and paths are redirected, and
\* other methods looked for.
Answer(kind, path, params) == [kind |-> kind, path |-> path, params |-> params]
NotFound == Answer("not found", << >>, << >>)

Fixed(found) == IF found.found THEN Answer("redirect", found.path, << >>) ELSE NotFound

Redirect(tree, path, tsr) ==
    IF path = <<Slash>> THEN NotFound
    ELSE IF tsr /\ Len(path) > 1 /\ Last(path) = Slash THEN Answer("redirect", Front(path), << >>)
    ELSE IF tsr THEN Answer("redirect", Append(path, Slash), << >>)
    ELSE Fixed(FindCaseInsensitive(tree, CleanPath(path), TRUE))

NotHere(m, path) ==
    IF \E o \in DOMAIN trees \ {m} : GetValue(trees[o], path, NoParams).handle # NoHandle
    THEN Answer("not allowed", path, << >>) ELSE NotFound

Served(looked, redirect, elsewhere, path) ==
    IF looked = LookupPanic THEN Answer("panic", path, << >>)
    ELSE IF looked.handle # NoHandle THEN Answer("handle", looked.handle, looked.params)
    ELSE IF redirect # NotFound THEN redirect
    ELSE elsewhere

ServedFrom(tree, looked, elsewhere, path) ==
    Served(looked, Redirect(tree, path, looked.tsr), elsewhere, path)

ServeHTTP(m, path) ==
    IF m \in DOMAIN trees
    THEN ServedFrom(trees[m], GetValue(trees[m], path, NoParams), NotHere(m, path), path)
    ELSE NotHere(m, path)

-----------------------------------------------------------------------------
(* what the router promises *)

\* The values of a route's parameters in a path it matches: a set of at most
\* one sequence.  ":name" stands for what comes before the next slash, at the
\* end of a route for at least one character, "/*name" for all from its slash
\* on.
RECURSIVE Matches(_, _)
Matches(route, path) ==
    LET name == SubSeq(route, 1, UpToSlash(route))
        value == SubSeq(path, 1, UpToSlash(path))
        With(n, v, others) == {<< <<n, v>> >> \o ps : ps \in others}
    IN  IF route = << >> THEN IF path = << >> THEN {<< >>} ELSE {}
        ELSE IF route[1] = ":" THEN
             IF name = route /\ value = << >> THEN {}
             ELSE With(Tail(name), value, Matches(Without(route, Len(name)), Without(path, Len(value))))
        ELSE IF path = << >> \/ route[1] # path[1] THEN {}
        ELSE IF Len(route) > 1 /\ route[2] = "*" THEN {<< <<Without(route, 2), path>> >>}
        ELSE Matches(Tail(route), Tail(path))

Matching(m, path) == {r \in routes : r[1] = m /\ Matches(r[2], path) # {}}

\* A path without empty elements, "." and "..", by its elements.
RECURSIVE Elements(_, _)
Elements(path, done) ==
    LET element == SubSeq(path, 1, UpToSlash(path))
        rest == Without(path, Len(element) + 1)
        next == IF element \in {<< >>, <<".">>} THEN done
                ELSE IF element = <<".", ".">> THEN IF done = << >> THEN done ELSE Front(done)
                ELSE Append(done, element)
    IN  IF path = << >> THEN done ELSE Elements(rest, next)

Canonical(path) ==
    LET elements == Elements(path, << >>)
        dir == \/ Len(path) > 2 /\ Last(path) = Slash
               \/ path = <<".">> \/ IsSuffix(<<Slash, ".">>, path)
        joined == FlattenSeq([i \in DOMAIN elements |-> <<Slash>> \o elements[i]])
    IN  IF elements = << >> THEN <<Slash>> ELSE IF dir THEN Append(joined, Slash) ELSE joined

Methods == {r[1] : r \in Routes \cup ToSet(Own)}

IsRight(answer, m, path) ==
    LET matching == Matching(m, path)
        elsewhere == {o \in Methods : Matching(o, path) # {}}
    IN  /\ answer.kind # "panic"
        /\ answer.kind = "handle" <=> matching # {}
        /\ answer.kind = "handle" =>
               /\ matching = {<<m, answer.path>>}
               /\ Matches(answer.path, path) = {answer.params}
        /\ answer.kind = "not allowed" => elsewhere \ {m} # {}
        /\ answer.kind = "not found" => elsewhere = {}

\* A request is handled by the one route of its method that matches its path,
\* with the values of its parameters, whatever else was registered and in
\* whatever order; if there is none it is not handled, and it is answered "not
\* allowed" only if another method has one.  No look-up panics (tree.go:319-424,
\* router.go:290-363).
RoutesAsRegistered ==
    \A m \in Methods, path \in Asked : IsRight(ServeHTTP(m, path), m, path)

\* The cleaned path is the path's elements without empty ones, "." and what
\* ".." takes back, although it is cleaned in the place it is read from as
\* long as that is possible (path.go:10-20).
CleansPaths == \A path \in Unclean : CleanPath(path) = Canonical(path)
=============================================================================
