----------------------------- MODULE RouteTree -----------------------------
(***************************************************************************)
(* The tree in which the HTTP router keeps the routes of one method        *)
(* (julienschmidt/httprouter/tree.go): a radix tree of path prefixes, with *)
(* nodes for parameters ":name" and for a catch-all "/*name" at the end.   *)
(*                                                                         *)
(* Only operators.  A path is a sequence of characters, a node a record    *)
(* with its children in it; where the code walks down and changes nodes,   *)
(* the operators return the tree with these nodes changed.                 *)
(***************************************************************************)
EXTENDS Integers, SequencesExt

Slash == "/"
Wildcards == {":", "*"}
NoHandle == << >>      \* a handle is the route it was registered with

Node == [path |-> << >>, wild |-> FALSE, type |-> "static", maxParams |-> 0,
         indices |-> << >>, children |-> << >>, handle |-> NoHandle, priority |-> 0]

\* What the code answers with a panic.
Panic == [Node EXCEPT !.type = "panic"]

AtLeast(n, m) == IF n < m THEN m ELSE n
Without(path, n) == SubSeq(path, n + 1, Len(path))

\* countParams, a byte.
CountParams(path) ==
    LET n == Cardinality({i \in DOMAIN path : path[i] \in Wildcards})
    IN  IF n >= 255 THEN 255 ELSE n

\* How long two paths are the same, and how far a path goes before a slash.
Common(s, t) == Len(LongestCommonPrefix({s, t}))
UpToSlash(path) ==
    LET i == SelectInSeq(path, LAMBDA c : c = Slash) IN IF i = 0 THEN Len(path) ELSE i - 1

IndexOfChild(n, c) == SelectInSeq(n.indices, LAMBDA d : d = c)

\* The node with another child k; if that is a panic, so is the whole.
WithChild(n, k, child) ==
    IF child = Panic THEN Panic ELSE [n EXCEPT !.children = ReplaceAt(@, k, child)]

Raised(n) == [n EXCEPT !.priority = @ + 1]
Raise(n, k) == [n EXCEPT !.children = ReplaceAt(@, k, Raised(n.children[k]))]

\* Mutant: the child moves and its index stays.
MoveToFrontAlone(n, k, to) ==
    [n EXCEPT !.children = InsertAt(RemoveAt(@, k), to, n.children[k])]

MoveToFront(n, k, to) ==
    [n EXCEPT !.children = InsertAt(RemoveAt(@, k), to, n.children[k]),
              !.indices  = InsertAt(RemoveAt(@, k), to, n.indices[k])]

\* Where child k belongs with one more priority: before those with less.
NewPosition(n, k) ==
    LET prio == n.children[k].priority + 1
        stays == SelectLastInSubSeq(n.children, 1, k - 1, LAMBDA c : c.priority >= prio)
    IN  stays + 1

\* Child k gets one more priority and moves before those with less.
IncrementChildPrio(n, k) == MoveToFront(Raise(n, k), k, NewPosition(n, k))

-----------------------------------------------------------------------------
(* registration *)

\* The rest of a path, path, is laid out from node n on: a chain of nodes, one
\* per wildcard and one per stretch between.  The wildcard begins at place i and
\* is called name.
RECURSIVE InsertChild(_, _, _, _)

InsertParam(n, numParams, path, i, name, handle) ==
    LET after == Without(path, i - 1 + Len(name))
        param == [Node EXCEPT !.type = "param", !.maxParams = numParams, !.priority = 1,
                              !.path = name]
        next == [Node EXCEPT !.maxParams = numParams - 1, !.priority = 1]
        child == IF after = << >> THEN [param EXCEPT !.handle = handle]
                 ELSE WithChild([param EXCEPT !.children = <<next>>], 1,
                                InsertChild(next, numParams - 1, after, handle))
        above == [n EXCEPT !.path = IF i > 1 THEN SubSeq(path, 1, i - 1) ELSE @,
                           !.children = <<param>>, !.wild = TRUE]
    IN  WithChild(above, 1, child)

InsertCatchAll(n, path, i, handle) ==
    LET holder == [Node EXCEPT !.type = "catchAll", !.maxParams = 1, !.priority = 1,
                               !.path = Without(path, i - 2), !.handle = handle]
        empty == [Node EXCEPT !.type = "catchAll", !.maxParams = 1, !.priority = 1,
                              !.wild = TRUE, !.children = <<holder>>]
    IN  [n EXCEPT !.path = SubSeq(path, 1, i - 2), !.children = <<empty>>, !.indices = <<Slash>>]

InsertWildcard(n, numParams, path, i, name, handle) ==
    IF \/ \E j \in 2 .. Len(name) : name[j] \in Wildcards
       \/ n.children # << >>
       \/ Len(name) < 2
    THEN Panic
    ELSE IF path[i] = ":" THEN InsertParam(n, numParams, path, i, name, handle)
    ELSE IF \/ i - 1 + Len(name) < Len(path) \/ numParams > 1
            \/ n.path # << >> /\ Last(n.path) = Slash
            \/ i = 1 \/ path[i - 1] # Slash
    THEN Panic
    ELSE InsertCatchAll(n, path, i, handle)

InsertChild(n, numParams, path, handle) ==
    LET i == SelectInSeq(path, LAMBDA c : c \in Wildcards)
    IN  IF numParams = 0 THEN [n EXCEPT !.path = path, !.handle = handle]
        ELSE InsertWildcard(n, numParams, path, i,
                            SubSeq(path, i, i - 1 + UpToSlash(Without(path, i - 1))), handle)

\* The edge to n is split after i characters.
SplitAt(n, i) ==
    LET below == {n.children[k].maxParams : k \in DOMAIN n.children}
        lower == [n EXCEPT !.path = Without(@, i), !.type = "static",
                           !.maxParams = Max({0} \cup below), !.priority = @ - 1]
    IN  [n EXCEPT !.path = SubSeq(@, 1, i), !.children = <<lower>>,
                  !.indices = <<n.path[i + 1]>>, !.handle = NoHandle, !.wild = FALSE]

\* addRoute from the node n on, whose priority is already raised: Enter looks
\* how far the path goes along the node, Descend what is below it, Follow takes
\* the child that has been moved to place p.
RECURSIVE Enter(_, _, _, _)
RECURSIVE Descend(_, _, _, _)

Along(n, numParams, i) ==
    LET kept == [n EXCEPT !.maxParams = AtLeast(@, numParams)]
    IN  IF i < Len(n.path) THEN SplitAt(kept, i) ELSE kept

Follow(n, p, numParams, rest, handle) ==
    WithChild(n, p, Enter(n.children[p], numParams, rest, handle))

NewChild(n, p, numParams, rest, handle) ==
    WithChild(n, p, InsertChild(n.children[p], numParams, rest, handle))

SameParam(wild, rest) ==
    /\ IsPrefix(wild.path, rest)
    /\ Len(wild.path) >= Len(rest) \/ rest[Len(wild.path) + 1] = Slash

ThroughParam(n, numParams, rest, handle) ==
    LET wild == [Raised(n.children[1]) EXCEPT !.maxParams = AtLeast(@, numParams)]
    IN  WithChild(n, 1, Enter(wild, numParams - 1, rest, handle))

AddedChild(n, numParams, c) ==
    [n EXCEPT !.indices = Append(@, c), !.children = Append(@, [Node EXCEPT !.maxParams = numParams])]

ToChild(n, k, numParams, rest, handle) ==
    IF k # 0
    THEN Follow(IncrementChildPrio(n, k), NewPosition(n, k), numParams, rest, handle)
    ELSE IF rest[1] \notin Wildcards THEN
         LET more == AddedChild(n, numParams, rest[1])
             last == Len(n.children) + 1
         IN  NewChild(IncrementChildPrio(more, last), NewPosition(more, last), numParams, rest, handle)
    ELSE InsertChild(n, numParams, rest, handle)

Descend(n, numParams, rest, handle) ==
    IF rest = << >> THEN
         IF n.handle # NoHandle THEN Panic ELSE [n EXCEPT !.handle = handle]
    ELSE IF n.wild THEN
         IF SameParam(n.children[1], rest)
         THEN ThroughParam(n, numParams, rest, handle) ELSE Panic
    ELSE IF n.type = "param" /\ rest[1] = Slash /\ Len(n.children) = 1 THEN
         WithChild(n, 1, Enter(Raised(n.children[1]), numParams, rest, handle))
    ELSE ToChild(n, IndexOfChild(n, rest[1]), numParams, rest, handle)

Enter(n, numParams, path, handle) ==
    LET i == Common(path, n.path)
    IN  Descend(Along(n, numParams, i), numParams, Without(path, i), handle)

AddRoute(root, path, handle) ==
    IF root.path = << >> /\ root.children = << >>
    THEN InsertChild(Raised(root), CountParams(path), path, handle)
    ELSE Enter(Raised(root), CountParams(path), path, handle)

-----------------------------------------------------------------------------
(* looking a request up *)

\* Answers of getValue: the handle with the parameters' values, or none with
\* the advice to try the path with or without a slash at its end.
Found(handle, params) == [handle |-> handle, params |-> params, tsr |-> FALSE]
Missed(tsr) == [handle |-> NoHandle, params |-> << >>, tsr |-> tsr]
LookupPanic == [handle |-> NoHandle, params |-> <<"panic">>, tsr |-> FALSE]

IsSlashLeaf(n) == n.path = <<Slash>> /\ n.handle # NoHandle

\* The slice of parameters gets its capacity at the first one.
NoParams == [values |-> << >>, cap |-> -1]
WithParam(p, n, name, value) ==
    [values |-> Append(p.values, <<name, value>>),
     cap |-> IF p.cap = -1 THEN n.maxParams ELSE p.cap]

RECURSIVE GetValue(_, _, _)

\* A parameter: params has its value, which is rest up to end.
ThroughValue(wild, rest, end, params) ==
    IF Len(params.values) > params.cap THEN LookupPanic
    ELSE IF end < Len(rest) THEN
         IF wild.children # << >> THEN GetValue(wild.children[1], Without(rest, end), params)
         ELSE Missed(Len(rest) = end + 1)
    ELSE IF wild.handle # NoHandle THEN Found(wild.handle, params.values)
    ELSE Missed(Len(wild.children) = 1 /\ IsSlashLeaf(wild.children[1]))

ThroughWild(wild, rest, end, p) ==
    IF wild.type = "param"
    THEN ThroughValue(wild, rest, end, WithParam(p, wild, Tail(wild.path), SubSeq(rest, 1, end)))
    ELSE LET all == WithParam(p, wild, Without(wild.path, 2), rest)
         IN  IF wild.type # "catchAll" \/ Len(all.values) > all.cap THEN LookupPanic
             ELSE Found(wild.handle, all.values)

\* A handle one slash further down.
LeadsToSlash(n, k) ==
    /\ k # 0
    /\ LET leaf == n.children[k]
       IN  \/ Len(leaf.path) = 1 /\ leaf.handle # NoHandle
           \/ leaf.type = "catchAll" /\ leaf.children[1].handle # NoHandle

ThroughChild(n, k, rest, p) ==
    IF k # 0 THEN GetValue(n.children[k], rest, p)
    ELSE Missed(rest = <<Slash>> /\ n.handle # NoHandle)

GetBelow(n, rest, p) ==
    IF n.wild THEN ThroughWild(n.children[1], rest, UpToSlash(rest), p)
    ELSE ThroughChild(n, IndexOfChild(n, rest[1]), rest, p)

GetValue(n, path, p) ==
    IF IsStrictPrefix(n.path, path) THEN GetBelow(n, Without(path, Len(n.path)), p)
    ELSE IF path = n.path THEN
         IF n.handle # NoHandle THEN Found(n.handle, p.values)
         ELSE Missed(LeadsToSlash(n, IndexOfChild(n, Slash)))
    ELSE Missed(\/ path = <<Slash>>
                \/ n.path = Append(path, Slash) /\ n.handle # NoHandle)

Lower(c) == IF c = "A" THEN "a" ELSE c
LowerAll(path) == [i \in DOMAIN path |-> Lower(path[i])]

Right(path) == [path |-> path, found |-> TRUE]
Wrong == [path |-> << >>, found |-> FALSE]

\* findCaseInsensitivePath: the path as it is registered for a path written
\* with other cases and, if fix, with or without a slash at its end.
RECURSIVE FindCaseInsensitive(_, _, _)

Behind(prefix, out) == [out EXCEPT !.path = prefix \o @]

FindThroughValue(wild, rest, end, fix) ==
    IF end < Len(rest) THEN
         IF wild.children # << >>
         THEN Behind(SubSeq(rest, 1, end),
                     FindCaseInsensitive(wild.children[1], Without(rest, end), fix))
         ELSE IF fix /\ Len(rest) = end + 1 THEN Right(SubSeq(rest, 1, end)) ELSE Wrong
    ELSE IF wild.handle # NoHandle THEN Right(rest)
    ELSE IF fix /\ Len(wild.children) = 1 /\ IsSlashLeaf(wild.children[1])
    THEN Right(Append(rest, Slash)) ELSE Wrong

\* The children are tried in their order.
FindThroughChildren(n, rest, fix) ==
    LET same == SelectSeq(n.children, LAMBDA child : child \in
                    {n.children[k] : k \in {j \in DOMAIN n.indices :
                                                Lower(n.indices[j]) = Lower(rest[1])}})
        tries == SelectSeq([k \in DOMAIN same |-> FindCaseInsensitive(same[k], rest, fix)],
                           LAMBDA out : out.found)
    IN  IF tries # << >> THEN Head(tries)
        ELSE IF fix /\ rest = <<Slash>> /\ n.handle # NoHandle THEN Right(<< >>) ELSE Wrong

FindBelow(n, rest, fix) ==
    IF rest = << >> THEN
         IF n.handle # NoHandle THEN Right(<< >>)
         ELSE IF fix /\ LeadsToSlash(n, IndexOfChild(n, Slash)) THEN Right(<<Slash>>) ELSE Wrong
    ELSE IF ~n.wild THEN FindThroughChildren(n, rest, fix)
    ELSE IF n.children[1].type = "catchAll" THEN Right(rest)
    ELSE FindThroughValue(n.children[1], rest, UpToSlash(rest), fix)

FindCaseInsensitive(n, path, fix) ==
    IF IsPrefix(LowerAll(n.path), LowerAll(path))
    THEN Behind(n.path, FindBelow(n, Without(path, Len(n.path)), fix))
    ELSE IF fix /\ path = <<Slash>> THEN Right(<< >>)
    ELSE IF fix /\ n.handle # NoHandle /\ LowerAll(n.path) = Append(LowerAll(path), Slash)
    THEN Right(n.path)
    ELSE Wrong
=============================================================================
