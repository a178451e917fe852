-------------------------- MODULE DispatcherProofs --------------------------
(***************************************************************************)
(* Module DispatcherAlone, proved for every number of senders and of       *)
(* receivers, every set of messages and every mask.                        *)
(***************************************************************************)
EXTENDS DispatcherAlone, QueueLemmas, FiniteSetTheorems

\* A worker has a job while it is busy and only then.
BusyHasJob == \A w \in Workers : wpc[w] = "busy" <=> job[w] # NoJob

\* The types depend on the order of the queues (the position of an insert) and
\* on BusyHasJob (what a worker finishes is an id).
IInvTypes == TypeOK /\ QueuesWellFormed /\ BusyHasJob

LEMMA SendersAndReceivers ==
    /\ Directions = {"outgoing", "incoming"}
    /\ \A d \in Directions : WorkersOf(d) \subseteq Workers /\ WorkersOf(d) # {}
    /\ \A d, e \in Directions : d # e => WorkersOf(d) \cap WorkersOf(e) = {}
BY WorkersAssumption DEF Directions, WorkersOf, Workers

\* The echo of the message a sender has is a message of the inbox.
LEMMA EchoIsId ==
    ASSUME NEW w, Echoing("outgoing", w)
    PROVE  job[w] \in DOMAIN EchoOf /\ EchoOf[job[w]] \in Id /\ EchoOf[job[w]] \notin InIds
BY EchoAssumption DEF Echoing, Echoes

\* Of the steps of a worker only the post of an echo touches a channel other
\* than the one it announces itself on.
LEMMA WorkerSteps ==
    ASSUME NEW d \in Directions, NEW w \in WorkersOf(d), WorkerStep(d, w)
    PROVE  \/ WorkerBegin(w) \/ Announce(d, w) \/ Finish(d, w) \/ WorkerExit(w)
           \/ d = "outgoing" /\ w \in Senders /\ Echoing("outgoing", w) /\ FinishWithEcho(w)
BY DEF WorkerStep, Echoing, WorkersOf

LEMMA TypesInit == Init => IInvTypes
<1>. SUFFICES ASSUME Init PROVE IInvTypes
  OBVIOUS
<1>1. EmptyQueue \in [high : Seq(Id), low : Seq(Id)]
  BY DEF EmptyQueue
<1>2. TypeOK
  <2>1. <<>> \in Seq(Workers) /\ <<>> \in Seq(Id)
    OBVIOUS
  <2>2. /\ queue \in [Directions -> [high : Seq(Id), low : Seq(Id)]]
        /\ available \in [Directions -> Seq(Workers)]
        /\ ready \in [Directions -> Seq(Workers)]
        /\ chIncoming \in Seq(Id)
    BY <1>1, <2>1 DEF Init
  <2>3. job \in [Workers -> Id \cup {NoJob}]
    BY DEF Init
  <2>4. wpc \in [Workers -> {"new", "announce", "idle", "busy", "exited"}]
    BY DEF Init
  <2>5. /\ posted \in [Directions -> SUBSET Id]
        /\ finished \in [Directions -> SUBSET Id]
    BY DEF Init
  <2>6. /\ dpc \in {"new", "select", "match", "exited"}
        /\ stop \in {"none", "closed", "waiting", "returned"}
        /\ wg \in Int
        /\ offered \subseteq Id
        /\ late \subseteq Workers \cup {"dispatcher"}
    BY DEF Init
  <2>7. done \in BOOLEAN
    BY Zenon DEF Init
  <2>. QED
    BY <2>2, <2>3, <2>4, <2>5, <2>6, <2>7 DEF TypeOK
<1>3. QueuesWellFormed
  BY EmptyIsWellFormed DEF Init, QueuesWellFormed
<1>. QED
  BY <1>2, <1>3 DEF IInvTypes, Init, BusyHasJob

LEMMA TypesStep == IInvTypes /\ [Next]_vars => IInvTypes'
<1>. SUFFICES ASSUME IInvTypes, [Next]_vars PROVE IInvTypes'
  OBVIOUS
<1>. USE DEF dispatcherVars, channelVars, workerVars, stopVars, historyVars
<1>0. TypeOK /\ QueuesWellFormed /\ BusyHasJob
  BY DEF IInvTypes
<1>1. CASE DispatcherBegin
  BY <1>0, <1>1 DEF DispatcherBegin, WaitGroupAdd, TypeOK, QueuesWellFormed, BusyHasJob, IInvTypes
<1>2. ASSUME NEW id \in offered, ReceiveOutgoing(id) PROVE IInvTypes'
  <2>1. id \in Id /\ "outgoing" \in Directions
    BY <1>0 DEF TypeOK, Directions
  <2>2. WellFormedQueue(Insert(queue["outgoing"], id))
    BY <1>0, <2>1, InsertKeepsWellFormed DEF QueuesWellFormed
  <2>3. QueuesWellFormed'
    BY <1>0, <1>2, <2>2 DEF ReceiveOutgoing, QueuesWellFormed, TypeOK
  <2>4. TypeOK'
    BY <1>0, <1>2, <2>2 DEF ReceiveOutgoing, TypeOK, WellFormedQueue
  <2>. QED
    BY <1>0, <1>2, <2>3, <2>4 DEF IInvTypes, BusyHasJob, ReceiveOutgoing
<1>3. CASE ReceiveIncoming
  <2>1. /\ Head(chIncoming) \in Id /\ Tail(chIncoming) \in Seq(Id)
        /\ "incoming" \in Directions
    BY <1>0, <1>3 DEF TypeOK, Directions, ReceiveIncoming
  <2>2. WellFormedQueue(Insert(queue["incoming"], Head(chIncoming)))
    BY <1>0, <2>1, InsertKeepsWellFormed DEF QueuesWellFormed
  <2>3. QueuesWellFormed'
    BY <1>0, <1>3, <2>2 DEF ReceiveIncoming, QueuesWellFormed, TypeOK
  <2>4. TypeOK'
    BY <1>0, <1>3, <2>1, <2>2 DEF ReceiveIncoming, TypeOK, WellFormedQueue
  <2>. QED
    BY <1>0, <1>3, <2>3, <2>4 DEF IInvTypes, BusyHasJob, ReceiveIncoming
<1>4. ASSUME NEW d \in Directions, ReceiveReady(d) PROVE IInvTypes'
  <2>1. /\ ready[d] \in Seq(Workers) /\ ready[d] # <<>> /\ available[d] \in Seq(Workers)
    BY <1>0, <1>4 DEF TypeOK, ReceiveReady
  <2>2. /\ Tail(ready[d]) \in Seq(Workers)
        /\ Append(available[d], Head(ready[d])) \in Seq(Workers)
    BY <2>1
  <2>. QED
    BY <1>0, <1>4, <2>2 DEF ReceiveReady, TypeOK, QueuesWellFormed, BusyHasJob, IInvTypes
<1>5. ASSUME NEW d \in Directions, GiveJob(d) PROVE IInvTypes'
  <2>1. /\ available[d] \in Seq(Workers) /\ available[d] # <<>>
        /\ QueueLen(queue[d]) > 0 /\ WellFormedQueue(queue[d])
    BY <1>0, <1>5 DEF TypeOK, GiveJob, Matching, Pairable, QueuesWellFormed
  <2>2. /\ Tail(available[d]) \in Seq(Workers) /\ Head(available[d]) \in Workers
    BY <2>1
  <2>3. WellFormedQueue(PopRest(queue[d])) /\ PopId(queue[d]) \in QueueIds(queue[d])
    BY <2>1, PopTakesSmallest
  <2>4. PopId(queue[d]) \in Id
    BY <2>1, <2>3 DEF QueueIds, Elements, WellFormedQueue
  <2>5. QueuesWellFormed'
    BY <1>0, <1>5, <2>3 DEF GiveJob, QueuesWellFormed, TypeOK
  <2>6. TypeOK'
    BY <1>0, <1>5, <2>2, <2>3, <2>4 DEF GiveJob, TypeOK, WellFormedQueue
  <2>7. BusyHasJob'
    BY <1>0, <1>5, <2>2, <2>4, NoJobAssumption DEF GiveJob, BusyHasJob, TypeOK
  <2>. QED
    BY <2>5, <2>6, <2>7 DEF IInvTypes
<1>6. CASE MatchEnd
  BY <1>0, <1>6 DEF MatchEnd, TypeOK, QueuesWellFormed, BusyHasJob, IInvTypes
<1>7. CASE DispatcherExit
  BY <1>0, <1>7 DEF DispatcherExit, WaitGroupDone, TypeOK, QueuesWellFormed, BusyHasJob, IInvTypes
<1>8. ASSUME NEW d \in Directions, NEW w \in WorkersOf(d), WorkerStep(d, w)
      PROVE  IInvTypes'
  <2>0. w \in Workers
    BY SendersAndReceivers
  <2>1. CASE WorkerBegin(w)
    BY <1>0, <2>0, <2>1 DEF WorkerBegin, WaitGroupAdd, TypeOK, QueuesWellFormed, BusyHasJob, IInvTypes
  <2>2. CASE Announce(d, w)
    BY <1>0, <2>0, <2>2 DEF Announce, TypeOK, QueuesWellFormed, BusyHasJob, IInvTypes
  <2>3. CASE Finish(d, w)
    <3>1. job[w] \in Id
      BY <1>0, <2>0, <2>3 DEF TypeOK, BusyHasJob, Finish, FinishJob
    <3>. QED
      BY <1>0, <2>0, <2>3, <3>1 DEF Finish, FinishJob, TypeOK, QueuesWellFormed, BusyHasJob, IInvTypes
  <2>4. CASE WorkerExit(w)
    BY <1>0, <2>0, <2>4 DEF WorkerExit, WaitGroupDone, TypeOK, QueuesWellFormed, BusyHasJob, IInvTypes
  <2>5. ASSUME Echoing("outgoing", w), FinishWithEcho(w), d = "outgoing" PROVE IInvTypes'
    <3>1. job[w] \in Id /\ EchoOf[job[w]] \in Id /\ chIncoming \in Seq(Id)
      BY <1>0, <2>0, <2>5, EchoIsId DEF TypeOK, BusyHasJob, FinishWithEcho, FinishJob
    <3>2. Append(chIncoming, EchoOf[job[w]]) \in Seq(Id)
      BY <3>1
    <3>3. TypeOK'
      BY <1>0, <2>0, <2>5, <3>1, <3>2 DEF FinishWithEcho, FinishJob, SendIncoming, TypeOK
    <3>4. QueuesWellFormed' /\ BusyHasJob'
      BY <1>0, <2>0, <2>5 DEF FinishWithEcho, FinishJob, TypeOK, QueuesWellFormed, BusyHasJob
    <3>. QED
      BY <3>3, <3>4 DEF IInvTypes
  <2>. QED
    BY <1>8, <2>1, <2>2, <2>3, <2>4, <2>5, WorkerSteps
<1>9. ASSUME NEW id \in OutIds, PostOutgoing(id) PROVE IInvTypes'
  BY <1>0, <1>9, IdsAssumption
  DEF PostOutgoing, OfferOutgoing, TypeOK, QueuesWellFormed, BusyHasJob, IInvTypes
<1>10. ASSUME NEW id \in InIds, PostIncoming(id) PROVE IInvTypes'
  <2>1. chIncoming \in Seq(Id) /\ id \in Id
    BY <1>0, IdsAssumption DEF TypeOK
  <2>2. Append(chIncoming, id) \in Seq(Id)
    BY <2>1
  <2>. QED
    BY <1>0, <1>10, <2>1, <2>2
    DEF PostIncoming, SendIncoming, TypeOK, QueuesWellFormed, BusyHasJob, IInvTypes
<1>11. CASE StopClose
  BY <1>0, <1>11 DEF StopClose, TypeOK, QueuesWellFormed, BusyHasJob, IInvTypes
<1>12. CASE StopWait
  BY <1>0, <1>12 DEF StopWait, NotBegun, TypeOK, QueuesWellFormed, BusyHasJob, IInvTypes
<1>13. CASE UNCHANGED vars
  BY <1>0, <1>13 DEF vars, TypeOK, QueuesWellFormed, BusyHasJob, IInvTypes
<1>. QED
  BY <1>1, <1>2, <1>3, <1>4, <1>5, <1>6, <1>7, <1>8, <1>9, <1>10, <1>11, <1>12, <1>13
  DEF Next, Run, DispatcherStep, Post
\* The values of the variables, whatever is posted and however the goroutines
\* interleave, before, during and after a Stop.
THEOREM TypeCorrect == Spec => []TypeOK
<1>1. IInvTypes => TypeOK
  BY DEF IInvTypes
<1>. QED
  BY TypesInit, TypesStep, <1>1, PTL DEF Spec

\* Both queues of the dispatcher stay sorted and split at the mask.
THEOREM DispatcherQueuesWellFormed == Spec => []QueuesWellFormed
<1>1. IInvTypes => QueuesWellFormed
  BY DEF IInvTypes
<1>. QED
  BY TypesInit, TypesStep, <1>1, PTL DEF Spec

-----------------------------------------------------------------------------
(* Sequences without repetitions, for the announcements. *)

LEMMA MoveHead ==
    ASSUME NEW S, NEW a \in Seq(S), NEW r \in Seq(S), r # <<>>
    PROVE  Append(a, Head(r)) \o Tail(r) = a \o r
<1>. DEFINE x == Append(a, Head(r)) \o Tail(r)
            y == a \o r
<1>1. /\ Len(a) \in Nat /\ Len(r) \in Nat /\ Len(r) > 0
      /\ Append(a, Head(r)) \in Seq(S) /\ Tail(r) \in Seq(S)
      /\ Len(Append(a, Head(r))) = Len(a) + 1 /\ Len(Tail(r)) = Len(r) - 1
  OBVIOUS
<1>2. x \in Seq(S) /\ y \in Seq(S) /\ Len(x) = Len(y) /\ Len(y) = Len(a) + Len(r)
  BY <1>1
<1>3. ASSUME NEW i \in 1..Len(y) PROVE x[i] = y[i]
  <2>1. CASE i <= Len(a)
    BY <2>1, <1>1, <1>2
  <2>2. CASE i = Len(a) + 1
    BY <2>2, <1>1, <1>2
  <2>3. CASE i > Len(a) + 1
    <3>1. x[i] = Tail(r)[i - (Len(a) + 1)]
      BY <2>3, <1>1, <1>2
    <3>2. y[i] = r[i - Len(a)]
      BY <2>3, <1>1, <1>2
    <3>3. Tail(r)[i - (Len(a) + 1)] = r[i - Len(a)]
      BY <2>3, <1>1, <1>2
    <3>. QED
      BY <3>1, <3>2, <3>3
  <2>. QED
    BY <2>1, <2>2, <2>3, <1>1, <1>2
<1>. HIDE DEF x, y
<1>4. x = y
  BY <1>2, <1>3, SeqEqual
<1>. QED
  BY <1>4 DEF x, y

\* The channel's part of the announcements is no longer than all of them.
LEMMA ConcatIsLonger ==
    ASSUME NEW S, NEW a \in Seq(S), NEW r \in Seq(S)
    PROVE  /\ a \o r \in Seq(S) /\ Len(r) <= Len(a \o r)
           /\ Len(r) \in Nat /\ Len(a \o r) \in Nat
OBVIOUS

\* A worker taken from the slice is the head of the announcements.
LEMMA HeadOfConcat ==
    ASSUME NEW S, NEW a \in Seq(S), NEW r \in Seq(S), a # <<>>
    PROVE  /\ a \o r \in Seq(S) /\ a \o r # <<>>
           /\ 1 \in DOMAIN (a \o r) /\ (a \o r)[1] = Head(a)
           /\ Head(a \o r) = Head(a) /\ Tail(a \o r) = Tail(a) \o r
<1>1. /\ a \o r \in Seq(S) /\ Len(a \o r) = Len(a) + Len(r)
      /\ Len(a) \in Nat /\ Len(r) \in Nat /\ Len(a) > 0
  OBVIOUS
<1>2. 1 \in DOMAIN (a \o r)
  <2>1. DOMAIN (a \o r) = 1..(Len(a) + Len(r))
    BY <1>1
  <2>. QED
    BY <2>1, <1>1
<1>3. (a \o r)[1] = a[1] /\ a[1] = Head(a)
  BY <1>1
<1>4. a \o r # <<>> /\ Head(a \o r) = (a \o r)[1]
  BY <1>1
<1>5. Tail(a \o r) = Tail(a) \o r
  <2>. DEFINE x == Tail(a \o r)
              y == Tail(a) \o r
  <2>1. /\ Tail(a) \in Seq(S) /\ Len(Tail(a)) = Len(a) - 1
        /\ x \in Seq(S) /\ Len(x) = Len(a) + Len(r) - 1
    BY <1>1, <1>4
  <2>2. y \in Seq(S) /\ Len(y) = Len(x)
    BY <1>1, <2>1
  <2>3. ASSUME NEW i \in 1..Len(x) PROVE x[i] = y[i]
    <3>1. x[i] = (a \o r)[i + 1]
      BY <1>1, <1>4, <2>1
    <3>2. CASE i <= Len(a) - 1
      <4>1. (a \o r)[i + 1] = a[i + 1]
        BY <1>1, <2>1, <3>2
      <4>2. y[i] = Tail(a)[i]
        BY <1>1, <2>1, <3>2
      <4>3. Tail(a)[i] = a[i + 1]
        BY <1>1, <2>1, <3>2
      <4>. QED
        BY <3>1, <4>1, <4>2, <4>3
    <3>3. CASE i > Len(a) - 1
      <4>1. (a \o r)[i + 1] = r[i + 1 - Len(a)]
        BY <1>1, <2>1, <3>3
      <4>2. y[i] = r[i - (Len(a) - 1)]
        BY <1>1, <2>1, <3>3
      <4>3. i + 1 - Len(a) = i - (Len(a) - 1)
        BY <1>1, <2>1
      <4>. QED
        BY <3>1, <4>1, <4>2, <4>3
    <3>. QED
      BY <1>1, <2>1, <3>2, <3>3
  <2>. HIDE DEF x, y
  <2>4. x = y
    BY <2>1, <2>2, <2>3, SeqEqual
  <2>. QED
    BY <2>4 DEF x, y
<1>. QED
  BY <1>1, <1>2, <1>3, <1>4, <1>5

LEMMA TailOfConcat ==
    ASSUME NEW S, NEW a \in Seq(S), NEW r \in Seq(S), a # <<>>
    PROVE  Tail(a \o r) = Tail(a) \o r
BY HeadOfConcat

\* A worker that announces itself goes behind the announcements.
LEMMA ConcatAppend ==
    ASSUME NEW S, NEW a \in Seq(S), NEW r \in Seq(S), NEW e \in S
    PROVE  a \o Append(r, e) = Append(a \o r, e)
<1>. DEFINE x == a \o Append(r, e)
            y == Append(a \o r, e)
<1>1. /\ Len(a) \in Nat /\ Len(r) \in Nat
      /\ Append(r, e) \in Seq(S) /\ Len(Append(r, e)) = Len(r) + 1
      /\ a \o r \in Seq(S) /\ Len(a \o r) = Len(a) + Len(r)
  OBVIOUS
<1>2. /\ x \in Seq(S) /\ Len(x) = Len(a) + Len(r) + 1
      /\ y \in Seq(S) /\ Len(y) = Len(a) + Len(r) + 1
  BY <1>1
<1>3. ASSUME NEW i \in 1..Len(x) PROVE x[i] = y[i]
  <2>1. CASE i <= Len(a)
    <3>1. x[i] = a[i] /\ y[i] = (a \o r)[i]
      BY <1>1, <1>2, <2>1
    <3>. QED
      BY <1>1, <2>1, <3>1
  <2>2. CASE i > Len(a) /\ i <= Len(a) + Len(r)
    <3>1. x[i] = Append(r, e)[i - Len(a)]
      BY <1>1, <1>2, <2>2
    <3>2. y[i] = (a \o r)[i]
      BY <1>1, <1>2, <2>2
    <3>3. Append(r, e)[i - Len(a)] = r[i - Len(a)]
      BY <1>1, <2>2
    <3>4. (a \o r)[i] = r[i - Len(a)]
      BY <1>1, <2>2
    <3>. QED
      BY <3>1, <3>2, <3>3, <3>4
  <2>3. CASE i = Len(a) + Len(r) + 1
    <3>1. x[i] = Append(r, e)[Len(r) + 1]
      BY <1>1, <1>2, <2>3
    <3>2. y[i] = e
      BY <1>1, <1>2, <2>3
    <3>. QED
      BY <1>1, <3>1, <3>2
  <2>. QED
    BY <1>1, <1>2, <2>1, <2>2, <2>3
<1>. HIDE DEF x, y
<1>4. x = y
  BY <1>2, <1>3, SeqEqual
<1>. QED
  BY <1>4 DEF x, y

LEMMA InjectiveTail ==
    ASSUME NEW S, NEW s \in Seq(S), s # <<>>, Injective(s)
    PROVE  Injective(Tail(s)) /\ Elements(Tail(s)) = Elements(s) \ {Head(s)}
<1>1. /\ Len(s) \in Nat /\ Len(s) > 0 /\ DOMAIN s = 1..Len(s) /\ Head(s) = s[1]
      /\ DOMAIN Tail(s) = 1..(Len(s) - 1)
      /\ \A i \in 1..(Len(s) - 1) : Tail(s)[i] = s[i + 1]
  OBVIOUS
<1>2. Injective(Tail(s))
  BY <1>1 DEF Injective
<1>3. ASSUME NEW i \in DOMAIN Tail(s) PROVE Tail(s)[i] \in Elements(s) \ {Head(s)}
  <2>1. i + 1 \in DOMAIN s /\ i + 1 # 1 /\ 1 \in DOMAIN s
    BY <1>1
  <2>. QED
    BY <2>1, <1>1 DEF Elements, Injective
<1>4. ASSUME NEW i \in DOMAIN s, s[i] # Head(s) PROVE s[i] \in Elements(Tail(s))
  <2>1. i - 1 \in DOMAIN Tail(s) /\ Tail(s)[i - 1] = s[i]
    BY <1>1, <1>4
  <2>. QED
    BY <2>1 DEF Elements
<1>. QED
  BY <1>2, <1>3, <1>4 DEF Elements

LEMMA InjectiveAppend ==
    ASSUME NEW S, NEW s \in Seq(S), Injective(s), NEW x \in S
    PROVE  /\ Elements(Append(s, x)) = Elements(s) \cup {x}
           /\ x \notin Elements(s) => Injective(Append(s, x))
<1>1. /\ Len(s) \in Nat /\ DOMAIN s = 1..Len(s)
      /\ DOMAIN Append(s, x) = 1..(Len(s) + 1)
      /\ \A i \in 1..Len(s) : Append(s, x)[i] = s[i]
      /\ Append(s, x)[Len(s) + 1] = x
  OBVIOUS
<1>2. Elements(Append(s, x)) \subseteq Elements(s) \cup {x}
  <2>. SUFFICES ASSUME NEW i \in 1..(Len(s) + 1)
                PROVE  Append(s, x)[i] \in Elements(s) \cup {x}
    BY <1>1 DEF Elements
  <2>1. CASE i = Len(s) + 1
    BY <2>1, <1>1
  <2>2. CASE i # Len(s) + 1
    <3>1. i \in DOMAIN s /\ Append(s, x)[i] = s[i]
      BY <2>2, <1>1
    <3>. QED
      BY <3>1 DEF Elements
  <2>. QED
    BY <2>1, <2>2
<1>3. x \in Elements(Append(s, x))
  <2>1. Len(s) + 1 \in DOMAIN Append(s, x)
    BY <1>1
  <2>. QED
    BY <2>1, <1>1 DEF Elements
<1>4. ASSUME NEW i \in DOMAIN s PROVE s[i] \in Elements(Append(s, x))
  <2>1. i \in DOMAIN Append(s, x) /\ Append(s, x)[i] = s[i]
    BY <1>1
  <2>. QED
    BY <2>1 DEF Elements
<1>5. ASSUME x \notin Elements(s),
             NEW i \in DOMAIN Append(s, x), NEW j \in DOMAIN Append(s, x),
             Append(s, x)[i] = Append(s, x)[j]
      PROVE  i = j
  <2>1. \A k \in DOMAIN s : s[k] # x
    BY <1>5 DEF Elements
  <2>2. \A k, l \in DOMAIN s : s[k] = s[l] => k = l
    BY DEF Injective
  <2>3. CASE i = Len(s) + 1 /\ j = Len(s) + 1
    BY <2>3
  <2>4. CASE i = Len(s) + 1 /\ j # Len(s) + 1
    BY <2>1, <2>4, <1>1, <1>5
  <2>5. CASE i # Len(s) + 1 /\ j = Len(s) + 1
    BY <2>1, <2>5, <1>1, <1>5
  <2>6. CASE i # Len(s) + 1 /\ j # Len(s) + 1
    <3>1. /\ i \in DOMAIN s /\ j \in DOMAIN s
          /\ Append(s, x)[i] = s[i] /\ Append(s, x)[j] = s[j]
      BY <2>6, <1>1
    <3>. QED
      BY <3>1, <2>2, <1>5
  <2>. QED
    BY <2>3, <2>4, <2>5, <2>6
<1>6. Elements(Append(s, x)) = Elements(s) \cup {x}
  BY <1>2, <1>3, <1>4 DEF Elements
<1>7. x \notin Elements(s) => Injective(Append(s, x))
  BY <1>5 DEF Injective
<1>. QED
  BY <1>6, <1>7

\* A sequence without repetitions is no longer than the set it draws from.
LEMMA InjectiveIsShort ==
    ASSUME NEW S, IsFiniteSet(S), NEW s \in Seq(S), Injective(s)
    PROVE  Len(s) <= Cardinality(S)
<1>1. s \in Injection(1..Len(s), S)
  BY DEF Injective, Injection, IsInjective
<1>2. Cardinality(1..Len(s)) = Len(s)
  <2>1. 1 \in Int /\ Len(s) \in Int /\ (1 > Len(s) => Len(s) = 0)
    OBVIOUS
  <2>. QED
    BY <2>1, FS_Interval
<1>. QED
  BY <1>1, <1>2, FS_Injection
-----------------------------------------------------------------------------
(* The announcements *)

\* OneTokenPerWorker for one direction, of given announcements and workers.
TokensFit(tokens, pc, d) ==
    /\ Injective(tokens)
    /\ Elements(tokens) \subseteq WorkersOf(d)
    /\ \A w \in WorkersOf(d) :
          /\ w \in Elements(tokens) => pc[w] \in {"idle", "exited"}
          /\ pc[w] = "idle" => w \in Elements(tokens)

ExitedOnlyWhenDone == \A w \in Workers : wpc[w] = "exited" => done

\* The inductive invariant: with the types, every worker's one announcement,
\* and that nobody leaves before Stop.
IInvTokens == IInvTypes /\ OneTokenPerWorker /\ ExitedOnlyWhenDone

LEMMA OneTokenIsTokensFit ==
    OneTokenPerWorker <=> \A d \in Directions : TokensFit(Tokens(d), wpc, d)
BY DEF OneTokenPerWorker, TokensFit

\* Nothing changes for a direction whose announcements stay and whose workers
\* neither reach nor leave their select.
LEMMA TokensFitKept ==
    ASSUME NEW tokens, NEW pc, NEW pc2, NEW d, TokensFit(tokens, pc, d),
           \A w \in WorkersOf(d) :
               /\ pc2[w] = "idle" => pc[w] = "idle"
               /\ pc[w] = "idle" => pc2[w] \in {"idle", "exited"}
               /\ pc[w] = "exited" => pc2[w] = "exited"
    PROVE  TokensFit(tokens, pc2, d)
BY DEF TokensFit

LEMMA TokensInit == Init => IInvTokens
<1>. SUFFICES ASSUME Init PROVE OneTokenPerWorker /\ ExitedOnlyWhenDone
  BY TypesInit DEF IInvTokens
<1>1. ASSUME NEW d \in Directions PROVE TokensFit(Tokens(d), wpc, d)
  <2>1. Tokens(d) = <<>>
    BY DEF Init, Tokens
  <2>2. \A w \in WorkersOf(d) : wpc[w] = "new"
    BY SendersAndReceivers DEF Init
  <2>. QED
    BY <2>1, <2>2 DEF TokensFit, Injective, Elements
<1>. QED
  BY <1>1, OneTokenIsTokensFit DEF Init, ExitedOnlyWhenDone

LEMMA TokensStep == IInvTokens /\ [Next]_vars => IInvTokens'
<1>. SUFFICES ASSUME IInvTokens, [Next]_vars
              PROVE  OneTokenPerWorker' /\ ExitedOnlyWhenDone'
  BY TypesStep DEF IInvTokens
<1>. USE DEF dispatcherVars, channelVars, workerVars, stopVars, historyVars
<1>0. /\ TypeOK /\ OneTokenPerWorker /\ ExitedOnlyWhenDone
      /\ wpc \in [Workers -> {"new", "announce", "idle", "busy", "exited"}]
      /\ available \in [Directions -> Seq(Workers)]
      /\ ready \in [Directions -> Seq(Workers)]
      /\ \A d \in Directions : TokensFit(Tokens(d), wpc, d)
  BY OneTokenIsTokensFit DEF IInvTokens, IInvTypes, TypeOK
<1>. SUFFICES /\ \A e \in Directions : TokensFit(Tokens(e)', wpc', e)
              /\ ExitedOnlyWhenDone'
  BY DEF OneTokenPerWorker, TokensFit
<1>. DEFINE Goal == /\ \A e \in Directions : TokensFit(Tokens(e)', wpc', e)
                    /\ ExitedOnlyWhenDone'
<1>1. CASE UNCHANGED <<available, ready, wpc, done>>
  <2>1. \A e \in Directions : Tokens(e)' = Tokens(e)
    BY <1>1 DEF Tokens
  <2>. QED
    BY <1>0, <1>1, <2>1 DEF ExitedOnlyWhenDone
<1>2. CASE StopClose
  <2>1. \A e \in Directions : Tokens(e)' = Tokens(e)
    BY <1>2 DEF StopClose, Tokens
  <2>. QED
    BY <1>0, <1>2, <2>1 DEF ExitedOnlyWhenDone, StopClose
<1>3. ASSUME NEW d \in Directions, ReceiveReady(d) PROVE Goal
  <2>1. ASSUME NEW e \in Directions PROVE Tokens(e)' = Tokens(e)
    <3>1. CASE e = d
      <4>1. ready[d] \in Seq(Workers) /\ ready[d] # <<>> /\ available[d] \in Seq(Workers)
        BY <1>0, <1>3 DEF ReceiveReady
      <4>2. Tokens(d)' = Append(available[d], Head(ready[d])) \o Tail(ready[d])
        BY <1>0, <1>3 DEF ReceiveReady, Tokens
      <4>. QED
        BY <3>1, <4>1, <4>2, MoveHead DEF Tokens
    <3>2. CASE e # d
      BY <1>0, <1>3, <3>2 DEF ReceiveReady, Tokens
    <3>. QED
      BY <3>1, <3>2
  <2>. QED
    BY <1>0, <1>3, <2>1 DEF ReceiveReady, ExitedOnlyWhenDone
<1>4. ASSUME NEW d \in Directions, GiveJob(d) PROVE Goal
  <2>. DEFINE w == Head(available[d])
  <2>1. /\ available[d] \in Seq(Workers) /\ available[d] # <<>> /\ ready[d] \in Seq(Workers)
        /\ Tokens(d) \in Seq(Workers) /\ Tokens(d) # <<>>
        /\ TokensFit(Tokens(d), wpc, d)
    BY <1>0, <1>4, HeadOfConcat DEF GiveJob, Matching, Pairable, Tokens
  <2>2. Head(Tokens(d)) = w /\ Tail(Tokens(d)) = Tail(available[d]) \o ready[d]
    <3>1. /\ available[d] \in Seq(Workers) /\ available[d] # <<>>
          /\ ready[d] \in Seq(Workers)
      BY <2>1
    <3>2. Head(available[d] \o ready[d]) = Head(available[d])
      BY <3>1, HeadOfConcat, ZenonT(30)
    <3>3. Tail(available[d] \o ready[d]) = Tail(available[d]) \o ready[d]
      BY <3>1, TailOfConcat
    <3>. QED
      BY <3>2, <3>3 DEF Tokens
  <2>3. Tokens(d)' = Tail(Tokens(d))
    BY <1>0, <1>4, <2>2 DEF GiveJob, Tokens
  <2>4. /\ Injective(Tail(Tokens(d)))
        /\ Elements(Tail(Tokens(d))) = Elements(Tokens(d)) \ {w}
    BY <2>1, <2>2, InjectiveTail DEF TokensFit
  <2>5. w \in Elements(Tokens(d)) /\ w \in WorkersOf(d) /\ w \in Workers
    <3>1. 1 \in DOMAIN Tokens(d) /\ Tokens(d)[1] = w
      BY <2>1, HeadOfConcat, ZenonT(30) DEF Tokens
    <3>. QED
      BY <3>1, <2>1, SendersAndReceivers DEF TokensFit, Elements
  <2>6. wpc' = [wpc EXCEPT ![w] = "busy"] /\ done' = done
    BY <1>4 DEF GiveJob
  <2>7. TokensFit(Tokens(d)', wpc', d)
    <3>1. \A v \in WorkersOf(d) : wpc'[v] = IF v = w THEN "busy" ELSE wpc[v]
      BY <1>0, <2>6, SendersAndReceivers
    <3>. HIDE DEF w
    <3>. QED
      BY <2>1, <2>3, <2>4, <3>1 DEF TokensFit
  <2>8. ASSUME NEW e \in Directions, e # d PROVE TokensFit(Tokens(e)', wpc', e)
    <3>1. Tokens(e)' = Tokens(e)
      BY <1>0, <1>4, <2>8 DEF GiveJob, Tokens
    <3>2. \A v \in WorkersOf(e) : wpc'[v] = wpc[v]
      BY <1>0, <2>5, <2>6, <2>8, SendersAndReceivers
    <3>. QED
      BY <1>0, <3>1, <3>2, TokensFitKept
  <2>9. ExitedOnlyWhenDone'
    BY <1>0, <2>5, <2>6 DEF ExitedOnlyWhenDone
  <2>. QED
    BY <2>7, <2>8, <2>9
<1>5. ASSUME NEW d \in Directions, NEW w \in WorkersOf(d), WorkerStep(d, w) PROVE Goal
  <2>0. w \in Workers
    BY SendersAndReceivers
  <2>1. CASE Announce(d, w)
    <3>1. /\ available[d] \in Seq(Workers) /\ ready[d] \in Seq(Workers)
          /\ Tokens(d) \in Seq(Workers)
          /\ TokensFit(Tokens(d), wpc, d) /\ wpc[w] = "announce"
      BY <1>0, <2>1 DEF Announce, Tokens
    <3>2. Tokens(d)' = available[d] \o Append(ready[d], w)
      BY <1>0, <2>1 DEF Announce, Tokens
    <3>3. Tokens(d)' = Append(Tokens(d), w)
      <4>1. available[d] \in Seq(Workers) /\ ready[d] \in Seq(Workers)
        BY <3>1
      <4>2. available[d] \o Append(ready[d], w) = Append(available[d] \o ready[d], w)
        <5>1. \A a, r \in Seq(Workers) : a \o Append(r, w) = Append(a \o r, w)
          BY <2>0, ConcatAppend
        <5>. QED
          BY <4>1, <5>1
      <4>. QED
        BY <3>2, <4>2 DEF Tokens
    <3>4. w \notin Elements(Tokens(d))
      BY <3>1 DEF TokensFit
    <3>5. /\ Elements(Append(Tokens(d), w)) = Elements(Tokens(d)) \cup {w}
          /\ Injective(Append(Tokens(d), w))
      BY <2>0, <3>1, <3>4, InjectiveAppend DEF TokensFit
    <3>6. wpc' = [wpc EXCEPT ![w] = "idle"] /\ done' = done
      BY <2>1 DEF Announce
    <3>7. TokensFit(Tokens(d)', wpc', d)
      <4>1. \A v \in WorkersOf(d) : wpc'[v] = IF v = w THEN "idle" ELSE wpc[v]
        BY <1>0, <3>6, SendersAndReceivers
      <4>. QED
        BY <3>1, <3>3, <3>5, <4>1 DEF TokensFit
    <3>8. ASSUME NEW e \in Directions, e # d PROVE TokensFit(Tokens(e)', wpc', e)
      <4>1. Tokens(e)' = Tokens(e)
        BY <1>0, <2>1, <3>8 DEF Announce, Tokens
      <4>2. \A v \in WorkersOf(e) : wpc'[v] = wpc[v]
        BY <1>0, <3>6, <3>8, SendersAndReceivers
      <4>. QED
        BY <1>0, <4>1, <4>2, TokensFitKept
    <3>9. ExitedOnlyWhenDone'
      BY <1>0, <2>0, <3>6 DEF ExitedOnlyWhenDone
    <3>. QED
      BY <3>7, <3>8, <3>9
  <2>2. ASSUME UNCHANGED <<available, ready, done>>,
               wpc' = [wpc EXCEPT ![w] = wpc'[w]],
               wpc[w] # "exited", wpc'[w] # "idle",
               wpc[w] = "idle" => wpc'[w] = "exited",
               wpc'[w] = "exited" => done
        PROVE  Goal
    <3>0. \A v \in Workers : v # w => wpc'[v] = wpc[v]
      BY <1>0, <2>2
    <3>1. ASSUME NEW e \in Directions PROVE TokensFit(Tokens(e)', wpc', e)
      <4>1. Tokens(e)' = Tokens(e)
        BY <2>2 DEF Tokens
      <4>2. \A v \in WorkersOf(e) : v = w \/ wpc'[v] = wpc[v]
        BY <3>0, SendersAndReceivers
      <4>3. \A v \in WorkersOf(e) :
                /\ wpc'[v] = "idle" => wpc[v] = "idle"
                /\ wpc[v] = "idle" => wpc'[v] \in {"idle", "exited"}
                /\ wpc[v] = "exited" => wpc'[v] = "exited"
        BY <2>2, <4>2
      <4>. QED
        BY <1>0, <4>1, <4>3, TokensFitKept
    <3>2. ExitedOnlyWhenDone'
      BY <1>0, <2>2, <3>0 DEF ExitedOnlyWhenDone
    <3>. QED
      BY <3>1, <3>2
  <2>. HIDE DEF Goal
  <2>3. CASE WorkerBegin(w)
    <3>1. /\ wpc[w] = "new" /\ wpc' = [wpc EXCEPT ![w] = "announce"]
          /\ UNCHANGED <<available, ready, done>>
      BY <2>3 DEF WorkerBegin, WaitGroupAdd
    <3>2. wpc'[w] = "announce"
      BY <1>0, <2>0, <3>1
    <3>. QED
      BY <2>2, <3>1, <3>2
  <2>4. CASE Finish(d, w) \/ FinishWithEcho(w)
    <3>1. /\ wpc[w] = "busy" /\ wpc' = [wpc EXCEPT ![w] = "announce"]
          /\ UNCHANGED <<available, ready, done>>
      BY <2>4 DEF Finish, FinishWithEcho, FinishJob
    <3>2. wpc'[w] = "announce"
      BY <1>0, <2>0, <3>1
    <3>. QED
      BY <2>2, <3>1, <3>2
  <2>5. CASE WorkerExit(w)
    <3>1. /\ wpc[w] = "idle" /\ wpc' = [wpc EXCEPT ![w] = "exited"]
          /\ UNCHANGED <<available, ready, done>> /\ done
      BY <2>5 DEF WorkerExit, WaitGroupDone
    <3>2. wpc'[w] = "exited"
      BY <1>0, <2>0, <3>1
    <3>. QED
      BY <2>2, <3>1, <3>2
  <2>. QED
    BY <1>5, <2>1, <2>3, <2>4, <2>5, WorkerSteps DEF Goal
<1>6. ASSUME \/ DispatcherBegin \/ ReceiveIncoming \/ MatchEnd \/ DispatcherExit
             \/ (\E id \in offered : ReceiveOutgoing(id))
             \/ Post \/ StopWait \/ UNCHANGED vars
      PROVE  UNCHANGED <<available, ready, wpc, done>>
  BY <1>6 DEF DispatcherBegin, WaitGroupAdd, ReceiveIncoming, MatchEnd, DispatcherExit,
              WaitGroupDone, ReceiveOutgoing, Post, PostOutgoing, PostIncoming,
              OfferOutgoing, SendIncoming, StopWait, vars
<1>. QED
  BY <1>1, <1>2, <1>3, <1>4, <1>5, <1>6 DEF Next, Run, DispatcherStep

LEMMA TokensAlways == Spec => []IInvTokens
BY TokensInit, TokensStep, PTL DEF Spec

\* A worker is announced at most once, only while it is in its select or gone.
THEOREM OneTokenAlways == Spec => []OneTokenPerWorker
<1>1. IInvTokens => OneTokenPerWorker
  BY DEF IInvTokens
<1>. QED
  BY <1>1, TokensAlways, PTL

\* "this never blocks": a worker that announces itself finds room in its
\* channel, because the others of its direction have one announcement each.
THEOREM AnnouncementNeverBlocks == Spec => []AnnounceNeverBlocks
<1>1. IInvTokens => AnnounceNeverBlocks
  <2>. SUFFICES ASSUME IInvTokens, NEW d \in Directions, NEW w \in WorkersOf(d),
                       wpc[w] = "announce"
                PROVE  Len(ready[d]) < Cardinality(WorkersOf(d))
    BY DEF AnnounceNeverBlocks, ReadyCapacity
  <2>1. /\ TokensFit(Tokens(d), wpc, d)
        /\ available[d] \in Seq(Workers) /\ ready[d] \in Seq(Workers)
    BY OneTokenIsTokensFit DEF IInvTokens, IInvTypes, TypeOK
  <2>2. /\ Tokens(d) \in Seq(Workers) /\ Len(ready[d]) <= Len(Tokens(d))
        /\ Len(ready[d]) \in Nat /\ Len(Tokens(d)) \in Nat
    BY <2>1, ConcatIsLonger, Zenon DEF Tokens
  <2>3. Tokens(d) \in Seq(WorkersOf(d) \ {w})
    <3>1. \A i \in 1..Len(Tokens(d)) : Tokens(d)[i] \in WorkersOf(d) \ {w}
      BY <2>1, <2>2 DEF TokensFit, Elements
    <3>2. Tokens(d) = [i \in 1..Len(Tokens(d)) |-> Tokens(d)[i]]
      BY <2>2
    <3>. HIDE DEF Tokens
    <3>. QED
      BY <2>2, <3>1, <3>2
  <2>4. /\ IsFiniteSet(WorkersOf(d))
        /\ IsFiniteSet(WorkersOf(d) \ {w})
        /\ Cardinality(WorkersOf(d) \ {w}) = Cardinality(WorkersOf(d)) - 1
        /\ Cardinality(WorkersOf(d)) \in Nat
    <3>1. IsFiniteSet(WorkersOf(d))
      BY WorkersAssumption DEF WorkersOf
    <3>. QED
      BY <3>1, FS_RemoveElement, FS_CardinalityType
  <2>5. Len(Tokens(d)) <= Cardinality(WorkersOf(d) \ {w})
    BY <2>1, <2>3, <2>4, InjectiveIsShort DEF TokensFit
  <2>. QED
    BY <2>2, <2>4, <2>5
<1>. QED
  BY <1>1, TokensAlways, PTL

\* The dispatcher hands a message to a worker that takes it at once, unless the
\* worker has left because Stop was called.
THEOREM HandOffNeverBlocksBeforeStop == Spec => []HandOffBlocksOnlyOnExited
<1>1. IInvTokens => HandOffBlocksOnlyOnExited
  <2>. SUFFICES ASSUME IInvTokens, NEW d \in Directions, Matching(d),
                       wpc[Head(available[d])] # "idle"
                PROVE  done /\ wpc[Head(available[d])] = "exited"
    BY DEF HandOffBlocksOnlyOnExited
  <2>1. /\ TokensFit(Tokens(d), wpc, d) /\ ExitedOnlyWhenDone
        /\ available[d] \in Seq(Workers) /\ available[d] # <<>>
        /\ ready[d] \in Seq(Workers)
    BY OneTokenIsTokensFit DEF IInvTokens, IInvTypes, TypeOK, Matching, Pairable
  <2>2. 1 \in DOMAIN Tokens(d) /\ Tokens(d)[1] = Head(available[d])
    BY <2>1, HeadOfConcat, Zenon DEF Tokens
  <2>3. /\ Head(available[d]) \in Elements(Tokens(d))
        /\ Head(available[d]) \in WorkersOf(d) /\ Head(available[d]) \in Workers
    BY <2>1, <2>2, SendersAndReceivers DEF TokensFit, Elements
  <2>4. wpc[Head(available[d])] = "exited"
    BY <2>1, <2>3 DEF TokensFit
  <2>. QED
    BY <2>1, <2>3, <2>4 DEF ExitedOnlyWhenDone
<1>. QED
  BY <1>1, TokensAlways, PTL

\* While the connection runs, neither side of a hand-over waits for the other.
THEOREM NeverBlocksBeforeStop == Spec => []BlocksOnlyOnExited
<1>1. AnnounceNeverBlocks /\ HandOffBlocksOnlyOnExited => BlocksOnlyOnExited
  BY DEF BlocksOnlyOnExited
<1>. QED
  BY <1>1, AnnouncementNeverBlocks, HandOffNeverBlocksBeforeStop, PTL

\* A worker that gets a message gets the smallest id queued in its direction:
\* high priority before low, older before newer.
THEOREM SmallestGoesFirst == Spec => SmallestFirst
<1>1. IInvTokens /\ [Next]_vars =>
        [\A d \in Directions : \A w \in WorkersOf(d) :
            job[w] = NoJob /\ job'[w] # NoJob =>
                \A id \in QueueIds(queue[d]) : job'[w] <= id]_vars
  <2>. SUFFICES ASSUME IInvTokens, Next,
                       NEW d \in Directions, NEW w \in WorkersOf(d),
                       job[w] = NoJob, job'[w] # NoJob,
                       NEW id \in QueueIds(queue[d])
                PROVE  job'[w] <= id
    BY DEF vars, workerVars
  <2>. USE DEF dispatcherVars, channelVars, workerVars, stopVars, historyVars
  <2>0. /\ TypeOK /\ QueuesWellFormed /\ w \in Workers
        /\ job \in [Workers -> Id \cup {NoJob}]
        /\ \A e \in Directions : TokensFit(Tokens(e), wpc, e)
    BY SendersAndReceivers, OneTokenIsTokensFit DEF IInvTokens, IInvTypes, TypeOK
  <2>1. ASSUME NEW e \in Directions, GiveJob(e) PROVE job'[w] <= id
    <3>1. Head(available[e]) = w /\ job'[w] = PopId(queue[e])
      BY <2>0, <2>1 DEF GiveJob
    <3>2. /\ available[e] \in Seq(Workers) /\ available[e] # <<>>
          /\ ready[e] \in Seq(Workers)
          /\ QueueLen(queue[e]) > 0 /\ WellFormedQueue(queue[e])
      BY <2>0, <2>1 DEF TypeOK, GiveJob, Matching, Pairable, QueuesWellFormed
    <3>3. 1 \in DOMAIN Tokens(e) /\ Tokens(e)[1] = w
      BY <3>1, <3>2, HeadOfConcat DEF Tokens
    <3>4. w \in WorkersOf(e)
      BY <2>0, <3>3 DEF TokensFit, Elements
    <3>5. e = d
      BY <3>4, SendersAndReceivers
    <3>. QED
      BY <3>1, <3>2, <3>5, PopTakesSmallest
  <2>2. ASSUME NEW e \in Directions, NEW v \in WorkersOf(e), WorkerStep(e, v)
        PROVE  FALSE
    BY <2>0, <2>2, SendersAndReceivers
    DEF WorkerStep, WorkerBegin, Announce, Finish, FinishWithEcho, FinishJob, WorkerExit
  <2>3. ASSUME UNCHANGED job PROVE FALSE
    BY <2>3
  <2>. QED
    BY <2>1, <2>2, <2>3
    DEF Next, Run, DispatcherStep, DispatcherBegin, ReceiveOutgoing, ReceiveIncoming,
        ReceiveReady, MatchEnd, DispatcherExit, Post, PostOutgoing, PostIncoming,
        StopClose, StopWait
<1>. QED
  BY <1>1, TokensAlways, PTL DEF Spec, SmallestFirst
-----------------------------------------------------------------------------
(* Stop *)

\* The counter of the WaitGroup is the number of goroutines running.
WaitGroupCounts == wg = Cardinality(Running)

\* Whoever has not begun since Stop called Wait is one of the late ones.
NotBegunIsLate ==
    stop \in {"waiting", "returned"} => \A g \in Goroutines : Begun(g) \/ g \in late

IInvStop == IInvTypes /\ WaitGroupCounts /\ NotBegunIsLate /\ StopWaitsForBegun

LEMMA GoroutinesAreFinite ==
    IsFiniteSet(Goroutines) /\ "dispatcher" \in Goroutines /\ Workers \subseteq Goroutines
<1>1. IsFiniteSet(Workers)
  BY WorkersAssumption, FS_Union DEF Workers
<1>2. IsFiniteSet(Workers \cup {"dispatcher"})
  BY <1>1, FS_AddElement
<1>. QED
  BY <1>2 DEF Goroutines

LEMMA RunningIsFinite ==
    IsFiniteSet(Running) /\ Cardinality(Running) \in Nat
<1>1. IsFiniteSet(Running)
  BY GoroutinesAreFinite, FS_Subset DEF Running
<1>. QED
  BY <1>1, FS_CardinalityType

\* When nobody runs, whoever has begun has exited.
LEMMA NobodyRuns ==
    ASSUME Cardinality(Running) = 0, NEW g \in Goroutines, Begun(g)
    PROVE  Exited(g)
<1>1. Running = {}
  BY RunningIsFinite, FS_EmptySet
<1>. QED
  BY <1>1 DEF Running

LEMMA StopInit == Init => IInvStop
<1>. SUFFICES ASSUME Init PROVE WaitGroupCounts /\ NotBegunIsLate /\ StopWaitsForBegun
  BY TypesInit DEF IInvStop
<1>1. Running = {}
  BY DEF Init, Running, Begun, Goroutines
<1>. QED
  BY <1>1, FS_EmptySet DEF Init, WaitGroupCounts, NotBegunIsLate, StopWaitsForBegun

\* A step that neither begins nor ends a goroutine.
LEMMA StopKept ==
    ASSUME IInvStop, UNCHANGED <<wg, stop, late>>,
           \A g \in Goroutines : (Begun(g)' <=> Begun(g)) /\ (Exited(g)' <=> Exited(g))
    PROVE  WaitGroupCounts' /\ NotBegunIsLate' /\ StopWaitsForBegun'
<1>1. Running' = Running
  BY DEF Running, Goroutines, Workers
<1>. QED
  BY <1>1 DEF IInvStop, WaitGroupCounts, NotBegunIsLate, StopWaitsForBegun, Goroutines, Workers

\* A goroutine begins.
LEMMA StopBegins ==
    ASSUME IInvStop, NEW b \in Goroutines, WaitGroupAdd,
           ~Begun(b), Begun(b)', ~Exited(b), ~Exited(b)',
           \A g \in Goroutines : g # b =>
               (Begun(g)' <=> Begun(g)) /\ (Exited(g)' <=> Exited(g))
    PROVE  WaitGroupCounts' /\ NotBegunIsLate' /\ StopWaitsForBegun'
<1>1. Running' = Running \cup {b} /\ b \notin Running
  BY DEF Running, Goroutines, Workers
<1>2. Cardinality(Running)' = Cardinality(Running) + 1
  BY <1>1, RunningIsFinite, FS_AddElement
<1>3. wg' = wg + 1 /\ stop' = stop /\ late' = late
  BY DEF WaitGroupAdd
<1>4. WaitGroupCounts'
  BY <1>2, <1>3 DEF IInvStop, WaitGroupCounts
<1>5. \A g \in Goroutines : Begun(g) => Begun(g)'
  OBVIOUS
<1>6. \A g \in Goroutines : Exited(g) => Exited(g)'
  OBVIOUS
<1>. QED
  BY <1>3, <1>4, <1>5, <1>6 DEF IInvStop, NotBegunIsLate, StopWaitsForBegun, Goroutines, Workers

\* A goroutine leaves; the last one releases Stop.
LEMMA StopEnds ==
    ASSUME IInvStop, NEW b \in Goroutines, WaitGroupDone,
           Begun(b), Begun(b)', ~Exited(b), Exited(b)',
           \A g \in Goroutines : g # b =>
               (Begun(g)' <=> Begun(g)) /\ (Exited(g)' <=> Exited(g))
    PROVE  WaitGroupCounts' /\ NotBegunIsLate' /\ StopWaitsForBegun'
<1>1. Running' = Running \ {b} /\ b \in Running
  BY DEF Running, Goroutines, Workers
<1>2. Cardinality(Running)' = Cardinality(Running) - 1
  BY <1>1, RunningIsFinite, FS_RemoveElement
<1>3. /\ wg' = wg - 1 /\ late' = late
      /\ stop' = IF stop = "waiting" /\ wg' = 0 THEN "returned" ELSE stop
  BY DEF WaitGroupDone
<1>4. WaitGroupCounts'
  BY <1>2, <1>3 DEF IInvStop, WaitGroupCounts
<1>5. NotBegunIsLate'
  <2>1. \A g \in Goroutines : Begun(g) => Begun(g)'
    OBVIOUS
  <2>. QED
    BY <1>3, <2>1 DEF IInvStop, NotBegunIsLate, Goroutines, Workers
<1>6. StopWaitsForBegun'
  <2>1. CASE stop = "waiting" /\ wg' = 0
    <3>1. Running' = {}
      <4>1. IsFiniteSet(Running') /\ Cardinality(Running') = 0
        BY <1>1, <1>4, <2>1, RunningIsFinite, FS_RemoveElement DEF WaitGroupCounts
      <4>. QED
        BY <4>1, FS_EmptySet
    <3>2. \A g \in Goroutines : Begun(g)' => Exited(g)'
      BY <3>1 DEF Running, Goroutines, Workers
    <3>3. \A g \in Goroutines : Begun(g)' \/ g \in late'
      BY <1>3, <1>5, <2>1 DEF NotBegunIsLate, Goroutines, Workers
    <3>. QED
      BY <3>2, <3>3 DEF StopWaitsForBegun, Goroutines, Workers
  <2>2. CASE ~(stop = "waiting" /\ wg' = 0)
    <3>1. \A g \in Goroutines : Exited(g) => Exited(g)'
      OBVIOUS
    <3>. QED
      BY <1>3, <2>2, <3>1 DEF IInvStop, StopWaitsForBegun, Goroutines, Workers
  <2>. QED
    BY <2>1, <2>2
<1>. QED
  BY <1>4, <1>5, <1>6

LEMMA StopStep == IInvStop /\ [Next]_vars => IInvStop'
<1>. SUFFICES ASSUME IInvStop, [Next]_vars
              PROVE  WaitGroupCounts' /\ NotBegunIsLate' /\ StopWaitsForBegun'
  BY TypesStep DEF IInvStop
<1>. USE DEF dispatcherVars, channelVars, workerVars, stopVars, historyVars
<1>. DEFINE Goal == WaitGroupCounts' /\ NotBegunIsLate' /\ StopWaitsForBegun'
            SameFor(g) == (Begun(g)' <=> Begun(g)) /\ (Exited(g)' <=> Exited(g))
<1>0. /\ TypeOK /\ "dispatcher" \notin Workers
      /\ wpc \in [Workers -> {"new", "announce", "idle", "busy", "exited"}]
      /\ available \in [Directions -> Seq(Workers)]
      /\ \A d \in Directions : WorkersOf(d) \subseteq Workers
  BY WorkersAssumption, SendersAndReceivers DEF IInvStop, IInvTypes, TypeOK
<1>1. CASE DispatcherBegin
  <2>1. dpc = "new" /\ dpc' = "select" /\ wpc' = wpc /\ WaitGroupAdd
    BY <1>1 DEF DispatcherBegin
  <2>2. /\ "dispatcher" \in Goroutines
        /\ ~Begun("dispatcher") /\ Begun("dispatcher")'
        /\ ~Exited("dispatcher") /\ ~Exited("dispatcher")'
    BY <2>1 DEF Begun, Exited, Goroutines
  <2>3. \A g \in Goroutines : g # "dispatcher" => SameFor(g)
    BY <2>1 DEF Begun, Exited
  <2>. QED
    BY <2>1, <2>2, <2>3, StopBegins
<1>2. CASE DispatcherExit
  <2>1. dpc = "select" /\ dpc' = "exited" /\ wpc' = wpc /\ WaitGroupDone
    BY <1>2 DEF DispatcherExit
  <2>2. /\ "dispatcher" \in Goroutines
        /\ Begun("dispatcher") /\ Begun("dispatcher")'
        /\ ~Exited("dispatcher") /\ Exited("dispatcher")'
    BY <2>1 DEF Begun, Exited, Goroutines
  <2>3. \A g \in Goroutines : g # "dispatcher" => SameFor(g)
    BY <2>1 DEF Begun, Exited
  <2>. QED
    BY <2>1, <2>2, <2>3, StopEnds
<1>3. ASSUME NEW w \in Workers, WorkerBegin(w) PROVE Goal
  <2>1. wpc[w] = "new" /\ wpc' = [wpc EXCEPT ![w] = "announce"] /\ dpc' = dpc /\ WaitGroupAdd
    BY <1>3 DEF WorkerBegin
  <2>2. w \in Goroutines /\ ~Begun(w) /\ Begun(w)' /\ ~Exited(w) /\ ~Exited(w)'
    BY <1>0, <2>1 DEF Begun, Exited, Goroutines
  <2>3. \A g \in Goroutines : g # w => SameFor(g)
    BY <1>0, <2>1 DEF Begun, Exited, Goroutines
  <2>. QED
    BY <2>1, <2>2, <2>3, StopBegins
<1>4. ASSUME NEW w \in Workers, WorkerExit(w) PROVE Goal
  <2>1. wpc[w] = "idle" /\ wpc' = [wpc EXCEPT ![w] = "exited"] /\ dpc' = dpc /\ WaitGroupDone
    BY <1>4 DEF WorkerExit
  <2>2. w \in Goroutines /\ Begun(w) /\ Begun(w)' /\ ~Exited(w) /\ Exited(w)'
    BY <1>0, <2>1 DEF Begun, Exited, Goroutines
  <2>3. \A g \in Goroutines : g # w => SameFor(g)
    BY <1>0, <2>1 DEF Begun, Exited, Goroutines
  <2>. QED
    BY <2>1, <2>2, <2>3, StopEnds
<1>5. ASSUME NEW w \in Workers, UNCHANGED <<dpc, wg, stop, late>>,
             wpc' = [wpc EXCEPT ![w] = wpc'[w]],
             wpc[w] \in {"announce", "idle", "busy"}, wpc'[w] \in {"announce", "idle", "busy"}
      PROVE  Goal
  <2>1. \A g \in Goroutines : SameFor(g)
    BY <1>0, <1>5 DEF Begun, Exited, Goroutines
  <2>. QED
    BY <1>5, <2>1, StopKept
<1>6. ASSUME UNCHANGED <<wpc, wg, stop, late>>,
             dpc' = dpc \/ (dpc \in {"select", "match"} /\ dpc' \in {"select", "match"})
      PROVE  Goal
  <2>1. \A g \in Goroutines : SameFor(g)
    BY <1>0, <1>6 DEF Begun, Exited, Goroutines
  <2>. QED
    BY <1>6, <2>1, StopKept
<1>7. CASE StopClose
  <2>1. /\ wpc' = wpc /\ dpc' = dpc /\ wg' = wg /\ late' = late
        /\ stop = "none" /\ stop' = "closed"
    BY <1>7 DEF StopClose
  <2>2. Running' = Running
    BY <2>1 DEF Running, Begun, Exited, Goroutines, Workers
  <2>. QED
    BY <2>1, <2>2 DEF IInvStop, WaitGroupCounts, NotBegunIsLate, StopWaitsForBegun
<1>8. CASE StopWait
  <2>1. /\ wpc' = wpc /\ dpc' = dpc /\ wg' = wg /\ late' = NotBegun
        /\ stop' = IF wg = 0 THEN "returned" ELSE "waiting"
    BY <1>8 DEF StopWait
  <2>2. Running' = Running
    BY <2>1 DEF Running, Begun, Exited, Goroutines, Workers
  <2>3. \A g \in Goroutines : Begun(g) \/ g \in NotBegun
    BY <1>0 DEF Begun, Goroutines, NotBegun
  <2>4. NotBegunIsLate'
    BY <2>1, <2>3 DEF NotBegunIsLate, Begun, Goroutines, Workers
  <2>5. wg = 0 => \A g \in Goroutines : Begun(g) => Exited(g)
    BY NobodyRuns DEF IInvStop, WaitGroupCounts
  <2>6. StopWaitsForBegun'
    BY <2>1, <2>3, <2>5 DEF StopWaitsForBegun, Exited, Goroutines, Workers
  <2>. QED
    BY <2>1, <2>2, <2>4, <2>6 DEF IInvStop, WaitGroupCounts
<1>. HIDE DEF Goal
<1>9. ASSUME NEW d \in Directions, NEW w \in WorkersOf(d), WorkerStep(d, w) PROVE Goal
  <2>0. w \in Workers
    BY <1>0
  <2>1. CASE Announce(d, w)
    <3>1. /\ wpc[w] = "announce" /\ wpc' = [wpc EXCEPT ![w] = "idle"]
          /\ UNCHANGED <<dpc, wg, stop, late>>
      BY <2>1 DEF Announce
    <3>2. wpc'[w] = "idle"
      BY <1>0, <2>0, <3>1
    <3>. QED
      BY <1>5, <2>0, <3>1, <3>2
  <2>2. CASE Finish(d, w) \/ FinishWithEcho(w)
    <3>1. /\ wpc[w] = "busy" /\ wpc' = [wpc EXCEPT ![w] = "announce"]
          /\ UNCHANGED <<dpc, wg, stop, late>>
      BY <2>2 DEF Finish, FinishWithEcho, FinishJob
    <3>2. wpc'[w] = "announce"
      BY <1>0, <2>0, <3>1
    <3>. QED
      BY <1>5, <2>0, <3>1, <3>2
  <2>. QED
    BY <1>3, <1>4, <1>9, <2>0, <2>1, <2>2, WorkerSteps
<1>10. ASSUME NEW d \in Directions, GiveJob(d) PROVE Goal
  <2>. DEFINE w == Head(available[d])
  <2>1. w \in Workers
    BY <1>0, <1>10 DEF GiveJob, Matching, Pairable
  <2>2. /\ wpc[w] = "idle" /\ wpc' = [wpc EXCEPT ![w] = "busy"]
        /\ UNCHANGED <<dpc, wg, stop, late>>
    BY <1>10 DEF GiveJob
  <2>. HIDE DEF w
  <2>3. wpc'[w] = "busy"
    BY <1>0, <2>1, <2>2
  <2>. QED
    BY <1>5, <2>1, <2>2, <2>3
<1>11. ASSUME \/ ReceiveIncoming \/ MatchEnd \/ Post \/ UNCHANGED vars
              \/ (\E id \in offered : ReceiveOutgoing(id))
              \/ (\E d \in Directions : ReceiveReady(d))
       PROVE  Goal
  <2>1. /\ UNCHANGED <<wpc, wg, stop, late>>
        /\ dpc' = dpc \/ (dpc \in {"select", "match"} /\ dpc' \in {"select", "match"})
    BY <1>11 DEF ReceiveIncoming, MatchEnd, ReceiveOutgoing, ReceiveReady,
                 Post, PostOutgoing, PostIncoming, OfferOutgoing, SendIncoming, vars
  <2>. QED
    BY <1>6, <2>1
<1>. QED
  BY <1>1, <1>2, <1>7, <1>8, <1>9, <1>10, <1>11 DEF Next, Run, DispatcherStep, Goal

\* When Stop returns, every goroutine that had begun when it called Wait is gone.
THEOREM StopWaits == Spec => []StopWaitsForBegun
<1>1. IInvStop => StopWaitsForBegun
  BY DEF IInvStop
<1>. QED
  BY <1>1, StopInit, StopStep, PTL DEF Spec

-----------------------------------------------------------------------------
(* The places of the messages *)

JobUnique(d) ==
    \A v, w \in WorkersOf(d) :
        wpc[v] = "busy" /\ wpc[w] = "busy" /\ job[v] = job[w] => v = w

Apart(on, queued, jobs, fin) ==
    /\ on \cap queued = {} /\ on \cap jobs = {} /\ queued \cap jobs = {}
    /\ fin \cap (on \cup queued \cup jobs) = {}

\* EachInOnePlace for one direction.
PlacesFit(d) ==
    /\ posted[d] = OnChannel(d) \cup QueueIds(queue[d]) \cup JobsOf(d) \cup finished[d]
    /\ Apart(OnChannel(d), QueueIds(queue[d]), JobsOf(d), finished[d])
    /\ QueueNoRepeats(queue[d])
    /\ JobUnique(d)

\* An echo is on its way only once its sender is done with the message: the
\* sender that posts it puts an id on Incoming that was never there.
EchoesFit ==
    \A id \in DOMAIN EchoOf : EchoOf[id] \in posted["incoming"] => id \in finished["outgoing"]

IInvPlaces ==
    /\ IInvTokens
    /\ Injective(chIncoming)
    /\ \A d \in Directions : PlacesFit(d)
    /\ EchoesFit

LEMMA PlacesFitIsEachInOnePlace ==
    Injective(chIncoming) /\ (\A d \in Directions : PlacesFit(d)) => EachInOnePlace
<1>1. \A s : NoRepeats(s) <=> Injective(s)
  BY DEF NoRepeats, Injective
<1>. QED
  BY <1>1 DEF PlacesFit, EachInOnePlace, NothingLost, NothingDoubled, Apart, QueueNoRepeats, JobUnique

LEMMA PlacesInit == Init => IInvPlaces
<1>. SUFFICES ASSUME Init
              PROVE  Injective(chIncoming) /\ \A d \in Directions : PlacesFit(d)
  <2>1. ASSUME Init PROVE EchoesFit
    BY <2>1, SendersAndReceivers DEF Init, EchoesFit
  <2>. QED
    BY <2>1, TokensInit DEF IInvPlaces
<1>1. Injective(chIncoming) /\ Elements(chIncoming) = {}
  BY DEF Init, Injective, Elements
<1>2. ASSUME NEW d \in Directions PROVE PlacesFit(d)
  <2>1. OnChannel(d) = {} /\ posted[d] = {} /\ finished[d] = {} /\ queue[d] = EmptyQueue
    BY <1>1 DEF Init, OnChannel
  <2>2. QueueIds(EmptyQueue) = {} /\ QueueNoRepeats(EmptyQueue)
    BY EmptyIsWellFormed DEF EmptyQueue, QueueNoRepeats, NoRepeats
  <2>3. \A w \in WorkersOf(d) : wpc[w] # "busy"
    BY SendersAndReceivers DEF Init
  <2>. QED
    BY <2>1, <2>2, <2>3 DEF PlacesFit, Apart, JobsOf, JobUnique
<1>. QED
  BY <1>1, <1>2

\* The workers of a direction keep what they have.
SameJobs(d) ==
    \A v \in WorkersOf(d) : (wpc'[v] = "busy" <=> wpc[v] = "busy") /\ job'[v] = job[v]

LEMMA JobsKept ==
    ASSUME NEW d \in Directions, SameJobs(d)
    PROVE  JobsOf(d)' = JobsOf(d) /\ (JobUnique(d) => JobUnique(d)')
BY DEF SameJobs, JobsOf, JobUnique, WorkersOf

LEMMA PlacesKept ==
    ASSUME NEW d \in Directions, PlacesFit(d), SameJobs(d),
           OnChannel(d)' = OnChannel(d), queue'[d] = queue[d],
           finished'[d] = finished[d], posted'[d] = posted[d]
    PROVE  PlacesFit(d)'
BY JobsKept DEF PlacesFit

\* A message moves from its channel into the queue of its direction.
LEMMA PlacesQueued ==
    ASSUME NEW d \in Directions, PlacesFit(d), SameJobs(d),
           WellFormedQueue(queue[d]), NEW id \in Id, id \in OnChannel(d),
           OnChannel(d)' = OnChannel(d) \ {id}, queue'[d] = Insert(queue[d], id),
           finished'[d] = finished[d], posted'[d] = posted[d]
    PROVE  PlacesFit(d)'
<1>1. id \notin QueueIds(queue[d])
  BY DEF PlacesFit, Apart
<1>2. QueueIds(queue'[d]) = QueueIds(queue[d]) \cup {id} /\ QueueNoRepeats(queue'[d])
  BY <1>1, InsertKeepsWellFormed, InsertNoRepeats DEF PlacesFit
<1>3. JobsOf(d)' = JobsOf(d) /\ JobUnique(d)'
  BY JobsKept DEF PlacesFit
<1>. QED
  BY <1>2, <1>3 DEF PlacesFit, Apart

\* A message is put on a channel.
LEMMA PlacesPosted ==
    ASSUME NEW d \in Directions, PlacesFit(d), SameJobs(d), NEW id, id \notin posted[d],
           OnChannel(d)' = OnChannel(d) \cup {id}, queue'[d] = queue[d],
           finished'[d] = finished[d], posted'[d] = posted[d] \cup {id}
    PROVE  PlacesFit(d)'
<1>1. JobsOf(d)' = JobsOf(d) /\ JobUnique(d)'
  BY JobsKept DEF PlacesFit
<1>. QED
  BY <1>1 DEF PlacesFit, Apart

\* An idle worker takes the smallest message of the queue.
LEMMA PlacesGiven ==
    ASSUME NEW d \in Directions, PlacesFit(d), NEW w \in WorkersOf(d), wpc[w] # "busy",
           WellFormedQueue(queue[d]), QueueLen(queue[d]) > 0,
           wpc'[w] = "busy", job'[w] = PopId(queue[d]),
           \A v \in WorkersOf(d) : v # w => wpc'[v] = wpc[v] /\ job'[v] = job[v],
           OnChannel(d)' = OnChannel(d), queue'[d] = PopRest(queue[d]),
           finished'[d] = finished[d], posted'[d] = posted[d]
    PROVE  PlacesFit(d)'
<1>. DEFINE id == PopId(queue[d])
<1>1. /\ QueueIds(queue[d]) = QueueIds(queue'[d]) \cup {id}
      /\ id \notin QueueIds(queue'[d]) /\ QueueNoRepeats(queue'[d])
  BY PopTakesSmallest, PopRemoves DEF PlacesFit
<1>2. JobsOf(d)' = JobsOf(d) \cup {id}
  <2>1. \A x : x \in JobsOf(d)' <=> \E v \in WorkersOf(d) : wpc'[v] = "busy" /\ job'[v] = x
    BY DEF JobsOf, WorkersOf
  <2>2. \A x : x \in JobsOf(d) <=> \E v \in WorkersOf(d) : wpc[v] = "busy" /\ job[v] = x
    BY DEF JobsOf
  <2>. HIDE DEF id
  <2>3. job'[w] = id
    BY DEF id
  <2>4. ASSUME NEW x \in JobsOf(d)' PROVE x \in JobsOf(d) \cup {id}
    <3>1. PICK v \in WorkersOf(d) : wpc'[v] = "busy" /\ job'[v] = x
      BY <2>1, <2>4
    <3>. QED
      BY <3>1, <2>2, <2>3
  <2>5. id \in JobsOf(d)'
    BY <2>1, <2>3
  <2>6. ASSUME NEW x \in JobsOf(d) PROVE x \in JobsOf(d)'
    <3>1. PICK v \in WorkersOf(d) : wpc[v] = "busy" /\ job[v] = x
      BY <2>2, <2>6
    <3>. QED
      BY <3>1, <2>1
  <2>. QED
    BY <2>4, <2>5, <2>6
<1>3. id \notin JobsOf(d)
  BY <1>1 DEF PlacesFit, Apart
<1>4. JobUnique(d)'
  <2>1. \A v \in WorkersOf(d) : wpc[v] = "busy" => job[v] # id
    BY <1>3 DEF JobsOf
  <2>. QED
    BY <2>1 DEF PlacesFit, JobUnique, WorkersOf
<1>. HIDE DEF id
<1>. QED
  BY <1>1, <1>2, <1>3, <1>4 DEF PlacesFit, Apart

\* A worker is done with its message.
LEMMA PlacesFinished ==
    ASSUME NEW d \in Directions, PlacesFit(d), NEW w \in WorkersOf(d), wpc[w] = "busy",
           wpc'[w] # "busy",
           \A v \in WorkersOf(d) : v # w => wpc'[v] = wpc[v] /\ job'[v] = job[v],
           OnChannel(d)' = OnChannel(d), queue'[d] = queue[d],
           finished'[d] = finished[d] \cup {job[w]}, posted'[d] = posted[d]
    PROVE  PlacesFit(d)'
<1>1. JobsOf(d)' = JobsOf(d) \ {job[w]} /\ job[w] \in JobsOf(d)
  <2>1. \A x : x \in JobsOf(d)' <=> \E v \in WorkersOf(d) : wpc'[v] = "busy" /\ job'[v] = x
    BY DEF JobsOf, WorkersOf
  <2>2. \A x : x \in JobsOf(d) <=> \E v \in WorkersOf(d) : wpc[v] = "busy" /\ job[v] = x
    BY DEF JobsOf
  <2>3. \A v \in WorkersOf(d) : wpc[v] = "busy" /\ job[v] = job[w] => v = w
    BY DEF PlacesFit, JobUnique
  <2>4. ASSUME NEW x \in JobsOf(d)' PROVE x \in JobsOf(d) /\ x # job[w]
    <3>1. PICK v \in WorkersOf(d) : wpc'[v] = "busy" /\ job'[v] = x
      BY <2>1, <2>4
    <3>2. v # w /\ wpc[v] = "busy" /\ job[v] = x
      BY <3>1
    <3>. QED
      BY <3>2, <2>2, <2>3
  <2>5. ASSUME NEW x \in JobsOf(d), x # job[w] PROVE x \in JobsOf(d)'
    <3>1. PICK v \in WorkersOf(d) : wpc[v] = "busy" /\ job[v] = x
      BY <2>2, <2>5
    <3>2. wpc'[v] = "busy" /\ job'[v] = x
      BY <3>1, <2>5
    <3>. QED
      BY <3>2, <2>1
  <2>6. job[w] \in JobsOf(d)
    BY <2>2
  <2>. QED
    BY <2>4, <2>5, <2>6
<1>2. JobUnique(d)'
  <2>1. \A v \in WorkersOf(d) : wpc'[v] = "busy" => v # w /\ wpc[v] = "busy" /\ job'[v] = job[v]
    OBVIOUS
  <2>. QED
    BY <2>1 DEF PlacesFit, JobUnique, WorkersOf
<1>. QED
  BY <1>1, <1>2 DEF PlacesFit, Apart

\* The echo of a message that a sender still has is not posted yet.
LEMMA EchoIsNew ==
    ASSUME IInvPlaces, NEW w \in Senders, wpc[w] = "busy", Echoing("outgoing", w)
    PROVE  EchoOf[job[w]] \notin posted["incoming"]
<1>1. PlacesFit("outgoing") /\ EchoesFit /\ w \in WorkersOf("outgoing")
  BY SendersAndReceivers DEF IInvPlaces, WorkersOf
<1>2. job[w] \in JobsOf("outgoing")
  BY <1>1 DEF JobsOf
<1>3. job[w] \notin finished["outgoing"]
  BY <1>1, <1>2 DEF PlacesFit, Apart
<1>. QED
  BY <1>1, <1>3 DEF EchoesFit, Echoing

LEMMA EchoesStep == IInvPlaces /\ [Next]_vars => EchoesFit'
<1>. SUFFICES ASSUME IInvPlaces, [Next]_vars PROVE EchoesFit'
  OBVIOUS
<1>. USE DEF dispatcherVars, channelVars, workerVars, stopVars, historyVars
<1>0. /\ posted \in [Directions -> SUBSET Id] /\ finished \in [Directions -> SUBSET Id]
      /\ EchoesFit /\ "outgoing" \in Directions /\ "incoming" \in Directions
  BY SendersAndReceivers DEF IInvPlaces, IInvTokens, IInvTypes, TypeOK
<1>1. ASSUME posted'["incoming"] = posted["incoming"],
             finished["outgoing"] \subseteq finished'["outgoing"]
      PROVE  EchoesFit'
  BY <1>0, <1>1 DEF EchoesFit
<1>2. ASSUME NEW id \in InIds, PostIncoming(id) PROVE EchoesFit'
  <2>1. /\ posted'["incoming"] = posted["incoming"] \cup {id}
        /\ finished' = finished
    BY <1>0, <1>2 DEF PostIncoming, SendIncoming
  <2>. QED
    BY <1>0, <2>1, EchoAssumption DEF EchoesFit, Echoes
<1>3. ASSUME NEW d \in Directions, NEW w \in WorkersOf(d), WorkerStep(d, w) PROVE EchoesFit'
  <2>1. CASE WorkerBegin(w) \/ Announce(d, w) \/ Finish(d, w) \/ WorkerExit(w)
    <3>1. posted' = posted /\ finished["outgoing"] \subseteq finished'["outgoing"]
      BY <1>0, <2>1 DEF WorkerBegin, Announce, Finish, FinishJob, WorkerExit
    <3>. QED
      BY <1>1, <3>1
  <2>2. ASSUME Echoing("outgoing", w), FinishWithEcho(w) PROVE EchoesFit'
    <3>1. /\ posted'["incoming"] = posted["incoming"] \cup {EchoOf[job[w]]}
          /\ finished'["outgoing"] = finished["outgoing"] \cup {job[w]}
      BY <1>0, <2>2 DEF FinishWithEcho, FinishJob, SendIncoming
    <3>. QED
      BY <1>0, <2>2, <3>1, EchoAssumption DEF EchoesFit, Echoing
  <2>. QED
    BY <1>3, <2>1, <2>2, WorkerSteps
<1>4. ASSUME NEW id \in OutIds, PostOutgoing(id) PROVE EchoesFit'
  <2>1. posted'["incoming"] = posted["incoming"] /\ finished' = finished
    BY <1>0, <1>4 DEF PostOutgoing, OfferOutgoing
  <2>. QED
    BY <1>1, <2>1
<1>5. ASSUME DispatcherStep \/ StopClose \/ StopWait \/ UNCHANGED vars PROVE EchoesFit'
  <2>1. UNCHANGED <<posted, finished>>
    BY <1>5 DEF DispatcherStep, DispatcherBegin, ReceiveOutgoing, ReceiveIncoming, ReceiveReady,
                GiveJob, MatchEnd, DispatcherExit, StopClose, StopWait, vars
  <2>. QED
    BY <1>1, <2>1
<1>. QED
  BY <1>2, <1>3, <1>4, <1>5 DEF Next, Run, Post

LEMMA PlacesStep == IInvPlaces /\ [Next]_vars => IInvPlaces'
<1>. SUFFICES ASSUME IInvPlaces, [Next]_vars
              PROVE  Injective(chIncoming)' /\ \A e \in Directions : PlacesFit(e)'
  BY TokensStep, EchoesStep DEF IInvPlaces
<1>. USE DEF dispatcherVars, channelVars, workerVars, stopVars, historyVars
<1>. DEFINE Goal == Injective(chIncoming)' /\ \A e \in Directions : PlacesFit(e)'
<1>0. /\ TypeOK /\ QueuesWellFormed /\ BusyHasJob /\ Injective(chIncoming)
      /\ wpc \in [Workers -> {"new", "announce", "idle", "busy", "exited"}]
      /\ job \in [Workers -> Id \cup {NoJob}]
      /\ queue \in [Directions -> [high : Seq(Id), low : Seq(Id)]]
      /\ posted \in [Directions -> SUBSET Id] /\ finished \in [Directions -> SUBSET Id]
      /\ chIncoming \in Seq(Id) /\ offered \subseteq Id
      /\ \A d \in Directions : PlacesFit(d) /\ TokensFit(Tokens(d), wpc, d)
      /\ "outgoing" \in Directions /\ "incoming" \in Directions
      /\ \A d \in Directions : d # "outgoing" <=> d = "incoming"
      /\ \A d \in Directions : WorkersOf(d) \subseteq Workers
  BY OneTokenIsTokensFit, SendersAndReceivers
  DEF IInvPlaces, IInvTokens, IInvTypes, TypeOK, Directions
<1>1. ASSUME UNCHANGED <<chIncoming, offered, queue, posted, finished, job>>,
             \A w \in Workers : wpc'[w] = "busy" <=> wpc[w] = "busy"
      PROVE  Goal
  <2>1. ASSUME NEW e \in Directions PROVE PlacesFit(e)'
    <3>1. SameJobs(e)
      BY <1>0, <1>1 DEF SameJobs
    <3>2. OnChannel(e)' = OnChannel(e)
      BY <1>1 DEF OnChannel
    <3>. QED
      BY <1>0, <1>1, <3>1, <3>2, PlacesKept
  <2>. QED
    BY <1>0, <1>1, <2>1
<1>2. ASSUME NEW id \in offered, ReceiveOutgoing(id) PROVE Goal
  <2>0. \A e \in Directions : SameJobs(e)
    BY <1>2 DEF ReceiveOutgoing, SameJobs
  <2>1. /\ offered' = offered \ {id} /\ UNCHANGED <<chIncoming, posted, finished>>
        /\ queue' = [queue EXCEPT !["outgoing"] = Insert(@, id)]
    BY <1>2 DEF ReceiveOutgoing
  <2>2. PlacesFit("outgoing")'
    <3>1. OnChannel("outgoing")' = OnChannel("outgoing") \ {id} /\ id \in OnChannel("outgoing")
      BY <2>1 DEF OnChannel
    <3>2. queue'["outgoing"] = Insert(queue["outgoing"], id)
      BY <1>0, <2>1
    <3>3. WellFormedQueue(queue["outgoing"]) /\ id \in Id
      BY <1>0 DEF QueuesWellFormed
    <3>. QED
      BY <1>0, <2>0, <2>1, <3>1, <3>2, <3>3, PlacesQueued
  <2>3. PlacesFit("incoming")'
    <3>1. OnChannel("incoming")' = OnChannel("incoming") /\ queue'["incoming"] = queue["incoming"]
      BY <1>0, <2>1 DEF OnChannel
    <3>. QED
      BY <1>0, <2>0, <2>1, <3>1, PlacesKept
  <2>. QED
    BY <1>0, <2>1, <2>2, <2>3
<1>3. CASE ReceiveIncoming
  <2>. DEFINE id == Head(chIncoming)
  <2>0. \A e \in Directions : SameJobs(e)
    BY <1>3 DEF ReceiveIncoming, SameJobs
  <2>1. /\ chIncoming' = Tail(chIncoming) /\ chIncoming # <<>>
        /\ UNCHANGED <<offered, posted, finished>>
        /\ queue' = [queue EXCEPT !["incoming"] = Insert(@, id)]
    BY <1>3 DEF ReceiveIncoming
  <2>2. /\ Injective(chIncoming')
        /\ Elements(chIncoming') = Elements(chIncoming) \ {id}
    BY <1>0, <2>1, InjectiveTail
  <2>3. id \in Elements(chIncoming) /\ id \in Id
    BY <1>0, <2>1 DEF Elements
  <2>. HIDE DEF id
  <2>4. PlacesFit("incoming")'
    <3>1. OnChannel("incoming")' = OnChannel("incoming") \ {id} /\ id \in OnChannel("incoming")
      BY <2>2, <2>3 DEF OnChannel
    <3>2. queue'["incoming"] = Insert(queue["incoming"], id)
      BY <1>0, <2>1
    <3>3. WellFormedQueue(queue["incoming"])
      BY <1>0 DEF QueuesWellFormed
    <3>. QED
      BY <1>0, <2>0, <2>1, <2>3, <3>1, <3>2, <3>3, PlacesQueued
  <2>5. PlacesFit("outgoing")'
    <3>1. OnChannel("outgoing")' = OnChannel("outgoing") /\ queue'["outgoing"] = queue["outgoing"]
      BY <1>0, <2>1 DEF OnChannel
    <3>. QED
      BY <1>0, <2>0, <2>1, <3>1, PlacesKept
  <2>6. Injective(chIncoming)'
    BY <2>2
  <2>. QED
    BY <1>0, <2>4, <2>5, <2>6
<1>4. ASSUME NEW d \in Directions, GiveJob(d) PROVE Goal
  <2>. DEFINE w == Head(available[d])
  <2>1. /\ available[d] \in Seq(Workers) /\ available[d] # <<>> /\ ready[d] \in Seq(Workers)
        /\ QueueLen(queue[d]) > 0 /\ WellFormedQueue(queue[d])
    BY <1>0, <1>4 DEF TypeOK, GiveJob, Matching, Pairable, QueuesWellFormed
  <2>2. w \in WorkersOf(d) /\ w \in Workers
    <3>1. 1 \in DOMAIN Tokens(d) /\ Tokens(d)[1] = w
      BY <2>1, HeadOfConcat DEF Tokens
    <3>. QED
      BY <1>0, <3>1 DEF TokensFit, Elements
  <2>3. /\ wpc[w] = "idle" /\ wpc' = [wpc EXCEPT ![w] = "busy"]
        /\ job' = [job EXCEPT ![w] = PopId(queue[d])]
        /\ queue' = [queue EXCEPT ![d] = PopRest(@)]
        /\ UNCHANGED <<chIncoming, offered, posted, finished>>
    BY <1>4 DEF GiveJob
  <2>. HIDE DEF w
  <2>4. \A e \in Directions : OnChannel(e)' = OnChannel(e)
    BY <2>3 DEF OnChannel
  <2>5. PlacesFit(d)'
    <3>1. /\ wpc[w] # "busy" /\ wpc'[w] = "busy" /\ job'[w] = PopId(queue[d])
          /\ \A v \in WorkersOf(d) : v # w => wpc'[v] = wpc[v] /\ job'[v] = job[v]
          /\ queue'[d] = PopRest(queue[d])
      BY <1>0, <2>2, <2>3
    <3>. QED
      BY <1>0, <2>1, <2>2, <2>3, <2>4, <3>1, PlacesGiven
  <2>6. ASSUME NEW e \in Directions, e # d PROVE PlacesFit(e)'
    <3>1. \A v \in WorkersOf(e) : v # w
      BY <2>2, <2>6, SendersAndReceivers
    <3>2. SameJobs(e) /\ queue'[e] = queue[e]
      BY <1>0, <2>3, <2>6, <3>1 DEF SameJobs
    <3>. QED
      BY <1>0, <2>3, <2>4, <3>2, PlacesKept
  <2>. QED
    BY <1>0, <2>3, <2>5, <2>6
<1>5. ASSUME NEW d \in Directions, NEW w \in WorkersOf(d), Finish(d, w) PROVE Goal
  <2>1. /\ wpc[w] = "busy" /\ wpc' = [wpc EXCEPT ![w] = "announce"]
        /\ job' = [job EXCEPT ![w] = NoJob]
        /\ finished' = [finished EXCEPT ![d] = @ \cup {job[w]}]
        /\ UNCHANGED <<chIncoming, offered, posted, queue>>
    BY <1>5 DEF Finish, FinishJob
  <2>2. \A e \in Directions : OnChannel(e)' = OnChannel(e)
    BY <2>1 DEF OnChannel
  <2>3. PlacesFit(d)'
    <3>1. /\ wpc'[w] # "busy"
          /\ \A v \in WorkersOf(d) : v # w => wpc'[v] = wpc[v] /\ job'[v] = job[v]
          /\ finished'[d] = finished[d] \cup {job[w]}
      BY <1>0, <2>1
    <3>. QED
      BY <1>0, <2>1, <2>2, <3>1, PlacesFinished
  <2>4. ASSUME NEW e \in Directions, e # d PROVE PlacesFit(e)'
    <3>1. \A v \in WorkersOf(e) : v # w
      BY <2>4, SendersAndReceivers
    <3>2. SameJobs(e) /\ finished'[e] = finished[e]
      BY <1>0, <2>1, <2>4, <3>1 DEF SameJobs
    <3>. QED
      BY <1>0, <2>1, <2>2, <3>2, PlacesKept
  <2>. QED
    BY <1>0, <2>1, <2>3, <2>4
<1>6. ASSUME NEW id \in OutIds, PostOutgoing(id) PROVE Goal
  <2>0. \A e \in Directions : SameJobs(e)
    BY <1>6 DEF PostOutgoing, SameJobs
  <2>1. /\ id \notin posted["outgoing"] /\ offered' = offered \cup {id}
        /\ posted' = [posted EXCEPT !["outgoing"] = @ \cup {id}]
        /\ UNCHANGED <<chIncoming, queue, finished>>
    BY <1>6 DEF PostOutgoing, OfferOutgoing
  <2>2. PlacesFit("outgoing")'
    <3>1. /\ OnChannel("outgoing")' = OnChannel("outgoing") \cup {id}
          /\ posted'["outgoing"] = posted["outgoing"] \cup {id}
      BY <1>0, <2>1 DEF OnChannel
    <3>. QED
      BY <1>0, <2>0, <2>1, <3>1, PlacesPosted
  <2>3. PlacesFit("incoming")'
    <3>1. OnChannel("incoming")' = OnChannel("incoming") /\ posted'["incoming"] = posted["incoming"]
      BY <1>0, <2>1 DEF OnChannel
    <3>. QED
      BY <1>0, <2>0, <2>1, <3>1, PlacesKept
  <2>. QED
    BY <1>0, <2>1, <2>2, <2>3
<1>7. ASSUME NEW id \in InIds, PostIncoming(id) PROVE Goal
  <2>0. (\A e \in Directions : SameJobs(e)) /\ id \in Id
    BY <1>7, IdsAssumption DEF PostIncoming, SameJobs
  <2>1. /\ id \notin posted["incoming"] /\ chIncoming' = Append(chIncoming, id)
        /\ posted' = [posted EXCEPT !["incoming"] = @ \cup {id}]
        /\ UNCHANGED <<offered, queue, finished>>
    BY <1>7 DEF PostIncoming, SendIncoming
  <2>2. id \notin Elements(chIncoming)
    BY <1>0, <2>1 DEF PlacesFit, OnChannel
  <2>3. /\ Injective(chIncoming')
        /\ Elements(chIncoming') = Elements(chIncoming) \cup {id}
    BY <1>0, <2>0, <2>1, <2>2, InjectiveAppend
  <2>4. PlacesFit("incoming")'
    <3>1. /\ OnChannel("incoming")' = OnChannel("incoming") \cup {id}
          /\ posted'["incoming"] = posted["incoming"] \cup {id}
      BY <1>0, <2>1, <2>3 DEF OnChannel
    <3>. QED
      BY <1>0, <2>0, <2>1, <3>1, PlacesPosted
  <2>5. PlacesFit("outgoing")'
    <3>1. OnChannel("outgoing")' = OnChannel("outgoing") /\ posted'["outgoing"] = posted["outgoing"]
      BY <1>0, <2>1 DEF OnChannel
    <3>. QED
      BY <1>0, <2>0, <2>1, <3>1, PlacesKept
  <2>6. Injective(chIncoming)'
    BY <2>3
  <2>. QED
    BY <1>0, <2>4, <2>5, <2>6
<1>. HIDE DEF Goal
<1>8. ASSUME NEW d \in Directions, NEW w \in WorkersOf(d),
             WorkerBegin(w) \/ Announce(d, w) \/ WorkerExit(w)
      PROVE  Goal
  <2>1. /\ UNCHANGED <<chIncoming, offered, queue, posted, finished, job>>
        /\ \E to \in {"announce", "idle", "exited"} : wpc' = [wpc EXCEPT ![w] = to]
        /\ wpc[w] # "busy" /\ w \in Workers
    BY <1>0, <1>8 DEF WorkerBegin, Announce, WorkerExit
  <2>2. \A v \in Workers : wpc'[v] = "busy" <=> wpc[v] = "busy"
    BY <1>0, <2>1
  <2>. QED
    BY <1>1, <2>1, <2>2
<1>9. ASSUME \/ DispatcherBegin \/ MatchEnd \/ DispatcherExit \/ StopClose \/ StopWait
             \/ (\E d \in Directions : ReceiveReady(d)) \/ UNCHANGED vars
      PROVE  Goal
  <2>1. UNCHANGED <<chIncoming, offered, queue, posted, finished, job, wpc>>
    BY <1>9 DEF DispatcherBegin, MatchEnd, DispatcherExit, StopClose, StopWait, ReceiveReady, vars
  <2>. QED
    BY <1>1, <2>1
<1>10. ASSUME NEW w \in Senders, Echoing("outgoing", w), FinishWithEcho(w) PROVE Goal
  <2>. DEFINE id == EchoOf[job[w]]
  <2>1. /\ wpc[w] = "busy" /\ wpc' = [wpc EXCEPT ![w] = "announce"]
        /\ job' = [job EXCEPT ![w] = NoJob]
        /\ finished' = [finished EXCEPT !["outgoing"] = @ \cup {job[w]}]
        /\ posted' = [posted EXCEPT !["incoming"] = @ \cup {id}]
        /\ chIncoming' = Append(chIncoming, id) /\ UNCHANGED <<offered, queue>>
    BY <1>10 DEF FinishWithEcho, FinishJob, SendIncoming
  <2>2. w \in WorkersOf("outgoing") /\ w \in Workers /\ id \in Id /\ id \notin posted["incoming"]
    BY <1>0, <1>10, <2>1, EchoIsId, EchoIsNew DEF WorkersOf, Workers
  <2>. HIDE DEF id
  <2>3. id \notin Elements(chIncoming)
    BY <1>0, <2>2 DEF PlacesFit, OnChannel
  <2>4. /\ Injective(chIncoming')
        /\ Elements(chIncoming') = Elements(chIncoming) \cup {id}
    BY <1>0, <2>1, <2>2, <2>3, InjectiveAppend
  <2>5. PlacesFit("outgoing")'
    <3>1. /\ OnChannel("outgoing")' = OnChannel("outgoing")
          /\ posted'["outgoing"] = posted["outgoing"]
          /\ finished'["outgoing"] = finished["outgoing"] \cup {job[w]}
          /\ wpc'[w] # "busy"
          /\ \A v \in WorkersOf("outgoing") : v # w => wpc'[v] = wpc[v] /\ job'[v] = job[v]
      BY <1>0, <2>1, <2>2 DEF OnChannel
    <3>. QED
      BY <1>0, <2>1, <2>2, <3>1, PlacesFinished
  <2>6. PlacesFit("incoming")'
    <3>1. \A v \in WorkersOf("incoming") : v # w
      BY <2>2, SendersAndReceivers
    <3>2. SameJobs("incoming") /\ finished'["incoming"] = finished["incoming"]
      BY <1>0, <2>1, <3>1 DEF SameJobs
    <3>3. /\ OnChannel("incoming")' = OnChannel("incoming") \cup {id}
          /\ posted'["incoming"] = posted["incoming"] \cup {id}
      BY <1>0, <2>1, <2>4 DEF OnChannel
    <3>. QED
      BY <1>0, <2>1, <2>2, <3>2, <3>3, PlacesPosted
  <2>7. Injective(chIncoming)'
    BY <2>4
  <2>. QED
    BY <1>0, <2>5, <2>6, <2>7 DEF Goal
<1>. QED
  BY <1>2, <1>3, <1>4, <1>5, <1>6, <1>7, <1>8, <1>9, <1>10, WorkerSteps
  DEF Next, Run, DispatcherStep, Post, Goal

\* A message that was put on a channel is in exactly one place, the channel, the
\* queue or the hands of one worker, until that worker is done with it.
THEOREM NothingLostOrDoubled == Spec => []EachInOnePlace
<1>1. IInvPlaces => EachInOnePlace
  BY PlacesFitIsEachInOnePlace DEF IInvPlaces
<1>. QED
  BY <1>1, PlacesInit, PlacesStep, PTL DEF Spec
=============================================================================
