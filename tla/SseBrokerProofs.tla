-------------------------- MODULE SseBrokerProofs ---------------------------
(***************************************************************************)
(* Proofs about SseBroker, for every number of connections, projects and   *)
(* events and every capacity.                                              *)
(***************************************************************************)
EXTENDS SseBroker, TLAPS

(***************************************************************************)
(* The inductive invariant.                                                *)
(***************************************************************************)
IInv == TypeOK /\ RegistryExact /\ RangeConsistent /\ EventOrder

\* What is in a channel or an inbox after an event was added.
LEMMA AppendFacts ==
    ASSUME NEW S, NEW s \in Seq(S), NEW e \in S
    PROVE  /\ Append(s, e) \in Seq(S)
           /\ Len(s) \in Nat
           /\ Len(Append(s, e)) = Len(s) + 1
           /\ DOMAIN s = 1 .. Len(s)
           /\ DOMAIN Append(s, e) = 1 .. (Len(s) + 1)
           /\ \A i \in 1 .. Len(s) : Append(s, e)[i] = s[i]
           /\ Append(s, e)[Len(s) + 1] = e
  OBVIOUS

\* What is in a channel after a receive.
LEMMA TailFacts ==
    ASSUME NEW S, NEW s \in Seq(S), s # <<>>
    PROVE  /\ Tail(s) \in Seq(S)
           /\ Head(s) \in S /\ Head(s) = s[1]
           /\ Len(s) \in Nat \ {0}
           /\ Len(Tail(s)) = Len(s) - 1
           /\ DOMAIN s = 1 .. Len(s)
           /\ DOMAIN Tail(s) = 1 .. (Len(s) - 1)
           /\ \A i \in 1 .. (Len(s) - 1) : Tail(s)[i] = s[i + 1]
  OBVIOUS

\* Every element of a channel or an inbox has its type.
LEMMA ElementFacts ==
    ASSUME NEW S, NEW s \in Seq(S), NEW i \in DOMAIN s
    PROVE  s[i] \in S
  OBVIOUS

\* A channel or an inbox at the start.
LEMMA EmptyFacts ==
    ASSUME NEW S
    PROVE  <<>> \in Seq(S) /\ Len(<<>>) = 0 /\ DOMAIN <<>> = {}
  OBVIOUS

\* The initial states.
LEMMA InitInv == Init => IInv
<1> SUFFICES ASSUME Init PROVE IInv
  OBVIOUS
<1>0. /\ notifier = <<>> /\ Len(notifier) = 0 /\ DOMAIN notifier = {} /\ published = 0
      /\ \A c \in Conns : inbox[c] = <<>> /\ DOMAIN inbox[c] = {}
  BY EmptyFacts DEF Init
<1>1. TypeOK
  <2>1. notifier \in Seq(Event) /\ Len(notifier) <= NotifierCap
    BY <1>0, EmptyFacts, ConstantsAssumption
  <2>2. inbox \in [Conns -> Seq(Event)]
    BY EmptyFacts DEF Init
  <2>3. gone \in [Conns -> BOOLEAN]
    BY DEF Init
  <2> QED
    BY <2>1, <2>2, <2>3, ConstantsAssumption DEF Init, TypeOK, ConnLabels
<1>2. RegistryExact /\ RangeConsistent
  BY DEF Init, RegistryExact, RangeConsistent
<1>3. EventOrder
  BY <1>0 DEF Init, EventOrder, Taken
<1> QED
  BY <1>1, <1>2, <1>3 DEF IInv

-----------------------------------------------------------------------------
(* Types, one lemma per process.                                           *)

\* A publisher's step keeps the types.
LEMMA PublishType ==
    ASSUME TypeOK, NEW p \in Projects, Publish(p)
    PROVE  TypeOK'
<1>1. [id |-> published + 1, project |-> p] \in Event
  BY DEF TypeOK, Event
<1>2. notifier' \in Seq(Event) /\ Len(notifier') <= NotifierCap
  BY <1>1, AppendFacts, ConstantsAssumption DEF Publish, TypeOK
<1>3. published' \in 0 .. MaxEvents
  BY ConstantsAssumption DEF Publish, TypeOK
<1> QED
  BY <1>2, <1>3 DEF Publish, TypeOK, mapVars, listenVars, connVars

\* The listener's steps keep the types.
LEMMA ListenType ==
    ASSUME TypeOK, RangeConsistent, Listen
    PROVE  TypeOK'
<1>1. CASE Receive
  <2>1. Tail(notifier) \in Seq(Event) /\ Head(notifier) \in Event
        /\ Len(Tail(notifier)) <= NotifierCap
    BY <1>1, TailFacts, ConstantsAssumption DEF Receive, TypeOK
  <2> QED
    BY <1>1, <2>1 DEF Receive, TypeOK, mapVars, connVars
<1>2. CASE Lock
  BY <1>2 DEF Lock, TypeOK, RangeConsistent, Event, busVars, mapVars, connVars
<1>3. ASSUME NEW c \in Conns, Send(c) PROVE TypeOK'
  <2>1. event \in Event
    BY <1>3 DEF Send, RangeConsistent
  <2>2. inbox' \in [Conns -> Seq(Event)]
    BY <1>3, <2>1, AppendFacts DEF Send, TypeOK
  <2> QED
    BY <1>3, <2>2 DEF Send, TypeOK, busVars, mapVars, ConnLabels
<1>4. ASSUME NEW c \in Conns, Skip(c) PROVE TypeOK'
  BY <1>4 DEF Skip, TypeOK, busVars, mapVars, connVars
<1>5. CASE Unlock
  BY <1>5 DEF Unlock, TypeOK, busVars, mapVars, connVars
<1> QED
  BY <1>1, <1>2, <1>3, <1>4, <1>5 DEF Listen

\* The steps of a connection keep the types.
LEMMA ServeType ==
    ASSUME TypeOK, RangeConsistent, NEW c \in Conns, Serve(c)
    PROVE  TypeOK'
<1>1. ASSUME NEW q \in Projects \cup {NoProject}, Open(c, q) PROVE TypeOK'
  BY <1>1, ConstantsAssumption
     DEF Open, SubscriptionOf, TypeOK, busVars, mapVars, listenVars, ConnLabels
<1>2. CASE Register(c)
  <2>1. project[c] \in Projects
    BY <1>2 DEF Register, RangeConsistent
  <2> QED
    BY <1>2, <2>1 DEF Register, TypeOK, busVars, listenVars, ConnLabels
<1>3. CASE Select(c) \/ Close(c)
  BY <1>3 DEF Select, Close, TypeOK, busVars, mapVars, listenVars, ConnLabels
<1>4. CASE Disconnect(c)
  <2>1. gone' \in [Conns -> BOOLEAN]
    BY <1>4 DEF Disconnect, TypeOK
  <2>2. cpc' \in [Conns -> ConnLabels]
    BY <1>4 DEF Disconnect, TypeOK, ConnLabels
  <2> QED
    BY <1>4, <2>1, <2>2 DEF Disconnect, TypeOK, busVars, mapVars, listenVars
<1>5. CASE Deregister(c)
  <2>1. project[c] \in Projects
    BY <1>5 DEF Deregister, RangeConsistent
  <2> QED
    BY <1>5, <2>1 DEF Deregister, TypeOK, busVars, listenVars, ConnLabels
<1> QED
  BY <1>1, <1>2, <1>3, <1>4, <1>5 DEF Serve

-----------------------------------------------------------------------------
(* The registry and the listener's range.                                  *)

\* Everything but registering and leaving keeps the registry.
LEMMA RegistryStep ==
    ASSUME IInv, [Next]_vars
    PROVE  RegistryExact'
<1> USE DEF IInv, TypeOK
<1>1. ASSUME UNCHANGED <<clients, rooms, project>>,
             \A c \in Conns : cpc[c] \in {"busy", "parked", "leaving"}
                            <=> cpc'[c] \in {"busy", "parked", "leaving"}
      PROVE  RegistryExact'
  BY <1>1 DEF RegistryExact
<1>2. CASE UNCHANGED vars
  BY <1>1, <1>2 DEF vars
<1>3. ASSUME NEW p \in Projects, Publish(p) PROVE RegistryExact'
  BY <1>1, <1>3 DEF Publish, mapVars, connVars
<1>4. CASE Listen
  BY <1>1, <1>4 DEF Listen, Receive, Lock, Send, Skip, Unlock, mapVars, connVars
<1>5. ASSUME NEW c \in Conns, NEW q \in Projects \cup {NoProject}, Open(c, q)
      PROVE  RegistryExact'
  BY <1>5 DEF Open, RegistryExact, mapVars
<1>6. ASSUME NEW c \in Conns, Select(c) \/ Disconnect(c) \/ Close(c)
      PROVE  RegistryExact'
  BY <1>1, <1>6 DEF Select, Disconnect, Close, mapVars
<1>7. ASSUME NEW c \in Conns, Register(c) PROVE RegistryExact'
  <2>1. project[c] \in Projects
    BY <1>7 DEF Register, RangeConsistent
  <2> QED
    BY <1>7, <2>1 DEF Register, RegistryExact
<1>8. ASSUME NEW c \in Conns, Deregister(c) PROVE RegistryExact'
  <2>1. project[c] \in Projects
    BY <1>8 DEF Deregister, RangeConsistent
  <2> QED
    BY <1>8, <2>1 DEF Deregister, RegistryExact
<1> QED
  BY <1>2, <1>3, <1>4, <1>5, <1>6, <1>7, <1>8 DEF Next, Serve

\* While the listener ranges nobody registers or leaves.
LEMMA RangeStep ==
    ASSUME IInv, [Next]_vars
    PROVE  RangeConsistent'
<1> USE DEF IInv, TypeOK
<1>1. CASE UNCHANGED vars
  BY <1>1 DEF vars, RangeConsistent
<1>2. ASSUME NEW p \in Projects, Publish(p) PROVE RangeConsistent'
  BY <1>2 DEF Publish, RangeConsistent, mapVars, listenVars, connVars
<1>3. CASE Receive
  <2>1. event' \in Event
    BY <1>3, TailFacts DEF Receive
  <2> QED
    BY <1>3, <2>1 DEF Receive, RangeConsistent, mapVars, connVars
<1>4. CASE Lock
  BY <1>4 DEF Lock, RangeConsistent, mapVars, connVars
<1>5. ASSUME NEW c \in Conns, Send(c) \/ Skip(c) PROVE RangeConsistent'
  BY <1>5 DEF Send, Skip, RangeConsistent, mapVars, connVars
<1>6. CASE Unlock
  BY <1>6 DEF Unlock, RangeConsistent, mapVars, connVars
<1>7. ASSUME NEW c \in Conns, NEW q \in Projects \cup {NoProject}, Open(c, q)
      PROVE  RangeConsistent'
  <2>1. SubscriptionOf(q) \in Projects
    BY ConstantsAssumption DEF SubscriptionOf
  <2> QED
    BY <1>7, <2>1 DEF Open, RangeConsistent, mapVars, listenVars
<1>8. ASSUME NEW c \in Conns, Register(c) \/ Deregister(c) PROVE RangeConsistent'
  BY <1>8 DEF Register, Deregister, RangeConsistent, listenVars
<1>9. ASSUME NEW c \in Conns, Select(c) \/ Disconnect(c) \/ Close(c)
      PROVE  RangeConsistent'
  BY <1>9 DEF Select, Disconnect, Close, RangeConsistent, mapVars, listenVars
<1> QED
  BY <1>1, <1>2, <1>3, <1>4, <1>5, <1>6, <1>7, <1>8, <1>9 DEF Next, Listen, Serve

\* Events stay in the order in which they were published.
LEMMA OrderStep ==
    ASSUME IInv, [Next]_vars
    PROVE  EventOrder'
<1> USE DEF IInv, TypeOK
<1>0. published \in Nat /\ Len(notifier) \in Nat /\ Taken \in Nat
  BY ConstantsAssumption DEF EventOrder, Taken
<1>1. ASSUME UNCHANGED <<notifier, published, lpc, event, todo, inbox>>
      PROVE  EventOrder'
  BY <1>1 DEF EventOrder, Taken
<1>2. CASE UNCHANGED vars
  BY <1>1, <1>2 DEF vars
<1>3. ASSUME NEW p \in Projects, Publish(p) PROVE EventOrder'
  <2> DEFINE e == [id |-> published + 1, project |-> p]
  <2>1. e \in Event
    BY <1>0 DEF Event
  <2>2. /\ notifier' = Append(notifier, e) /\ published' = published + 1
        /\ UNCHANGED <<lpc, event, todo, inbox>>
    BY <1>3 DEF Publish, listenVars, connVars
  <2>3. Len(notifier') = Len(notifier) + 1
    BY <2>1, <2>2, AppendFacts
  <2>4. Taken' = Taken
    BY <1>0, <2>2, <2>3 DEF Taken
  <2>5. \A i \in DOMAIN notifier' : notifier'[i].id = Taken + i
    <3>1. /\ DOMAIN notifier' = 1 .. (Len(notifier) + 1)
          /\ DOMAIN notifier = 1 .. Len(notifier)
          /\ \A i \in 1 .. Len(notifier) : notifier'[i] = notifier[i]
          /\ notifier'[Len(notifier) + 1] = e
      BY <2>1, <2>2, AppendFacts
    <3>2. e.id = Taken + (Len(notifier) + 1)
      BY <1>0 DEF Taken
    <3>3. ASSUME NEW i \in DOMAIN notifier' PROVE notifier'[i].id = Taken + i
      <4>1. CASE i \in DOMAIN notifier
        BY <3>1, <4>1 DEF EventOrder
      <4>2. CASE i = Len(notifier) + 1
        BY <3>1, <3>2, <4>2
      <4> QED
        BY <1>0, <3>1, <3>3, <4>1, <4>2
    <3> QED
      BY <3>3
  <2> QED
    BY <1>0, <2>2, <2>3, <2>4, <2>5 DEF EventOrder
<1>4. CASE Receive
  <2>1. /\ Len(notifier) >= 1 /\ Len(notifier') = Len(notifier) - 1
        /\ DOMAIN notifier = 1 .. Len(notifier)
        /\ DOMAIN notifier' = 1 .. (Len(notifier) - 1)
        /\ event' = notifier[1]
        /\ \A i \in DOMAIN notifier' : notifier'[i] = notifier[i + 1]
    BY <1>4, TailFacts DEF Receive
  <2>2. lpc' = "lock" /\ UNCHANGED <<published, todo, inbox>>
    BY <1>4 DEF Receive, connVars
  <2>3. Taken' = Taken + 1
    BY <1>0, <2>1, <2>2 DEF Taken
  <2>4. event'.id = Taken + 1
    <3>1. 1 \in DOMAIN notifier
      BY <1>0, <2>1
    <3>2. notifier[1].id = Taken + 1
      BY <3>1, Zenon DEF EventOrder
    <3> QED
      BY <2>1, <3>2
  <2>5. \A i \in DOMAIN notifier' : notifier'[i].id = Taken' + i
    <3>1. ASSUME NEW i \in DOMAIN notifier'
          PROVE  notifier'[i].id = Taken' + i
      <4>1. i \in Nat /\ i + 1 \in DOMAIN notifier /\ notifier'[i] = notifier[i + 1]
        BY <1>0, <2>1
      <4>2. notifier[i + 1].id = Taken + (i + 1)
        BY <4>1 DEF EventOrder
      <4> QED
        BY <1>0, <2>3, <4>1, <4>2
    <3> QED
      BY <3>1
  <2>6. \A c \in Conns : \A i \in DOMAIN inbox'[c] :
            inbox'[c][i].id <= Taken' /\ inbox'[c][i].id < Taken'
    <3>1. \A c \in Conns : \A i \in DOMAIN inbox[c] : inbox[c][i].id \in Nat
      <4>1. ASSUME NEW c \in Conns, NEW i \in DOMAIN inbox[c] PROVE inbox[c][i] \in Event
        BY ElementFacts
      <4> QED
        BY <4>1 DEF Event
    <3> QED
      BY <1>0, <2>2, <2>3, <3>1 DEF EventOrder
  <2> QED
    BY <1>0, <2>1, <2>2, <2>3, <2>4, <2>5, <2>6 DEF EventOrder
<1>5. CASE Lock \/ Unlock
  BY <1>5 DEF Lock, Unlock, EventOrder, Taken, RangeConsistent, busVars, connVars
<1>6. ASSUME NEW c \in Conns, Send(c) PROVE EventOrder'
  <2>1. /\ inbox' = [inbox EXCEPT ![c] = Append(inbox[c], event)]
        /\ todo' = todo \ {c} /\ c \in todo /\ lpc = "send"
        /\ UNCHANGED <<notifier, published, lpc, event>>
    BY <1>6 DEF Send, busVars
  <2>2. event \in Event /\ event.id = Taken
    BY <2>1 DEF RangeConsistent, EventOrder
  <2>3. /\ DOMAIN inbox[c] = 1 .. Len(inbox[c]) /\ Len(inbox[c]) \in Nat
        /\ inbox'[c] = Append(inbox[c], event)
        /\ DOMAIN inbox'[c] = 1 .. (Len(inbox[c]) + 1)
        /\ \A i \in DOMAIN inbox[c] : inbox'[c][i] = inbox[c][i]
        /\ inbox'[c][Len(inbox[c]) + 1] = event
    BY <2>1, <2>2, AppendFacts
  <2>4. \A i \in DOMAIN inbox'[c] : inbox'[c][i].id <= Taken
    BY <1>0, <2>2, <2>3 DEF EventOrder
  <2>5. \A d \in Conns \ {c} : inbox'[d] = inbox[d] /\ (d \in todo' <=> d \in todo)
    BY <2>1
  <2>6. Taken' = Taken
    BY <2>1 DEF Taken
  <2> QED
    BY <2>1, <2>2, <2>4, <2>5, <2>6 DEF EventOrder
<1>7. ASSUME NEW c \in Conns, Skip(c) PROVE EventOrder'
  BY <1>7 DEF Skip, EventOrder, Taken, busVars, connVars
<1>8. ASSUME NEW c \in Conns, Serve(c) PROVE EventOrder'
  BY <1>1, <1>8 DEF Serve, Open, Register, Select, Disconnect, Deregister, Close,
     busVars, listenVars
<1> QED
  BY <1>2, <1>3, <1>4, <1>5, <1>6, <1>7, <1>8 DEF Next, Listen

\* The invariant is inductive.
LEMMA StepInv == IInv /\ [Next]_vars => IInv'
<1> SUFFICES ASSUME IInv, [Next]_vars PROVE IInv'
  OBVIOUS
<1>1. TypeOK'
  <2>1. CASE UNCHANGED vars
    BY <2>1 DEF IInv, TypeOK, vars
  <2> QED
    BY <2>1, PublishType, ListenType, ServeType DEF Next, IInv
<1> QED
  BY <1>1, RegistryStep, RangeStep, OrderStep DEF IInv

\* The inductive invariant holds in every reachable state.
LEMMA Invariance == Spec => []IInv
  BY InitInv, StepInv, PTL DEF Spec

(***************************************************************************)
(* The types of the broker; Notifier never holds more than its capacity.   *)
(***************************************************************************)
THEOREM TypeCorrect == Spec => []TypeOK
<1>1. IInv => TypeOK
  BY DEF IInv
<1> QED
  BY <1>1, Invariance, PTL

(***************************************************************************)
(* ServeHTTP removes a channel under the mutex before it closes it, so     *)
(* listen never sends on a closed channel.                                 *)
(***************************************************************************)
THEOREM NoSendOnClosedCorrect == Spec => []NoSendOnClosed
<1>1. IInv => NoSendOnClosed
  <2> SUFFICES ASSUME IInv, lpc = "send", NEW c \in todo PROVE cpc[c] # "closed"
    BY DEF NoSendOnClosed
  <2>1. event.project \in Projects /\ c \in clients[event.project]
    BY DEF IInv, RangeConsistent, Event
  <2> QED
    BY <2>1 DEF IInv, RegistryExact
<1> QED
  BY <1>1, Invariance, PTL

(***************************************************************************)
(* The map of clients is exact at every moment.                            *)
(***************************************************************************)
THEOREM RegistryExactCorrect == Spec => []RegistryExact
<1>1. IInv => RegistryExact
  BY DEF IInv
<1> QED
  BY <1>1, Invariance, PTL

-----------------------------------------------------------------------------
(* The refinement.                                                         *)

\* A step that gives nobody an event leaves the feed alone or changes one topic.
LEMMA FeedSubscriptions ==
    ASSUME IInv, NEW c \in Conns, Serve(c)
    PROVE  [Feed!Next]_Feed!vars
<1> USE DEF IInv, TypeOK
<1>1. UNCHANGED <<inbox, published>>
  BY DEF Serve, Open, Register, Select, Disconnect, Deregister, Close, busVars
<1>2. \/ \A d \in Conns : Topic'[d] = Topic[d]
      \/ /\ Topic[c] = NoProject /\ Topic'[c] \in Projects
         /\ \A d \in Conns \ {c} : Topic'[d] = Topic[d]
      \/ /\ Topic[c] # NoProject /\ Topic'[c] = NoProject
         /\ \A d \in Conns \ {c} : Topic'[d] = Topic[d]
  <2>1. ASSUME NEW q \in Projects \cup {NoProject}, Open(c, q)
        PROVE  \A d \in Conns : Topic'[d] = Topic[d]
    BY <2>1 DEF Open, Topic
  <2>2. CASE Register(c)
    <3>1. project[c] \in Projects
      BY <2>2 DEF Register, RangeConsistent
    <3> QED
      BY <2>2, <3>1 DEF Register, Topic
  <2>3. CASE Select(c) \/ Disconnect(c)
    <3>1. project[c] \in Projects
      BY <2>3 DEF Select, Disconnect, RangeConsistent
    <3> QED
      BY <2>3, <3>1, ConstantsAssumption DEF Select, Disconnect, Topic
  <2>4. CASE Deregister(c) \/ Close(c)
    BY <2>4 DEF Deregister, Close, Topic
  <2> QED
    BY <2>1, <2>2, <2>3, <2>4 DEF Serve
<1>3. Topic' = [d \in Conns |-> Topic'[d]] /\ Topic = [d \in Conns |-> Topic[d]]
  BY DEF Topic
<1>4. CASE \A d \in Conns : Topic'[d] = Topic[d]
  <2>1. Topic' = Topic
    BY <1>3, <1>4
  <2> QED
    BY <1>1, <2>1 DEF Feed!vars
<1>5. CASE /\ Topic[c] = NoProject /\ Topic'[c] \in Projects
           /\ \A d \in Conns \ {c} : Topic'[d] = Topic[d]
  <2>1. Topic' = [Topic EXCEPT ![c] = Topic'[c]]
    BY <1>3, <1>5
  <2>2. Feed!Subscribe(c)
    BY <1>1, <1>5, <2>1 DEF Feed!Subscribe
  <2> QED
    BY <2>2 DEF Feed!Next
<1>6. CASE /\ Topic[c] # NoProject /\ Topic'[c] = NoProject
           /\ \A d \in Conns \ {c} : Topic'[d] = Topic[d]
  <2>1. Topic' = [Topic EXCEPT ![c] = NoProject]
    BY <1>3, <1>6
  <2>2. Feed!Unsubscribe(c)
    BY <1>1, <1>6, <2>1 DEF Feed!Unsubscribe
  <2> QED
    BY <2>2 DEF Feed!Next
<1> QED
  BY <1>2, <1>4, <1>5, <1>6

\* An event that is handed over is delivered in the feed.
LEMMA FeedDelivery ==
    ASSUME IInv, NEW c \in Conns, Send(c)
    PROVE  Feed!Deliver(c)
<1> USE DEF IInv, TypeOK
<1>1. /\ event \in Event /\ c \in clients[event.project] /\ event.project \in Projects
      /\ cpc[c] = "parked"
  BY DEF Send, RangeConsistent, Event
<1>2. project[c] = event.project
  BY <1>1 DEF RegistryExact
<1>3. Topic[c] = event.project /\ Topic' = Topic
  BY <1>1, <1>2 DEF Send, Topic
<1>4. event = [id |-> event.id, project |-> event.project]
  BY <1>1 DEF Event
<1>5. event.id \in 1 .. published
  BY <1>1 DEF Send, EventOrder, Taken, Event
<1>6. \A i \in DOMAIN inbox[c] : inbox[c][i].id < event.id
  BY DEF Send, EventOrder
<1>7. inbox' = [inbox EXCEPT ![c] = Append(@, [id |-> event.id, project |-> Topic[c]])]
  BY <1>3, <1>4 DEF Send
<1> QED
  BY <1>1, <1>3, <1>5, <1>6, <1>7, ConstantsAssumption DEF Feed!Deliver, Send, busVars

\* Every step of the broker is a step of the feed or leaves it alone.
LEMMA FeedStep == IInv /\ [Next]_vars => [Feed!Next]_Feed!vars
<1> SUFFICES ASSUME IInv, [Next]_vars PROVE [Feed!Next]_Feed!vars
  OBVIOUS
<1>1. CASE UNCHANGED vars
  BY <1>1 DEF vars, Feed!vars, Topic
<1>2. ASSUME NEW p \in Projects, Publish(p) PROVE Feed!Publish
  BY <1>2 DEF Publish, Feed!Publish, connVars, Topic
<1>3. ASSUME Receive \/ Lock \/ Unlock PROVE UNCHANGED Feed!vars
  BY <1>3 DEF Receive, Lock, Unlock, Feed!vars, connVars, busVars, Topic
<1>4. ASSUME NEW c \in Conns, Skip(c) PROVE UNCHANGED Feed!vars
  BY <1>4 DEF Skip, Feed!vars, connVars, busVars, Topic
<1> QED
  BY <1>1, <1>2, <1>3, <1>4, FeedDelivery, FeedSubscriptions DEF Next, Listen, Feed!Next

(***************************************************************************)
(* The broker implements the feed: a connection gets a subsequence of the  *)
(* events of its project, in order, each at most once, while it is open.   *)
(***************************************************************************)
THEOREM FeedCorrect == Spec => ImplementsEventFeed
<1>1. Init => Feed!Init
  BY DEF Init, Feed!Init, Topic
<1> QED
  BY <1>1, FeedStep, Invariance, PTL DEF Spec, ImplementsEventFeed, Feed!Spec

=============================================================================
