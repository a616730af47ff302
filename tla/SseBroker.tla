----------------------------- MODULE SseBroker ------------------------------
(***************************************************************************)
(* The SSE broker (internal/api/broker.go): publishers put events on the   *)
(* buffered channel Notifier; one listener goroutine takes them off and,   *)
(* holding the mutex, offers each to the clients registered for its        *)
(* project; one goroutine per connection registers an unbuffered channel,  *)
(* writes what it receives on it to the connection, and removes and closes *)
(* the channel when the connection is gone.                                *)
(*                                                                         *)
(* The offer is a non-blocking send on an unbuffered channel: it succeeds  *)
(* only when the client's goroutine is parked in its select.               *)
(***************************************************************************)
EXTENDS Naturals, Sequences

CONSTANTS
    Conns,          \* connections, each with a goroutine and a channel
    Projects,       \* project ids a connection can name, and events carry
    DefaultProject, \* the literal "default"
    NoProject,      \* the query without project_id
    NoEvent,        \* what the listener holds between two events
    NotifierCap,    \* capacity of Notifier (100 in the code)
    MaxEvents       \* bound on the events of a behaviour

ASSUME ConstantsAssumption ==
    /\ DefaultProject \in Projects
    /\ NoProject \notin Projects
    /\ NotifierCap \in Nat \ {0}
    /\ MaxEvents \in Nat
    /\ NoEvent \notin [id : Nat, project : Projects]

VARIABLES
    notifier,   \* the channel Notifier: events not yet taken
    published,  \* number of events put on Notifier so far
    clients,    \* clients[p]: channels registered for project p
    rooms,      \* keys of the outer map
    mu,         \* the mutex, across steps only ever held by the listener
    lpc,        \* where the listener is
    event,      \* the event the listener is distributing
    todo,       \* channels the listener's range has still to visit
    cpc,        \* cpc[c]: where the goroutine of connection c is
    project,    \* project[c]: what connection c subscribes to
    gone,       \* gone[c]: the request context of c is done
    inbox       \* inbox[c]: events received by c's goroutine

vars == <<notifier, published, clients, rooms, mu, lpc, event, todo,
          cpc, project, gone, inbox>>

busVars    == <<notifier, published>>
mapVars    == <<clients, rooms>>
listenVars == <<mu, lpc, event, todo>>
connVars   == <<cpc, project, gone, inbox>>

Event == [id : Nat, project : Projects]

ConnLabels == {"out", "opening", "busy", "parked", "leaving", "closing", "closed"}

Init ==
    /\ notifier = <<>> /\ published = 0
    /\ clients = [p \in Projects |-> {}] /\ rooms = {}
    /\ mu = "free" /\ lpc = "recv" /\ event = NoEvent /\ todo = {}
    /\ cpc = [c \in Conns |-> "out"]
    /\ project = [c \in Conns |-> NoProject]
    /\ gone = [c \in Conns |-> FALSE]
    /\ inbox = [c \in Conns |-> <<>>]

-----------------------------------------------------------------------------
(* A handler or a worker: Notifier <- BrokerEvent, which waits for room.   *)

Publish(p) ==
    /\ published < MaxEvents
    /\ Len(notifier) < NotifierCap
    /\ published' = published + 1
    /\ notifier' = Append(notifier, [id |-> published + 1, project |-> p])
    /\ UNCHANGED <<mapVars, listenVars, connVars>>

-----------------------------------------------------------------------------
(* listen                                                                  *)

\* case s := <-b.Notifier
Receive ==
    /\ lpc = "recv" /\ notifier # <<>>
    /\ event' = Head(notifier)
    /\ notifier' = Tail(notifier)
    /\ lpc' = "lock"
    /\ UNCHANGED <<published, mapVars, mu, todo, connVars>>

\* Mutant: the broadcast of the first version, to the clients of every project.
LockEveryone ==
    /\ lpc = "lock" /\ mu = "free"
    /\ mu' = "listener"
    /\ todo' = UNION {clients[p] : p \in rooms}
    /\ lpc' = "send"
    /\ UNCHANGED <<busVars, mapVars, event, connVars>>

\* b.mu.Lock() and the lookup of the project's clients.
Lock ==
    /\ lpc = "lock" /\ mu = "free"
    /\ mu' = "listener"
    /\ todo' = IF event.project \in rooms THEN clients[event.project] ELSE {}
    /\ lpc' = "send"
    /\ UNCHANGED <<busVars, mapVars, event, connVars>>

\* case clientMessageChan <- s.Payload: a parked goroutine takes the event.
Send(c) ==
    /\ lpc = "send" /\ c \in todo /\ cpc[c] = "parked"
    /\ todo' = todo \ {c}
    /\ inbox' = [inbox EXCEPT ![c] = Append(@, event)]
    /\ cpc' = [cpc EXCEPT ![c] = "busy"]
    /\ UNCHANGED <<busVars, mapVars, mu, lpc, event, project, gone>>

\* Mutant: a send without default waits for the goroutine to come back.
SkipNever(c) ==
    /\ lpc = "send" /\ c \in todo /\ cpc[c] # "parked"
    /\ UNCHANGED vars

\* default: nobody receives on the channel at this moment.
Skip(c) ==
    /\ lpc = "send" /\ c \in todo /\ cpc[c] # "parked"
    /\ todo' = todo \ {c}
    /\ UNCHANGED <<busVars, mapVars, mu, lpc, event, connVars>>

\* Mutant: the unlock is forgotten when the project has no clients.
UnlockIfServed ==
    /\ lpc = "send" /\ todo = {}
    /\ mu' = IF event.project \in rooms THEN "free" ELSE "listener"
    /\ lpc' = "recv"
    /\ event' = NoEvent
    /\ UNCHANGED <<busVars, mapVars, todo, connVars>>

\* The range is over: b.mu.Unlock().
Unlock ==
    /\ lpc = "send" /\ todo = {}
    /\ mu' = "free"
    /\ lpc' = "recv"
    /\ event' = NoEvent
    /\ UNCHANGED <<busVars, mapVars, todo, connVars>>

Listen == Receive \/ Lock \/ (\E c \in Conns : Send(c) \/ Skip(c)) \/ Unlock

-----------------------------------------------------------------------------
(* ServeHTTP.  Its two critical sections do not block, so each is one step *)
(* that is taken when the listener does not hold mu.                       *)

SubscriptionOf(query) == IF query = NoProject THEN DefaultProject ELSE query

Open(c, query) ==
    /\ cpc[c] = "out"
    /\ cpc' = [cpc EXCEPT ![c] = "opening"]
    /\ project' = [project EXCEPT ![c] = SubscriptionOf(query)]
    /\ UNCHANGED <<busVars, mapVars, listenVars, gone, inbox>>

Register(c) ==
    /\ cpc[c] = "opening" /\ mu = "free"
    /\ clients' = [clients EXCEPT ![project[c]] = @ \cup {c}]
    /\ rooms' = rooms \cup {project[c]}
    /\ cpc' = [cpc EXCEPT ![c] = "busy"]
    /\ UNCHANGED <<busVars, listenVars, project, gone, inbox>>

(***************************************************************************)
(* The goroutine comes to its select, from the registration or when the    *)
(* write of its last event is over; a context that is done is seen there.  *)
(***************************************************************************)
Select(c) ==
    /\ cpc[c] = "busy"
    /\ cpc' = [cpc EXCEPT ![c] = IF gone[c] THEN "leaving" ELSE "parked"]
    /\ UNCHANGED <<busVars, mapVars, listenVars, project, gone, inbox>>

\* The client goes away; a parked goroutine is woken by ctx.Done at once.
Disconnect(c) ==
    /\ cpc[c] \notin {"out", "closed"} /\ ~gone[c]
    /\ gone' = [gone EXCEPT ![c] = TRUE]
    /\ cpc' = [cpc EXCEPT ![c] = IF @ = "parked" THEN "leaving" ELSE @]
    /\ UNCHANGED <<busVars, mapVars, listenVars, project, inbox>>

\* Mutant: the inner map is emptied but never removed.
DeregisterKeepingRoom(c) ==
    /\ cpc[c] = "leaving" /\ mu = "free"
    /\ clients' = [clients EXCEPT ![project[c]] = @ \ {c}]
    /\ cpc' = [cpc EXCEPT ![c] = "closing"]
    /\ UNCHANGED <<busVars, rooms, listenVars, project, gone, inbox>>

Deregister(c) ==
    /\ cpc[c] = "leaving" /\ mu = "free"
    /\ clients' = [clients EXCEPT ![project[c]] = @ \ {c}]
    /\ rooms' = IF clients'[project[c]] = {} THEN rooms \ {project[c]} ELSE rooms
    /\ cpc' = [cpc EXCEPT ![c] = "closing"]
    /\ UNCHANGED <<busVars, listenVars, project, gone, inbox>>

\* Mutant: the channel is closed before it is taken out of the map.
CloseFirst(c) ==
    /\ cpc[c] \in {"leaving", "closing"}
    /\ cpc' = [cpc EXCEPT ![c] = "closed"]
    /\ UNCHANGED <<busVars, mapVars, listenVars, project, gone, inbox>>

\* close(messageChan), after the mutex was released.
Close(c) ==
    /\ cpc[c] = "closing"
    /\ cpc' = [cpc EXCEPT ![c] = "closed"]
    /\ UNCHANGED <<busVars, mapVars, listenVars, project, gone, inbox>>

Serve(c) ==
    \/ \E query \in Projects \cup {NoProject} : Open(c, query)
    \/ Register(c) \/ Select(c) \/ Disconnect(c) \/ Deregister(c) \/ Close(c)

-----------------------------------------------------------------------------
Next ==
    \/ \E p \in Projects : Publish(p)
    \/ Listen
    \/ \E c \in Conns : Serve(c)

Spec == Init /\ [][Next]_vars

(***************************************************************************)
(* The listener runs whenever it can.  A connection's goroutine runs too,  *)
(* and sync.Mutex hands the lock to a waiter that was passed over (its     *)
(* starvation mode), hence strong fairness for the lock.  A write to an    *)
(* open connection may block for ever - the server sets no timeout - so    *)
(* leaving "busy" is fair only once the client is gone.                    *)
(***************************************************************************)
Fairness ==
    /\ WF_vars(Listen)
    /\ \A c \in Conns :
         /\ SF_vars(Register(c)) /\ SF_vars(Deregister(c))
         /\ WF_vars(gone[c] /\ Select(c))
         /\ WF_vars(Close(c))

FairSpec == Spec /\ Fairness

-----------------------------------------------------------------------------
(* Properties.                                                             *)

\* Types; Notifier never holds more than its capacity.
TypeOK ==
    /\ notifier \in Seq(Event) /\ Len(notifier) <= NotifierCap
    /\ published \in 0 .. MaxEvents
    /\ clients \in [Projects -> SUBSET Conns]
    /\ rooms \subseteq Projects
    /\ mu \in {"free", "listener"}
    /\ lpc \in {"recv", "lock", "send"}
    /\ event \in Event \cup {NoEvent}
    /\ todo \subseteq Conns
    /\ cpc \in [Conns -> ConnLabels]
    /\ project \in [Conns -> Projects \cup {NoProject}]
    /\ gone \in [Conns -> BOOLEAN]
    /\ inbox \in [Conns -> Seq(Event)]

(***************************************************************************)
(* The listener never offers an event on a closed channel, which would     *)
(* panic and take the whole server down: a connection may end at any point *)
(* of the range, and what the range has still to visit was read before.    *)
(***************************************************************************)
NoSendOnClosed == lpc = "send" => \A c \in todo : cpc[c] # "closed"

(***************************************************************************)
(* The map holds exactly the channels whose goroutines have registered and *)
(* not left, each under its own project, and no key without a channel: it  *)
(* neither forgets an open connection nor grows with past ones.            *)
(***************************************************************************)
RegistryExact ==
    \A p \in Projects :
        /\ clients[p] = {c \in Conns : project[c] = p
                                      /\ cpc[c] \in {"busy", "parked", "leaving"}}
        /\ p \in rooms <=> clients[p] # {}

(***************************************************************************)
(* The listener holds the mutex just while it ranges, and what it has      *)
(* still to visit is registered for the project of its event then.         *)
(***************************************************************************)
RangeConsistent ==
    /\ mu = "listener" <=> lpc = "send"
    /\ lpc = "recv" => event = NoEvent
    /\ lpc # "recv" => event \in Event
    /\ lpc = "send" => todo \subseteq clients[event.project]
    /\ lpc # "send" => todo = {}
    /\ \A c \in Conns : cpc[c] # "out" => project[c] \in Projects

(***************************************************************************)
(* Events keep the order in which they were published: those in the        *)
(* channel are newer than the one the listener has, and that one is newer  *)
(* than everything in the inboxes it was not yet put into.                 *)
(***************************************************************************)
Taken == published - Len(notifier)

EventOrder ==
    /\ Len(notifier) <= published
    /\ \A i \in DOMAIN notifier : notifier[i].id = Taken + i
    /\ lpc # "recv" => event.id = Taken /\ Taken >= 1
    /\ \A c \in Conns : \A i \in DOMAIN inbox[c] :
          /\ inbox[c][i].id <= Taken
          /\ lpc = "lock" \/ c \in todo => inbox[c][i].id < Taken

\* A connection is subscribed from its registration until it leaves its loop.
Topic ==
    [c \in Conns |-> IF cpc[c] \in {"busy", "parked"} THEN project[c] ELSE NoProject]

(***************************************************************************)
(* The broker implements the feed: isolation of projects, order, no event  *)
(* twice, nothing after the connection was left.                           *)
(***************************************************************************)
Feed == INSTANCE EventFeed WITH NoTopic <- NoProject, topic <- Topic

\* The refinement of EventFeed by listen and ServeHTTP, as a property.
ImplementsEventFeed == Feed!Spec

(***************************************************************************)
(* A full Notifier gets room again, so a handler or worker that waits to   *)
(* announce is not held up by clients that do not read.                    *)
(***************************************************************************)
EventsAreTaken == Len(notifier) = NotifierCap ~> Len(notifier) < NotifierCap

\* The goroutine and the channel of a client that went away do not stay.
ConnectionsEnd == \A c \in Conns : gone[c] ~> cpc[c] = "closed"

=============================================================================
