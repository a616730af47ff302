----------------------------- MODULE EventFeed ------------------------------
(***************************************************************************)
(* What the SSE broker promises to its clients, without channels, locks or *)
(* goroutines: a connection is subscribed to one project while it is open, *)
(* and gets a subsequence of that project's events, in the order they were *)
(* published, each at most once.  It does not promise every event.         *)
(***************************************************************************)
EXTENDS Naturals, Sequences

CONSTANTS
    Conns,      \* connections
    Projects,   \* project ids a connection can subscribe to
    NoTopic     \* no project: the topic of a connection that is not open

VARIABLES
    topic,      \* topic[c]: the project connection c is subscribed to
    inbox,      \* inbox[c]: the events connection c was given, oldest first
    published   \* number of events so far; the n-th event has id n

vars == <<topic, inbox, published>>

Init ==
    /\ topic = [c \in Conns |-> NoTopic]
    /\ inbox = [c \in Conns |-> <<>>]
    /\ published = 0

Publish ==
    /\ published' = published + 1
    /\ UNCHANGED <<topic, inbox>>

Subscribe(c) ==
    /\ topic[c] = NoTopic
    /\ \E p \in Projects : topic' = [topic EXCEPT ![c] = p]
    /\ UNCHANGED <<inbox, published>>

Unsubscribe(c) ==
    /\ topic[c] # NoTopic
    /\ topic' = [topic EXCEPT ![c] = NoTopic]
    /\ UNCHANGED <<inbox, published>>

Deliver(c) ==
    /\ \E n \in 1 .. published :
         /\ \A i \in DOMAIN inbox[c] : inbox[c][i].id < n
         /\ topic[c] # NoTopic
         /\ inbox' = [inbox EXCEPT ![c] = Append(@, [id |-> n, project |-> topic[c]])]
    /\ UNCHANGED <<topic, published>>

Next ==
    \/ Publish
    \/ \E c \in Conns : Subscribe(c) \/ Unsubscribe(c) \/ Deliver(c)

Spec == Init /\ [][Next]_vars
=============================================================================
