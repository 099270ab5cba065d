-------------------------------- MODULE Bus ---------------------------------
(***************************************************************************)
(* The event bus (pubsub/bus.go): a tree of goroutines running bus.run.    *)
(* The root accepts events; a subscriber is a bus itself, which buffers    *)
(* events for its reader and passes them to its own subscribers.  Every    *)
(* channel is unbuffered, so a send and its receive are one step, which    *)
(* both goroutines must be ready for: the receiver is in its select, and   *)
(* the sender has nothing left to do before the send.                      *)
(*                                                                         *)
(* An event is its position in the order in which the root accepts events. *)
(* last is a history variable: the event a reader was given most recently. *)
(***************************************************************************)
EXTENDS Naturals, Sequences, FiniteSets

CONSTANTS
    Root,         \* the bus made by NewBus
    Subscribers,  \* the subscribers that may be made
    MaxEvents     \* bound: number of events published

Buses == {Root} \cup Subscribers

ASSUME BusAssumption == Root \notin Subscribers /\ MaxEvents \in Nat

VARIABLES
    phase,        \* bus -> "none", "running", "closing" or "done"
    subscriptions,\* bus -> its subscribers
    evbuf,        \* bus -> buffered events
    pending,      \* bus -> subscribers it still has to publish to, or to shut down
    current,      \* bus -> the event being published
    published,    \* number of events accepted by the root
    last          \* history: subscriber -> last event given to its reader

vars == <<phase, subscriptions, evbuf, pending, current, published, last>>

Init ==
    /\ phase = [b \in Buses |-> IF b = Root THEN "running" ELSE "none"]
    /\ subscriptions = [b \in Buses |-> {}]
    /\ evbuf = [b \in Buses |-> << >>]
    /\ pending = [b \in Buses |-> {}]
    /\ current = [b \in Buses |-> 0]
    /\ published = 0
    /\ last = [s \in Subscribers |-> 0]

\* Mutant: only a bus that is done counts as shutting down.
ShuttingDownWhenDone(b) == phase[b] = "done"

\* The goroutine is in the select of its loop; it has initiated its shutdown.
Selecting(b) == phase[b] = "running" /\ pending[b] = {}
ShuttingDown(b) == phase[b] \in {"closing", "done"}

\* Mutant: an event is taken only when the reader has taken the one before.
AcceptsWhenRead(b) == Selecting(b) /\ evbuf[b] = << >>

\* It can receive from pubch: buffered events do not stand in the way.
Accepts(b) == Selecting(b)

\* The case of pubch: buffer the event, then go through the subscribers.
Receive(b, ev) ==
    /\ evbuf' = IF b = Root THEN evbuf ELSE [evbuf EXCEPT ![b] = Append(@, ev)]
    /\ current' = [current EXCEPT ![b] = ev]

\* Publish on the root by a user of the bus.
Publish ==
    /\ Accepts(Root)
    /\ published < MaxEvents
    /\ published' = published + 1
    /\ Receive(Root, published + 1)
    /\ pending' = [pending EXCEPT ![Root] = subscriptions[Root]]
    /\ UNCHANGED <<phase, subscriptions, last>>

\* sub.Publish(ev) in the loop over the subscribers: the subscriber takes the event,
\* or is shutting down and the call returns ErrNotRunning.
PublishTo(b, c) ==
    /\ phase[b] = "running" /\ c \in pending[b]
    /\ Accepts(c)
    /\ Receive(c, current[b])
    /\ pending' = [pending EXCEPT ![b] = @ \ {c}, ![c] = subscriptions[c]]
    /\ UNCHANGED <<phase, subscriptions, published, last>>

PublishFails(b, c) ==
    /\ phase[b] = "running" /\ c \in pending[b]
    /\ ShuttingDown(c)
    /\ pending' = [pending EXCEPT ![b] = @ \ {c}]
    /\ UNCHANGED <<phase, subscriptions, evbuf, current, published, last>>

\* outch <- curev: the reader of the subscriber takes the first buffered event.
Emit(s) ==
    /\ Selecting(s)
    /\ evbuf[s] # << >>
    /\ last' = [last EXCEPT ![s] = Head(evbuf[s])]
    /\ evbuf' = [evbuf EXCEPT ![s] = Tail(@)]
    /\ UNCHANGED <<phase, subscriptions, pending, current, published>>

\* newSubscriber allocates: unused subscribers are interchangeable, so it takes one.
Fresh(s) == phase[s] = "none" /\ s = CHOOSE t \in Subscribers : phase[t] = "none"

\* Mutant: the buffer is not copied.
NewSubscriberEmpty(b, s) ==
    /\ Selecting(b)
    /\ Fresh(s)
    /\ phase' = [phase EXCEPT ![s] = "running"]
    /\ subscriptions' = [subscriptions EXCEPT ![b] = @ \cup {s}]
    /\ last' = [last EXCEPT ![s] = IF b = Root THEN published ELSE last[b]]
    /\ UNCHANGED <<evbuf, pending, current, published>>

\* Subscribe on the root and Clone on a subscriber: newSubscriber copies the buffer.
NewSubscriber(b, s) ==
    /\ Selecting(b)
    /\ Fresh(s)
    /\ phase' = [phase EXCEPT ![s] = "running"]
    /\ evbuf' = [evbuf EXCEPT ![s] = evbuf[b]]
    /\ subscriptions' = [subscriptions EXCEPT ![b] = @ \cup {s}]
    /\ last' = [last EXCEPT ![s] = IF b = Root THEN published ELSE last[b]]
    /\ UNCHANGED <<pending, current, published>>

\* ShutdownInitiated, and the loop that shuts the subscribers down is about to start.
Close(b) ==
    /\ Selecting(b)
    /\ phase' = [phase EXCEPT ![b] = "closing"]
    /\ pending' = [pending EXCEPT ![b] = subscriptions[b]]
    /\ UNCHANGED <<subscriptions, evbuf, current, published, last>>

\* sub.lc.ShutdownAsync in that loop: the subscriber takes the request, or is
\* shutting down already.
ShutdownSub(b, c) ==
    /\ phase[b] = "closing" /\ c \in pending[b]
    /\ Selecting(c)
    /\ phase' = [phase EXCEPT ![c] = "closing"]
    /\ pending' = [pending EXCEPT ![b] = @ \ {c}, ![c] = subscriptions[c]]
    /\ UNCHANGED <<subscriptions, evbuf, current, published, last>>

SubShuttingDown(b, c) ==
    /\ phase[b] = "closing" /\ c \in pending[b]
    /\ ShuttingDown(c)
    /\ pending' = [pending EXCEPT ![b] = @ \ {c}]
    /\ UNCHANGED <<phase, subscriptions, evbuf, current, published, last>>

\* A bus that is shutting down has seen all of its subscribers off.
Drained(b) == phase[b] = "closing" /\ pending[b] = {} /\ subscriptions[b] = {}

\* b.parentch <- b, received by the parent in its select or while it waits for its
\* subscribers to go.
Unsubscribe(b, c) ==
    /\ c \in subscriptions[b]
    /\ Drained(c)
    /\ Selecting(b) \/ (phase[b] = "closing" /\ pending[b] = {})
    /\ subscriptions' = [subscriptions EXCEPT ![b] = @ \ {c}]
    /\ phase' = [phase EXCEPT ![c] = "done"]
    /\ UNCHANGED <<evbuf, pending, current, published, last>>

RootDone ==
    /\ Drained(Root)
    /\ phase' = [phase EXCEPT ![Root] = "done"]
    /\ UNCHANGED <<subscriptions, evbuf, pending, current, published, last>>

\* The steps the goroutines take on their own, without a user of the bus.
Internal(b, c) ==
    \/ PublishTo(b, c) \/ PublishFails(b, c)
    \/ ShutdownSub(b, c) \/ SubShuttingDown(b, c)
    \/ Unsubscribe(b, c)

Next ==
    \/ Publish
    \/ \E b, c \in Buses : Internal(b, c)
    \/ RootDone
    \/ \E s \in Subscribers : Emit(s)
    \/ \E b \in Buses : Close(b) \/ \E s \in Subscribers : NewSubscriber(b, s)

\* The goroutines run; readers need not read and nobody need publish or close.
Fairness == WF_vars(RootDone) /\ \A b, c \in Buses : WF_vars(Internal(b, c))

Spec == Init /\ [][Next]_vars /\ Fairness

-----------------------------------------------------------------------------
(* Properties *)

\* Buses, their subscriptions and their buffers are what the fields of struct bus hold.
TypeOK ==
    /\ phase \in [Buses -> {"none", "running", "closing", "done"}]
    /\ subscriptions \in [Buses -> SUBSET Subscribers]
    /\ evbuf \in [Buses -> Seq(Nat)]
    /\ pending \in [Buses -> SUBSET Subscribers]
    /\ current \in [Buses -> Nat]
    /\ published \in Nat
    /\ last \in [Subscribers -> Nat]

\* The refinement mapping: the subscribers of the log are the buses that run.
open == {s \in Subscribers : phase[s] = "running"}

Log == INSTANCE EventLog WITH
          Subscribers <- Subscribers, published <- published, open <- open, last <- last

\* Every subscriber is given the events of the bus in order, none missed and none
\* twice, and a clone continues where the subscriber it was cloned from stands.
ImplementsLog == Log!LogSpec

\* "sub1 should close sub2" (bus_test.go): a subscriber that is not done still has a
\* parent that is not done and knows it, so no reader is left waiting on a subscription
\* that nothing feeds and nothing will close.
NoOrphans ==
    \A s \in Subscribers : phase[s] \in {"running", "closing"} =>
        \E b \in Buses : s \in subscriptions[b] /\ phase[b] \in {"running", "closing"}

\* A bus that starts to shut down finishes, with every subscriber below it, whatever
\* their readers do.
CloseCompletes == \A b \in Buses : phase[b] = "closing" ~> phase[b] = "done"

\* "a subscriber cannot block other subscribers": an accepted event reaches the buffer
\* of every open subscriber even if no reader ever takes an event.
UpToDate(s) ==
    published = IF evbuf[s] = << >> THEN last[s] ELSE evbuf[s][Len(evbuf[s])]

EventsReachEverySubscriber == \A s \in Subscribers : []<>(phase[s] = "running" => UpToDate(s))

=============================================================================
