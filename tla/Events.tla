------------------------------- MODULE Events --------------------------------
(***************************************************************************)
(* How events of the chain become events on a provider's bus: a node sends *)
(* the results of transactions and blocks to its subscribers, and          *)
(* events.Publish parses them (EventCodec) and publishes what it           *)
(* recognises.  Two goroutines do so, one for transactions and one for     *)
(* blocks.                                                                 *)
(***************************************************************************)
EXTENDS EventCodec, Sequences, SequencesExt

CONSTANT MaxResults  \* bound: results of transactions and blocks

Streams == {"tx", "blk"}

VARIABLES
    queue,      \* stream -> results to be received: sequences of [ok, event]
    worker,     \* stream -> is its goroutine running?
    cancelled,  \* has the context of Publish been cancelled?
    bus,        \* the events on the bus, in their order
    emitted,    \* history: the events of successful results
    results     \* number of results

vars == <<queue, worker, cancelled, bus, emitted, results>>

Init ==
    /\ queue = [s \in Streams |-> << >>] /\ worker = [s \in Streams |-> TRUE]
    /\ cancelled = FALSE /\ bus = << >> /\ emitted = << >> /\ results = 0

-----------------------------------------------------------------------------
(* Publish *)

\* A transaction, which may have failed, or the end of a block.  A result carries one event.
Emit(s, e, ok) ==
    /\ results < MaxResults /\ results' = results + 1
    /\ s = "blk" => ok
    /\ queue' = [queue EXCEPT ![s] = Append(@, [ok |-> ok, event |-> e])]
    /\ emitted' = IF ok THEN Append(emitted, e) ELSE emitted
    /\ UNCHANGED <<worker, cancelled, bus>>

\* publishEvents receives a result.
Receive(s) ==
    /\ worker[s] /\ queue[s] # << >>
    /\ LET r == Head(queue[s])
           mev == processEvent(ToSDKEvent(r.event))
       IN  bus' = IF r.ok /\ mev # None THEN Append(bus, mev) ELSE bus
    /\ queue' = [queue EXCEPT ![s] = Tail(@)]
    /\ UNCHANGED <<worker, cancelled, emitted, results>>

Cancel ==
    /\ ~cancelled
    /\ cancelled' = TRUE
    /\ UNCHANGED <<queue, worker, bus, emitted, results>>

\* Publish returns when both goroutines have left.
Leave(s) ==
    /\ cancelled /\ worker[s]
    /\ worker' = [worker EXCEPT ![s] = FALSE]
    /\ UNCHANGED <<queue, cancelled, bus, emitted, results>>

Next ==
    \/ \E s \in Streams :
          \/ \E e \in ChainEvents, ok \in BOOLEAN : Emit(s, e, ok)
          \/ Receive(s) \/ Leave(s)
    \/ Cancel

\* The goroutines are scheduled; of a receive and a cancellation that are both ready, select
\* takes either at random.
Fairness == \A s \in Streams : WF_vars(Receive(s)) /\ WF_vars(Leave(s))

Spec == Init /\ [][Next]_vars /\ Fairness

-----------------------------------------------------------------------------
(* Properties *)

\* "Service handles bidding on orders": an order that is created while Publish runs reaches
\* the bus on which the bid engine listens for it.
OrdersArrive ==
    \A e \in {x \in ChainEvents : x.action = "order-created"} :
        (e \in Range(emitted)) ~> (e \in Range(bus) \/ cancelled)
=============================================================================
