------------------------------ MODULE BidEngine -----------------------------
(***************************************************************************)
(* The bid engine of a provider (provider/bidengine): a service that       *)
(* starts one monitor for every order it learns of (service.go), and the   *)
(* monitors, which fetch the group of their order, reserve resources, bid  *)
(* and wait for the lease (order.go).  A monitor has at most one call in   *)
(* flight, in a goroutine of its own.                                      *)
(*                                                                         *)
(* The bus is its log of events; a subscriber is a position in the log,    *)
(* and a clone starts at the position of the one it is cloned from         *)
(* (module Bus shows that subscribers see the log in order).  The market   *)
(* and the inventory are the environment.                                  *)
(***************************************************************************)
EXTENDS Naturals, Sequences, FiniteSets

CONSTANTS
    OrderSeq,   \* the orders, as the market's query lists them
    GroupOf,    \* order -> its group
    Existing,   \* the orders that may exist when the service starts
    InDoubt,    \* may a broadcast fail whose transaction takes effect?
    MaxEvents,  \* bound: number of events published
    MaxCrowded  \* bound: that number once a group has had two open orders

Orders == {OrderSeq[i] : i \in DOMAIN OrderSeq}

ASSUME BidEngineAssumption ==
    /\ OrderSeq \in Seq(Orders)
    /\ \A i, j \in DOMAIN OrderSeq : OrderSeq[i] = OrderSeq[j] => i = j
    /\ Existing \subseteq Orders /\ InDoubt \in BOOLEAN /\ MaxEvents \in Nat /\ MaxCrowded \in Nat

VARIABLES
    svc,        \* the service: "starting", "running", "draining", "done" or "failed"
    log,        \* events published since the service subscribed
    pos,        \* events the service has read
    orders,     \* service.orders: order -> its monitor, or 0
    mon,        \* the monitors, in the order they were started; history fields:
                \* unkept, did it get a reservation that it did not keep? and failed, did
                \* it end because Broadcast reported an error?
    market,     \* the chain: order -> "none", "open", "mine", "lost" or "closed"; "leased" and
                \* "gone" if the service has not seen it open: matched, and closed
    crowded,    \* history: the groups that have had two open orders at a time
    bids,       \* the chain: orders this provider has bid on
    inventory,  \* the cluster: order -> number of reservations
    announced   \* order -> number of LeaseWon events published for it

service == <<svc, pos, orders>>
world == <<log, market, crowded, bids, inventory, announced>>
vars == <<service, mon, world>>

NoCall == [op |-> "none", result |-> "pending"]
Call(op) == [op |-> op, result |-> "pending"]

\* The orders of a group come into being in the order in which the query lists them.
ByAge(f) ==
    \A i, j \in DOMAIN OrderSeq :
        i < j /\ GroupOf[OrderSeq[i]] = GroupOf[OrderSeq[j]] /\ f[OrderSeq[j]] # "none" =>
            f[OrderSeq[i]] # "none"

\* The groups with several open orders.
Crowded(f) == {GroupOf[o] : o \in {p \in Orders : f[p] = "open" /\ \E q \in Orders \ {p} :
                                        f[q] = "open" /\ GroupOf[q] = GroupOf[p]}}

\* The chain has orders already, in any state.
Init ==
    /\ svc = "starting" /\ log = << >> /\ pos = 0 /\ mon = << >>
    /\ orders = [o \in Orders |-> 0]
    /\ market \in {f \in [Orders -> {"none", "open", "leased", "gone"}] :
                      ByAge(f) /\ \A o \in Orders \ Existing : f[o] = "none"}
    /\ crowded = Crowded(market)
    /\ bids \in SUBSET {o \in Orders : market[o] = "open"}
    /\ inventory = [o \in Orders |-> 0] /\ announced = [o \in Orders |-> 0]

-----------------------------------------------------------------------------
(* The market *)

Publish(type, o) ==
    /\ Len(log) < IF crowded = {} THEN MaxEvents ELSE MaxCrowded
    /\ log' = Append(log, [type |-> type, order |-> o])

\* The chain may order a group again that has an open order or a lease: handleMsgCloseOrder
\* opens the group whatever its newer orders are (Chain, NoOrderWhileLeased).
OrderCreated(o) ==
    /\ market[o] = "none"
    /\ market' = [market EXCEPT ![o] = "open"]
    /\ ByAge(market')
    /\ crowded' = crowded \cup Crowded(market')
    /\ crowded' # {} => Len(log) + 1 < MaxCrowded
    /\ Publish("created", o)
    /\ UNCHANGED <<service, mon, bids, inventory, announced>>

\* The order is matched with the bid of this provider, or with another one.
LeaseCreated(o, mine) ==
    /\ market[o] = "open" /\ (mine => o \in bids)
    /\ market' = [market EXCEPT ![o] = IF mine THEN "mine" ELSE "lost"]
    /\ Publish(IF mine THEN "won" ELSE "lost", o)
    /\ UNCHANGED <<service, mon, crowded, bids, inventory, announced>>

OrderClosed(o) ==
    /\ market[o] \in {"open", "mine", "lost", "leased"}
    /\ market' = [market EXCEPT ![o] = IF @ = "leased" THEN "gone" ELSE "closed"]
    /\ Publish("closed", o)
    /\ UNCHANGED <<service, mon, crowded, bids, inventory, announced>>

-----------------------------------------------------------------------------
(* The service *)

\* Mutant: the monitor subscribes to the bus anew.
newOrderSubscribed(o, bid, from) ==
    [order |-> o, bid |-> bid, pos |-> Len(log), at |-> "loop", call |-> Call("group"),
     group |-> FALSE, reservation |-> FALSE, won |-> FALSE, unkept |-> FALSE, failed |-> FALSE]

\* newOrder: the monitor sees the events the service has not read, and begins with the group.
newOrder(o, bid, from) ==
    [order |-> o, bid |-> bid, pos |-> from, at |-> "loop", call |-> Call("group"),
     group |-> FALSE, reservation |-> FALSE, won |-> FALSE, unkept |-> FALSE, failed |-> FALSE]

\* queryExistingOrders: the places of the orders that the query lists, and of the open ones.
Listed == {i \in DOMAIN OrderSeq : market[OrderSeq[i]] # "none"}
Open == {i \in Listed : market[OrderSeq[i]] = "open"}

\* The start of run.  Every entry for an open order points to the variable of the loop over
\* the listed orders, which ends up as the last of them; the bid of an entry points to the
\* answer of the query for it, whether there is a bid or not.
Start ==
    /\ svc = "starting"
    /\ svc' = "running"
    /\ \/ Open = {} /\ UNCHANGED <<mon, orders>>
       \/ \E i \in Listed :
             /\ Open # {} /\ \A j \in Listed : j <= i
             /\ mon' = [k \in 1 .. Cardinality(Open) |-> newOrder(OrderSeq[i], TRUE, pos)]
             /\ orders' = [orders EXCEPT ![OrderSeq[i]] = Cardinality(Open)]
    /\ UNCHANGED <<pos, world>>

\* The query fails, and NewService with it.
StartFails ==
    /\ svc = "starting"
    /\ svc' = "failed"
    /\ UNCHANGED <<pos, orders, mon, world>>

\* The case of sub.Events(): a new order gets a monitor, unless it has one.  (newOrder fails
\* only when the subscription is closed, that is when the bus and with it the provider ends;
\* the order is then left alone, as it is once the service is shut down.)
TakeEvent ==
    /\ svc = "running" /\ pos < Len(log)
    /\ pos' = pos + 1
    /\ IF log[pos + 1].type = "created" /\ orders[log[pos + 1].order] = 0
       THEN /\ mon' = Append(mon, newOrder(log[pos + 1].order, FALSE, pos + 1))
            /\ orders' = [orders EXCEPT ![log[pos + 1].order] = Len(mon) + 1]
       ELSE UNCHANGED <<mon, orders>>
    /\ UNCHANGED <<svc, world>>

\* The receive from drainch, in the loop and, while orders are left, in the drain.
Drain(m) ==
    /\ mon[m].at = "done"
    /\ svc = "running" \/ (svc = "draining" /\ \E o \in Orders : orders[o] # 0)
    /\ orders' = [orders EXCEPT ![mon[m].order] = 0]
    /\ mon' = [mon EXCEPT ![m].at = "drained"]
    /\ UNCHANGED <<svc, pos, world>>

\* Close, or the end of the provider's context, at some time.
Shutdown ==
    /\ svc = "running"
    /\ svc' = "draining"
    /\ UNCHANGED <<pos, orders, mon, world>>

Drained ==
    /\ svc = "draining" /\ \A o \in Orders : orders[o] = 0
    /\ svc' = "done"
    /\ UNCHANGED <<pos, orders, mon, world>>

-----------------------------------------------------------------------------
(* A monitor *)

\* The calls in flight that change something: Reserve and Broadcast, which reports no error
\* when the transaction is rejected.
ReserveReturns(m, r) ==
    /\ mon[m].call = Call("reserve")
    /\ mon' = [mon EXCEPT ![m].call.result = r]
    /\ inventory' = IF r = "ok" THEN [inventory EXCEPT ![mon[m].order] = @ + 1] ELSE inventory
    /\ UNCHANGED <<service, log, market, crowded, bids, announced>>

BroadcastReturns(m, r, accepted) ==
    /\ mon[m].call = Call("bid")
    /\ accepted => market[mon[m].order] = "open" /\ (r = "error" => InDoubt)
    /\ mon' = [mon EXCEPT ![m].call.result = r]
    /\ bids' = IF accepted THEN bids \cup {mon[m].order} ELSE bids
    /\ UNCHANGED <<service, log, market, crowded, inventory, announced>>

\* Mutant: the reservation is given back only when the lease was won.
UnreservesWon(x) == x.won /\ x.reservation

Unreserves(x) == ~x.won /\ x.reservation

\* Monitor m goes on in its loop as x.
Stays(m, x) == mon' = [mon EXCEPT ![m] = x] /\ UNCHANGED inventory

\* It leaves its loop: ShutdownInitiated, sub.Close, after which it has no place in the log,
\* and the reservation is cancelled.
Leaves(m, x) ==
    /\ mon' = [mon EXCEPT ![m] = [x EXCEPT !.at = "waiting", !.pos = 0]]
    /\ inventory' = IF Unreserves(x) /\ inventory[x.order] > 0
                    THEN [inventory EXCEPT ![x.order] = @ - 1] ELSE inventory

\* Does an event end the wait of a monitor?  A lease does for the whole group.
Concerns(x, ev) ==
    \/ ev.type \in {"won", "lost"} /\ GroupOf[ev.order] = GroupOf[x.order]
    \/ ev.type = "closed" /\ ev.order = x.order

\* The case of sub.Events(); a lease of this provider is announced.
MonitorEvent(m) ==
    LET ev == log[mon[m].pos + 1]
        wins == Concerns(mon[m], ev) /\ ev.type = "won"
        x == [mon[m] EXCEPT !.pos = @ + 1, !.won = wins]
    IN  /\ mon[m].at = "loop" /\ mon[m].pos < Len(log)
        /\ IF Concerns(mon[m], ev) THEN Leaves(m, x) ELSE Stays(m, x)
        /\ announced' = IF wins THEN [announced EXCEPT ![ev.order] = @ + 1] ELSE announced
        /\ UNCHANGED <<service, log, market, crowded, bids>>

\* Mutant: the bid goes out without resources.
GroupFetchedBids(m, r) ==
    /\ mon[m].at = "loop" /\ mon[m].call = Call("group")
    /\ IF r = "error" THEN Leaves(m, [mon[m] EXCEPT !.call = NoCall])
       ELSE Stays(m, [mon[m] EXCEPT !.group = TRUE, !.call = Call("bid")])
    /\ UNCHANGED <<service, log, market, crowded, bids, announced>>

\* The case of groupch: the query has failed, or the group asks for attributes the provider
\* has not got, or resources are to be reserved.
GroupFetched(m, r) ==
    /\ mon[m].at = "loop" /\ mon[m].call = Call("group")
    /\ IF r = "error" THEN Leaves(m, [mon[m] EXCEPT !.call = NoCall])
       ELSE Stays(m, [mon[m] EXCEPT !.group = TRUE,
                                    !.call = IF r = "ok" THEN Call("reserve") ELSE NoCall])
    /\ UNCHANGED <<service, log, market, crowded, bids, announced>>

\* The case of clusterch: a monitor that has a bid does nothing more.
Reserved(m) ==
    LET x == [mon[m] EXCEPT !.call = NoCall] IN
    /\ mon[m].at = "loop" /\ mon[m].call.op = "reserve" /\ mon[m].call.result # "pending"
    /\ IF mon[m].call.result = "error" THEN Leaves(m, x)
       ELSE IF mon[m].bid THEN Stays(m, [x EXCEPT !.unkept = TRUE])
       ELSE Stays(m, [x EXCEPT !.reservation = TRUE, !.call = Call("bid")])
    /\ UNCHANGED <<service, log, market, crowded, bids, announced>>

\* Mutant: with the bid placed the monitor is done.
BidPlacedLeaves(m) ==
    /\ mon[m].at = "loop" /\ mon[m].call.op = "bid" /\ mon[m].call.result # "pending"
    /\ Leaves(m, [mon[m] EXCEPT !.call = NoCall])
    /\ UNCHANGED <<service, log, market, crowded, bids, announced>>

\* The case of bidch.
BidPlaced(m) ==
    LET x == [mon[m] EXCEPT !.call = NoCall] IN
    /\ mon[m].at = "loop" /\ mon[m].call.op = "bid" /\ mon[m].call.result # "pending"
    /\ IF mon[m].call.result = "error" THEN Leaves(m, [x EXCEPT !.failed = TRUE]) ELSE Stays(m, x)
    /\ UNCHANGED <<service, log, market, crowded, bids, announced>>

MonitorShutdown(m) ==
    /\ mon[m].at = "loop" /\ svc \in {"draining", "done"}
    /\ Leaves(m, mon[m])
    /\ UNCHANGED <<service, log, market, crowded, bids, announced>>

\* The monitor waits for its call, and drops the result, be it a reservation.
MonitorDone(m) ==
    /\ mon[m].at = "waiting"
    /\ mon[m].call.op \in {"none", "group"} \/ mon[m].call.result # "pending"
    /\ mon' = [mon EXCEPT ![m] = [@ EXCEPT
                  !.at = "done", !.call = NoCall,
                  !.unkept = mon[m].unkept \/ mon[m].call = [op |-> "reserve", result |-> "ok"]]]
    /\ UNCHANGED <<service, world>>

MonitorNext(m) ==
    \/ \E r \in {"ok", "error"} : ReserveReturns(m, r)
    \/ \E r \in {"ok", "error"}, accepted \in BOOLEAN : BroadcastReturns(m, r, accepted)
    \/ \E r \in {"ok", "mismatch", "error"} : GroupFetched(m, r)
    \/ MonitorEvent(m) \/ Reserved(m) \/ BidPlaced(m) \/ MonitorShutdown(m) \/ MonitorDone(m)

Next ==
    \/ \E o \in Orders : OrderCreated(o) \/ OrderClosed(o)
                         \/ \E mine \in BOOLEAN : LeaseCreated(o, mine)
    \/ Start \/ StartFails \/ TakeEvent \/ Shutdown \/ Drained
    \/ \E m \in DOMAIN mon : MonitorNext(m) \/ Drain(m)

\* The process runs while one of its goroutines can take a step or one of its calls can
\* return.  Events, monitors and calls are finitely many, so no step is put off for ever.
Fairness == WF_vars(TakeEvent \/ Drained \/ \E m \in DOMAIN mon : MonitorNext(m) \/ Drain(m))

Spec == Init /\ [][Next]_vars /\ Fairness

-----------------------------------------------------------------------------
(* Properties *)

\* A monitor has resources reserved: it, or a call whose answer it has not read.
Holds(x) ==
    \/ x.reservation /\ (x.at = "loop" \/ x.won)
    \/ x.unkept \/ x.call = [op |-> "reserve", result |-> "ok"]

\* The reservations of the inventory are those of the monitors, of the leases won, and of
\* the answers nobody read or kept: no path of order.run loses or doubles another one.
ReservationsAccounted ==
    \A o \in Orders :
        inventory[o] = Cardinality({m \in DOMAIN mon : mon[m].order = o /\ Holds(mon[m])})

\* Order o was matched or closed when the service subscribed.
Over(o) == market[o] \in {"leased", "gone"}

\* What a LeaseWon on the bus stands for.  It comes from a monitor that has reserved the
\* resources of the order and has its group, unless the monitor was recovered by the query at
\* the start and does not wait for either.  And a lease is announced once, also when orders
\* of one group follow each other and when an order is both listed by the query and announced
\* by its event, unless the query, whose monitors are all for the last order it lists, started
\* several of them, or one for an order that was over.  Neither holds of a group that has had
\* two open orders at a time: a monitor takes a lease of either for its own.
LeaseWonSound ==
    /\ \A m \in DOMAIN mon : mon[m].won /\ ~mon[m].bid =>
          \/ mon[m].group /\ inventory[mon[m].order] > 0
          \/ GroupOf[mon[m].order] \in crowded
    /\ \A o \in Orders : announced[o] > 1 =>
          \/ \E m, n \in DOMAIN mon : m # n /\ mon[m].bid /\ mon[n].bid
          \/ \E m \in DOMAIN mon : mon[m].bid /\ Over(mon[m].order)
          \/ GroupOf[o] \in crowded

\* The log has an event of one of these types about order o.
Heard(o, types) == \E i \in DOMAIN log : log[i].order = o /\ log[i].type \in types

\* In the end, a lease on an order that this process has bid for has been announced to the rest
\* of it, unless it is stopping, or the monitor took a broadcast for failed whose bid got
\* through, or left with the lease of another order of the group that was open at the same
\* time.
LeaseAnnounced ==
    <>[] \A o \in Orders :
        Heard(o, {"won"}) /\ (\E m \in DOMAIN mon : mon[m].order = o /\ ~mon[m].bid) =>
            \/ announced[o] > 0 \/ svc # "running"
            \/ \E m \in DOMAIN mon : mon[m].order = o /\ mon[m].failed
            \/ GroupOf[o] \in crowded

\* A monitor ends when its order is matched or closed, even if that happened before it started:
\* its subscription begins where the service had read of the order.
OverIsNoticed ==
    <>[] \A m \in DOMAIN mon : Heard(mon[m].order, {"won", "lost", "closed"}) => mon[m].at # "loop"

\* Close returns: the monitors leave their loops and the service drains them.
CloseReturns == <>[] (svc # "draining")

\* Monitors come to an end: with their order, and with the service, which waits for them.
MonitorsEnd == OverIsNoticed /\ CloseReturns

\* When the service is done, so are its monitors ("wait for all order monitors to complete").
DrainWaitsForAll == svc = "done" => \A m \in DOMAIN mon : mon[m].at = "drained"

\* A monitor that takes its bid for placed ("fulfillment already created") has one.
RecoveredHasBid == \A m \in DOMAIN mon : mon[m].bid => mon[m].order \in bids

\* A monitor that ends without the lease has cancelled its reservation ("cancel reservation").
ReservationCancelled ==
    \A m \in DOMAIN mon : mon[m].at = "drained" /\ ~mon[m].won => inventory[mon[m].order] = 0
=============================================================================
