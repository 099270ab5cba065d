------------------------------- MODULE Market -------------------------------
(***************************************************************************)
(* The keeper of x/market: orders, bids and leases.  An order id is        *)
(* <<group id, oseq>>, a bid id <<order id, provider>>, and a lease has    *)
(* the id of the bid that won it, so id[1] is the code's GroupID() or      *)
(* OrderID().  Each operator takes stores and returns a store.             *)
(***************************************************************************)
EXTENDS Naturals, FiniteSets, KVStore

OrderOpen == "open"
OrderMatched == "matched"
OrderClosed == "closed"

BidOpen == "open"
BidMatched == "matched"
BidLost == "lost"
BidClosed == "closed"

LeaseActive == "active"
LeaseInsufficientFunds == "insufficient-funds"
LeaseClosed == "closed"

OrderStates == {OrderOpen, OrderMatched, OrderClosed}
BidStates == {BidOpen, BidMatched, BidLost, BidClosed}
LeaseStates == {LeaseActive, LeaseInsufficientFunds, LeaseClosed}

OrdersForGroup(orders, gid) == {o \in DOMAIN orders : o[1] = gid}
BidsForOrder(bids, oid) == {b \in DOMAIN bids : b[1] = oid}

\* Mutant: orders are numbered from zero.
NextOSeqFromZero(orders, gid) == Cardinality(OrdersForGroup(orders, gid))

\* CreateOrder: the new order's number is one more than the number of orders
\* the group has.  The key is not checked ("XXX TODO: check not overwrite").
NextOSeq(orders, gid) == 1 + Cardinality(OrdersForGroup(orders, gid))
NewOrderID(orders, gid) == <<gid, NextOSeq(orders, gid)>>
NewOrders(orders, gids) == {NewOrderID(orders, g) : g \in gids}

CreateOrders(orders, gids, groups, startAt) ==
    PutAll(orders, NewOrders(orders, gids),
           [o \in NewOrders(orders, gids) |->
               [state |-> OrderOpen, startAt |-> startAt, spec |-> groups[o[1]].spec]])

\* Order.ValidateCanBid
CanBid(orders, oid) == orders[oid].state = OrderOpen

\* CreateBid: an existing bid of the provider on the order is overwritten.
CreateBid(bids, oid, provider, price) ==
    Put(bids, <<oid, provider>>, [state |-> BidOpen, price |-> price])

\* CreateLease, one call per winning bid.
CreateLeases(leases, bids, wins) ==
    PutAll(leases, wins, [w \in wins |-> [state |-> LeaseActive, price |-> bids[w].price]])

OnBidClosed(bids, bid) ==
    IF bids[bid].state \in {BidClosed, BidLost} THEN bids ELSE SetState(bids, bid, BidClosed)

OnOrderClosed(orders, oid) == SetState(orders, oid, OrderClosed)

\* Mutant: the lease is left as it was.
OnInsufficientFundsIgnored(leases, lid) == leases

OnInsufficientFunds(leases, lid) ==
    IF leases[lid].state \in {LeaseClosed, LeaseInsufficientFunds}
    THEN leases ELSE SetState(leases, lid, LeaseInsufficientFunds)

OnLeaseClosed(leases, lid) ==
    IF leases[lid].state \in {LeaseClosed, LeaseInsufficientFunds}
    THEN leases ELSE SetState(leases, lid, LeaseClosed)

\* OnGroupClosed: every order of the group, every bid on those orders that has not
\* lost, and the active lease of every such bid.  gids are the groups of the
\* deployment being closed.
OrdersOfGroups(orders, gids) == {o \in DOMAIN orders : o[1] \in gids}

GroupClosedOrders(orders, gids) == SetStates(orders, OrdersOfGroups(orders, gids), OrderClosed)

GroupClosedBids(bids, orders, gids) ==
    SetStates(bids, {b \in DOMAIN bids : /\ b[1] \in OrdersOfGroups(orders, gids)
                                         /\ bids[b].state # BidLost}, BidClosed)

\* Mutant: only leases of open bids are closed.
GroupClosedLeasesOfOpenBids(leases, bids, orders, gids) ==
    SetStates(leases, {l \in DOMAIN leases : /\ bids[l].state = BidOpen
                                             /\ l[1] \in OrdersOfGroups(orders, gids)}, LeaseClosed)

GroupClosedLeases(leases, bids, orders, gids) ==
    SetStates(leases, {l \in DOMAIN leases : /\ Has(bids, l)
                                             /\ l[1] \in OrdersOfGroups(orders, gids)
                                             /\ leases[l].state = LeaseActive}, LeaseClosed)

\* LeaseForOrder: the lease of a matched bid on the order.  The state of the
\* lease is not looked at.
LeasesForOrder(leases, bids, oid) ==
    {b \in BidsForOrder(bids, oid) : bids[b].state = BidMatched /\ b \in DOMAIN leases}

\* Order.ValidateCanMatch
Matchable(orders, height) ==
    {o \in DOMAIN orders : orders[o].state = OrderOpen /\ orders[o].startAt <= height}

OpenBids(bids, oid) == {b \in BidsForOrder(bids, oid) : bids[b].state = BidOpen}

\* Mutant: sorted the other way round.
Dearest(bids, oid) ==
    {b \in OpenBids(bids, oid) : \A c \in OpenBids(bids, oid) : bids[b].price >= bids[c].price}

\* The bids that sort.Slice by price may put first; ties go either way
\* ("TODO handle same price").
Cheapest(bids, oid) ==
    {b \in OpenBids(bids, oid) : \A c \in OpenBids(bids, oid) : bids[b].price <= bids[c].price}

\* matchOrders: wins holds one winning bid per matched order; the other open bids on
\* those orders lose.
OrdersOf(wins) == {w[1] : w \in wins}

MatchBids(bids, wins) ==
    LET losers == {b \in DOMAIN bids \ wins : b[1] \in OrdersOf(wins) /\ bids[b].state = BidOpen}
    IN  SetStates(SetStates(bids, wins, BidMatched), losers, BidLost)

OnOrderMatched(orders, oids) == SetStates(orders, oids, OrderMatched)

=============================================================================
