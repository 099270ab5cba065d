------------------------------- MODULE Chain --------------------------------
(***************************************************************************)
(* The application state machine: the handlers of x/deployment, x/market   *)
(* and x/provider, and the end of a block, in the order app.go runs them   *)
(* (deployment first, then market).  Handlers run one at a time while      *)
(* phase is "deliver".  The end of a block is three kinds of step during   *)
(* which no message is handled: CreateOrdersForGroups, one PayLease,       *)
(* PaymentRefused or SuspendLease per active lease in store order, and     *)
(* MatchOpenOrders, which starts the next block.                           *)
(*                                                                         *)
(* Accounts are natural numbers because the store iterates over addresses  *)
(* in byte order.  charges is a history variable: per lease, the height at *)
(* which it was created and the number of payments made for it.            *)
(***************************************************************************)
EXTENDS Deployment, Market, Integers, FiniteSetsExt

CONSTANTS
    Tenants,        \* accounts that create deployments
    Hosts,          \* accounts that register as providers
    GroupSpecs,     \* group lists a MsgCreate may carry, sequences of [price, attrs]
    Attributes,     \* attributes a provider may have and a group may require
    BidPrices,      \* prices a bid may name
    OrderTTL,       \* blocks an order waits before it is matched (orderTTL)
    InitialFunds,   \* balance of every tenant at genesis
    Vesting,        \* tenants whose coins may be locked when they are due
    Transfers,      \* amounts sent between tenants by the bank module
    MaxHeight,      \* bound: height of the last block, which is not ended
    MaxDeployments  \* bound: number of deployments created

VARIABLES
    deployments,    \* deployment id -> state
    groups,         \* group id -> [state, spec]
    orders,         \* order id -> [state, startAt, spec]
    bids,           \* bid id -> [state, price]
    leases,         \* lease id -> [state, price]
    providers,      \* provider account -> attributes
    balance,        \* account -> coins (bank module)
    height,         \* height of the block being executed
    phase,          \* "deliver" or "pay"
    todo,           \* leases the payment loop has not reached
    charges         \* history: lease id -> [from, count]

vars == <<deployments, groups, orders, bids, leases, providers, balance, height, phase, todo, charges>>

marketVars == <<orders, bids, leases>>
blockVars == <<height, phase, todo, charges>>

Accounts == Tenants \cup Hosts

GroupSpec == [price : Nat, attrs : SUBSET Attributes]

\* Prices are not negative.  Nothing in the handlers refuses a bid with a negative price, with
\* which the charge of its lease would end the node (NewCoins); such bids are left out.
ASSUME ConstantsAssumption ==
    /\ Tenants \subseteq Nat /\ Hosts \subseteq Nat /\ Vesting \subseteq Tenants
    /\ GroupSpecs \subseteq Seq(GroupSpec) \ {<< >>}
    /\ BidPrices \subseteq Nat /\ Transfers \subseteq Nat
    /\ OrderTTL \in Nat /\ InitialFunds \in Nat
    /\ MaxHeight \in Nat /\ MaxDeployments \in Nat

Init ==
    /\ deployments = EmptyStore /\ groups = EmptyStore
    /\ orders = EmptyStore /\ bids = EmptyStore /\ leases = EmptyStore
    /\ providers = EmptyStore
    /\ balance = [a \in Accounts |-> IF a \in Tenants THEN InitialFunds ELSE 0]
    /\ height = 1 /\ phase = "deliver" /\ todo = {} /\ charges = EmptyStore

-----------------------------------------------------------------------------
(* x/deployment *)

MsgCreate(owner, specs) ==
    LET did == <<owner, height>> IN
    /\ phase = "deliver"
    /\ Cardinality(DOMAIN deployments) < MaxDeployments
    /\ ~Has(deployments, did)
    /\ deployments' = CreateDeployment(deployments, did)
    /\ groups' = CreateGroups(groups, did, specs)
    /\ UNCHANGED <<marketVars, providers, balance, blockVars>>

\* The record that was read is written back: "TODO: version".
MsgUpdate(did) ==
    /\ phase = "deliver"
    /\ Has(deployments, did)
    /\ deployments' = UpdateDeployment(deployments, did, deployments[did])
    /\ UNCHANGED <<groups, marketVars, providers, balance, blockVars>>

MsgClose(did) ==
    LET gids == GetGroups(groups, did) IN
    /\ phase = "deliver"
    /\ Has(deployments, did)
    /\ deployments[did] # DeploymentClosed
    /\ deployments' = UpdateDeployment(deployments, did, DeploymentClosed)
    /\ groups' = OnDeploymentClosed(groups, gids)
    /\ orders' = GroupClosedOrders(orders, gids)
    /\ bids' = GroupClosedBids(bids, orders, gids)
    /\ leases' = GroupClosedLeases(leases, bids, orders, gids)
    /\ UNCHANGED <<providers, balance, blockVars>>

-----------------------------------------------------------------------------
(* x/market *)

\* MsgCreateBid.ValidateBasic: nobody bids on an order of their own.
ValidBid(oid, provider) == provider # oid[1][1][1]

MsgCreateBid(oid, provider, price) ==
    /\ phase = "deliver"
    /\ ValidBid(oid, provider)
    /\ Has(orders, oid)
    /\ CanBid(orders, oid)
    /\ ~(orders[oid].spec.price < price)
    /\ Has(providers, provider)
    /\ orders[oid].spec.attrs \subseteq providers[provider]
    /\ bids' = CreateBid(bids, oid, provider, price)
    /\ UNCHANGED <<deployments, groups, orders, leases, providers, balance, blockVars>>

MsgCloseBid(bid) ==
    /\ phase = "deliver"
    /\ Has(bids, bid) /\ Has(leases, bid) /\ Has(orders, bid[1])
    /\ leases[bid].state = LeaseActive
    /\ bids[bid].state = BidMatched
    /\ bids' = OnBidClosed(bids, bid)
    /\ leases' = OnLeaseClosed(leases, bid)
    /\ orders' = OnOrderClosed(orders, bid[1])
    /\ groups' = GroupOnLeaseClosed(groups, bid[1][1])
    /\ UNCHANGED <<deployments, providers, balance, blockVars>>

\* The matched bid keeps its state, so the order can be closed again.
MsgCloseOrder(oid) ==
    /\ phase = "deliver"
    /\ Has(orders, oid)
    /\ \E lid \in LeasesForOrder(leases, bids, oid) : leases' = OnLeaseClosed(leases, lid)
    /\ orders' = OnOrderClosed(orders, oid)
    /\ groups' = GroupOnLeaseClosed(groups, oid[1])
    /\ UNCHANGED <<deployments, bids, providers, balance, blockVars>>

-----------------------------------------------------------------------------
(* x/provider and the bank *)

CreateProvider(owner, attrs) ==
    /\ ~Has(providers, owner)
    /\ providers' = Put(providers, owner, attrs)

MsgCreateProvider(owner, attrs) ==
    /\ phase = "deliver"
    /\ CreateProvider(owner, attrs)
    /\ UNCHANGED <<deployments, groups, marketVars, balance, blockVars>>

\* Keeper.Update refuses an owner that is registered and stores one that is not.
UpdateProvider(owner, attrs) ==
    /\ ~Has(providers, owner)
    /\ providers' = Put(providers, owner, attrs)

MsgUpdateProvider(owner, attrs) ==
    /\ phase = "deliver"
    /\ UpdateProvider(owner, attrs)
    /\ UNCHANGED <<deployments, groups, marketVars, balance, blockVars>>

\* bank.SendCoins
SendCoins(funds, from, to, amount) ==
    LET debited == [funds EXCEPT ![from] = @ - amount]
    IN  [debited EXCEPT ![to] = @ + amount]

\* A transfer between two tenants by the bank module.
BankSend(from, to, amount) ==
    /\ phase = "deliver"
    /\ balance[from] >= amount
    /\ balance' = SendCoins(balance, from, to, amount)
    /\ UNCHANGED <<deployments, groups, marketVars, providers, blockVars>>

-----------------------------------------------------------------------------
(* End of block *)

ActiveLeases == {l \in DOMAIN leases : leases[l].state = LeaseActive}

\* OnEndBlock of x/deployment: an order for every open group of an active
\* deployment.  Then the payment loop of x/market starts.
CreateOrdersForGroups ==
    LET gids == Orderable(deployments, groups) IN
    /\ phase = "deliver"
    /\ height < MaxHeight
    /\ orders' = CreateOrders(orders, gids, groups, height + OrderTTL)
    /\ groups' = OnOrderCreated(groups, gids)
    /\ phase' = "pay"
    /\ todo' = ActiveLeases
    /\ UNCHANGED <<deployments, bids, leases, providers, balance, height, charges>>

\* leaseKey: owner, dseq, gseq, oseq, provider
LeaseKey(l) == <<l[1][1][1][1], l[1][1][1][2], l[1][1][2], l[1][2], l[2]>>

KeyLess(l, m) ==
    LET k == LeaseKey(l)
        n == LeaseKey(m)
    IN  \E i \in 1..5 : k[i] < n[i] /\ \A j \in 1..(i - 1) : k[j] = n[j]

\* One turn of the loop in transferFundsForActiveLeases: the tenant of the next
\* lease pays for the block, does not have the coins, or has coins that the bank
\* refuses to move ("error transferring funds": the lease is left as it is).
LoopReaches(l) ==
    /\ phase = "pay"
    /\ l \in todo /\ \A m \in todo : ~KeyLess(m, l)
    /\ todo' = todo \ {l}

LeaseOwner(l) == l[1][1][1][1]

HasCoins(l) == balance[LeaseOwner(l)] >= leases[l].price

\* Mutant: the tenant pays the price of the order, not of the lease.
PayOrderPrice(l) ==
    /\ LoopReaches(l)
    /\ balance[LeaseOwner(l)] >= orders[l[1]].spec.price
    /\ balance' = SendCoins(balance, LeaseOwner(l), l[2], orders[l[1]].spec.price)
    /\ charges' = Put(charges, l, [from |-> charges[l].from, count |-> charges[l].count + 1])
    /\ UNCHANGED <<deployments, groups, marketVars, providers, height, phase>>

PayLease(l) ==
    /\ LoopReaches(l)
    /\ HasCoins(l)
    /\ balance' = SendCoins(balance, LeaseOwner(l), l[2], leases[l].price)
    /\ charges' = Put(charges, l, [from |-> charges[l].from, count |-> charges[l].count + 1])
    /\ UNCHANGED <<deployments, groups, marketVars, providers, height, phase>>

PaymentRefused(l) ==
    /\ LoopReaches(l)
    /\ HasCoins(l)
    /\ LeaseOwner(l) \in Vesting
    /\ UNCHANGED <<deployments, groups, marketVars, providers, balance, height, phase, charges>>

SuspendLease(l) ==
    /\ LoopReaches(l)
    /\ ~HasCoins(l)
    /\ groups' = OnLeaseInsufficientFunds(groups, l[1][1])
    /\ leases' = OnInsufficientFunds(leases, l)
    /\ UNCHANGED <<deployments, orders, bids, providers, balance, height, phase, charges>>

\* The orders matchOrders gives a lease, and the choices of winners it can make.
Contested == {o \in Matchable(orders, height) : OpenBids(bids, o) # {}}

Winners(wins) ==
    /\ \A w \in wins : w[1] \in Contested /\ w \in Cheapest(bids, w[1])
    /\ \A o \in Contested : \E w \in wins : w[1] = o
    /\ \A v, w \in wins : v[1] = w[1] => v = w

MatchOpenOrders(wins) ==
    /\ phase = "pay" /\ todo = {}
    /\ Winners(wins)
    /\ leases' = CreateLeases(leases, bids, wins)
    /\ bids' = MatchBids(bids, wins)
    /\ orders' = OnOrderMatched(orders, OrdersOf(wins))
    /\ groups' = OnLeaseCreated(groups, {w[1][1] : w \in wins})
    /\ charges' = PutAll(charges, wins, [w \in wins |-> [from |-> height, count |-> 0]])
    /\ phase' = "deliver" /\ height' = height + 1
    /\ UNCHANGED <<deployments, providers, balance, todo>>

Next ==
    \/ \E owner \in Tenants, specs \in GroupSpecs : MsgCreate(owner, specs)
    \/ \E did \in DOMAIN deployments : MsgUpdate(did) \/ MsgClose(did)
    \/ \E oid \in DOMAIN orders, p \in Hosts, price \in BidPrices : MsgCreateBid(oid, p, price)
    \/ \E bid \in DOMAIN bids : MsgCloseBid(bid)
    \/ \E oid \in DOMAIN orders : MsgCloseOrder(oid)
    \/ \E p \in Hosts, attrs \in SUBSET Attributes :
          MsgCreateProvider(p, attrs) \/ MsgUpdateProvider(p, attrs)
    \/ \E a, b \in Tenants, n \in Transfers : BankSend(a, b, n)
    \/ CreateOrdersForGroups
    \/ \E l \in todo : PayLease(l) \/ PaymentRefused(l) \/ SuspendLease(l)
    \/ \E wins \in SUBSET {b \in DOMAIN bids : b \in Cheapest(bids, b[1])} : MatchOpenOrders(wins)

Spec == Init /\ [][Next]_vars

-----------------------------------------------------------------------------
(* Properties *)

DeploymentIDs == Tenants \X Nat
GroupIDs == DeploymentIDs \X Nat
OrderIDs == GroupIDs \X Nat
BidIDs == OrderIDs \X Hosts

IsStore(store, keys, vals) == DOMAIN store \subseteq keys /\ store \in [DOMAIN store -> vals]

\* Every store maps ids of its own kind to records with a state the code names,
\* and no account is ever overdrawn.
TypeOK ==
    /\ IsStore(deployments, DeploymentIDs, DeploymentStates)
    /\ IsStore(groups, GroupIDs, [state : GroupStates, spec : GroupSpec])
    /\ IsStore(orders, OrderIDs, [state : OrderStates, startAt : Nat, spec : GroupSpec])
    /\ IsStore(bids, BidIDs, [state : BidStates, price : Nat])
    /\ IsStore(leases, BidIDs, [state : LeaseStates, price : Nat])
    /\ IsStore(providers, Hosts, SUBSET Attributes)
    /\ balance \in [Accounts -> Nat]
    /\ height \in Nat /\ phase \in {"deliver", "pay"}
    /\ todo \subseteq DOMAIN leases
    /\ IsStore(charges, BidIDs, [from : Nat, count : Nat])

\* Every record has the records it belongs to: the keepers read a group by the id in
\* an order or lease and ignore whether it was found (OnLeaseCreated, OnLeaseClosed,
\* OnLeaseInsufficientFunds).  The payment loop only meets leases that are active.
Integrity ==
    /\ \A g \in DOMAIN groups : Has(deployments, g[1])
    /\ \A o \in DOMAIN orders : Has(groups, o[1])
    /\ \A b \in DOMAIN bids : Has(orders, b[1])
    /\ \A l \in DOMAIN leases : Has(bids, l)
    /\ DOMAIN charges = DOMAIN leases
    /\ todo \subseteq ActiveLeases
    /\ phase = "deliver" => todo = {}

\* A closed deployment takes everything below it down and nothing brings any of
\* it back: its groups and orders are closed, no bid on them is open or matched,
\* and no lease on them is active (handleMsgClose and OnGroupClosed, against
\* every handler and end-block step that sets a state without looking at it).
ClosedForGood ==
    /\ \A g \in DOMAIN groups :
          deployments[g[1]] = DeploymentClosed => groups[g].state = GroupClosed
    /\ \A o \in DOMAIN orders :
          deployments[o[1][1]] = DeploymentClosed => orders[o].state = OrderClosed
    /\ \A b \in DOMAIN bids :
          deployments[b[1][1][1]] = DeploymentClosed => bids[b].state \in {BidLost, BidClosed}
    /\ \A l \in DOMAIN leases :
          deployments[l[1][1][1]] = DeploymentClosed => leases[l].state # LeaseActive

\* A group that waits has something to wait for: an ordered group has an open
\* order and a matched group an active lease, so no order of messages leaves a
\* group in a state that its end-block steps never look at again.
GroupStateBacked ==
    \A g \in DOMAIN groups :
        /\ groups[g].state = GroupOrdered =>
              \E o \in OrdersForGroup(orders, g) : orders[o].state = OrderOpen
        /\ groups[g].state = GroupMatched => \E l \in ActiveLeases : l[1][1] = g

\* A lease is the outcome of its bid: the bid exists, carries the same price and
\* was matched; while the lease is active the bid and the order stay matched.
LeaseBacked ==
    \A l \in DOMAIN leases :
        /\ Has(bids, l) /\ Has(orders, l[1])
        /\ leases[l].price = bids[l].price
        /\ bids[l].state \in {BidMatched, BidClosed}
        /\ leases[l].state = LeaseActive =>
              bids[l].state = BidMatched /\ orders[l[1]].state = OrderMatched

\* An order is awarded at most once, whatever is closed and reopened around it.
OneLeasePerOrder == \A l, m \in DOMAIN leases : l[1] = m[1] => l = m

\* "a lease is awarded to the lowest bid provider" (_run/multi/README.md): no bid
\* that lost was cheaper than the lease, and the lease is within the order's price.
CheapestWins ==
    \A l \in DOMAIN leases :
        /\ leases[l].price <= orders[l[1]].spec.price
        /\ \A b \in BidsForOrder(bids, l[1]) :
              bids[b].state = BidLost => leases[l].price <= bids[b].price

\* The orders of a group are numbered 1, 2, ... without a gap, so CreateOrder never
\* overwrites one ("XXX TODO: check not overwrite").
OrdersNumbered ==
    \A g \in DOMAIN groups :
        {o[2] : o \in OrdersForGroup(orders, g)} = 1..Cardinality(OrdersForGroup(orders, g))

\* An active lease is paid once for every block ended since it was created, and never
\* twice; only a tenant with locked coins can miss a payment and keep the lease.
BlocksDue(l) ==
    height - charges[l].from - IF phase = "deliver" \/ l \in todo THEN 1 ELSE 0

PaidEveryBlock ==
    \A l \in ActiveLeases :
        /\ charges[l].count <= BlocksDue(l)
        /\ LeaseOwner(l) \notin Vesting => charges[l].count = BlocksDue(l)

\* Every group has finitely many orders, so they can be counted.
FinitelyManyOrders == \A g \in DOMAIN groups : IsFiniteSet(OrdersForGroup(orders, g))

\* A bid that is no longer open was decided together with its order.
DecidedTogether ==
    \A b \in DOMAIN bids : bids[b].state # BidOpen => orders[b[1]].state # OrderOpen

\* No bid is above the price of its order (handleMsgCreateBid).
BidsWithinPrice == \A b \in DOMAIN bids : bids[b].price <= orders[b[1]].spec.price

\* The inductive invariant: what the stores tell of each other when a message or a step of
\* the end of a block finds them, and all any of these relies on.  No key is written twice
\* and no record is missing when a keeper reads it without looking whether it was found.
IInv ==
    /\ TypeOK /\ Integrity /\ FinitelyManyOrders /\ OrdersNumbered
    /\ ClosedForGood /\ GroupStateBacked
    /\ LeaseBacked /\ OneLeasePerOrder /\ CheapestWins
    /\ DecidedTogether /\ BidsWithinPrice
    /\ PaidEveryBlock

\* What has been paid for each lease, and the leases of a provider.
Paid == [l \in DOMAIN leases |-> charges[l].count * leases[l].price]
LeasesOf(p) == {l \in DOMAIN leases : l[2] = p}

\* What a provider holds is what its leases paid: per lease the agreed price, once for
\* every payment, whatever became of the lease since.  (For providers that are not
\* tenants: the transfers of the model are between tenants.)
ProvidersEarnTheirLeases ==
    \A p \in Hosts \ Tenants : balance[p] = SumFunctionOnSet(Paid, LeasesOf(p))

\* Records only move forward: a closed deployment, order or lease and a bid that
\* lost or was closed keep their state, a matched order is only ever closed, and a
\* bid that has been decided and every lease keep their price.
Forward ==
    /\ \A d \in DOMAIN deployments :
          deployments[d] = DeploymentClosed => deployments'[d] = DeploymentClosed
    /\ \A o \in DOMAIN orders :
          /\ orders[o].state = OrderMatched => orders'[o].state # OrderOpen
          /\ orders[o].state = OrderClosed => orders'[o] = orders[o]
    /\ \A b \in DOMAIN bids :
          /\ bids[b].state # BidOpen => bids'[b].price = bids[b].price
          /\ bids[b].state = BidMatched => bids'[b].state \in {BidMatched, BidClosed}
          /\ bids[b].state \in {BidLost, BidClosed} => bids'[b] = bids[b]
    /\ \A l \in DOMAIN leases :
          /\ leases'[l].price = leases[l].price
          /\ leases[l].state # LeaseActive => leases'[l] = leases[l]

\* A step writes a record of the deployment did, or of one of its groups, orders, bids or
\* leases.
Touched(did) ==
    \/ \E d \in DOMAIN deployments' : d = did /\ (~Has(deployments, d) \/ deployments'[d] # deployments[d])
    \/ \E g \in DOMAIN groups' : g[1] = did /\ (~Has(groups, g) \/ groups'[g] # groups[g])
    \/ \E o \in DOMAIN orders' : o[1][1] = did /\ (~Has(orders, o) \/ orders'[o] # orders[o])
    \/ \E b \in DOMAIN bids' : b[1][1][1] = did /\ (~Has(bids, b) \/ bids'[b] # bids[b])
    \/ \E l \in DOMAIN leases' : l[1][1][1] = did /\ (~Has(leases, l) \/ leases'[l] # leases[l])

\* A message changes records of one deployment only: what it closes or reopens never
\* reaches the groups, orders, bids or leases of another one.
OneDeploymentPerMessage ==
    phase' = "deliver" /\ phase = "deliver" =>
        \A d, e \in DOMAIN deployments' : Touched(d) /\ Touched(e) => d = e

\* When a block ends, no order that may be matched still has an open bid.
NoneLeftUnmatched ==
    height' # height =>
        \A o \in DOMAIN orders' :
            orders'[o].state = OrderOpen /\ orders'[o].startAt <= height =>
                OpenBids(bids, o)' = {}

\* What no message and no end of a block may do to records that are there.
ProperSteps == [][Forward /\ OneDeploymentPerMessage /\ NoneLeftUnmatched]_vars

\* "create orders as necessary", "TODO: check for active order" (OnEndBlock of
\* x/deployment): a group that has an active lease is not put on the market again.
NoOrderWhileLeased ==
    [][\A o \in DOMAIN orders' \ DOMAIN orders : ~\E l \in ActiveLeases : l[1][1] = o[1]]_vars

\* "provider not found" is the error of Keeper.Update: a registered provider can
\* update its attributes.
RegisteredCanUpdate ==
    phase = "deliver" =>
        \A p \in DOMAIN providers, attrs \in SUBSET Attributes : ENABLED MsgUpdateProvider(p, attrs)

=============================================================================
