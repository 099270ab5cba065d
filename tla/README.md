# A TLA+ model of Akash

This directory specifies the Akash marketplace and its provider daemon in TLA+, checks the
specifications with TLC on small instances, and proves the safety properties that matter most
with TLAPS. Every definition is a translation of the Go code. `PROJECT.json` maps definitions to
lines and lists the runs, one mutant for every property (a plausible mistake that makes it fail),
the findings, the hazards and the theorems.

## The system

Akash has two halves.

The **chain** is a Cosmos SDK application. A tenant creates a *deployment* of one or more
*groups*. At the end of a block each open group is put on the market as an *order*. Providers
*bid* on orders; when an order has waited long enough its cheapest bid wins a *lease*. Every
block each active lease is paid by the tenant.

The **provider daemon** follows the chain. `events.Publish` turns the chain's events into events
on an in-process *bus*. The *bid engine* reserves resources for new orders and bids on them. When
it wins, the *manifest handler* pairs the lease with the manifest that the tenant sends, and the
*cluster service* deploys it through the *Kubernetes client*, watches its health and tears it
down when the lease ends. The *inventory* decides whether a reservation fits.

```
 tenant --SDL--> groups ---> chain: deployment, market, provider modules
        \                      |  events        ^ queries
         \                 events.Publish --> bus --+--> bid engine --Reserve--> inventory
          \                                         |        | LeaseWon              ^
           `--manifest--> manifest handler <--------+--------'                       |
                               | ManifestReceived                                   |
                               `----------> cluster service --> Kubernetes client ---'
```

## Modules

| part | module | state and actions |
|---|---|---|
| stores of the chain | `KVStore`, `Deployment`, `Market`, `Keys` | operators on stores, one for each function of the keepers; the byte strings that are the keys of records |
| `x/deployment`, `x/market`, `x/provider`, order of end blockers in `app.go` | `Chain` | the stores, balances, the height; one action per message; the end of a block is `CreateOrdersForGroups`, one payment step per active lease, `MatchOpenOrders` |
| `x/*/genesis.go` | `Genesis` | export and import as functions of the stores |
| `x/*/query`, `sdkutil/query.go` | `Queries` | paths, queriers, and what of an answer gets back to the client |
| `pubsub` | `Bus`, `EventLog` | a tree of goroutines with buffers; `EventLog` is what it promises: one log, one position per subscriber |
| `events`, `sdkutil`, `x/*/types/event.go` | `EventCodec`, `Events` | attributes of events and their parsers; the two publishing goroutines |
| `provider/bidengine` | `BidEngine` | the service and one monitor for each order, with its call in flight; the query of existing orders at the start |
| `provider/manifest` | `ManifestHandler`, `ManifestManager` | the handler with the leases of its managers; the requests, fetch and versions of one manager |
| `provider/cluster` | `Cluster` | the service, one deployment manager per lease, its client call and its monitor; stop, crash and restart |
| `provider/cluster/inventory.go` | `Packing`, `Inventory` | first fit as a function; reservations, marks, periodic checks and shutdown |
| `provider/cluster/kube` | `Kube`, `KubeNodes` | `Deploy` request by request, teardown, `LeaseStatus`, crashes; the inventory of nodes |
| `provider/service.go` | `ProviderService`, `Daemon` | start, failure, status and stop of the three services, of which the cluster service may be blocked; `Daemon` puts `ManifestHandler` in the place of the third |
| `validation`, `sdl` | `Units`, `Validation`, `SDL` | limits, groups and manifest of a document and what `Read` accepts, as functions |

`MC*` modules give constants small values; `MCAlgorithms` also puts the functions to every small
input. `ChainProofs`, `BusProofs`, `ClusterProofs`, `InventoryProofs`, `BidEngineProofs`,
`ManifestManagerProofs`, `DaemonProofs` and `KubeProofs` hold proofs only. A definition that a
comment calls a mutant stands for a plausible mistake; nothing else uses it.

### Conventions and abstractions

- A goroutine's `select` case is one action with all calls it makes. A rendezvous on an
  unbuffered channel is one step of both sides where the receiver is always ready, and separate
  steps where it may not be (a call of the cluster service to a manager, `Cluster`).
- A call run by `runner.Do` is started, answered and read in separate steps, so that everything
  may happen in between. `Cluster` reads the manifest group when the goroutine of the call gets
  to it, not when it is started, as `doDeploy` does.
- `go-lifecycle` is not part of the repository. It is modelled from its use: a shutdown request
  is taken by the loop, `ShutdownInitiated` releases whoever waits on `ShuttingDown`, and
  `ShutdownCompleted` closes `Done` only.
- The language version is one in which a loop has one variable for all its iterations;
  `&order` in `queryExistingOrders` and `&knode` in `activeNodes` are modelled accordingly.
- The loops of the end blockers see the records as they were when the loop began. Of the
  records they iterate over they only rewrite the one they are at. That an SDK iterator stays
  valid while its store is written is taken for granted.
- Between components the bus is its log (`BidEngine`) or a queue (`Cluster`, `ManifestHandler`,
  `Inventory`), which `Bus` justifies.
- At present no event of the chain reaches the bus (`events_arrive`), no query brings a value to
  a client (`QueriesAnswered` below), and no handler forwards requests to a `ManifestManager`
  (`RequestTaken`); a manager that got one would accept any manifest (`AcceptedMatches`). The modules
  of the provider take events, answers and requests as delivered,
  since they would otherwise have nothing to do; queries may also fail.

## Runs that pass

State counts are of distinct states.

| run | instance | what it shows |
|---|---|---|
| `chain` | 2 deployments of 2 tenants, one of them also a provider with locked coins, 2 providers, 2 prices, a required attribute, transfers, 4 blocks; 389,545 | `ClosedForGood`: nothing below a closed deployment lives; `GroupStateBacked`: no group is stranded; `CheapestWins`; `PaidEveryBlock`: an active lease is paid once a block; `ProvidersEarnTheirLeases`: the money adds up; `IInv`: the inductive invariant; `ProperSteps`: records only move forward, a message writes below one deployment only, no block leaves a matchable order with a bid |
| `bus` | 3 subscribers, 2 events; 93,858 | `ImplementsLog`: the tree refines the log; `CloseCompletes`; `EventsReachEverySubscriber`: no reader holds up another |
| `cluster` | 1 lease, 2 groups, 4 events, 1 retry, 1 crash, late manifests; 180,867 | `DeployedIsCurrent`: a finished deploy is of the latest manifest; `StaysDown`; `Monitored`: monitors belong to finished deploys and give up only after the last retry; `TeardownCompletes`; `CloseReturns` |
| `inventory` | 2 orders, 1 node, 2 reports under way, workloads that idle, monitors that give up; 273,791 | `OvercommitOnlyIfUnseen`: overcommitment only by accepting an order while another was not counted in full by the last check; `MarkedAsReported`: marks follow workloads in the end |
| `bidengine` | 2 orders of a group, which may be there at the start, open, matched or closed, and may be open at the same time, 3 events, calls that fail in doubt; 858,807 | `ReservationsAccounted`; `LeaseWonSound`: a lease that is announced is reserved, and announced once; `LeaseAnnounced`; `MonitorsEnd`: with their order and with the service |
| `manifest_manager` | 2 leases, 3 requests, 2 updates; 11,343 | `AnsweredOnce`: also at the end; `Paired`: leases are announced with the manifest in use, which was accepted; `RequestAnswered` |
| `manifest_handler` | 2 leases of a deployment, 5 events, 1 caller; 63,673 | `HoldsActive`: managers hold the active leases; `PanicsOnlyIfTwice` |
| `kube` | 2 leases in one namespace, 3 groups, 3 calls, also at the same time; 3,917,279 | `DeployComplete`: a successful `Deploy` makes good what failed or crashed before; `ManifestFirst`: whatever runs is covered by a manifest that a restart finds; `CheckExact`: a health check at rest is exact |
| `algorithms` | every small input; 429,512 | `FirstFit`: what is accepted can be placed, exactly so on one node, and the books balance; `HalvesAgree`: deployment groups and manifest of an accepted document ask for the same, although nothing compares them; `ImportKeeps`: after a restart from an export exactly the open groups are ordered; `KeysFaithful`: no key is that of another record, prefixes select what they should, leases come in the order of their numbers |
| `daemon` | 1 lease, 2 events, 1 caller, 1 status call; 78,242 | `NothingLeftBehind`; `OneStopsAll`; `CallsReturn`, for the services composed with the manifest handler |

**Why the bounds are enough.** `chain` ends three blocks and delivers messages in a fourth:
enough for an order to be made, matched, paid and closed and for its group to be ordered again,
while another deployment competes for the same coins and providers. Two coins pay one lease of
two coins or two of one coin, and a transfer takes them away, so that tenants run dry in the
middle of the loop. The proofs below remove the bounds for all properties of this run. Three subscribers are the fewest with a clone of a clone. Four events
of one lease are manifest, newer manifest, close, late manifest; leases share nothing but the
service's loop, and the proofs cover any number of them. Two orders of one group are needed for
one to be taken for the other; once both have been open together, `MaxCrowded` allows two events
instead of three, which still lets one of them be matched or closed. Two nodes are needed for first fit to matter, one for its
exactness. Three calls of the Kubernetes client are a deploy that fails, another that succeeds
and a teardown, or two that overlap and one after them. The two leases of `kube` are
interchangeable, so that it is checked up to their permutation. Keys have bytes of two values and fields of one and two bytes, enough for a field
to be taken for part of its neighbour. All bounds are named constants.

`CHECK_DEADLOCK FALSE` is set where the system may stop: when a daemon is done, when a bound
on events or calls has been used up, or when a question has been put to a function. `chain` checks
for deadlock.

## Fairness

Safety does not depend on fairness. For liveness the modules assume:

- `Bus`: weak fairness of the goroutines' internal steps. Nothing is assumed of readers
  (`Emit`), publishers or those who close, so that "no reader holds up another" is shown for
  readers that never read.
- `BidEngine`, `Cluster`, `ManifestHandler`, `ManifestManager`, `Events`: weak fairness of
  goroutines and of the return of calls, possibly with an error. The Go scheduler runs every
  goroutine; that a client call returns at all is an assumption, as the code sets no timeout.
  Nobody is assumed to send events, call `Close` or cancel a context. In `Cluster`, a ready case
  of a `select` is not passed over for ever.
- `ManifestManager` assumes that a fetch ends, perhaps with an error; `RequestAnswered` exempts a
  fetch that failed.
- `Inventory` has strong fairness of reports (a monitor publishes at every health check,
  and is held up only by a full queue; one that has given up reports nothing) and weak fairness of the loop's reading of events.
- `Daemon` assumes that the cluster service and the bid engine stop once their context is
  cancelled, which `CloseReturns` of `Cluster` and `MonitorsEnd` of `BidEngine` show. A cluster
  service that is blocked (`NeverBlocked` below) never does; it may become so at any time. For the manifest handler it assumes
  nothing of the kind: there the steps are modelled.

## Proofs

TLAPS checks the theorems below for all values of the constants: any number of tenants,
providers, groups, prices, blocks, subscribers, leases, requests, calls and events, and any
resources. The only
assumptions are the named ones on constants (`ConstantsAssumption`, `BusAssumption`,
`ClusterAssumption`, `InventoryAssumption`, `BidEngineAssumption`, `ManifestManagerAssumption`,
`ManifestHandlerAssumption`, `KubeAssumption`): bounds and amounts are naturals, a message has a
group, the root of the bus is not a subscriber, and the like. TLC evaluates them in the runs.

Every inductive invariant was checked with TLC on the instance of its run, or a larger one,
before it was proved. `IInv` still is.

**Chain.** `Invariant` proves `IInv`, and from it follow `TypeCorrect`, `ReferencesResolve`,
`DeploymentClosedForGood`, `GroupsWaitForSomething`, `LeasesFollowBids`, `OrdersAwardedOnce`,
`LowestBidWins`, `OrdersNeverOverwritten` and `PaidOncePerBlock`. None of these is inductive
alone. `IInv` is their conjunction with three facts:

- `FinitelyManyOrders`: the orders of a group can be counted, which `OrdersNumbered` needs since
  the number of a new order is one more than that count;
- `DecidedTogether`: a bid that is no longer open belongs to an order that is no longer open.
  Without it an open order might already have a lease, and matching it would award a second one;
- `BidsWithinPrice`: a bid is within the price of its order, for the second half of
  `CheapestWins`.

`OneLeasePerOrder` and `LeaseBacked` carry `GroupStateBacked`: closing a lease reopens its group,
which is only right because the order that is closed has no other lease. There is one lemma per
action (`InvMsgCreate` to `InvMatchOpenOrders`), with a step for each conjunct the action can
disturb, on top of lemmas about the stores. `StepsAreProper` proves the action
property `ProperSteps` from `IInv`: `StepForward` goes through the actions store by store (that a
bid on an open order is overwritten is harmless only by `DecidedTogether`), `StepTouchesOne` shows
that a message writes below one deployment, and `StepMatchesAll` that the step that ends a block
has matched all it should.

`ProvidersEarn` proves `ProvidersEarnTheirLeases`, a sum over the leases of a provider. It rests
on two lemmas about sums over finite sets: a sum may take any of its elements first (`SumTakes`),
and what is zero adds nothing (`SumSame`). The first accounts for `PayLease`, which moves one
price and counts one block; the second for `MatchOpenOrders`, whose new leases have cost nothing
yet. `EarnInv` adds that there are finitely many bids and leases, without which there is no sum,
and needs of `IInv` that a bid that wins has no lease yet and that the payer is a tenant.

**Bus.** `BusTypeCorrect`, `NobodyIsOrphaned` and the refinement `BusImplementsLog`: every step
of the tree is a step of `EventLog` or changes nothing the log shows. The invariant `BInv` says
that subscriptions form a tree (`Tree`), that a buffer holds the events right after the last one
read (`InOrder`), and that a child is level with its parent or exactly one event behind it while
the parent is handing that event over (`InStep`). From `InStep` it follows that a clone, which
copies its parent's buffer, begins where the parent stands.

**Cluster.** `LastManifestRuns` (`DeployedIsCurrent`), `TornDownForGood` (`StaysDown`),
`MonitorsWatchDeploys` (`Monitored`), `ResultsAreExpected` (no result of a call meets the panic
of an unexpected state) and `ClusterTypeCorrect`. `ClusterInv` ties, for each lease, the
manager's state to the call behind it (`Called`), what a call that nothing has overtaken brings
to the group given last (`Current`), the monitor's attempts to the failed checks (`Counted`),
and a teardown to a lease that is closed (`TornDown`); the last one needs that whatever announces
a teardown, in the queue or on its way to a manager, does so because the lease is closed
(`Announced`).

**Inventory.** `OvercommitsOnlyIfUnseen` proves `OvercommitOnlyIfUnseen` for any orders, resources
and capacity of the one node. Most of it is about what `reservationAllocateable` computes: a node
on which all resources found their place has lost exactly what they ask for (`NodeTakes`), so has
the inventory after an adjustment that succeeds (`AdjustFits`), and an order is accepted only if
it fits next to all pending ones into what the inventory has (`AllocFits`). `InventoryInv` adds
that what the inventory has is free next to the workloads the last check counted in full. An order
is then accepted next to reservations that are pending, or marked and counted by that check,
unless one is marked and was not: the case the property excludes. The proof needs that what two
sets of orders cover uses no more than they do (`SumWithin`).

**Bid engine.** `ReservationsAreAccounted`. `BidInv` adds the types of monitors and calls, and
that a monitor which has, or has dropped, a reservation is past asking for one (`Tidy`), so that
no step can count it twice. The proof is about cardinalities of sets of monitors.

`LeaseWonIsSound` proves `LeaseWonSound` from `LeaseInv`, which relates three things: what the log
can say of an order, of the orders of a group and of bids (`LogOfOrder`, `LogOfGroup`,
`LogOfBids`); where a monitor started in that log and how far it has read it
(`Started`, `Recovered`); and what a monitor has by the time it bids (`Equipped`). Events start
one monitor for an order, and none while a monitor recovered at the start is kept for it
(`OneAtATime`); so whoever has announced a lease can be named (`Announcements`). A monitor takes
the lease of any order of its group for its own. An instance of three orders showed what that
means at the start: a monitor recovered for an order that was over already hears nothing of its
own order and announces the lease of a later one, which that order's own monitor announces again.
`LeaseWonSound` excludes that case (`Over`). It also excludes groups that have had two open orders
at a time, which the chain allows (`chain_reopen`): there a monitor leaves with the lease of either
order. The history `crowded` keeps these groups, and of all others `LogOfGroup` says that an order
is created only when the ones before it are over.

**Manifest manager.** `RequestsAnsweredOnce` and `LeasesPaired`. `ManagerInv` adds that whoever waits
has no answer and whoever does not has one (`Settled`), and that manifests in use were accepted
(`Known`).

**Manifest handler and daemon.** `ManagersHoldActive` (`HoldsActive`) and `RemovalIsSafe`
(`PanicsOnlyIfTwice`). `HandlerInv` says which manager a lease may be with (`Belong`), what the
events still to be read tell of a lease (`Told`) and in which order (`Ordered`), and what a manager
that leaves has left (`Leaving`). Both loops over leases are folds: that `removeLease` takes out
exactly one lease, shifting the others in place, and that `handleLeases` gives every lease to the
manager of its deployment, is shown by induction on how far the loop has come.
`DaemonImplementsHandler` shows that within the process every step is one of the handler or leaves
it alone, so that it keeps these invariants, and `NothingIsLeftBehind` proves `NothingLeftBehind`.

**Kubernetes client.** `DeployIsComplete`, `ManifestIsFirst` and `CheckIsExact`, for any leases and
groups and any number of calls, failures and crashes. All leases write to one namespace
(`LeasesApart` below), so that two `Deploy`s which overlap leave a mixture; the history `mixed` has
their numbers, and the properties speak of the others, and of a `Deploy` as long as it is the last
call (`LastWord`). `KubeInv` says that what a `Deploy` that has not overlapped has requested so far
is in the cluster as it requested it (`UnderWay`), that after a successful one all of it is
(`Settled`), that such a `Deploy` is alone and later than all before it (`InTurn`), and that
nothing in the cluster is newer than the manifest (`Covered`). That the plan of `Deploy` covers
every object of a group and nothing else is an induction over its services (`AppliesFacts`,
`PlanFacts`).

**Induction.** The induction theorems of the library cannot be used with these provers, as they
take an operator. The proofs that need induction over data take a least counterexample instead: of
a set of numbers (`LeastNat`), or of the subsets of a finite set (`MinimalSubset`).

**Only model-checked.** Everything temporal under fairness, which is beyond the prover, as is
`ENABLED`. The properties of `algorithms`, which compare functions with references on every small
input: their proofs would be inductions over each of these functions (`Packing` on several nodes,
`SDL`, `Genesis`, `Keys`) with nothing in common.

## Findings

Two runs end in a counterexample to what the code says of itself. `PROJECT.json` quotes the lines.

| run | what the code does |
|---|---|
| `chain_reopen` | a second `MsgCloseOrder` for an old order puts a leased group on the market again |
| `events_arrive` | no event of the chain reaches the bus: `sdkutil.ParseEvent` drops the attributes |

The following definitions also state what a comment, a log message or the name of an error says,
and do not hold. They are in no run; TLC finds the counterexample when the definition is put in
the place of the properties of the configuration named.

| definition | configuration | what the code does |
|---|---|---|
| `RegisteredCanUpdate` | `MCChain.cfg` | the update of a registered provider always fails, its test being inverted |
| `QueriesAnswered` | `MCAlgorithms.cfg` | a querier returns the nil `*Error` of `RenderQueryResponse` as an `error` that is not nil, so that the client gets no value |
| `NeverBlocked` | `MCCluster.cfg` | a manifest for a manager that is leaving after a teardown blocks the service for good |
| `ClosedLeaseUnreserved` | `MCCluster.cfg` | a lease closed before its manifest arrives keeps its reservation |
| `RestartsWithLeases` | `MCCluster.cfg` | a provider with active leases panics when it starts (nil map) |
| `NoOvercommit` | `MCInventory.cfg` | a reservation that is marked before the next check, or idle during it, is counted nowhere |
| `RecoveredHasBid` | `MCBidEngine.cfg` | an order found at the start counts as bid on, bid or not |
| `ReservationCancelled` | `MCBidEngine.cfg` | a reservation granted after the order is lost is never cancelled |
| `DrainWaitsForAll` | `MCBidEngine.cfg` | orders found at the start become copies of the last one; the drain misses monitors |
| `AcceptedIsUsed` | `MCManifestManager.cfg` | two manifests are accepted at once and one is dropped |
| `AcceptedMatches` | `MCManifestManager.cfg` | the comparison of a manifest with the deployment is a stub that accepts every manifest |
| `NoPanic` | `MCManifestHandler.cfg` | a lease that arrives by query and by event makes its removal panic |
| `RequestTaken` | `MCManifestHandler.cfg` | no goroutine receives manifest requests |
| `NothingStale` | `MCKube.cfg` | a service that is no longer exposed keeps its ingress |
| `LeasesApart` | `MCKube.cfg` | all leases share one namespace |
| `PoorNodesLeftOut` | `MCAlgorithms.cfg` | every active node is reported as the last node of the list |
| `UnitsWithinLimits` | `MCAlgorithms.cfg` | units outside the limits are accepted |

`QueriesAnswered` depends on the SDK (0.38): a querier's error that is not nil makes the response
one without a value, with the code of success if the error is a nil pointer. `Queries` models that
as `handleQueryCustom`, marked external.

Several passing properties name a case they exclude, because the code may fail there and states
nothing it would contradict: `HoldsActive` (a lease closed before it is announced stays with its
manager), `DeployComplete` (a deploy into a namespace that is being deleted), all three of `kube`
(deploys that overlap in the one namespace), `CheckExact` (a status check during another call can
dereference nil), `PaidEveryBlock` (owners whose coins are locked are not paid for),
`LeaseWonSound` (orders found at the start), `LeaseWonSound` and `LeaseAnnounced` (groups that have
had two open orders at a time), `MarkedAsReported` (a monitor that gave up),
`RequestAnswered` (a failed fetch is not repeated), `TeardownCompletes` and `CloseReturns` of
`Cluster`, `OneStopsAll` and `CallsReturn` (a cluster service that is blocked).

## Not modelled

- Command lines, REST and the printing of answers; the wiring in `app.go` and `cmd`. They have no
  state of their own.
- Fees, signatures and consensus, which are the SDK's.
- The parsing of quantities in `sdl/units.go` (floating point), ports and images of a stack
  definition, and prices, which the code does not compute or validate at present.
- Manifest hashes and signatures, whose code is commented out, and the comparison of a manifest
  with the groups of a deployment in `validation`, which no code path reaches and whose test does
  not compile. The stub that is called instead is modelled.
- Bids with a negative price, on which `Chain` states nothing; the error of `Clone` when a manifest
  manager is made while the bus closes.
- Generated Kubernetes clients; the null cluster client; the fields of Kubernetes objects, logs
  and the status of a single service.
- The JSON of a genesis file and of the answers to queries.
- The stop timer of a manifest manager, because the code only ever renews one and never creates
  the first.
- Of the inventory service, `lookup` and `status`, which read its state, and its callers. That the
  cluster service also waits for it to end is left out of `Cluster`. `Daemon`
  keeps of the cluster service and the bid engine only that they start and stop; composing all
  three services on one log is beyond TLC with the bounds that the single modules need.
