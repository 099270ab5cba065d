---------------------------- MODULE MCAlgorithms -----------------------------
(***************************************************************************)
(* The algorithms of the provider and of the tenant's tools that compute   *)
(* without keeping state, put to all small inputs and compared with what   *)
(* they are to compute: first fit (Packing), the inventory of a cluster    *)
(* (KubeNodes), stack definitions (SDL, Validation), the queries of the    *)
(* chain (Queries), its export and import (Genesis) and the keys of its    *)
(* records (Keys).  A state is one question put to one of them.            *)
(***************************************************************************)
EXTENDS Packing, KubeNodes, SDL

CONSTANTS
    MaxAvailable, MaxAsked, MaxInstances,  \* bounds: of a node, of a unit and of its count
    MaxAllocatable, MaxNodes,              \* bounds: of a node, and nodes in a list
    Word,                                  \* a number of a group is below Word
    Base, AddrLen, Long,                   \* bounds: of a byte, and bytes of a field
    None                                   \* no identifier, no value

VARIABLE question

Kind(k) == question.kind = k
Asks(q) == question' = q

Init == question = [kind |-> "none"]

-----------------------------------------------------------------------------
(* First fit *)

Available == [Dims -> 0 .. MaxAvailable]
Inventories == {<<a>> : a \in Available} \cup (Available \X Available)
SmallResources == [unit : [Dims -> 0 .. MaxAsked], count : 1 .. MaxInstances]

\* One or two nodes, with and without a pending reservation, and one or two resources.
AskAllocateable ==
    /\ Kind("none")
    /\ \E i \in Inventories, r, s \in SmallResources :
           \/ Asks([kind |-> "fit", inventory |-> i, pending |-> << >>, new |-> <<r>>]) /\ s = r
           \/ Asks([kind |-> "fit", inventory |-> i, pending |-> << <<s>> >>, new |-> <<r>>])
           \/ Asks([kind |-> "fit", inventory |-> i, pending |-> << >>, new |-> <<r, s>>])

\* The reference: instances can be assigned to nodes within capacity.
Instances(resources) ==
    FoldLeft(LAMBDA s, r : s \o [i \in 1..r.count |-> r.unit], << >>, resources)

\* The amount of dimension d that the units at the given places add up to.
Load(units, places, d) == MapThenSumSet(LAMBDA i : units[i][d], places)

CanPack(inventory, units) ==
    \E node \in [DOMAIN units -> DOMAIN inventory] :
        \A n \in DOMAIN inventory, d \in Dims :
            Load(units, {i \in DOMAIN units : node[i] = n}, d) <= inventory[n][d]

Total(inventory, d) == MapThenSumSet(LAMBDA n : inventory[n][d], DOMAIN inventory)

Accepted == Allocateable(question.inventory, question.pending, question.new)
Fits == CanPack(question.inventory, Instances(FlattenSeq(question.pending) \o question.new))

\* "return true iff 1 and 2 succeed": when reservationAllocateable accepts a reservation, its
\* instances and those of the pending reservations can really be placed on the nodes.
AcceptedCanBePlaced == Kind("fit") /\ Accepted => Fits

\* On a single node, first fit misses nothing: what can be placed is accepted.
ExactOnOneNode == Kind("fit") /\ Len(question.inventory) = 1 /\ Fits => Accepted

\* What reservationAdjustInventory leaves of the inventory is what was there less what was
\* placed, with no node lost and nothing negative.
NothingLost ==
    Kind("fit") =>
        LET before == question.inventory
            after == AdjustInventory(before, question.new)
            asked == Instances(question.new)
        IN  /\ DOMAIN after.inventory = DOMAIN before
            /\ \A n \in DOMAIN before, d \in Dims : after.inventory[n][d] \in 0 .. before[n][d]
            /\ after.ok => \A d \in Dims :
                  Total(after.inventory, d) + Load(asked, DOMAIN asked, d) = Total(before, d)

\* First fit errs on one side only, and keeps its books.
FirstFit == AcceptedCanBePlaced /\ ExactOnOneNode /\ NothingLost

-----------------------------------------------------------------------------
(* The inventory of a cluster *)

NodeNames == {"n1", "n2"}

\* A node in good condition, one that is not ready, one under pressure and one of which the
\* pressure is not known.
Conditions ==
    {{[type |-> "Ready", status |-> "True"], [type |-> "DiskPressure", status |-> "False"]},
     {[type |-> "Ready", status |-> "False"]},
     {[type |-> "Ready", status |-> "True"], [type |-> "DiskPressure", status |-> "True"]},
     {[type |-> "Ready", status |-> "True"], [type |-> "PIDPressure", status |-> "Unknown"]}}

Partial(S, T) == UNION {[D -> T] : D \in SUBSET S}

\* Nodes with different names, and metrics that may lag behind the list.
AskInventory ==
    /\ Kind("none")
    /\ \E k \in 0 .. MaxNodes :
       \E list \in [1 .. k -> [name : NodeNames, conditions : Conditions, allocatable : 0 .. MaxAllocatable]] :
       \E metrics \in Partial(NodeNames, 0 .. MaxAllocatable), fake \in BOOLEAN :
           /\ \A i, j \in 1 .. k : list[i].name = list[j].name => i = j
           /\ Asks([kind |-> "nodes", nodes |-> list, metrics |-> metrics, fake |-> fake])

Offered == NodeInventory(question.nodes, question.metrics, question.fake)

\* "node in poor condition": no such node is offered.  Does not hold, see README.md.
PoorNodesLeftOut ==
    Kind("nodes") /\ ~question.fake => \A r \in Offered : \A x \in Range(question.nodes) : x.name = r.name => nodeIsActive(x)

-----------------------------------------------------------------------------
(* Stack definitions *)

Names == {1, 2}

\* Two units within the limits and two outside of them, one for each bound.
Unit(c, m) == [d \in Dims |-> IF d = "cpu" THEN c ELSE m]
DocumentUnits == {Unit(1, 1), Unit(1, 2), Unit(3, 1), Unit(1, 0)}
MCMin == Unit(1, 1)
MCMax == Unit(2, 2)
MCGroup == Unit(5, 4)

AskRead ==
    /\ Kind("none")
    /\ \E services \in {{1}, {1, 2}}, compute \in {c \in Partial(Names, DocumentUnits) : 1 \in DOMAIN c},
          placement \in {<< {1, 2} >>, << {1}, {1, 2} >>},
          deployment \in Partial(Names, Partial(Names, [profile : Names, count : 0 .. 2])) :
          Asks([kind |-> "read", doc |-> [services |-> services, compute |-> compute,
                                          placement |-> placement, deployment |-> deployment]])

\* The two halves of a document that Read accepts agree, although nothing compares them: the
\* manifest, which the provider runs, has the groups of the deployment, which the tenant pays
\* for, in the same order, and asks in each for as many instances of every unit; and each
\* service is in the group of each of its placements, once and as the document has it.
HalvesAgree ==
    Kind("read") /\ Read(question.doc) =>
        LET doc == question.doc
            mgroups == Manifest(doc).groups
            dgroups == DeploymentGroups(doc).groups
        IN  /\ Len(mgroups) = Len(dgroups)
            /\ \A i \in DOMAIN dgroups :
                  mgroups[i].name = dgroups[i].name /\ SameResources(mgroups[i].services, dgroups[i].resources)
            /\ \A s \in DOMAIN doc.deployment : \A q \in DOMAIN doc.deployment[s] :
                  LET is == doc.deployment[s][q] IN
                  \E i \in DOMAIN mgroups :
                     /\ mgroups[i].name = q
                     /\ SelectSeq(mgroups[i].services, LAMBDA x : x.name = s) =
                           <<[name |-> s, unit |-> doc.compute[is.profile], count |-> is.count]>>

\* "error: invalid unit memory": no document with a unit outside the limits is accepted.
\* Does not hold, see README.md.
UnitsWithinLimits ==
    Kind("read") /\ Read(question.doc) =>
        \A g \in Range(DeploymentGroups(question.doc).groups) : \A r \in Range(g.resources) :
            validateResourceUnit(r.unit)

-----------------------------------------------------------------------------
(* Export and import *)

G == INSTANCE Genesis
K == INSTANCE Market

\* Up to two groups of a deployment that is active, in any states, or closed with them.
Deployed(d) ==
    UNION {{[state |-> G!DeploymentActive, groups |-> f] :
               f \in [{<<d, i>> : i \in 1 .. n} -> [state : G!GroupStates \ {G!GroupClosed}, spec : {d}]]}
           \cup {[state |-> G!DeploymentClosed,
                  groups |-> [g \in {<<d, i>> : i \in 1 .. n} |-> [state |-> G!GroupClosed, spec |-> d]]]} :
           n \in {1, 2}}

\* Deployments of two owners, two of them of one owner.
AskImport ==
    /\ Kind("none")
    /\ \E ids \in SUBSET {<<1, 1>>, <<1, 2>>, <<2, 1>>} :
       \E f \in [ids -> UNION {Deployed(d) : d \in ids}] :
          /\ \A d \in ids : f[d] \in Deployed(d)
          /\ Asks([kind |-> "import", deployments |-> [d \in ids |-> f[d].state],
                   groups |-> [g \in UNION {DOMAIN f[d].groups : d \in ids} |-> f[g[1]].groups[g]]])

\* A chain that is restarted from an export has the deployments and groups it had, and its
\* first block puts on the market exactly the groups that were open: none that was closed,
\* and none that had an order or a lease, which the export leaves out.
ImportKeeps ==
    Kind("import") =>
        LET new == G!InitGenesis(G!ExportGenesis(question.deployments, question.groups))
            ordered == K!CreateOrders(new.orders, G!Orderable(new.deployments, new.groups), new.groups, 1)
        IN  /\ new.deployments = question.deployments /\ new.groups = question.groups
            /\ \A g \in DOMAIN question.groups :
                  (K!OrdersForGroup(ordered, g) # {}) <=> (question.groups[g].state = G!GroupOpen)

-----------------------------------------------------------------------------
(* Queries *)

Q == INSTANCE Queries

\* The stores of the question's chain after its first block.
Stores ==
    [deployments |-> question.deployments, groups |-> question.groups,
     orders |-> K!CreateOrders(K!EmptyStore, G!Orderable(question.deployments, question.groups),
                               question.groups, 1),
     bids |-> K!EmptyStore, leases |-> K!EmptyStore, providers |-> K!EmptyStore]

\* "return obj, c.ctx.Codec.UnmarshalJSON(buf, &obj)": a client gets the group it asks for.
\* Does not hold, see README.md.
QueriesAnswered ==
    Kind("import") =>
        \A g \in DOMAIN question.groups : Q!Client(Q!DeploymentQuerier(Q!GroupPath(g), Stores)).ok

-----------------------------------------------------------------------------
(* Keys *)

KB == INSTANCE Keys WITH Base <- Base, AddrLen <- AddrLen, Long <- Long, Short <- AddrLen

\* Every identifier of a store with one-byte addresses, DSeqs of two bytes and bytes of Base
\* values, and what the keeper looks it up by.
Digits == 0 .. Base - 1
DIDs == Digits \X (0 .. Base * Base - 1)
GIDs == DIDs \X Digits
OIDs == GIDs \X Digits
BIDs == OIDs \X Digits
InDeploymentStore == {<<"deployment", id, KB!deploymentKey(id)>> : id \in DIDs}
                     \cup {<<"group", id, KB!groupKey(id)>> : id \in GIDs}
InMarketStore == {<<"order", id, KB!orderKey(id)>> : id \in OIDs}
                 \cup {<<"bid", id, KB!bidKey(id)>> : id \in BIDs}
                 \cup {<<"lease", id, KB!leaseKey(id)>> : id \in BIDs}

AskKeys ==
    /\ Kind("none")
    /\ \E records \in {InDeploymentStore, InMarketStore} : \E x, y \in records :
          Asks([kind |-> "keys", x |-> x, y |-> y])

\* The fields of a lease's identifier, in the order in which the payment loop goes by them.
Fields(l) == <<l[1][1][1][1], l[1][1][1][2], l[1][1][2], l[1][2], l[2]>>

\* No record is written over another of its store; the search for the groups of a deployment
\* meets these and nothing else, and the loops over orders, bids and leases meet records of
\* their kind only; and leases come in the order of the numbers in their identifiers, owner
\* by owner, which decides who is paid when the coins run out.
KeysFaithful ==
    Kind("keys") =>
        LET x == question.x
            y == question.y
            Of(prefix, kind) == KB!Meets(prefix, x[3]) <=> x[1] = kind
        IN  /\ x[3] = y[3] => x = y
            /\ y[1] = "deployment" =>
                  (KB!Meets(KB!groupsKey(y[2]), x[3]) <=> x[1] = "group" /\ x[2][1] = y[2])
            /\ y[1] \in {"order", "bid", "lease"} =>
                  Of(<<1, 0>>, "order") /\ Of(<<2, 0>>, "bid") /\ Of(<<3, 0>>, "lease")
            /\ x[1] = "lease" /\ y[1] = "lease" =>
                  (KB!Before(x[3], y[3]) <=>
                      \E i \in 1 .. 5 : /\ Fields(x[2])[i] < Fields(y[2])[i]
                                        /\ \A j \in 1 .. i - 1 : Fields(x[2])[j] = Fields(y[2])[j])

-----------------------------------------------------------------------------

Next == AskAllocateable \/ AskInventory \/ AskRead \/ AskImport \/ AskKeys

Spec == Init /\ [][Next]_question
=============================================================================
