------------------------------- MODULE Queries -------------------------------
(***************************************************************************)
(* The queries of the chain's modules: how a client writes the path of a   *)
(* query, what the queriers answer, and what of the answer gets back to    *)
(* the client.  The stores are a record with one store for each kind of    *)
(* object; a path is the sequence of its parts, numbers included, and the  *)
(* order of a list is left out.                                            *)
(***************************************************************************)
EXTENDS Deployment

CONSTANTS
    Word,       \* a GSeq is below Word (2^32 in the code)
    None        \* no identifier, no value

DeploymentPath(did) == <<"deployment", did[1], did[2]>>
GroupPath(gid) == <<"group", gid[1][1], gid[1][2], gid[2]>>

ParseDeploymentPath(parts) == IF Len(parts) < 2 THEN None ELSE <<parts[1], parts[2]>>

\* The error of the last ParseUint is not looked at: a number that is too large becomes the
\* largest there is.
ParseGroupPath(parts) ==
    IF Len(parts) < 3 THEN None
    ELSE <<ParseDeploymentPath(SubSeq(parts, 1, 2)), IF parts[3] < Word THEN parts[3] ELSE Word - 1>>

-----------------------------------------------------------------------------
(* The queriers: the bytes and the error they return *)

Refuse(err) == [value |-> None, err |-> err]

\* The error is a *sdkerrors.Error that is nil.  As the querier's error, an interface, it is
\* not nil: it holds a type.
RenderQueryResponse(obj) == [value |-> obj, err |-> "nil *Error"]

\* sdkerrors.Wrap of an error that is nil is nil.
NotFound == [value |-> None, err |-> "nil"]

DeploymentRecord(stores, did) ==
    [id |-> did, state |-> stores.deployments[did],
     groups |-> [g \in GetGroups(stores.groups, did) |-> stores.groups[g]]]

queryDeployments(stores) ==
    RenderQueryResponse({DeploymentRecord(stores, d) : d \in DOMAIN stores.deployments})

queryDeployment(parts, stores) ==
    LET id == ParseDeploymentPath(parts) IN
    IF id = None THEN Refuse("internal error")
    ELSE IF Has(stores.deployments, id) THEN RenderQueryResponse(DeploymentRecord(stores, id))
    ELSE NotFound

queryGroup(parts, stores) ==
    LET id == ParseGroupPath(parts) IN
    IF id = None THEN Refuse("internal error")
    ELSE IF Has(stores.groups, id) THEN RenderQueryResponse([id |-> id, is |-> stores.groups[id]])
    ELSE NotFound

\* queryOrders, queryBids, queryLeases and queryProviders list their store.
queryAll(store) == RenderQueryResponse({[id |-> k, is |-> store[k]] : k \in DOMAIN store})

\* NewQuerier of the three modules.  There are paths of an order, a bid and a lease, but no
\* querier that knows them.
DeploymentQuerier(path, stores) ==
    CASE path[1] = "deployments" -> queryDeployments(stores)
      [] path[1] = "deployment" -> queryDeployment(Tail(path), stores)
      [] path[1] = "group" -> queryGroup(Tail(path), stores)
      [] OTHER -> Refuse("unknown request")

MarketQuerier(path, stores) ==
    IF path[1] \in {"orders", "bids", "leases"} THEN queryAll(stores[path[1]])
    ELSE Refuse("unknown request")

ProviderQuerier(path, stores) ==
    IF path[1] = "providers" THEN queryAll(stores.providers) ELSE Refuse("unknown request")

-----------------------------------------------------------------------------
(* The clients *)

\* The SDK passes a value on if the querier's error is nil; when it is not, the response has
\* the error's code, which is that of success for a nil pointer, and no value.
handleQueryCustom(answer) ==
    [ok |-> answer.err \in {"nil", "nil *Error"},
     value |-> IF answer.err = "nil" THEN answer.value ELSE None]

\* An answer that is not a success is an error, and so is the decoding of no value.
Unmarshal(response) ==
    IF response.ok /\ response.value # None THEN [ok |-> TRUE, obj |-> response.value]
    ELSE [ok |-> FALSE, obj |-> None]

\* The methods of the three clients, which differ in their paths.
Client(answer) == Unmarshal(handleQueryCustom(answer))
=============================================================================
