----------------------------- MODULE Deployment -----------------------------
(***************************************************************************)
(* The keeper of x/deployment: its two stores and the operations other     *)
(* modules call on them.  A deployment id is <<owner, dseq>> and a group   *)
(* id <<deployment id, gseq>>, so id[1] is the code's DeploymentID().  Each *)
(* operator takes a store and returns the store after the call.  What is   *)
(* kept of a group spec is its total price and the attributes it requires. *)
(***************************************************************************)
EXTENDS Naturals, Sequences, KVStore

DeploymentActive == "active"
DeploymentClosed == "closed"

GroupOpen == "open"
GroupOrdered == "ordered"
GroupMatched == "matched"
GroupInsufficientFunds == "insufficient-funds"
GroupClosed == "closed"

DeploymentStates == {DeploymentActive, DeploymentClosed}

GroupStates == {GroupOpen, GroupOrdered, GroupMatched, GroupInsufficientFunds, GroupClosed}

\* The ids of the groups a message with these specs creates.
NewGroupIDs(did, specs) == {<<did, i>> : i \in DOMAIN specs}

\* Keeper.Create: the deployment record, then one record per group.
CreateDeployment(deployments, did) == Put(deployments, did, DeploymentActive)

CreateGroups(groups, did, specs) ==
    PutAll(groups, NewGroupIDs(did, specs),
           [g \in NewGroupIDs(did, specs) |-> [state |-> GroupOpen, spec |-> specs[g[2]]]])

\* Mutant: the groups of every deployment of the owner.
GetGroupsOfOwner(groups, did) == {g \in DOMAIN groups : g[1][1] = did[1]}

GetGroups(groups, did) == {g \in DOMAIN groups : g[1] = did}

\* Mutant: the group is not updated.
OnLeaseInsufficientFundsMissing(groups, gid) == groups

\* Keeper.UpdateDeployment writes the record of a deployment that exists.
UpdateDeployment(deployments, did, state) ==
    IF Has(deployments, did) THEN Put(deployments, did, state) ELSE deployments

\* "TODO: assert state transition": none of these looks at the old state.  Where
\* the caller is a loop, gids are the groups it visits.
OnOrderCreated(groups, gids) == SetStates(groups, gids, GroupOrdered)
OnLeaseCreated(groups, gids) == SetStates(groups, gids, GroupMatched)
OnLeaseInsufficientFunds(groups, gid) == SetState(groups, gid, GroupInsufficientFunds)
GroupOnLeaseClosed(groups, gid) == SetState(groups, gid, GroupOpen)
OnDeploymentClosed(groups, gids) == SetStates(groups, gids, GroupClosed)

\* Group.ValidateOrderable, for the groups of active deployments.
Orderable(deployments, groups) ==
    {g \in DOMAIN groups : /\ deployments[g[1]] = DeploymentActive
                           /\ groups[g].state = GroupOpen}

=============================================================================
