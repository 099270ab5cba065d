------------------------------- MODULE Genesis -------------------------------
(***************************************************************************)
(* Export and import of the chain's state: a chain that is restarted from  *)
(* an export has what ExportGenesis of each module wrote and InitGenesis   *)
(* read.  x/deployment exports its records; x/market and x/provider export *)
(* nothing and import nothing.                                             *)
(***************************************************************************)
EXTENDS Deployment, SequencesExt

\* One record for each deployment, with its groups, in the order of the keys.
ExportGenesis(deployments, groups) ==
    LET Record(d) == [id |-> d, state |-> deployments[d],
                      groups |-> [g \in GetGroups(groups, d) |-> groups[g]]]
        Before(d, e) == d[1] < e[1] \/ (d[1] = e[1] /\ d[2] < e[2])
    IN  [i \in 1 .. Cardinality(DOMAIN deployments) |->
            Record(SetToSortSeq(DOMAIN deployments, Before)[i])]

\* Mutant: the groups of an imported deployment start anew.
CreateOpens(stores, record) ==
    IF Has(stores.deployments, record.id) THEN stores
    ELSE [stores EXCEPT !.deployments = Put(@, record.id, record.state),
                        !.groups = PutAll(@, DOMAIN record.groups,
                                          SetStates(record.groups, DOMAIN record.groups, GroupOpen))]

\* Keeper.Create, whose error InitGenesis ignores.
Create(stores, record) ==
    IF Has(stores.deployments, record.id) THEN stores
    ELSE [stores EXCEPT !.deployments = Put(@, record.id, record.state),
                        !.groups = PutAll(@, DOMAIN record.groups, record.groups)]

\* The stores of a chain that starts from the file.
InitGenesis(records) ==
    FoldLeft(Create, [deployments |-> EmptyStore, groups |-> EmptyStore, orders |-> EmptyStore,
                      bids |-> EmptyStore, leases |-> EmptyStore, providers |-> EmptyStore], records)
=============================================================================
