------------------------------ MODULE Packing -------------------------------
(***************************************************************************)
(* How the inventory decides whether a reservation fits                    *)
(* (provider/cluster/inventory.go, reservationAllocateable): first fit of  *)
(* the instances of each resource into the nodes, in order.                *)
(*                                                                         *)
(* A resource is a unit and a count, and an inventory is the sequence of   *)
(* the units available on the nodes.                                       *)
(***************************************************************************)
EXTENDS Units, Integers, Sequences, FiniteSetsExt

\* A resource of a group: a unit, and how many instances of it.
Resource == [unit : [Dims -> Nat], count : Nat]

\* Mutant: an instance is refused only if it fits in no dimension.
FitsSomewhere(available, unit, k) == \E d \in Dims : k * unit[d] <= available[d]

\* k instances of unit fit into what is available.
FitsIn(available, unit, k) == \A d \in Dims : k * unit[d] <= available[d]

\* The loop over the count of a resource: as many instances as fit.
Placed(available, resource) ==
    Max({k \in 0..resource.count : FitsIn(available, resource.unit, k)})

Subtract(available, resource, k) ==
    [d \in Dims |-> available[d] - k * resource.unit[d]]

\* One resource on one node: what does not fit is left for the nodes that follow.
PlaceResource(node, resource) ==
    LET k == Placed(node.available, resource)
    IN  [available |-> Subtract(node.available, resource, k),
         resources |-> IF resource.count > k
                       THEN Append(node.resources, [resource EXCEPT !.count = @ - k])
                       ELSE node.resources]

\* All resources that are left on one node.
PlaceOnNode(state, available) ==
    LET upTo[i \in 0 .. Len(state.resources)] ==
            IF i = 0 THEN [available |-> available, resources |-> << >>]
            ELSE PlaceResource(upTo[i - 1], state.resources[i])
        node == upTo[Len(state.resources)]
    IN  [inventory |-> Append(state.inventory, node.available), resources |-> node.resources]

\* reservationAdjustInventory: what remains of the inventory, and whether all fitted.
AdjustInventory(inventory, resources) ==
    LET upTo[i \in 0 .. Len(inventory)] ==
            IF i = 0 THEN [inventory |-> << >>, resources |-> resources]
            ELSE PlaceOnNode(upTo[i - 1], inventory[i])
        end == upTo[Len(inventory)]
    IN  [inventory |-> end.inventory, ok |-> end.resources = << >>]

\* One reservation after the other, as long as all have fitted; each is the sequence of its
\* resources.
Take(state, resources) == IF state.ok THEN AdjustInventory(state.inventory, resources) ELSE state

\* reservationAllocateable: the pending reservations first, then the new one.
Allocateable(inventory, pending, new) ==
    LET all == Append(pending, new)
        upTo[i \in 0 .. Len(all)] ==
            IF i = 0 THEN [inventory |-> inventory, ok |-> TRUE] ELSE Take(upTo[i - 1], all[i])
    IN  upTo[Len(all)].ok

=============================================================================
