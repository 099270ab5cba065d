------------------------------ MODULE KubeNodes ------------------------------
(***************************************************************************)
(* How the Kubernetes client computes the inventory of a cluster from the  *)
(* list of its nodes and the list of their metrics (Inventory,             *)
(* activeNodes, nodeIsActive of provider/cluster/kube/client.go).          *)
(*                                                                         *)
(* activeNodes stores the address of its loop variable, of which Go 1.13   *)
(* has one for the whole loop: every entry of the map it returns is the    *)
(* node the list ends with.  A node is [name, conditions, allocatable], a  *)
(* condition [type, status], and there is one kind of resource.            *)
(***************************************************************************)
EXTENDS Naturals, Sequences, SequencesExt

CONSTANT FakeCapacity  \* a hundred times the largest unit

Pressures == {"OutOfDisk", "MemoryPressure", "DiskPressure", "PIDPressure", "NetworkUnavailable"}

\* A node is active if it is ready and every pressure is known to be absent.
nodeIsActive(node) ==
    /\ \E c \in node.conditions : c.type = "Ready" /\ c.status = "True"
    /\ \A c \in node.conditions : c.type \in Pressures => c.status = "False"

\* activeNodes: the name of each active node, with the node that it is bound to.
activeNodes(nodes) ==
    [n \in {nodes[i].name : i \in {j \in DOMAIN nodes : nodeIsActive(nodes[j])}} |-> Last(nodes)]

Free(node, usage) == IF usage > node.allocatable THEN 0 ELSE node.allocatable - usage

\* Inventory: a node for each of the metrics whose name is that of an active node; metrics
\* are a function from names to usage.  With AKASH_PROVIDER_FAKE_CAPACITY, fake here, all of
\* that is thrown away for one large node.
NodeInventory(nodes, metrics, fake) ==
    LET active == activeNodes(nodes)
    IN  IF fake THEN {[of |-> "minikube", name |-> "minikube", free |-> FakeCapacity]}
        ELSE {[of |-> n, name |-> active[n].name, free |-> Free(active[n], metrics[n])] :
                 n \in DOMAIN active \cap DOMAIN metrics}
=============================================================================
