------------------------------ MODULE MCCluster -----------------------------
(* Instances of Cluster for model checking. *)
EXTENDS Cluster

=============================================================================
