------------------------------- MODULE MCKube -------------------------------
EXTENDS Kube, TLC

CONSTANTS l1, l2

TwoLeases == {l1, l2}

\* Which lease is which does not matter.
Symmetry == Permutations(TwoLeases)

\* One group with an ingress, one with none, and one that keeps only one of two services.
Web == <<[name |-> "web", expose |-> "global"], [name |-> "db", expose |-> "local"]>>
Closed == <<[name |-> "web", expose |-> "none"]>>
Other == <<[name |-> "db", expose |-> "global"]>>
ThreeGroups == {Web, Closed, Other}
=============================================================================
