------------------------- MODULE MCManifestHandler --------------------------
(* Instances of ManifestHandler: two leases of one deployment. *)
EXTENDS ManifestHandler

CONSTANTS l1, l2, d1

TwoLeases == {l1, l2}
OfTwo == [l \in TwoLeases |-> d1]
=============================================================================
