------------------------- MODULE MCManifestManager --------------------------
(* Instances of ManifestManager. *)
EXTENDS ManifestManager
=============================================================================
