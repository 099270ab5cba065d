------------------------------ MODULE MCDaemon ------------------------------
(* An instance of Daemon: one lease of one deployment. *)
EXTENDS Daemon

CONSTANTS l1, d1

OfOne == [l \in {l1} |-> d1]
=============================================================================
