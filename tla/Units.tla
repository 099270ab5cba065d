------------------------------- MODULE Units --------------------------------
(* Resource units (types.Unit): functions from the dimensions of a resource to amounts. *)

CONSTANT Dims  \* CPU, memory and storage
=============================================================================
