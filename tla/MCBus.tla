------------------------------- MODULE MCBus --------------------------------
(***************************************************************************)
(* Small instances of Bus for TLC.                                         *)
(***************************************************************************)
EXTENDS Bus

=============================================================================
