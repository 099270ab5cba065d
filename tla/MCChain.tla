------------------------------ MODULE MCChain -------------------------------
(***************************************************************************)
(* Small instances of Chain for TLC.                                       *)
(***************************************************************************)
EXTENDS Chain

\* One group, at most 2 coins per block, for any provider or for those with the attribute.
OneGroup == {<<[price |-> 2, attrs |-> {}]>>}
OneSsdGroup == {<<[price |-> 2, attrs |-> {"ssd"}]>>}

=============================================================================
