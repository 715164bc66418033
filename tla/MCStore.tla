------------------------------ MODULE MCStore ------------------------------
(* Values for model-checking Store. *)
EXTENDS Store

EmptyBatch == {<<>>}

=============================================================================
