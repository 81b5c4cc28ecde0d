----------------------------- MODULE MCStorage ------------------------------
(***************************************************************************)
(* Storage for TLC: the .cfg files give every constant a value.            *)
(***************************************************************************)
EXTENDS Storage
=============================================================================
