----------------------------- MODULE MCStorage -----------------------------
(***************************************************************************)
(* Instances of Storage: the keys and bodies of MCLocalStore.              *)
(***************************************************************************)
EXTENDS Storage, MCLocalStore

=============================================================================
