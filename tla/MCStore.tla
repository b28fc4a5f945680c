------------------------------ MODULE MCStore ------------------------------
(***************************************************************************)
(* Store for TLC: images of one to three batches, the last one short.      *)
(***************************************************************************)
EXTENDS Store
=============================================================================
