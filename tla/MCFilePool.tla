----------------------------- MODULE MCFilePool -----------------------------
(***************************************************************************)
(* FilePool for TLC: a pool of a few blocks and requests that leave a tail *)
(* on either side of the splitting threshold.                              *)
(***************************************************************************)
EXTENDS FilePool
=============================================================================
