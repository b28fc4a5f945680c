----------------------------- MODULE MCPrograms -----------------------------
(***************************************************************************)
(* Programs for TLC: nesting to a depth of two and one leaked level, a     *)
(* ring that can be filled, and a few keys.                                *)
(***************************************************************************)
EXTENDS Programs
=============================================================================
