------------------------------- MODULE MCTcp -------------------------------
(***************************************************************************)
(* Tcp for TLC: sequence numbers that wrap inside both streams, a ring     *)
(* smaller than the stream, and a request of two segments.                 *)
(***************************************************************************)
EXTENDS Tcp
=============================================================================
