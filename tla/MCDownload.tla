----------------------------- MODULE MCDownload -----------------------------
(***************************************************************************)
(* Download for TLC: a package of a few bytes, which arrives in pieces of  *)
(* any size over several connections.                                      *)
(***************************************************************************)
EXTENDS Download
=============================================================================
