--------------------------- MODULE MCStoreLayout ---------------------------
(***************************************************************************)
(* StoreLayout for TLC, scaled down: store_lba wraps at 32 sectors.        *)
(***************************************************************************)
EXTENDS StoreLayout

AllDisks == 0 .. 80
=============================================================================
