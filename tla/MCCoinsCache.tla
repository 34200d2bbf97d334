---------------------------- MODULE MCCoinsCache ----------------------------
(***************************************************************************)
(* CoinsCache for TLC.  The operations work on one outpoint at a time, so  *)
(* two of them show every interaction there is; two coins tell an entry    *)
(* that was overwritten from one that was kept.                            *)
(***************************************************************************)
EXTENDS CoinsCache
=============================================================================
