---------------------------- MODULE MCChainSearch ----------------------------
(***************************************************************************)
(* ChainSearch for TLC: every chain of up to five blocks with times in a   *)
(* small range that the header checks accept.                              *)
(***************************************************************************)
EXTENDS ChainSearch
=============================================================================
