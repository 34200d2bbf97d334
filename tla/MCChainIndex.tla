---------------------------- MODULE MCChainIndex ----------------------------
(***************************************************************************)
(* ChainIndex for TLC: heights up to 40 pass every alignment of the skip   *)
(* list up to 2^5 and reach the part of a locator with growing steps.      *)
(***************************************************************************)
EXTENDS ChainIndex
=============================================================================
