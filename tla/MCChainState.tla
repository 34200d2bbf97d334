---------------------------- MODULE MCChainState ----------------------------
(* Block trees and bounds for checking ChainState with TLC. *)
EXTENDS ChainState, TLC

CONSTANTS g, a1, a2, b1, b2, b3, c2

(* Two branches from the genesis block. *)
TwoBranches == {g, a1, a2, b1, b2, b3}

(* The same, with a second block on top of a1. *)
ThreeBranches == TwoBranches \cup {c2}

ThreeParents == a1 :> g @@ a2 :> a1 @@ b1 :> g @@ b2 :> b1 @@ b3 :> b2 @@ c2 :> a1

ThreeChains ==
    g :> {g} @@ a1 :> {g, a1} @@ a2 :> {g, a1, a2} @@ b1 :> {g, b1}
      @@ b2 :> {g, b1, b2} @@ b3 :> {g, b1, b2, b3} @@ c2 :> {g, a1, c2}

TwoParents == [b \in TwoBranches \ {g} |-> ThreeParents[b]]
TwoChains == [b \in TwoBranches |-> ThreeChains[b]]

(* No two blocks have the same work. *)
ThreeDistinct ==
    g :> 1 @@ a1 :> 3 @@ a2 :> 5 @@ b1 :> 2 @@ b2 :> 4 @@ b3 :> 6 @@ c2 :> 7

TwoDistinct == [b \in TwoBranches |-> ThreeDistinct[b]]

(* Every block adds the same work, so blocks of equal height compare equal. *)
TwoEqual == g :> 1 @@ a1 :> 2 @@ a2 :> 3 @@ b1 :> 2 @@ b2 :> 3 @@ b3 :> 4

=============================================================================
