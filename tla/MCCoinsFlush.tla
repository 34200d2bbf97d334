---------------------------- MODULE MCCoinsFlush ----------------------------
(***************************************************************************)
(* CoinsFlush for TLC: a fork of one and two blocks.  Output p is created  *)
(* by a1, and on the other branch by b2, at another height; q is created   *)
(* by a1 and by b1, and spent by b2; r is created and spent within b1.     *)
(***************************************************************************)
EXTENDS CoinsFlush, TLC

CONSTANTS g, a1, b1, b2, p, q, r

Fork == {g, a1, b1, b2}
ForkParent == a1 :> g @@ b1 :> g @@ b2 :> b1
ForkChain == g :> {g} @@ a1 :> {g, a1} @@ b1 :> {g, b1} @@ b2 :> {g, b1, b2}
ForkWork == g :> 1 @@ a1 :> 2 @@ b1 :> 3 @@ b2 :> 5

ForkSpends == g :> {} @@ a1 :> {} @@ b1 :> {r} @@ b2 :> {q}
ForkCreates == g :> {} @@ a1 :> {p, q} @@ b1 :> {q, r} @@ b2 :> {p}

ForkUtxo ==
    LET Coins(hp, hq) == p :> hp @@ q :> hq @@ r :> 0
    IN  g :> Coins(0, 0) @@ a1 :> Coins(1, 1) @@ b1 :> Coins(0, 1) @@ b2 :> Coins(2, 0)
=============================================================================
