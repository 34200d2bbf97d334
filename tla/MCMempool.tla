----------------------------- MODULE MCMempool -----------------------------
(***************************************************************************)
(* An instance of Mempool: a spends an old coin and has two outputs, b     *)
(* spends one of them and a coinbase output, x spends the other one and    *)
(* the output of b, and d spends what a spends.  y, which only a block may *)
(* carry, spends the output of d, and z spends the output of y.  w stands  *)
(* alone.                                                                  *)
(***************************************************************************)
EXTENDS Mempool

CONSTANTS a, b, c, d, w, x, y, z, old, other, a0, a1, b0, c0, d0, y0

MCSource == (old :> NoTx) @@ (other :> NoTx) @@ (a0 :> a)
            @@ (a1 :> a) @@ (b0 :> b) @@ (c0 :> c)
            @@ (d0 :> d) @@ (y0 :> y)

MCSpends ==
  (a :> {old}) @@ (b :> {a0, c0}) @@ (c :> {}) @@ (d :> {old}) @@ (x :> {a1, b0})
  @@ (y :> {d0}) @@ (z :> {y0}) @@ (w :> {other})

MCSize == (a :> 1) @@ (b :> 2) @@ (c :> 1) @@ (d :> 1) @@ (x :> 1) @@ (y :> 1) @@ (z :> 1) @@ (w :> 1)

MCFee == (a :> 1) @@ (b :> 4) @@ (c :> 0) @@ (d :> 8) @@ (x :> 1) @@ (y :> 1) @@ (z :> 2) @@ (w :> 3)

MCBlocks == {<<>>, <<c>>, <<a>>, <<c, a>>, <<b>>, <<a, b>>, <<a, b, x>>, <<d>>, <<d, y>>}
=============================================================================
