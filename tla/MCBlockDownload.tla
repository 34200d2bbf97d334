-------------------------- MODULE MCBlockDownload --------------------------
(* A chain of blocks and two peers for checking BlockDownload with TLC. *)
EXTENDS BlockDownload, TLC

CONSTANTS g, a1, a2, prompt, slow

Blocks == {g, a1, a2}
Parents == a1 :> g @@ a2 :> a1
Chains == g :> {g} @@ a1 :> {g, a1} @@ a2 :> {g, a1, a2}
Works == g :> 1 @@ a1 :> 2 @@ a2 :> 3

(* Both peers have the chain; what they say of it differs. *)
Tips == prompt :> a2 @@ slow :> a2

=============================================================================
