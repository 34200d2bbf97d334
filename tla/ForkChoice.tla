----------------------------- MODULE ForkChoice -----------------------------
(***************************************************************************)
(* What the chain state promises to everyone who looks at it under         *)
(* cs_main: the active chain is a chain of valid blocks that have all been *)
(* received, and it is left only for a chain with more work.               *)
(***************************************************************************)
EXTENDS BlockTree

CONSTANT Bad    \* blocks that break a consensus rule

VARIABLES
    have,       \* blocks received together with all their ancestors
    active      \* the tip of the active chain

TypeOK == have \subseteq Block /\ active \in have

Init == have = {Genesis} /\ active = Genesis

Receive ==
    /\ \E S \in SUBSET Block :
          /\ \A b \in S : Chain[b] \subseteq have \cup S
          /\ have' = have \cup S
    /\ UNCHANGED active

Switch ==
    /\ \E t \in have :
          /\ Chain[t] \cap Bad = {}
          /\ Work[t] > Work[active]
          /\ active' = t
    /\ UNCHANGED have

Next == Receive \/ Switch

Spec == Init /\ [][Next]_<<have, active>>

=============================================================================
