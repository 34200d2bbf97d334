----------------------------- MODULE BlockTree -----------------------------
(***************************************************************************)
(* The tree of block headers: what CBlockIndex::pprev, nHeight and         *)
(* nChainWork say about every block that can ever reach the node, and the  *)
(* std::set with CBlockIndexWorkComparator that the chain state keeps its  *)
(* candidates in.                                                          *)
(*                                                                         *)
(* A block is a model value.  Chain[b] is the set of blocks from the       *)
(* genesis block to b, b included: GetAncestor(h) walks it, and            *)
(* "x->GetAncestor(y->nHeight) == y" is y \in Chain[x].                    *)
(***************************************************************************)
EXTENDS Integers, FiniteSets

CONSTANTS
    Block,      \* every block whose header passes the header checks
    Genesis,
    Parent,     \* pprev, for every block but the genesis block
    Chain,      \* the block and all its ancestors
    Work,       \* nChainWork: the work of the whole chain up to the block
    NoBlock     \* nullptr

(***************************************************************************)
(* Chain is the ancestor relation of a tree rooted at Genesis.             *)
(***************************************************************************)
ASSUME TreeAssumption ==
    /\ IsFiniteSet(Block)
    /\ Genesis \in Block
    /\ NoBlock \notin Block
    /\ Parent \in [Block \ {Genesis} -> Block]
    /\ Chain \in [Block -> SUBSET Block]
    /\ Chain[Genesis] = {Genesis}
    /\ \A b \in Block \ {Genesis} :
          /\ b \notin Chain[Parent[b]]
          /\ Chain[b] = Chain[Parent[b]] \cup {b}
    /\ \A b \in Block : Genesis \in Chain[b]
    /\ \A b \in Block : \A a \in Chain[b] : Chain[a] \subseteq Chain[b]
    /\ \A b \in Block : \A a, c \in Chain[b] : a \in Chain[c] \/ c \in Chain[a]

(***************************************************************************)
(* GetBlockProof is positive for every nBits a header can carry, so work   *)
(* grows strictly along a chain.                                           *)
(***************************************************************************)
ASSUME WorkAssumption ==
    /\ Work \in [Block -> Nat]
    /\ \A b \in Block \ {Genesis} : Work[Parent[b]] < Work[b]

----------------------------------------------------------------------------
(* nHeight *)
Height(b) == Cardinality(Chain[b]) - 1

(* CChain::FindFork / LastCommonAncestor: the last block both chains share. *)
IsFork(f, a, b) ==
    /\ f \in Chain[a] \cap Chain[b]
    /\ Chain[a] \cap Chain[b] \subseteq Chain[f]

(* The block on the chain to b that follows its ancestor a. *)
IsNext(n, a, b) == n \in Chain[b] \ {Genesis} /\ Parent[n] = a

----------------------------------------------------------------------------
(***************************************************************************)
(* std::set<CBlockIndex*, CBlockIndexWorkComparator>.  The comparator looks*)
(* at nChainWork only, so two blocks with the same work are the same key:  *)
(* erase(b) removes whatever block has b's work, and insert(b) does nothing*)
(* when some block with b's work is already there.                         *)
(***************************************************************************)
OneBlockPerWork(S) == \A x, y \in S : Work[x] = Work[y] => x = y

Erase(S, D) == {c \in S : \A d \in D : Work[c] # Work[d]}

(***************************************************************************)
(* The sets that inserting every block of D into S can lead to, when the   *)
(* order of the insertions is that of a hash map (InsertAny), or of        *)
(* growing height (InsertByHeight).                                        *)
(***************************************************************************)
InsertAny(S, D) ==
    {T \in SUBSET (S \cup D) :
        /\ S \subseteq T
        /\ \A d \in D : \E t \in T : Work[t] = Work[d]
        /\ \A x \in T \ S : \A y \in T : Work[x] = Work[y] => x = y}

InsertByHeight(S, D) ==
    {T \in InsertAny(S, D) :
        \A x \in T \ S : \A d \in D : Work[d] = Work[x] => Height(x) =< Height(d)}

(* The blocks with the most work: std::set::rbegin(). *)
Best(S) == {p \in S : \A c \in S : Work[c] =< Work[p]}

=============================================================================
