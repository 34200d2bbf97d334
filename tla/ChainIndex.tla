----------------------------- MODULE ChainIndex -----------------------------
(***************************************************************************)
(* The skip list over the block index and what is computed with it:        *)
(* CBlockIndex::GetAncestor and BuildSkip, LastCommonAncestor, and         *)
(* CChain::GetLocator and FindFork.                                        *)
(*                                                                         *)
(* The index holds two branches.  A block is a pair <<side, height>>: the  *)
(* main branch has side 0, and the side branch, side 1, leaves it above    *)
(* ForkHeight.  Blocks enter the index parent first, as AddToBlockIndex    *)
(* and LoadBlockIndex make sure, and get their pskip then, computed from   *)
(* the pskip pointers below.                                               *)
(***************************************************************************)
EXTENDS Integers, Sequences, FiniteSets, Bitwise

CONSTANTS
    MaxHeight,      \* bound on the heights of both branches
    ForkHeight      \* the last height the branches share

VARIABLES
    tips,           \* the highest block of each branch so far
    pskip           \* for every block of the index

vars == <<tips, pskip>>

Null == <<2, 0>>
Genesis == <<0, 0>>

nHeight(b) == b[2]

pprev(b) ==
    IF b = Genesis THEN Null
    ELSE <<IF nHeight(b) = ForkHeight + 1 THEN 0 ELSE b[1], nHeight(b) - 1>>

Index == DOMAIN pskip

\* The ancestor of b at height h, the way the code's users mean it.
AncestorAt(b, h) == <<IF h <= ForkHeight THEN 0 ELSE b[1], h>>

Ancestors(b) == {AncestorAt(b, h) : h \in 0 .. nHeight(b)}

-----------------------------------------------------------------------------
InvertLowestOne(n) == n & (n - 1)

GetSkipHeight(height) ==
    IF height < 2 THEN 0
    ELSE IF height % 2 = 1
         THEN InvertLowestOne(InvertLowestOne(height - 1)) + 1
         ELSE InvertLowestOne(height)

\* Mutant: pskip is followed to any height at or above the target's parent.
UseSkip_Low(b, height) ==
    pskip[b] # Null /\ GetSkipHeight(nHeight(b)) >= height - 1

\* Follow pskip only if pprev's pskip is not better than pskip's pprev.
UseSkip(b, height) ==
    LET heightSkip == GetSkipHeight(nHeight(b))
        heightSkipPrev == GetSkipHeight(nHeight(b) - 1)
    IN  /\ pskip[b] # Null
        /\ \/ heightSkip = height
           \/ /\ heightSkip > height
              /\ ~(heightSkipPrev < heightSkip - 2 /\ heightSkipPrev >= height)

\* The blocks pindexWalk goes through, from b down to the result.
RECURSIVE Walk(_, _, _)
Walk(b, heightWalk, height) ==
    IF heightWalk <= height THEN <<b>>
    ELSE <<b>> \o IF UseSkip(b, height)
                  THEN Walk(pskip[b], GetSkipHeight(heightWalk), height)
                  ELSE Walk(pprev(b), heightWalk - 1, height)

GetAncestor(b, height) ==
    IF height > nHeight(b) \/ height < 0 THEN Null
    ELSE LET w == Walk(b, nHeight(b), height) IN w[Len(w)]

BuildSkip(b) == GetAncestor(pprev(b), GetSkipHeight(nHeight(b)))

-----------------------------------------------------------------------------
Init == tips = [s \in {0, 1} |-> Genesis] /\ pskip = [b \in {Genesis} |-> Null]

\* AddToBlockIndex, and LoadBlockIndex for the blocks in the order of their heights.
AddToBlockIndex(s) ==
    LET height == IF s = 1 /\ tips[1] = Genesis THEN ForkHeight + 1 ELSE nHeight(tips[s]) + 1
        b == <<s, height>>
    IN  /\ height <= MaxHeight
        /\ pprev(b) \in Index
        /\ tips' = [tips EXCEPT ![s] = b]
        /\ pskip' = [c \in Index \cup {b} |-> IF c = b THEN BuildSkip(b) ELSE pskip[c]]

Next == \E s \in {0, 1} : AddToBlockIndex(s)

Spec == Init /\ [][Next]_vars

-----------------------------------------------------------------------------
\* The walk of LastCommonAncestor, once both blocks are at the same height.
RECURSIVE Meet(_, _)
Meet(pa, pb) ==
    IF pa = pb \/ pa = Null \/ pb = Null THEN pa ELSE Meet(pprev(pa), pprev(pb))

\* Mutant: only the first block is brought down to the other's height.
LastCommonAncestor_First(pa, pb) ==
    Meet(IF nHeight(pa) > nHeight(pb) THEN GetAncestor(pa, nHeight(pb)) ELSE pa, pb)

LastCommonAncestor(pa, pb) ==
    Meet(IF nHeight(pa) > nHeight(pb) THEN GetAncestor(pa, nHeight(pb)) ELSE pa,
         IF nHeight(pb) > nHeight(pa) THEN GetAncestor(pb, nHeight(pa)) ELSE pb)

\* A CChain is the block pBestBlock.
Contains(chain, b) == GetAncestor(chain, nHeight(b)) = b

\* CChain::FindFork(pindex)
RECURSIVE WalkToChain(_, _)
WalkToChain(chain, b) ==
    IF b = Null \/ Contains(chain, b) THEN b ELSE WalkToChain(chain, pprev(b))

FindFork(chain, b) ==
    WalkToChain(chain, IF nHeight(b) > nHeight(chain) THEN GetAncestor(b, nHeight(chain)) ELSE b)

\* CChain::GetLocator: vHave, from block b, with step nStep and n entries so far.
RECURSIVE Have(_, _, _)
Have(b, nStep, n) ==
    IF nHeight(b) = 0 THEN <<b>>
    ELSE LET height == IF nHeight(b) > nStep THEN nHeight(b) - nStep ELSE 0
         IN  <<b>> \o Have(GetAncestor(b, height), IF n + 1 > 10 THEN nStep * 2 ELSE nStep, n + 1)

GetLocator(b) == Have(b, 1, 0)

\* Mutant: the locator is searched from the genesis block up.
FindForkLocator_Up(chain, vHave, known) ==
    LET hits == {i \in 1 .. Len(vHave) : Contains(chain, vHave[i])}
    IN  vHave[CHOOSE i \in hits : \A j \in hits : j <= i]

\* CChain::FindFork(locator); known holds the blocks LookupBlockIndex finds.
FindForkLocator(chain, vHave, known) ==
    LET Hit(b) == b \in known /\ (Contains(chain, b) \/ GetAncestor(b, nHeight(chain)) = chain)
        hits == {i \in 1 .. Len(vHave) : Hit(vHave[i])}
        first == vHave[CHOOSE i \in hits : \A j \in hits : i <= j]
    IN  IF hits = {} THEN Genesis
        ELSE IF Contains(chain, first) THEN first ELSE chain

-----------------------------------------------------------------------------
(***************************************************************************)
(* GetAncestor, which every question about the active chain goes through,  *)
(* returns the ancestor at that height for every block of both branches,   *)
(* although it jumps along pointers that were computed with itself.        *)
(***************************************************************************)
AncestorsRight ==
    \A s \in {0, 1} : \A h \in 0 .. nHeight(tips[s]) :
        GetAncestor(tips[s], h) = AncestorAt(tips[s], h)

(***************************************************************************)
(* LastCommonAncestor and FindFork, whichever argument is higher, give the *)
(* highest block the two branches share (ActivateBestChainStep disconnects *)
(* down to it, ReplayBlocks rolls back to it).                             *)
(***************************************************************************)
ForksRight ==
    LET common == Ancestors(tips[0]) \cap Ancestors(tips[1])
        fork == CHOOSE b \in common : \A c \in common : nHeight(c) <= nHeight(b)
    IN  /\ LastCommonAncestor(tips[0], tips[1]) = fork
        /\ LastCommonAncestor(tips[1], tips[0]) = fork
        /\ FindFork(tips[0], tips[1]) = fork
        /\ FindFork(tips[1], tips[0]) = fork

(***************************************************************************)
(* A locator made on one branch, looked up on the other, gives a common    *)
(* block that lies no further below the fork than the locator's own tip    *)
(* lies above it, whether or not the blocks above the fork are known: a    *)
(* peer is sent at most as many headers it has as it has diverged by.      *)
(***************************************************************************)
LocatorFindsFork ==
    \A s \in {0, 1} : \A known \in {Index, Ancestors(tips[1 - s])} :
        LET found == FindForkLocator(tips[1 - s], GetLocator(tips[s]), known)
            fork == LastCommonAncestor(tips[s], tips[1 - s])
        IN  /\ found \in Ancestors(fork)
            /\ nHeight(fork) - nHeight(found) <= nHeight(tips[s]) - nHeight(fork)
=============================================================================
