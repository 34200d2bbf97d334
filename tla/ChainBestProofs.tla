-------------------------- MODULE ChainBestProofs --------------------------
(***************************************************************************)
(* Proofs about what ActivateBestChain leaves behind, on top of the        *)
(* invariants of ChainStateProofs: that no better block is forgotten, and  *)
(* that those who take cs_main see ForkChoice.                             *)
(***************************************************************************)
EXTENDS ChainStateProofs

----------------------------------------------------------------------------
(***************************************************************************)
(* What the remaining results need to assume.  With blocks of equal work   *)
(* the std::set of candidates holds only one of them; reconsiderblock does *)
(* not queue the blocks whose flags it clears; invalidateblock between two *)
(* rounds leaves a failed pindexMostWork; and a reorganisation deeper than *)
(* MIN_BLOCKS_TO_KEEP may prune, while it runs, the chain it would have to *)
(* go back to.                                                             *)
(***************************************************************************)
DistinctWork == \A x, y \in Block : Work[x] = Work[y] => x = y

ShallowForks ==
    PruneMode => \A x, y \in Block :
                    x \in Chain[y] \/ Height(y) < Height(x) + MinBlocksToKeep

OrdinaryUse ==
    /\ DistinctWork
    /\ ShallowForks
    /\ ReconsiderBlocks = {}
    /\ ~RpcDuringActivation

(* Without equal keys the std::set behaves as a set. *)
LEMMA DistinctSets ==
    ASSUME DistinctWork, NEW S \in SUBSET Block, NEW D \in SUBSET Block
    PROVE  /\ Erase(S, D) = S \ D
           /\ \A T \in InsertAny(S, D) : T = S \cup D
           /\ \A T \in InsertByHeight(S, D) : T = S \cup D
<1>1. Erase(S, D) = S \ D
  BY DEF Erase, DistinctWork
<1>2. ASSUME NEW T \in InsertAny(S, D) PROVE T = S \cup D
  <2>1. /\ T \subseteq S \cup D /\ S \subseteq T
        /\ \A d \in D : \E t \in T : Work[t] = Work[d]
    BY DEF InsertAny
  <2>2. D \subseteq T
    BY <2>1 DEF DistinctWork
  <2> QED
    BY <2>1, <2>2
<1> QED
  BY <1>1, <1>2 DEF InsertByHeight

----------------------------------------------------------------------------
(***************************************************************************)
(* Every block that waits for an ancestor, and is not known to be above a  *)
(* failed one, is in mapBlocksUnlinked.                                    *)
(***************************************************************************)
AllQueued ==
    \A b \in haveData \ linked :
        Chain[b] \cap failed = {} => <<Parent[b], b>> \in mapBlocksUnlinked

LEMMA AllQueuedInit == Init => AllQueued
BY DEF Init, AllQueued

LEMMA AllQueuedNext ==
    ASSUME ReconsiderBlocks = {}
    PROVE  IndInv /\ AllQueued /\ [Next]_vars => AllQueued'
<1> SUFFICES ASSUME IndInv, AllQueued, [Next]_vars PROVE AllQueued'
  OBVIOUS
<1> USE DEF AllQueued
<1>a. haveData \subseteq Block /\ linked \subseteq Block /\ Genesis \in linked
  BY TreeAssumption DEF IndInv, TypeOK, Closed
<1>b. ASSUME haveData' \subseteq haveData, linked \subseteq linked', failed \subseteq failed',
             mapBlocksUnlinked \subseteq mapBlocksUnlinked'
      PROVE  AllQueued'
  BY <1>b
<1>1. ASSUME NEW b \in Block \ {Genesis}, AcceptBlockHeader(b) \/ RefuseBlockHeader(b)
      PROVE  AllQueued'
  BY <1>1, <1>b DEF AcceptBlockHeader, RefuseBlockHeader, index, failures, sets, failed
<1>2. ASSUME NEW b \in Block \ {Genesis}, NEW fRequested \in BOOLEAN,
             AcceptBlock(b, fRequested)
      PROVE  AllQueued'
  <2>1. CASE b \in BadCheck
    BY <1>2, <2>1, <1>b DEF AcceptBlock, sets, failed
  <2>2. CASE b \notin BadCheck /\ Parent[b] \in linked
    <3>1. /\ linked' = linked \cup NowLinked(b)
          /\ mapBlocksUnlinked' = {p \in mapBlocksUnlinked : p[1] \notin NowLinked(b)}
          /\ haveData' = haveData \cup {b}
          /\ failed' = failed
      BY <1>2, <2>2 DEF AcceptBlock, ReceivedBlockTransactions, failed
    <3>2. b \in NowLinked(b)
      BY <2>2, NowLinkedFacts
    <3>3. ASSUME NEW d \in haveData' \ linked', Chain[d] \cap failed = {}
          PROVE  <<Parent[d], d>> \in mapBlocksUnlinked'
      <4>1. d \in haveData \ linked /\ d \notin NowLinked(b) /\ d \in Block \ {Genesis}
        BY <1>a, <3>1, <3>2, <3>3
      <4>2. <<Parent[d], d>> \in mapBlocksUnlinked
        BY <3>3, <4>1
      <4>3. Parent[d] \in Block /\ Chain[d] = Chain[Parent[d]] \cup {d}
        BY <4>1, ChainFacts
      <4>4. Parent[d] \notin NowLinked(b)
        BY <4>1, <4>2, <4>3 DEF NowLinked
      <4> QED
        BY <3>1, <4>2, <4>4
    <3> QED
      BY <3>1, <3>3
  <2>3. CASE b \notin BadCheck /\ Parent[b] \notin linked
    <3>1. Parent[b] \in Chain[b] /\ b \notin linked
      BY <2>3, ChainFacts DEF IndInv, Closed
    <3>2. /\ linked' = linked /\ failed' = failed /\ haveData' = haveData \cup {b}
          /\ mapBlocksUnlinked \subseteq mapBlocksUnlinked'
          /\ Parent[b] \notin failed => <<Parent[b], b>> \in mapBlocksUnlinked'
      BY <1>2, <2>3, <3>1, Zenon DEF AcceptBlock, ReceivedBlockTransactions, failed
    <3> QED
      BY <3>1, <3>2
  <2> QED
    BY <2>1, <2>2, <2>3
<1>3. ASSUME NEW b \in Block, PruneOneBlockFile(b)
      PROVE  AllQueued'
  BY <1>3 DEF PruneOneBlockFile, failures, failed
<1>4. ASSUME NEW b \in Block,
             InvalidateBlock(b) \/ InvalidateBlockFails(b) \/ PreciousBlock(b)
      PROVE  AllQueued'
  BY <1>4, <1>b, Zenon
  DEF InvalidateBlock, InvalidateBlockFails, PreciousBlock, index, failures, sets, failed
<1>5. ASSUME NEW b \in Block, ResetBlockFailureFlags(b)
      PROVE  FALSE
  BY <1>5 DEF ResetBlockFailureFlags
<1>6. CASE ActivateBestChain \/ LockMain \/ FindMostWorkChain \/ NothingToDo
           \/ DisconnectToFork \/ DisconnectTipFails
  BY <1>6, <1>b, Zenon
  DEF ActivateBestChain, LockMain, FindMostWorkChain, NothingToDo, DisconnectToFork,
      DisconnectTipFails, index, failures, sets, failed
<1>7. CASE DropCandidate
  <2>1. failed \subseteq failed' /\ mapBlocksUnlinked \subseteq mapBlocksUnlinked'
    BY <1>7 DEF DropCandidate, failed
  <2> QED
    BY <1>7, <1>b, <2>1, Zenon DEF DropCandidate, index
<1>8. CASE ConnectTip \/ InvalidBlockFound
  BY <1>8, <1>b, Zenon DEF ConnectTip, InvalidBlockFound, index, failures, failed
<1>9. CASE Restart
  BY <1>9, Zenon DEF Restart, Waiting, IndInv, TypeOK
<1>10. CASE UNCHANGED vars
  BY <1>10, <1>b, Zenon DEF vars, index, failures, sets, failed
<1> QED
  BY <1>1, <1>2, <1>3, <1>4, <1>5, <1>6, <1>7, <1>8, <1>9, <1>10
  DEF Next, Activation

----------------------------------------------------------------------------
(***************************************************************************)
(* Only blocks of the active chain are pruned, a block without data has no *)
(* undo data, and the blocks that have passed ConnectBlock are closed      *)
(* under ancestors.                                                        *)
(***************************************************************************)
Kept ==
    /\ received \subseteq haveData \cup Chain[tip]
    /\ haveUndo \subseteq haveData
    /\ scripts \cap BadConnect = {}
    /\ \A b \in scripts : Chain[b] \subseteq scripts

LEMMA KeptInit == Init => Kept
BY TreeAssumption, ChainStateAssumption DEF Init, Kept

LEMMA KeptNext ==
    ASSUME ShallowForks
    PROVE  IndInv /\ Clean /\ Kept /\ [Next]_vars => Kept'
<1> SUFFICES ASSUME IndInv, Clean, Kept, [Next]_vars PROVE Kept'
  OBVIOUS
<1> USE DEF Kept
<1>a. tip \in Block /\ Chain[tip] \subseteq scripts
  BY DEF IndInv, TypeOK, Clean
<1>b. ASSUME UNCHANGED <<received, haveData, haveUndo, scripts>>,
             Chain[tip] \ Chain[tip'] \subseteq haveData
      PROVE  Kept'
  BY <1>b
<1>1. ASSUME NEW b \in Block \ {Genesis}, AcceptBlockHeader(b) \/ RefuseBlockHeader(b)
      PROVE  Kept'
  BY <1>1, <1>b DEF AcceptBlockHeader, RefuseBlockHeader, index
<1>2. ASSUME NEW b \in Block \ {Genesis}, NEW fRequested \in BOOLEAN,
             AcceptBlock(b, fRequested)
      PROVE  Kept'
  BY <1>2 DEF AcceptBlock
<1>3. ASSUME NEW b \in Block, PruneOneBlockFile(b)
      PROVE  Kept'
  <2>1. /\ PruneMode
        /\ Height(b) + MinBlocksToKeep =< Height(tip)
        /\ haveData' = haveData \ {b} /\ haveUndo' = haveUndo \ {b}
        /\ UNCHANGED <<received, scripts, tip>>
    BY <1>3 DEF PruneOneBlockFile, OldEnough
  <2>2. b \in Chain[tip]
    <3>1. b \in Chain[tip] \/ Height(tip) < Height(b) + MinBlocksToKeep
      BY <1>a, <2>1 DEF ShallowForks
    <3>2. Height(tip) \in Int /\ Height(b) \in Int /\ MinBlocksToKeep \in Int
      BY <1>a, HeightType, ChainStateAssumption
    <3> QED
      BY <2>1, <3>1, <3>2
  <2> QED
    BY <2>1, <2>2
<1>4. ASSUME NEW b \in Block, InvalidateBlock(b)
      PROVE  Kept'
  BY <1>4, <1>b, Zenon DEF InvalidateBlock, CanDisconnect, index
<1>5. ASSUME NEW b \in Block, InvalidateBlockFails(b)
      PROVE  Kept'
  BY <1>5, <1>b DEF InvalidateBlockFails, StopsAt, CanDisconnect, index
<1>6. ASSUME NEW b \in Block, ResetBlockFailureFlags(b) \/ PreciousBlock(b)
      PROVE  Kept'
  BY <1>6, <1>b, Zenon DEF ResetBlockFailureFlags, PreciousBlock, index
<1>7. CASE ActivateBestChain \/ LockMain \/ FindMostWorkChain \/ DropCandidate
           \/ NothingToDo \/ InvalidBlockFound \/ Restart
  BY Zenon, <1>7, <1>b DEF ActivateBestChain, LockMain, FindMostWorkChain, DropCandidate,
                    NothingToDo, InvalidBlockFound, Restart, index
<1>8. CASE DisconnectToFork
  BY <1>8, <1>b, Zenon DEF DisconnectToFork, CanDisconnect, index
<1>9. CASE DisconnectTipFails
  BY <1>9, <1>b DEF DisconnectTipFails, StopsAt, CanDisconnect, index
<1>10. CASE ConnectTip
  <2>1. PICK b \in Block \ {Genesis} :
          /\ Parent[b] = tip /\ tip' = b
          /\ b \in haveData \ BadConnect
          /\ haveUndo' = haveUndo \cup {b}
          /\ scripts' = scripts \cup ({b} \ failed)
    BY <1>10, Zenon DEF ConnectTip, IsNext
  <2>2. Chain[b] = Chain[tip] \cup {b}
    BY <2>1, ChainFacts
  <2>3. received' = received /\ haveData' = haveData
    BY <1>10, Zenon DEF ConnectTip
  <2> QED
    BY <1>a, <2>1, <2>2, <2>3
<1>11. CASE UNCHANGED vars
  BY <1>11, <1>b, Zenon DEF vars, index
<1> QED
  BY <1>1, <1>2, <1>3, <1>4, <1>5, <1>6, <1>7, <1>8, <1>9, <1>10, <1>11, Zenon
  DEF Next, Activation

----------------------------------------------------------------------------
(***************************************************************************)
(* The anchor: a candidate that passed ConnectBlock, at least as good as   *)
(* the tip and as the tip at the start of the round.  A linked block with  *)
(* no failed ancestor that is not a candidate is no better than it.        *)
(***************************************************************************)
Unfailed == {b \in linked : Chain[b] \cap failed = {}}

Anchor(c) ==
    /\ c \in setBlockIndexCandidates \cap scripts \cap Unfailed
    /\ Work[tip] =< Work[c]
    /\ pc \in {"find", "step"} =>
          starting_tip \in Block /\ Work[starting_tip] =< Work[c]
    /\ \A b \in Unfailed : b \in setBlockIndexCandidates \/ Work[b] =< Work[c]

Anchored == \E c \in Block : Anchor(c)

LEMMA AnchoredInit == Init => Anchored
<1> SUFFICES ASSUME Init PROVE Anchor(Genesis)
  BY TreeAssumption DEF Anchored
<1>1. Work[Genesis] \in Nat /\ Chain[Genesis] = {Genesis}
  BY TreeAssumption, WorkAssumption
<1> QED
  BY <1>1 DEF Init, Anchor, Unfailed, failed

(* Steps that mark blocks above a failed one leave the unfailed chains. *)
LEMMA MarkingKeeps ==
    ASSUME IndInv, NEW f \in failed, NEW M,
           \A d \in M : f \in Chain[d],
           linked' = linked, failed' = failed \cup M
    PROVE  Unfailed' = Unfailed
<1>1. \A c \in Unfailed : \A d \in Chain[c] : f \notin Chain[d]
  BY MarkingAbove DEF Unfailed
<1>2. \A c \in Unfailed : Chain[c] \cap M = {}
  BY <1>1
<1> QED
  BY <1>2 DEF Unfailed

(* The anchor stays when the tip goes down and no candidate is lost. *)
LEMMA AnchorStays ==
    ASSUME IndInv, IndInv', NEW c \in Block, Anchor(c),
           c \in Unfailed', Unfailed' \subseteq Unfailed,
           Unfailed' \cap setBlockIndexCandidates \subseteq setBlockIndexCandidates',
           scripts \subseteq scripts', tip' \in Chain[tip],
           pc' \in {"find", "step"} =>
              \/ pc \in {"find", "step"} /\ starting_tip' = starting_tip
              \/ starting_tip' = tip
    PROVE  Anchored'
<1>1. tip \in Block
  BY Zenon DEF IndInv, TypeOK
<1>2. Work[tip] \in Nat /\ Work[tip'] \in Nat /\ Work[tip'] =< Work[tip] /\ Work[c] \in Nat
  BY <1>1, WorkGrows, WorkAssumption, Zenon
<1>3. Work[tip'] =< Work[c]
  BY <1>2 DEF Anchor
<1>4. pc' \in {"find", "step"} => starting_tip' \in Block /\ Work[starting_tip'] =< Work[c]
  BY <1>1 DEF Anchor
<1>5. Anchor(c)'
  BY <1>3, <1>4, Zenon DEF Anchor
<1> QED
  BY <1>5 DEF Anchored

(* A block that arrives is a candidate, or no better than the tip. *)
LEMMA AnchoredAccept ==
    ASSUME DistinctWork, IndInv, NothingBad, NEW c \in Block, Anchor(c),
           NEW b \in Block \ {Genesis}, NEW fRequested \in BOOLEAN, AcceptBlock(b, fRequested)
    PROVE  Anchor(c)'
<1>1. /\ UNCHANGED <<scripts, tip, pc, starting_tip>>
      /\ tip \in Block /\ setBlockIndexCandidates \subseteq Block
  BY DEF AcceptBlock, abc, IndInv, TypeOK
<1>2. CASE b \in BadCheck
  <2>1. /\ failed' = failed \cup {b} /\ linked' = linked
        /\ setBlockIndexCandidates' = setBlockIndexCandidates
    BY <1>2 DEF AcceptBlock, failed, sets
  <2>2. \A d \in linked : b \notin Chain[d]
    BY <1>2 DEF NothingBad, IndInv, TypeOK, Closed
  <2>3. Unfailed' = Unfailed
    BY <2>1, <2>2 DEF Unfailed
  <2> QED
    BY <1>1, <2>1, <2>3 DEF Anchor
<1>3. CASE b \notin BadCheck /\ Parent[b] \in linked
  <2>1. /\ failed' = failed /\ linked' = linked \cup NowLinked(b)
        /\ setBlockIndexCandidates' \in
              InsertByHeight(setBlockIndexCandidates,
                             {d \in NowLinked(b) : Work[d] >= Work[tip]})
    BY <1>3, Zenon DEF AcceptBlock, ReceivedBlockTransactions, failed
  <2>2. NowLinked(b) \subseteq Block
    BY DEF NowLinked
  <2>3. setBlockIndexCandidates' =
           setBlockIndexCandidates \cup {d \in NowLinked(b) : Work[d] >= Work[tip]}
    BY <1>1, <2>1, <2>2, DistinctSets, Zenon
  <2>4. Unfailed \subseteq Unfailed' /\ Unfailed' \subseteq Unfailed \cup NowLinked(b)
    BY <2>1, Zenon DEF Unfailed
  <2>5. \A d \in NowLinked(b) : Work[d] >= Work[tip] \/ Work[d] =< Work[c]
    <3>1. Work[tip] \in Nat /\ Work[c] \in Nat /\ \A d \in NowLinked(b) : Work[d] \in Nat
      BY <1>1, <2>2, WorkAssumption
    <3> QED
      BY <3>1 DEF Anchor
  <2> QED
    BY <1>1, <2>3, <2>4, <2>5 DEF Anchor
<1>4. CASE b \notin BadCheck /\ Parent[b] \notin linked
  <2>1. b \notin linked
    BY <1>4, ChainFacts DEF IndInv, Closed
  <2>2. failed' = failed /\ linked' = linked /\ setBlockIndexCandidates' = setBlockIndexCandidates
    BY <1>4, <2>1, Zenon DEF AcceptBlock, ReceivedBlockTransactions, failed
  <2> QED
    BY <1>1, <2>2 DEF Anchor, Unfailed
<1> QED
  BY <1>2, <1>3, <1>4

(* InvalidateBlock offers everything again: the new tip is the anchor. *)
LEMMA AnchoredInvalidate ==
    ASSUME OrdinaryUse, IndInv, IndInv', Clean', NEW b \in Block, InvalidateBlock(b)
    PROVE  Anchored'
<1>1. pc' = "idle" /\ UNCHANGED <<received, linked, scripts>>
  BY Zenon DEF InvalidateBlock, RpcMayRun, OrdinaryUse, abc, index
<1>2. PICK t \in Block : t = tip'
  BY DEF IndInv, TypeOK
<1> DEFINE D == (IF b \in Chain[tip] THEN Chain[tip] \ Chain[b] ELSE {}) \cup {b}
           R == Readmitted(D, t)
<1>3. D \in SUBSET Block
  BY ChainFacts DEF IndInv, TypeOK
<1>4. failed' = failed \cup D
  BY Zenon DEF InvalidateBlock, failed
<1>5. setBlockIndexCandidates' \in InsertAny(Erase(setBlockIndexCandidates, D), R)
  BY <1>2, Zenon DEF InvalidateBlock
<1> HIDE DEF D
<1>6. R \in SUBSET Block /\ Erase(setBlockIndexCandidates, D) \in SUBSET Block
  BY EraseBounds, Zenon DEF Readmitted, IndInv, TypeOK
<1>7. R \subseteq setBlockIndexCandidates'
  <2> HIDE DEF R
  <2>1. setBlockIndexCandidates' = Erase(setBlockIndexCandidates, D) \cup R
    BY <1>5, <1>6, DistinctSets, Zenon DEF OrdinaryUse
  <2> QED
    BY <2>1
<1>8. \A d \in Unfailed' : d \in Block /\ d \in (received \cap linked) \ (failed \cup D)
  BY <1>1, <1>4, ChainFacts, Zenon DEF Unfailed, IndInv, TypeOK
<1>9. Work[t] \in Nat /\ \A d \in Unfailed' : Work[d] \in Nat
  BY <1>2, <1>8, WorkAssumption, Zenon
<1>10. \A d \in Unfailed' : d \in R \/ Work[d] =< Work[t]
  BY <1>8, <1>9 DEF Readmitted
<1>11. t \in Unfailed' /\ t \in scripts'
  BY <1>2, ChainFacts, Zenon DEF IndInv, TypeOK, Clean, ActiveChainNotFailed, Unfailed
<1>12. t \in R
  BY <1>8, <1>9, <1>11 DEF Readmitted
<1> HIDE DEF R
<1>13. Anchor(t)'
  BY <1>1, <1>2, <1>7, <1>9, <1>10, <1>11, <1>12 DEF Anchor
<1> QED
  BY <1>13 DEF Anchored

(* A restart offers everything again too. *)
LEMMA AnchoredRestart ==
    ASSUME OrdinaryUse, IndInv, IndInv', Clean', Restart
    PROVE  Anchored'
<1>1. pc' = "idle" /\ tip' = tip /\ failedValid' = failedValid
  BY Zenon DEF Restart
<1>2. PICK S \in InsertByHeight({}, linked' \ (failedValid \cup failedChild')) :
        setBlockIndexCandidates' = PruneBlockIndexCandidates(S, tip)
  BY Zenon DEF Restart
<1>3. S = linked' \ failed'
  <2>1. linked' \ (failedValid \cup failedChild') \subseteq Block
    BY Zenon DEF IndInv, TypeOK
  <2>2. S = {} \cup (linked' \ (failedValid \cup failedChild'))
    BY <2>1, <1>2, DistinctSets, Zenon DEF OrdinaryUse
  <2> QED
    BY <1>1, <2>2 DEF failed
<1>4. tip \in Block /\ tip \in Unfailed' /\ tip \in scripts'
  BY <1>1, ChainFacts, Zenon DEF IndInv, TypeOK, Clean, ActiveChainNotFailed, Unfailed
<1>5. \A d \in Unfailed' : d \in Block /\ d \in S
  BY <1>3, ChainFacts, Zenon DEF Unfailed, IndInv, TypeOK
<1>6. Work[tip] \in Nat /\ \A d \in Unfailed' : Work[d] \in Nat
  BY <1>4, <1>5, WorkAssumption, Zenon
<1>7. \A d \in Unfailed' : d \in setBlockIndexCandidates' \/ Work[d] =< Work[tip]
  BY <1>2, <1>5, <1>6 DEF PruneBlockIndexCandidates
<1>8. tip \in setBlockIndexCandidates'
  BY <1>2, <1>4, <1>5, <1>6 DEF PruneBlockIndexCandidates
<1>9. PICK t \in Block : t = tip
  BY <1>4
<1>10. Anchor(t)'
  BY <1>1, <1>4, <1>6, <1>7, <1>8, <1>9 DEF Anchor
<1> QED
  BY <1>10 DEF Anchored

(* preciousblock drops no block that is better than the tip. *)
LEMMA AnchoredPrecious ==
    ASSUME OrdinaryUse, IndInv, NEW c \in Block, Anchor(c),
           NEW b \in Block, PreciousBlock(b)
    PROVE  Anchor(c)'
<1>1. /\ UNCHANGED <<linked, scripts, tip, pc, starting_tip, received>>
      /\ failed' = failed
  BY DEF PreciousBlock, index, failures, failed, abc
<1>2. tip \in Block /\ setBlockIndexCandidates \subseteq linked
      /\ linked \subseteq received /\ linked \subseteq Block
  BY DEF IndInv, TypeOK
<1>3. Unfailed' = Unfailed /\ Unfailed \cap failed = {} /\ Unfailed \subseteq linked
  BY <1>1, <1>2, ChainFacts, Zenon DEF Unfailed
<1>4. Erase(setBlockIndexCandidates, {b}) = setBlockIndexCandidates \ {b}
  BY <1>2, DistinctSets, ZenonT(30) DEF OrdinaryUse
<1>5. \A d \in Block : Work[d] \in Nat
  BY WorkAssumption
<1>6. c \in Unfailed /\ c \in setBlockIndexCandidates /\ Work[tip] =< Work[c]
  BY DEF Anchor
<1>7. CASE b \in (received \cap linked) \ failed
  <2>1. setBlockIndexCandidates' =
          {d \in setBlockIndexCandidates \cup {b} : Work[d] >= Work[tip]}
    BY <1>4, <1>7 DEF PreciousBlock, PruneBlockIndexCandidates
  <2>2. c \in setBlockIndexCandidates'
    BY <1>2, <1>5, <1>6, <2>1
  <2>3. \A d \in setBlockIndexCandidates : d \in setBlockIndexCandidates' \/ Work[d] =< Work[c]
    BY <1>2, <1>5, <1>6, <2>1
  <2> QED
    BY <1>1, <1>3, <2>2, <2>3 DEF Anchor
<1>8. CASE b \notin (received \cap linked) \ failed
  <2>1. setBlockIndexCandidates' = setBlockIndexCandidates \ {b}
    BY <1>4, <1>8 DEF PreciousBlock
  <2>2. b \notin Unfailed
    BY <1>2, <1>3, <1>8
  <2> QED
    BY <1>1, <1>3, <1>6, <2>1, <2>2 DEF Anchor
<1> QED
  BY <1>7, <1>8

(* The block that ConnectTip connects becomes the anchor if it is better. *)
LEMMA AnchoredConnect ==
    ASSUME IndInv, Clean, NEW c \in Block, Anchor(c), ConnectTip
    PROVE  Anchored'
<1>1. PICK b \in Block :
        /\ b \in Chain[pindexMostWork] /\ tip' = b
        /\ scripts' = scripts \cup ({b} \ failed)
        /\ setBlockIndexCandidates' = {d \in setBlockIndexCandidates : Work[d] >= Work[b]}
  BY Zenon DEF ConnectTip, IsNext, PruneBlockIndexCandidates
<1>2. /\ pc = "step" /\ starting_tip' = starting_tip
      /\ linked' = linked /\ failed' = failed
  BY DEF ConnectTip, At, failures, failed
<1>3. Unfailed' = Unfailed
  BY <1>2 DEF Unfailed
<1>4. pindexMostWork \in linked /\ pindexMostWork # NoBlock /\ pindexMostWork \in Block
  BY <1>2, TreeAssumption, ZenonT(30) DEF IndInv, HasTarget, TypeOK
<1>5. Chain[b] \subseteq Chain[pindexMostWork] /\ Chain[pindexMostWork] \cap failed = {}
  BY <1>1, <1>2, <1>4, ChainFacts, Zenon DEF Clean
<1>6. b \in Unfailed /\ b \notin failed
  BY <1>1, <1>4, <1>5, ChainFacts, Zenon DEF Unfailed, IndInv, Closed
<1>7. Work[b] \in Nat /\ Work[c] \in Nat /\ \A d \in Unfailed : Work[d] \in Nat
  BY WorkAssumption, Zenon DEF Unfailed, IndInv, TypeOK
<1>8. /\ starting_tip \in Block /\ Work[starting_tip] =< Work[c]
      /\ c \in setBlockIndexCandidates \cap scripts \cap Unfailed
  BY <1>2 DEF Anchor
<1>9. \A d \in Unfailed : d \in setBlockIndexCandidates \/ Work[d] =< Work[c]
  BY DEF Anchor
<1>10. CASE Work[b] =< Work[c]
  <2>1. c \in setBlockIndexCandidates' /\ c \in scripts'
    BY <1>1, <1>7, <1>8, <1>10, Zenon
  <2>2. \A d \in Unfailed : d \in setBlockIndexCandidates' \/ Work[d] =< Work[c]
    BY <1>1, <1>7, <1>9, <1>10
  <2> QED
    BY <1>1, <1>2, <1>3, <1>8, <1>10, <2>1, <2>2, Zenon DEF Anchor, Anchored
<1>11. CASE ~(Work[b] =< Work[c])
  <2>1. b \in setBlockIndexCandidates' /\ b \in scripts'
    BY <1>1, <1>6, <1>7, <1>9, <1>11
  <2>2. \A d \in Unfailed : d \in setBlockIndexCandidates' \/ Work[d] =< Work[b]
    BY <1>1, <1>7, <1>9, <1>11
  <2>3. Work[starting_tip] =< Work[b] /\ Work[b] =< Work[b]
    <3>1. Work[starting_tip] \in Nat
      BY <1>8, WorkAssumption
    <3> QED
      BY <1>7, <1>8, <1>11, <3>1
  <2> QED
    BY <1>1, <1>2, <1>3, <1>6, <2>1, <2>2, <2>3, Zenon DEF Anchor, Anchored
<1> QED
  BY <1>10, <1>11

LEMMA AnchoredNext ==
    ASSUME OrdinaryUse
    PROVE  IndInv /\ NothingBad /\ Clean /\ Kept /\ Anchored /\ [Next]_vars => Anchored'
<1> SUFFICES ASSUME IndInv, NothingBad, Clean, Kept, Anchored, [Next]_vars
             PROVE  Anchored'
  OBVIOUS
<1>a. IndInv' /\ Clean'
  BY IndNext, CleanNext DEF OrdinaryUse
<1>b. PICK c \in Block : Anchor(c)
  BY DEF Anchored
<1>c. c \in Unfailed /\ c \in scripts /\ c \in setBlockIndexCandidates
  BY <1>b DEF Anchor
<1>d. tip \in Chain[tip] /\ tip \in Block /\ setBlockIndexCandidates \subseteq Block
  BY ChainFacts, Zenon DEF IndInv, TypeOK
<1>e. ASSUME UNCHANGED <<linked, scripts, setBlockIndexCandidates, failures>>,
             tip' \in Chain[tip],
             pc' \in {"find", "step"} =>
                \/ pc \in {"find", "step"} /\ starting_tip' = starting_tip
                \/ starting_tip' = tip
      PROVE  Anchored'
  <2>1. Unfailed' = Unfailed
    BY <1>e DEF Unfailed, failures, failed
  <2> QED
    BY <1>a, <1>b, <1>c, <1>e, <2>1, AnchorStays, Zenon
<1>1. ASSUME NEW b \in Block \ {Genesis}, AcceptBlockHeader(b)
      PROVE  Anchored'
  BY <1>1, <1>d, <1>e, Zenon DEF AcceptBlockHeader, sets, abc
<1>2. ASSUME NEW b \in Block \ {Genesis}, RefuseBlockHeader(b)
      PROVE  Anchored'
  <2>1. PICK f \in m_failed_blocks \cap Chain[Parent[b]] :
          failedChild' = failedChild \cup (Chain[Parent[b]] \ Chain[f])
    BY <1>2 DEF RefuseBlockHeader
  <2>2. f \in failed /\ f \in Block
    BY Zenon DEF NothingBad, FailedBlocksMarked, failed, IndInv, TypeOK
  <2>3. \A d \in Chain[Parent[b]] \ Chain[f] : f \in Chain[d]
    BY ChainFacts, ChainLinear
  <2>4. failed' = failed \cup (Chain[Parent[b]] \ Chain[f])
    BY <1>2, <2>1, Zenon DEF RefuseBlockHeader, failed
  <2>5. UNCHANGED <<linked, scripts, setBlockIndexCandidates, tip, pc, starting_tip>>
    BY <1>2, Zenon DEF RefuseBlockHeader, index, sets, abc
  <2>6. Unfailed' = Unfailed
    BY <2>2, <2>3, <2>4, <2>5, MarkingKeeps, Zenon
  <2> QED
    BY <1>a, <1>b, <1>c, <1>d, <2>5, <2>6, AnchorStays
<1>3. ASSUME NEW b \in Block \ {Genesis}, NEW fRequested \in BOOLEAN,
             AcceptBlock(b, fRequested)
      PROVE  Anchored'
  <2>1. Anchor(c)'
    BY <1>3, <1>b, AnchoredAccept DEF OrdinaryUse
  <2> QED
    BY <2>1 DEF Anchored
<1>4. ASSUME NEW b \in Block, PruneOneBlockFile(b)
      PROVE  Anchored'
  BY <1>4, <1>d, <1>e, Zenon DEF PruneOneBlockFile, abc
<1>5. ASSUME NEW b \in Block, InvalidateBlock(b)
      PROVE  Anchored'
  BY <1>5, <1>a, AnchoredInvalidate
<1>6. ASSUME NEW b \in Block, InvalidateBlockFails(b)
      PROVE  Anchored'
  BY <1>6, <1>e, Zenon DEF InvalidateBlockFails, StopsAt, index, sets, abc
<1>7. ASSUME NEW b \in Block, ResetBlockFailureFlags(b)
      PROVE  FALSE
  BY <1>7, Zenon DEF ResetBlockFailureFlags, OrdinaryUse
<1>8. ASSUME NEW b \in Block, PreciousBlock(b)
      PROVE  Anchored'
  <2>1. Anchor(c)'
    BY <1>8, <1>b, AnchoredPrecious
  <2> QED
    BY <2>1 DEF Anchored
<1>9. CASE ActivateBestChain \/ LockMain \/ FindMostWorkChain
  BY <1>9, <1>d, <1>e, Zenon
  DEF ActivateBestChain, LockMain, FindMostWorkChain, At, index, sets
<1>10. CASE NothingToDo
  BY <1>10, <1>d, <1>e, Zenon DEF NothingToDo, EndRound, At, index, sets
<1>11. CASE DropCandidate
  <2>1. PICK p \in Best(setBlockIndexCandidates) : \E t \in Unusable(p) :
          /\ setBlockIndexCandidates' =
                Erase(setBlockIndexCandidates, (Chain[p] \ Chain[t]) \cup {t})
          /\ t \in failed => failed' = failed \cup (Chain[p] \ Chain[t])
    BY <1>11, ZenonT(30) DEF DropCandidate, failed
  <2>2. PICK t \in Unusable(p) :
          /\ setBlockIndexCandidates' =
                Erase(setBlockIndexCandidates, (Chain[p] \ Chain[t]) \cup {t})
          /\ t \in failed => failed' = failed \cup (Chain[p] \ Chain[t])
    BY <2>1, Zenon
  <2>3. p \in Block /\ p \in linked /\ t \in Chain[p] \ Chain[tip] /\ t \in Block
    BY ChainFacts, Zenon DEF Best, Unusable, IndInv, TypeOK
  <2>4. t \in failed
    <3>1. t \in received
      BY <2>3, Zenon DEF IndInv, TypeOK, Closed
    <3> QED
      BY <2>3, <3>1, Zenon DEF Unusable, Kept
  <2>5. \A d \in (Chain[p] \ Chain[t]) \cup {t} : t \in Chain[d]
    BY <2>3, ChainLinear, ChainFacts, Zenon
  <2>6. UNCHANGED <<linked, scripts, tip, pc, starting_tip>>
    BY <1>11, Zenon DEF DropCandidate, index, abc
  <2>7. Unfailed' = Unfailed
    BY <2>2, <2>4, <2>5, <2>6, MarkingKeeps, Zenon
  <2>8. setBlockIndexCandidates' = setBlockIndexCandidates \ ((Chain[p] \ Chain[t]) \cup {t})
    <3>1. (Chain[p] \ Chain[t]) \cup {t} \in SUBSET Block
      BY <2>3, ChainFacts, Zenon
    <3> QED
      BY <1>d, <2>2, <3>1, DistinctSets, Zenon DEF OrdinaryUse
  <2>9. Unfailed \cap ((Chain[p] \ Chain[t]) \cup {t}) = {}
    BY <2>4, <2>5, Zenon DEF Unfailed
  <2> QED
    BY <1>a, <1>b, <1>c, <1>d, <2>6, <2>7, <2>8, <2>9, AnchorStays, Zenon
<1>12. CASE DisconnectToFork
  BY <1>12, <1>e, Zenon DEF DisconnectToFork, IsFork, At, index, sets
<1>13. CASE DisconnectTipFails
  BY <1>13, <1>e, Zenon DEF DisconnectTipFails, StopsAt, index, sets
<1>14. CASE ConnectTip
  BY <1>14, <1>b, AnchoredConnect
<1>15. CASE InvalidBlockFound
  <2>1. PICK b \in haveData \cap BadConnect :
          /\ failed' = failed \cup {b}
          /\ setBlockIndexCandidates' = Erase(setBlockIndexCandidates, {b})
    BY <1>15, Zenon DEF InvalidBlockFound, failed
  <2>2. UNCHANGED <<linked, scripts, tip, starting_tip>> /\ pc = "step"
    BY <1>15 DEF InvalidBlockFound, At, index
  <2>3. b \in Block
    BY Zenon DEF IndInv, TypeOK
  <2>4. setBlockIndexCandidates' = setBlockIndexCandidates \ {b}
    BY <1>d, <2>1, <2>3, DistinctSets, ZenonT(30) DEF OrdinaryUse
  <2>5. b \notin Chain[c]
    BY <1>c, Zenon DEF Kept
  <2>6. Unfailed' = {d \in Unfailed : b \notin Chain[d]}
    BY <2>1, <2>2, Zenon DEF Unfailed
  <2>7. b \notin Unfailed' /\ c \in Unfailed' /\ Unfailed' \subseteq Unfailed
    BY <1>c, <2>3, <2>5, <2>6, ChainFacts, Zenon
  <2> QED
    BY <1>a, <1>b, <1>c, <1>d, <2>2, <2>4, <2>7, AnchorStays, Zenon
<1>16. CASE Restart
  BY <1>16, <1>a, AnchoredRestart
<1>17. CASE UNCHANGED vars
  BY <1>17, <1>d, <1>e, Zenon DEF vars, index, sets, abc
<1> QED
  BY Zenon, <1>1, <1>2, <1>3, <1>4, <1>5, <1>6, <1>7, <1>8, <1>9, <1>10, <1>11, <1>12,
     <1>13, <1>14, <1>15, <1>16, <1>17
  DEF Next, Activation

----------------------------------------------------------------------------
(***************************************************************************)
(* What a round aims at is not worse than the tip it started from.  Unless *)
(* a caller will activate again it is as good as every candidate, and when *)
(* the last activation is over the tip is.                                 *)
(***************************************************************************)
Rounds ==
    /\ pc \in {"find", "step"} /\ pindexMostWork # NoBlock
          => Work[starting_tip] =< Work[pindexMostWork]
    /\ pc # "idle" /\ ~pending /\ pindexMostWork # NoBlock
          => \A c \in setBlockIndexCandidates : Work[c] =< Work[pindexMostWork]
    /\ Settled => \A c \in setBlockIndexCandidates : Work[c] =< Work[tip]

LEMMA RoundsInit == Init => Rounds
BY TreeAssumption, WorkAssumption DEF Init, Rounds

LEMMA RoundsNext ==
    ASSUME OrdinaryUse
    PROVE  IndInv /\ OnTrack /\ Kept /\ Anchored /\ Rounds /\ [Next]_vars => Rounds'
<1> SUFFICES ASSUME IndInv, OnTrack, Kept, Anchored, Rounds, [Next]_vars
             PROVE  Rounds'
  OBVIOUS
<1> USE DEF Rounds
<1>a. tip \in Block /\ (pindexMostWork # NoBlock => pindexMostWork \in Block)
  BY Zenon DEF IndInv, TypeOK
<1>b. PICK c \in Block : Anchor(c)
  BY DEF Anchored
<1>1. ASSUME NEW b \in Block \ {Genesis}, AcceptBlockHeader(b) \/ RefuseBlockHeader(b)
      PROVE  Rounds'
  BY <1>1, Zenon DEF AcceptBlockHeader, RefuseBlockHeader, Settled, At, index, sets, abc
<1>2. ASSUME NEW b \in Block \ {Genesis}, NEW fRequested \in BOOLEAN,
             AcceptBlock(b, fRequested)
      PROVE  Rounds'
  <2>1. \/ pending'
        \/ UNCHANGED <<setBlockIndexCandidates, pending>>
    BY <1>2 DEF AcceptBlock, sets
  <2>2. UNCHANGED <<haveUndo, tip, node, abc>> /\ pc \in {"idle", "unlocked"}
    BY <1>2 DEF AcceptBlock, Unlocked
  <2> QED
    BY <2>1, <2>2, Zenon DEF Settled, At, abc
<1>3. ASSUME NEW b \in Block, PruneOneBlockFile(b)
      PROVE  Rounds'
  BY <1>3, Zenon DEF PruneOneBlockFile, Settled, At, abc
<1>4. ASSUME NEW b \in Block, InvalidateBlock(b) \/ PreciousBlock(b)
      PROVE  Rounds'
  BY <1>4, Zenon DEF InvalidateBlock, PreciousBlock, RpcMayRun, OrdinaryUse, Settled, abc
<1>5. ASSUME NEW b \in Block, InvalidateBlockFails(b)
      PROVE  Rounds'
  <2>1. pending' \/ node' = "shutdown"
    BY <1>5, Zenon DEF InvalidateBlockFails
  <2> QED
    BY <1>5, <2>1, Zenon DEF InvalidateBlockFails, RpcMayRun, OrdinaryUse, Settled, At, abc
<1>6. ASSUME NEW b \in Block, ResetBlockFailureFlags(b)
      PROVE  FALSE
  BY <1>6, Zenon DEF ResetBlockFailureFlags, OrdinaryUse
<1>7. CASE ActivateBestChain \/ Restart
  BY <1>7, Zenon DEF ActivateBestChain, Restart, Settled, At
<1>8. CASE LockMain
  <2>1. pindexMostWork # NoBlock => Work[tip] =< Work[pindexMostWork]
    BY <1>8, <1>a, WorkGrows, Zenon DEF LockMain, At, OnTrack
  <2> QED
    BY <1>8, <2>1, Zenon DEF LockMain, Settled, At, sets
<1>9. CASE FindMostWorkChain
  <2>1. /\ pc = "find" /\ pc' = "find" /\ UNCHANGED <<starting_tip, setBlockIndexCandidates>>
        /\ pindexMostWork' \in Best(setBlockIndexCandidates)
    BY <1>9 DEF FindMostWorkChain, At, sets
  <2>2. /\ Work[starting_tip] =< Work[c] /\ c \in setBlockIndexCandidates
        /\ starting_tip \in Block
    BY <1>b, <2>1 DEF Anchor
  <2>3. pindexMostWork' \in Block /\ \A d \in setBlockIndexCandidates : Work[d] =< Work[pindexMostWork']
    BY <2>1, Zenon DEF Best, IndInv, TypeOK
  <2>4. Work[starting_tip] \in Nat /\ Work[c] \in Nat /\ Work[pindexMostWork'] \in Nat
    BY <2>2, <2>3, WorkAssumption, Zenon
  <2>5. Work[starting_tip] =< Work[pindexMostWork']
    BY <2>2, <2>3, <2>4
  <2> QED
    BY <2>1, <2>3, <2>5 DEF Settled, At
<1>10. CASE DropCandidate
  BY <1>10, Zenon DEF DropCandidate, Settled, At, abc
<1>11. CASE NothingToDo
  <2>1. /\ pc = "find" /\ pc' \in {"idle", "unlocked"}
        /\ UNCHANGED <<setBlockIndexCandidates, tip, pending, pindexMostWork>>
        /\ pindexMostWork = tip
    BY <1>11, <1>b, Zenon DEF NothingToDo, EndRound, At, sets, Anchor
  <2> QED
    BY <1>a, <2>1, TreeAssumption, Zenon DEF Settled, At
<1>12. CASE DisconnectToFork
  BY <1>12, Zenon DEF DisconnectToFork, Settled, At, sets
<1>13. CASE DisconnectTipFails
  <2>1. PICK t \in Chain[tip] \ Chain[pindexMostWork] : tip' = t /\ ~CanDisconnect({t})
    BY <1>13, Zenon DEF DisconnectTipFails, StopsAt
  <2>2. t # Genesis /\ t \notin haveUndo
    BY <1>13, <1>a, <2>1, TreeAssumption DEF DisconnectTipFails, CanDisconnect, Kept
  <2> QED
    BY <1>13, <2>1, <2>2, Zenon DEF DisconnectTipFails, Settled, index
<1>14. CASE ConnectTip
  <2>1. /\ pc = "step" /\ UNCHANGED <<pending, pindexMostWork, starting_tip>>
        /\ setBlockIndexCandidates' \subseteq setBlockIndexCandidates
        /\ pc' = "idle" => tip' = pindexMostWork
    BY <1>14, Zenon DEF ConnectTip, EndStep, EndRound, At, PruneBlockIndexCandidates
  <2>2. pindexMostWork # NoBlock
    BY <2>1, TreeAssumption, SMTT(30) DEF IndInv, HasTarget, TypeOK
  <2> QED
    BY <2>1, <2>2, Zenon DEF Settled, At
<1>15. CASE InvalidBlockFound
  <2>1. pindexMostWork' = NoBlock /\ pc' # "idle"
    BY <1>15, <1>a, TreeAssumption, Zenon DEF InvalidBlockFound, EndStep, EndRound
  <2> QED
    BY <2>1 DEF Settled, At
<1>16. CASE UNCHANGED vars
  BY <1>16, Zenon DEF vars, Settled, At, index, sets, abc
<1> QED
  BY Zenon, <1>1, <1>2, <1>3, <1>4, <1>5, <1>6, <1>7, <1>8, <1>9, <1>10, <1>11, <1>12,
     <1>13, <1>14, <1>15, <1>16
  DEF Next, Activation

----------------------------------------------------------------------------
(* The invariants above, together. *)
BestInv ==
    /\ IndInv /\ NothingBad /\ Clean
    /\ OnTrack /\ AllQueued /\ Kept /\ Anchored /\ Rounds

LEMMA BestInvInit == Init => BestInv
BY IndInit, NothingBadInit, CleanInit, OnTrackInit, AllQueuedInit, KeptInit,
   AnchoredInit, RoundsInit DEF BestInv

LEMMA BestInvNext ==
    ASSUME OrdinaryUse
    PROVE  BestInv /\ [Next]_vars => BestInv'
<1>1. ReconsiderBlocks = {} /\ ShallowForks /\ ~RpcDuringActivation
  BY DEF OrdinaryUse
<1> QED
  BY <1>1, IndNext, NothingBadNext, CleanNext, OnTrackNext, AllQueuedNext, KeptNext,
     AnchoredNext, RoundsNext DEF BestInv

(* No linked block with a clean chain is better than the tip at rest. *)
LEMMA TipIsBest ==
    ASSUME BestInv, Settled, NEW b \in Unfailed
    PROVE  Work[b] =< Work[tip] /\ Work[b] \in Nat /\ Work[tip] \in Nat
<1>1. PICK c \in Block : Anchor(c)
  BY DEF BestInv, Anchored
<1>2. /\ c \in setBlockIndexCandidates
      /\ b \in setBlockIndexCandidates \/ Work[b] =< Work[c]
  BY <1>1 DEF Anchor
<1>3. \A d \in setBlockIndexCandidates : Work[d] =< Work[tip]
  BY DEF BestInv, Rounds
<1>4. Work[b] \in Nat /\ Work[tip] \in Nat /\ Work[c] \in Nat
  BY WorkAssumption, Zenon DEF Unfailed, BestInv, IndInv, TypeOK
<1> QED
  BY <1>2, <1>3, <1>4

(***************************************************************************)
(* ActivateBestChain keeps its promise for every tree of blocks: once the  *)
(* last call has returned, no usable block has more work than the tip,     *)
(* also after failed reorganisations, invalidateblock, preciousblock,      *)
(* pruning and restarts.                                                   *)
(***************************************************************************)
THEOREM BestChainActive ==
    ASSUME OrdinaryUse
    PROVE  Spec => []BestChain
<1>1. BestInv => BestChain
  BY TipIsBest, Zenon DEF BestChain, Usable, Unfailed
<1> QED
  BY <1>1, BestInvInit, BestInvNext, PTL DEF Spec

(***************************************************************************)
(* No received block is forgotten: it waits in mapBlocksUnlinked for the   *)
(* missing ancestor, or is linked and no better than the tip or a          *)
(* candidate.                                                              *)
(***************************************************************************)
THEOREM NothingForgotten ==
    ASSUME OrdinaryUse
    PROVE  Spec => []NoBlockForgotten
<1>1. ASSUME BestInv PROVE NoBlockForgotten
  <2>1. AllQueued
    BY <1>1 DEF BestInv
  <2>2. ASSUME Settled, NEW b \in haveData, Chain[b] \cap failed = {}, Work[b] > Work[tip]
        PROVE  <<Parent[b], b>> \in mapBlocksUnlinked
    <3>1. CASE b \in linked
      <4>1. b \in Unfailed
        BY <2>2, <3>1, Zenon DEF Unfailed
      <4> QED
        BY <1>1, <2>2, <4>1, TipIsBest
    <3>2. CASE b \notin linked
      BY <2>1, <2>2, <3>2 DEF AllQueued
    <3> QED
      BY <3>1, <3>2
  <2> QED
    BY <2>1, <2>2, Zenon DEF NoBlockForgotten, AllQueued
<1> QED
  BY <1>1, BestInvInit, BestInvNext, PTL DEF Spec

----------------------------------------------------------------------------
(* Without pruning every active block can be disconnected. *)
Undoable == Chain[tip] \ {Genesis} \subseteq haveUndo

LEMMA UndoableInit == Init => Undoable
BY TreeAssumption, Zenon DEF Init, Undoable

LEMMA UndoableNext ==
    ASSUME ~PruneMode
    PROVE  IndInv /\ Undoable /\ [Next]_vars => Undoable'
<1> SUFFICES ASSUME IndInv, Undoable, [Next]_vars PROVE Undoable'
  OBVIOUS
<1> USE DEF Undoable
<1>a. tip \in Block /\ tip \in Chain[tip]
  BY ChainFacts, Zenon DEF IndInv, TypeOK
<1>b. ASSUME haveUndo' = haveUndo, tip' \in Chain[tip]
      PROVE  Undoable'
  BY <1>a, <1>b, ChainFacts, Zenon
<1>1. ASSUME NEW b \in Block \ {Genesis}, AcceptBlockHeader(b) \/ RefuseBlockHeader(b)
      PROVE  Undoable'
  BY <1>1, <1>a, <1>b, Zenon DEF AcceptBlockHeader, RefuseBlockHeader, index
<1>2. ASSUME NEW b \in Block \ {Genesis}, NEW fRequested \in BOOLEAN,
             AcceptBlock(b, fRequested)
      PROVE  Undoable'
  BY <1>2, <1>a, <1>b, Zenon DEF AcceptBlock
<1>3. ASSUME NEW b \in Block, PruneOneBlockFile(b)
      PROVE  FALSE
  BY <1>3, Zenon DEF PruneOneBlockFile
<1>4. ASSUME NEW b \in Block, InvalidateBlock(b)
      PROVE  Undoable'
  <2>1. tip' \in Chain[tip]
    BY <1>4, <1>a, ChainFacts, Zenon DEF InvalidateBlock
  <2> QED
    BY <1>4, <1>b, <2>1, Zenon DEF InvalidateBlock, index
<1>5. ASSUME NEW b \in Block, InvalidateBlockFails(b)
      PROVE  Undoable'
  BY <1>5, <1>b, Zenon DEF InvalidateBlockFails, StopsAt, index
<1>6. ASSUME NEW b \in Block, ResetBlockFailureFlags(b) \/ PreciousBlock(b)
      PROVE  Undoable'
  BY <1>6, <1>a, <1>b, Zenon DEF ResetBlockFailureFlags, PreciousBlock, index
<1>7. CASE ActivateBestChain \/ LockMain \/ FindMostWorkChain \/ DropCandidate
           \/ NothingToDo \/ InvalidBlockFound \/ Restart
  BY <1>7, <1>a, <1>b, Zenon
  DEF ActivateBestChain, LockMain, FindMostWorkChain, DropCandidate,
      NothingToDo, InvalidBlockFound, Restart, index
<1>8. CASE DisconnectToFork \/ DisconnectTipFails
  BY <1>8, <1>b, Zenon DEF DisconnectToFork, DisconnectTipFails, IsFork, StopsAt, index
<1>9. CASE ConnectTip
  <2>1. PICK b \in Block \ {Genesis} :
          Parent[b] = tip /\ tip' = b /\ haveUndo' = haveUndo \cup {b}
    BY <1>9, Zenon DEF ConnectTip, IsNext
  <2>2. Chain[b] = Chain[tip] \cup {b}
    BY <2>1, ChainFacts, Zenon
  <2> QED
    BY <2>1, <2>2, Zenon
<1>10. CASE UNCHANGED vars
  BY <1>10, <1>a, <1>b, Zenon DEF vars, index
<1> QED
  BY <1>1, <1>2, <1>3, <1>4, <1>5, <1>6, <1>7, <1>8, <1>9, <1>10, Zenon
  DEF Next, Activation

LEMMA DisconnectsAll ==
    ASSUME ShallowForks, ~PruneMode, BestInv, Undoable
    PROVE  ~DisconnectTipFails
<1> SUFFICES ASSUME DisconnectTipFails PROVE FALSE
  OBVIOUS
<1>1. PICK t \in Chain[tip] \ Chain[pindexMostWork] : ~CanDisconnect({t})
  BY Zenon DEF DisconnectTipFails, StopsAt
<1>2. pindexMostWork \in Block
  BY Zenon DEF DisconnectTipFails, BestInv, IndInv, TypeOK
<1>3. t \in haveUndo /\ haveUndo \subseteq haveData
  BY <1>1, <1>2, TreeAssumption, Zenon DEF Undoable, BestInv, Kept
<1> QED
  BY <1>1, <1>3 DEF CanDisconnect

(***************************************************************************)
(* A step that ends a round with a tip that is not worse than the one the  *)
(* round started from is seen as a switch to a better chain, or not at all.*)
(***************************************************************************)
LEMMA RoundSeen ==
    ASSUME DistinctWork, BestInv, BestInv', linked' = linked, starting_tip' = starting_tip,
           pc \in {"find", "step"},
           pc' \notin {"find", "step"} => Work[starting_tip] =< Work[tip']
    PROVE  FC!Next \/ UNCHANGED <<linked, VisibleTip>>
<1>1. starting_tip \in Block
  BY Zenon DEF BestInv, Anchored, Anchor
<1>2. tip' \in linked /\ tip' \in Block /\ Chain[tip'] \cap (BadCheck \cup BadConnect) = {}
  BY Zenon DEF BestInv, IndInv, TypeOK, Closed, NothingBad
<1>3. VisibleTip = starting_tip
  BY Zenon DEF VisibleTip
<1>4. CASE pc' \in {"find", "step"}
  BY <1>3, <1>4 DEF VisibleTip
<1>5. CASE pc' \notin {"find", "step"}
  <2>1. VisibleTip' = tip'
    BY <1>5 DEF VisibleTip
  <2>2. Work[starting_tip] \in Nat /\ Work[tip'] \in Nat
    BY <1>1, <1>2, WorkAssumption, Zenon
  <2>3. CASE Work[starting_tip] = Work[tip']
    BY <1>1, <1>2, <1>3, <2>1, <2>3, Zenon DEF DistinctWork
  <2>4. CASE Work[starting_tip] # Work[tip']
    <3>1. Work[tip'] > Work[starting_tip]
      BY <1>5, <2>2, <2>4
    <3>2. FC!Switch
      BY <1>2, <1>3, <2>1, <3>1, Zenon DEF FC!Switch
    <3> QED
      BY <3>2 DEF FC!Next
  <2> QED
    BY <2>3, <2>4
<1> QED
  BY <1>4, <1>5

(* A step that only links blocks is seen as their arrival. *)
LEMMA ArrivalSeen ==
    ASSUME IndInv, IndInv', linked \subseteq linked', VisibleTip' = VisibleTip
    PROVE  FC!Next
<1>1. linked' \in SUBSET Block /\ linked' = linked \cup linked'
  BY Zenon DEF IndInv, TypeOK
<1>2. \A b \in linked' : Chain[b] \subseteq linked \cup linked'
  BY Zenon DEF IndInv, Closed
<1> QED
  BY <1>1, <1>2, Zenon DEF FC!Next, FC!Receive

(* What ForkChoice does not allow: manual RPCs, and a pruned chain to leave. *)
Undisturbed == OrdinaryUse /\ ~PruneMode /\ RpcBlocks = {}

LEMMA SeenAsForkChoice ==
    ASSUME Undisturbed, BestInv, Undoable, [Next]_vars
    PROVE  FC!Next \/ UNCHANGED <<linked, VisibleTip>>
<1>a. BestInv' /\ IndInv /\ IndInv' /\ DistinctWork
  BY BestInvNext, Zenon DEF BestInv, Undisturbed, OrdinaryUse
<1>b. ASSUME pc \notin {"find", "step"}, pc' \notin {"find", "step"}, tip' = tip
      PROVE  VisibleTip' = VisibleTip
  BY <1>b DEF VisibleTip
<1>1. ASSUME NEW b \in Block \ {Genesis}, AcceptBlockHeader(b) \/ RefuseBlockHeader(b)
      PROVE  UNCHANGED <<linked, VisibleTip>>
  BY <1>1, Zenon DEF AcceptBlockHeader, RefuseBlockHeader, VisibleTip, index, abc
<1>2. ASSUME NEW b \in Block \ {Genesis}, NEW fRequested \in BOOLEAN,
             AcceptBlock(b, fRequested)
      PROVE  FC!Next
  <2>1. linked \subseteq linked'
    BY <1>2, <1>a, ChainFacts, SMTT(30)
    DEF AcceptBlock, ReceivedBlockTransactions, IndInv, Closed
  <2>2. VisibleTip' = VisibleTip
    BY <1>2, Zenon DEF AcceptBlock, VisibleTip, abc
  <2> QED
    BY <1>a, <2>1, <2>2, ArrivalSeen
<1>3. ASSUME NEW b \in Block,
             \/ PruneOneBlockFile(b) \/ InvalidateBlock(b) \/ InvalidateBlockFails(b)
             \/ ResetBlockFailureFlags(b) \/ PreciousBlock(b)
      PROVE  FALSE
  BY Zenon, <1>3 DEF Undisturbed, OrdinaryUse, PruneOneBlockFile, InvalidateBlock,
              InvalidateBlockFails, ResetBlockFailureFlags, PreciousBlock
<1>4. CASE ActivateBestChain
  BY <1>4, <1>b DEF ActivateBestChain, At, index
<1>5. CASE LockMain
  BY <1>5 DEF LockMain, At, VisibleTip, index
<1>6. CASE FindMostWorkChain \/ DropCandidate \/ DisconnectToFork
  BY <1>6, Zenon DEF FindMostWorkChain, DropCandidate, DisconnectToFork, At, VisibleTip, index, abc
<1>7. CASE NothingToDo
  <2>1. /\ linked' = linked /\ starting_tip' = starting_tip /\ tip' = tip
        /\ pc = "find"
        /\ setBlockIndexCandidates = {} \/ pindexMostWork = tip
    BY <1>7, Zenon DEF NothingToDo, At, index
  <2>2. setBlockIndexCandidates # {}
    BY DEF BestInv, Anchored, Anchor
  <2>3. tip # NoBlock
    BY <1>a, TreeAssumption DEF IndInv, TypeOK
  <2>4. Work[starting_tip] =< Work[tip']
    BY <2>1, <2>2, <2>3, Zenon DEF BestInv, Rounds
  <2> QED
    BY <1>a, <2>1, <2>4, RoundSeen
<1>8. CASE DisconnectTipFails
  BY <1>8, DisconnectsAll DEF Undisturbed, OrdinaryUse
<1>9. CASE ConnectTip
  <2>1. linked' = linked /\ starting_tip' = starting_tip /\ pc = "step"
    BY <1>9, Zenon DEF ConnectTip, At
  <2>2. pc' \notin {"find", "step"} => ~(Work[tip'] < Work[starting_tip])
    BY <1>9, <2>1, Zenon DEF ConnectTip, EndStep
  <2>3. Work[tip'] \in Nat /\ Work[starting_tip] \in Nat
    BY <1>a, <2>1, WorkAssumption, Zenon DEF BestInv, Anchored, Anchor, IndInv, TypeOK
  <2>4. pc' \notin {"find", "step"} => Work[starting_tip] =< Work[tip']
    BY <2>2, <2>3
  <2> QED
    BY <1>a, <2>1, <2>4, RoundSeen, Zenon
<1>10. CASE InvalidBlockFound
  <2>1. linked' = linked /\ starting_tip' = starting_tip /\ pc = "step" /\ tip' = tip
    BY <1>10, Zenon DEF InvalidBlockFound, At, index
  <2>2. pc' \notin {"find", "step"} => ~(Work[tip'] < Work[starting_tip])
    BY <1>10, <2>1, Zenon DEF InvalidBlockFound, EndStep
  <2>3. Work[tip'] \in Nat /\ Work[starting_tip] \in Nat
    BY <1>a, <2>1, WorkAssumption, Zenon DEF BestInv, Anchored, Anchor, IndInv, TypeOK
  <2>4. pc' \notin {"find", "step"} => Work[starting_tip] =< Work[tip']
    BY <2>2, <2>3
  <2> QED
    BY <1>a, <2>1, <2>4, RoundSeen, Zenon
<1>11. CASE Restart
  <2>1. linked \subseteq linked'
    BY <1>11, <1>a, Zenon DEF Restart, IndInv, TypeOK, Closed
  <2>2. VisibleTip' = VisibleTip
    BY <1>11, <1>b, Zenon DEF Restart
  <2> QED
    BY <1>a, <2>1, <2>2, ArrivalSeen
<1>12. CASE UNCHANGED vars
  BY <1>12, Zenon DEF vars, index, abc, VisibleTip
<1> QED
  BY <1>1, <1>2, <1>3, <1>4, <1>5, <1>6, <1>7, <1>8, <1>9, <1>10, <1>11, <1>12, Zenon
  DEF Next, Activation

(***************************************************************************)
(* Without pruning and manual RPCs, and for every tree of blocks of        *)
(* distinct work, those who take cs_main see ForkChoice: the active chain  *)
(* is only ever left for a valid chain with more work, through failed      *)
(* reorganisations and restarts.                                           *)
(***************************************************************************)
THEOREM ImplementsForkChoice ==
    ASSUME Undisturbed
    PROVE  Spec => RefinesForkChoice
<1>1. Init => FC!Init
  BY Zenon DEF Init, FC!Init, VisibleTip
<1>2. OrdinaryUse /\ ~PruneMode
  BY DEF Undisturbed
<1>3. BestInv => IndInv
  BY DEF BestInv
<1>4. BestInv /\ Undoable /\ [Next]_vars => [FC!Next]_<<linked, VisibleTip>>
  BY SeenAsForkChoice
<1> QED
  BY <1>1, <1>2, <1>3, <1>4, BestInvInit, BestInvNext, UndoableInit, UndoableNext, PTL
  DEF Spec, RefinesForkChoice, FC!Spec

=============================================================================
