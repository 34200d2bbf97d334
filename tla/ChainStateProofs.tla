-------------------------- MODULE ChainStateProofs --------------------------
(***************************************************************************)
(* Proofs about ChainState, for every block tree, every set of bad blocks  *)
(* and every choice of pruning, restarts and manual RPCs.                  *)
(***************************************************************************)
EXTENDS ChainState, FiniteSetTheorems, WellFoundedInduction, TLAPS

----------------------------------------------------------------------------
(* The tree *)

(* A block is on its own chain, and so are its ancestors' chains. *)
LEMMA ChainFacts ==
    /\ \A b \in Block : b \in Chain[b] /\ Chain[b] \subseteq Block
    /\ \A b \in Block : \A a \in Chain[b] : Chain[a] \subseteq Chain[b]
    /\ \A b \in Block \ {Genesis} : /\ Parent[b] \in Block
                                    /\ Parent[b] \in Chain[b]
                                    /\ b \notin Chain[Parent[b]]
                                    /\ Chain[b] = Chain[Parent[b]] \cup {b}
<1>1. \A b \in Block : b \in Chain[b] /\ Chain[b] \subseteq Block
  BY TreeAssumption
<1>2. \A b \in Block \ {Genesis} : Parent[b] \in Block
  BY TreeAssumption
<1> QED
  BY <1>1, <1>2, TreeAssumption

(* Two blocks are not above each other. *)
LEMMA ChainAntisymmetric ==
    ASSUME NEW b \in Block, NEW d \in Block, b \in Chain[d], d \in Chain[b]
    PROVE  b = d
<1>1. CASE d = Genesis
  BY <1>1, TreeAssumption
<1>2. CASE d # Genesis
  <2>1. Chain[d] = Chain[Parent[d]] \cup {d} /\ d \notin Chain[Parent[d]]
    BY <1>2, ChainFacts
  <2>2. Parent[d] \in Block
    BY <1>2, ChainFacts
  <2>3. b \in Chain[Parent[d]] => Chain[b] \subseteq Chain[Parent[d]]
    BY <2>2, ChainFacts
  <2> QED
    BY <2>1, <2>3
<1> QED
  BY <1>1, <1>2

(* The blocks of a chain are comparable. *)
LEMMA ChainLinear ==
    ASSUME NEW b \in Block, NEW a \in Chain[b], NEW c \in Chain[b]
    PROVE  a \in Chain[c] \/ c \in Chain[a]
BY TreeAssumption

(* The sets that an insertion can lead to hold nothing else. *)
LEMMA InsertBounds ==
    ASSUME NEW S, NEW D
    PROVE  /\ \A T \in InsertAny(S, D) : T \subseteq S \cup D
           /\ \A T \in InsertByHeight(S, D) : T \subseteq S \cup D
BY DEF InsertAny, InsertByHeight

LEMMA EraseBounds ==
    ASSUME NEW S, NEW D
    PROVE  Erase(S, D) \subseteq S
BY DEF Erase

----------------------------------------------------------------------------
(***************************************************************************)
(* The index and the linked blocks are closed under ancestors.  This is    *)
(* what makes the type invariant inductive: a block that is connected, or  *)
(* reached by disconnecting, lies on the chain of a linked one.            *)
(***************************************************************************)
Closed ==
    /\ \A b \in mapBlockIndex : Chain[b] \subseteq mapBlockIndex
    /\ \A b \in linked : Chain[b] \subseteq linked

(* While it connects, ActivateBestChainStep has a block to work towards. *)
HasTarget == pc = "step" => pindexMostWork \in linked

IndInv == TypeOK /\ Closed /\ HasTarget

LEMMA IndInit == Init => IndInv
BY Zenon, TreeAssumption DEF Init, IndInv, TypeOK, Closed, HasTarget

(* Blocks reached through mapBlocksUnlinked have been received, in order. *)
LEMMA NowLinkedFacts ==
    ASSUME IndInv, NEW b \in Block \ {Genesis}, Parent[b] \in linked
    PROVE  /\ b \in NowLinked(b)
           /\ NowLinked(b) \subseteq received \cup {b}
           /\ \A d \in NowLinked(b) : Chain[d] \subseteq linked \cup NowLinked(b)
<1>1. b \in NowLinked(b)
  BY ChainFacts DEF NowLinked
<1>2. ASSUME NEW d \in NowLinked(b), d # b
      PROVE  d \in received
  <2>1. d \in Chain[d] \ Chain[b]
    BY <1>2, ChainFacts, ChainAntisymmetric DEF NowLinked
  <2>2. <<Parent[d], d>> \in mapBlocksUnlinked
    BY <2>1 DEF NowLinked
  <2> QED
    BY <2>2 DEF IndInv, TypeOK, Waiting
<1>3. ASSUME NEW d \in NowLinked(b), NEW x \in Chain[d]
      PROVE  x \in linked \cup NowLinked(b)
  <2>1. x \in Block /\ d \in Block /\ b \in Chain[d]
    BY ChainFacts DEF NowLinked
  <2>2. CASE x \in Chain[b]
    <3>1. x = b \/ x \in Chain[Parent[b]]
      BY <2>2, ChainFacts
    <3>2. Chain[Parent[b]] \subseteq linked
      BY DEF IndInv, Closed
    <3> QED
      BY <3>1, <3>2, <1>1
  <2>3. CASE b \in Chain[x]
    <3>1. Chain[x] \subseteq Chain[d]
      BY <2>1, ChainFacts
    <3> QED
      BY <2>1, <2>3, <3>1 DEF NowLinked
  <2> QED
    BY <2>1, <2>2, <2>3, ChainLinear
<1> QED
  BY <1>1, <1>2, <1>3

LEMMA AcceptBlockInd ==
    ASSUME IndInv, NEW b \in Block \ {Genesis}, NEW fRequested \in BOOLEAN,
           AcceptBlock(b, fRequested)
    PROVE  IndInv'
<1> USE DEF IndInv
<1>2. Parent[b] \in mapBlockIndex
  BY ChainFacts DEF AcceptBlock, WillProcess, HeaderAccepted, TypeOK, Closed
<1>3. \A d \in mapBlockIndex' : Chain[d] \subseteq mapBlockIndex'
  BY <1>2, ChainFacts DEF AcceptBlock, Closed
<1>4. CASE b \in BadCheck
  BY <1>3, <1>4 DEF AcceptBlock, TypeOK, Closed, HasTarget, sets, abc, Waiting
<1>5. CASE b \notin BadCheck /\ Parent[b] \in linked
  <2>1. /\ linked' = linked \cup NowLinked(b)
        /\ setBlockIndexCandidates' \subseteq linked'
        /\ mapBlocksUnlinked' \subseteq mapBlocksUnlinked
    BY <1>5, InsertBounds DEF AcceptBlock, ReceivedBlockTransactions, TypeOK
  <2>2. linked' \subseteq received' /\ \A d \in linked' : Chain[d] \subseteq linked'
    BY Zenon, <1>5, <2>1, NowLinkedFacts DEF AcceptBlock, TypeOK, Closed
  <2>3. mapBlocksUnlinked' \in SUBSET Waiting(received' \ {Genesis})
    BY <1>5, <2>1 DEF AcceptBlock, TypeOK, Waiting
  <2>4. linked \subseteq linked' /\ received' = received \cup {b} /\ b \in mapBlockIndex'
    BY <1>5, <2>1 DEF AcceptBlock
  <2>5. TypeOK'
    BY Zenon, <1>5, <2>1, <2>2, <2>3, <2>4 DEF AcceptBlock, TypeOK, abc, Waiting
  <2> QED
    BY Zenon, <1>3, <1>5, <2>2, <2>4, <2>5 DEF AcceptBlock, Closed, HasTarget, abc
<1>6. CASE b \notin BadCheck /\ Parent[b] \notin linked
  <2>1. b \notin linked
    BY <1>6, ChainFacts DEF Closed
  <2>2. /\ linked' = linked
        /\ setBlockIndexCandidates' = setBlockIndexCandidates
        /\ mapBlocksUnlinked' \subseteq mapBlocksUnlinked \cup {<<Parent[b], b>>}
    BY <1>6, <2>1 DEF AcceptBlock, ReceivedBlockTransactions
  <2>3. mapBlocksUnlinked' \in SUBSET Waiting(received' \ {Genesis})
    BY <1>6, <2>2 DEF AcceptBlock, TypeOK, Waiting
  <2> QED
    BY Zenon, <1>3, <1>6, <2>2, <2>3 DEF AcceptBlock, TypeOK, Closed, HasTarget, abc, Waiting
<1> QED
  BY <1>4, <1>5, <1>6

(* Every step keeps the index typed and closed. *)
LEMMA IndNext == IndInv /\ [Next]_vars => IndInv'
<1> SUFFICES ASSUME IndInv, [Next]_vars PROVE IndInv'
  OBVIOUS
<1> USE DEF IndInv
<1>1. ASSUME NEW b \in Block \ {Genesis}, AcceptBlockHeader(b)
      PROVE  IndInv'
  <2>1. Parent[b] \in mapBlockIndex
    BY <1>1, Zenon DEF AcceptBlockHeader, HeaderAccepted
  <2>2. \A d \in mapBlockIndex' : Chain[d] \subseteq mapBlockIndex'
    BY <1>1, <2>1, ChainFacts DEF AcceptBlockHeader, Closed
  <2> QED
    BY <1>1, <2>2, Zenon DEF AcceptBlockHeader, TypeOK, Closed, HasTarget, failures, sets, abc, Waiting
<1>2. ASSUME NEW b \in Block \ {Genesis}, RefuseBlockHeader(b)
      PROVE  IndInv'
  <2>1. failedChild' \subseteq mapBlockIndex
    BY <1>2 DEF RefuseBlockHeader, TypeOK, Closed
  <2> QED
    BY <1>2, <2>1 DEF RefuseBlockHeader, TypeOK, Closed, HasTarget, index, sets, abc, Waiting
<1>3. ASSUME NEW b \in Block \ {Genesis}, NEW fRequested \in BOOLEAN,
             AcceptBlock(b, fRequested)
      PROVE  IndInv'
  BY <1>3, AcceptBlockInd
<1>4. ASSUME NEW b \in Block, PruneOneBlockFile(b)
      PROVE  IndInv'
  BY <1>4 DEF PruneOneBlockFile, TypeOK, Closed, HasTarget, failures, abc, Waiting
<1>5. ASSUME NEW b \in Block, InvalidateBlock(b)
      PROVE  IndInv'
  <2>1. Chain[tip] \subseteq linked
    BY <1>5 DEF TypeOK, Closed
  <2>2. tip' \in linked
    BY <1>5, <2>1, ChainFacts, ZenonT(30) DEF InvalidateBlock, TypeOK
  <2>3. failedChild' \subseteq mapBlockIndex
    BY <1>5, <2>1, Zenon DEF InvalidateBlock, TypeOK
  <2>4. setBlockIndexCandidates' \subseteq linked
    BY <1>5, InsertBounds, EraseBounds DEF InvalidateBlock, Readmitted, TypeOK
  <2> QED
    BY <1>5, <2>2, <2>3, <2>4, Zenon
    DEF InvalidateBlock, TypeOK, Closed, HasTarget, index, abc, Waiting
<1>6. ASSUME NEW b \in Block, InvalidateBlockFails(b)
      PROVE  IndInv'
  <2>1. tip' \in linked
    BY <1>6 DEF InvalidateBlockFails, StopsAt, TypeOK, Closed
  <2>2. node' \in {"up", "shutdown", "assert"} /\ pending' \in BOOLEAN
    BY <1>6 DEF InvalidateBlockFails, TypeOK
  <2> QED
    BY <1>6, <2>1, <2>2
    DEF InvalidateBlockFails, TypeOK, Closed, HasTarget, index, failures, sets, abc, Waiting
<1>7. ASSUME NEW b \in Block, ResetBlockFailureFlags(b)
      PROVE  IndInv'
  <2>1. setBlockIndexCandidates' \subseteq linked
    BY <1>7, InsertBounds DEF ResetBlockFailureFlags, TypeOK
  <2> QED
    BY <1>7, <2>1
    DEF ResetBlockFailureFlags, StillFailed, TypeOK, Closed, HasTarget, index, abc, Waiting
<1>8. ASSUME NEW b \in Block, PreciousBlock(b)
      PROVE  IndInv'
  <2>1. setBlockIndexCandidates' \subseteq linked
    BY <1>8, EraseBounds, Zenon DEF PreciousBlock, PruneBlockIndexCandidates, TypeOK
  <2> QED
    BY Zenon, <1>8, <2>1 DEF PreciousBlock, TypeOK, Closed, HasTarget, index, failures, abc, Waiting
<1>9. ASSUME ActivateBestChain PROVE IndInv'
  BY Zenon, <1>9 DEF ActivateBestChain, TypeOK, Closed, HasTarget, index, failures, sets, Waiting
<1>10. ASSUME LockMain PROVE IndInv'
  BY Zenon, <1>10 DEF LockMain, TypeOK, Closed, HasTarget, index, failures, sets, Waiting
<1>11. ASSUME FindMostWorkChain PROVE IndInv'
  BY <1>11 DEF FindMostWorkChain, Best, TypeOK, Closed, HasTarget, index, failures, sets, Waiting
<1>12. ASSUME DropCandidate PROVE IndInv'
  <2>0. PICK p \in Best(setBlockIndexCandidates) : \E t \in Unusable(p) :
          LET above == Chain[p] \ Chain[t] IN
          /\ setBlockIndexCandidates' \subseteq setBlockIndexCandidates
          /\ failedChild' \subseteq failedChild \cup above
          /\ mapBlocksUnlinked' \subseteq mapBlocksUnlinked \cup Waiting(above)
    BY Zenon, <1>12, EraseBounds DEF DropCandidate
  <2>1. PICK t \in Unusable(p) :
          /\ setBlockIndexCandidates' \subseteq setBlockIndexCandidates
          /\ failedChild' \subseteq failedChild \cup (Chain[p] \ Chain[t])
          /\ mapBlocksUnlinked' \subseteq
                mapBlocksUnlinked \cup Waiting(Chain[p] \ Chain[t])
    BY Zenon, <2>0
  <2>2. Chain[p] \subseteq linked /\ Genesis \in Chain[t]
    BY <2>1, ChainFacts, TreeAssumption, Zenon DEF Best, Unusable, TypeOK, Closed
  <2>3. Waiting(Chain[p] \ Chain[t]) \subseteq Waiting(received \ {Genesis})
    BY <2>2, Zenon DEF Waiting, TypeOK
  <2>4. mapBlocksUnlinked' \in SUBSET Waiting(received \ {Genesis})
    BY Zenon, <2>1, <2>3 DEF TypeOK
  <2> QED
    BY Zenon, <1>12, <2>1, <2>2, <2>4 DEF DropCandidate, TypeOK, Closed, HasTarget, index, abc, Waiting
<1>13. ASSUME NothingToDo PROVE IndInv'
  BY <1>13
  DEF NothingToDo, EndRound, TypeOK, Closed, HasTarget, index, failures, sets, Waiting
<1>14. ASSUME DisconnectToFork PROVE IndInv'
  <2>1. tip' \in linked
    BY <1>14, Zenon DEF DisconnectToFork, IsFork, TypeOK, Closed
  <2> QED
    BY <1>14, <2>1
    DEF DisconnectToFork, TypeOK, Closed, HasTarget, index, failures, sets, Waiting
<1>15. ASSUME DisconnectTipFails PROVE IndInv'
  <2>1. tip' \in linked /\ node' \in {"up", "shutdown", "assert"}
    BY <1>15, Zenon DEF DisconnectTipFails, StopsAt, TypeOK, Closed
  <2> QED
    BY <1>15, <2>1, Zenon
    DEF DisconnectTipFails, TypeOK, Closed, HasTarget, index, failures, sets, Waiting
<1>16. ASSUME ConnectTip PROVE IndInv'
  <2>1. PICK b \in Block :
          /\ IsNext(b, tip, pindexMostWork)
          /\ b \in haveData
          /\ tip' = b
          /\ haveUndo' = haveUndo \cup {b}
          /\ scripts' = scripts \cup ({b} \ failed)
          /\ setBlockIndexCandidates' \subseteq setBlockIndexCandidates
          /\ node' \in {"assert", node}
          /\ pindexNewTip' \in {pindexNewTip, b}
          /\ pc' \in {"idle", "unlocked", "find", pc}
    BY <1>16 DEF ConnectTip, EndStep, EndRound, PruneBlockIndexCandidates
  <2>2. b \in linked
    BY <1>16, <2>1, Zenon DEF ConnectTip, At, IsNext, Closed, HasTarget
  <2>3. Closed' /\ HasTarget'
    BY <1>16, <2>1, ZenonT(30) DEF ConnectTip, Closed, HasTarget
  <2>4. b \in received
    BY <2>2, Zenon DEF TypeOK
  <2>5. TypeOK'
    BY <1>16, <2>1, <2>2, <2>4, SMTT(30) DEF ConnectTip, TypeOK, failures, Waiting
  <2> QED
    BY <2>3, <2>5, Zenon
<1>17. ASSUME InvalidBlockFound PROVE IndInv'
  <2>1. PICK b \in haveData :
          /\ failedValid' = failedValid \cup {b}
          /\ m_failed_blocks' = m_failed_blocks \cup {b}
          /\ setBlockIndexCandidates' \subseteq setBlockIndexCandidates
    BY <1>17, EraseBounds DEF InvalidBlockFound
  <2>2. pc' \in {"idle", "unlocked", "find"}
    BY <1>17 DEF InvalidBlockFound, EndStep, EndRound
  <2> QED
    BY Zenon, <1>17, <2>1, <2>2
    DEF InvalidBlockFound, TypeOK, Closed, HasTarget, index, Waiting
<1>18. ASSUME Restart PROVE IndInv'
  <2>1. linked \subseteq linked' /\ linked' \subseteq received
    BY <1>18, Zenon DEF Restart, TypeOK, Closed
  <2>2. \A b \in linked' : Chain[b] \subseteq linked'
    BY <1>18, ChainFacts, Zenon DEF Restart, TypeOK
  <2>3. Genesis \in linked'
    BY <2>1, TreeAssumption DEF TypeOK, Closed
  <2>4. mapBlocksUnlinked' \in SUBSET Waiting(received \ {Genesis})
    BY <1>18, <2>3, Zenon DEF Restart, Waiting
  <2>5. setBlockIndexCandidates' \subseteq linked'
    BY <1>18, InsertBounds DEF Restart, PruneBlockIndexCandidates
  <2> QED
    BY <1>18, <2>1, <2>2, <2>4, <2>5, Zenon
    DEF Restart, TypeOK, Closed, HasTarget, Waiting
<1>19. ASSUME UNCHANGED vars PROVE IndInv'
  BY <1>19, Zenon
  DEF vars, index, failures, sets, abc, TypeOK, Closed, HasTarget, Waiting
<1> QED
  BY Zenon, <1>1, <1>2, <1>3, <1>4, <1>5, <1>6, <1>7, <1>8, <1>9, <1>10, <1>11, <1>12,
     <1>13, <1>14, <1>15, <1>16, <1>17, <1>18, <1>19
  DEF Next, Activation

----------------------------------------------------------------------------
(***************************************************************************)
(* The type invariant holds.  Among other things the candidates are linked *)
(* blocks, everything in mapBlocksUnlinked was received, and what the      *)
(* locals of ActivateBestChain point to stays linked over a release of     *)
(* cs_main.                                                                *)
(***************************************************************************)
THEOREM TypeCorrect == Spec => []TypeOK
<1>1. IndInv => TypeOK
  BY DEF IndInv
<1> QED
  BY <1>1, IndInit, IndNext, PTL DEF Spec

(* FindMostWorkChain's assertion on nChainTx never fails. *)
THEOREM CandidatesReady == Spec => []CandidateReady
<1>1. IndInv => CandidateReady
  BY DEF IndInv, TypeOK, Closed, CandidateReady
<1> QED
  BY <1>1, IndInit, IndNext, PTL DEF Spec

----------------------------------------------------------------------------
(***************************************************************************)
(* What the failure flags have to do with the blocks, whenever the manual  *)
(* RPCs run: a block of m_failed_blocks carries the flag, a block that     *)
(* fails AcceptBlock's checks is never stored, and one that fails          *)
(* ConnectBlock is never active.                                           *)
(***************************************************************************)
NothingBad ==
    /\ FailedBlocksMarked
    /\ received \cap BadCheck = {}
    /\ Chain[tip] \cap BadConnect = {}

LEMMA NothingBadInit == Init => NothingBad
BY TreeAssumption, ChainStateAssumption DEF Init, NothingBad, FailedBlocksMarked

(* A part of the active chain that is left does not change what is below. *)
LEMMA ShorterChain ==
    ASSUME IndInv, NEW t \in Chain[tip]
    PROVE  Chain[t] \subseteq Chain[tip]
BY ChainFacts DEF IndInv, TypeOK

LEMMA NothingBadNext == IndInv /\ NothingBad /\ [Next]_vars => NothingBad'
<1> SUFFICES ASSUME IndInv, NothingBad, [Next]_vars PROVE NothingBad'
  OBVIOUS
<1> USE DEF NothingBad, FailedBlocksMarked
<1>1. ASSUME NEW b \in Block \ {Genesis}, AcceptBlockHeader(b)
      PROVE  NothingBad'
  BY <1>1 DEF AcceptBlockHeader, failures
<1>2. ASSUME NEW b \in Block \ {Genesis}, RefuseBlockHeader(b)
      PROVE  NothingBad'
  BY <1>2 DEF RefuseBlockHeader, index
<1>3. ASSUME NEW b \in Block \ {Genesis}, NEW fRequested \in BOOLEAN,
             AcceptBlock(b, fRequested)
      PROVE  NothingBad'
  BY <1>3 DEF AcceptBlock
<1>4. ASSUME NEW b \in Block, PruneOneBlockFile(b)
      PROVE  NothingBad'
  BY <1>4, Zenon DEF PruneOneBlockFile, failures
<1>5. ASSUME NEW b \in Block, InvalidateBlock(b)
      PROVE  NothingBad'
  <2>1. tip' \in Chain[tip]
    BY <1>5, ChainFacts, Zenon DEF InvalidateBlock, IndInv, TypeOK
  <2> QED
    BY <1>5, <2>1, ShorterChain, Zenon DEF InvalidateBlock, index
<1>6. ASSUME NEW b \in Block, InvalidateBlockFails(b)
      PROVE  NothingBad'
  BY <1>6, ShorterChain, Zenon DEF InvalidateBlockFails, StopsAt, index, failures
<1>7. ASSUME NEW b \in Block, ResetBlockFailureFlags(b)
      PROVE  NothingBad'
  BY <1>7 DEF ResetBlockFailureFlags, StillFailed, failed, index
<1>8. ASSUME NEW b \in Block, PreciousBlock(b)
      PROVE  NothingBad'
  BY <1>8, Zenon DEF PreciousBlock, index, failures
<1>9. CASE ActivateBestChain \/ LockMain \/ FindMostWorkChain \/ NothingToDo
  BY Zenon, <1>9 DEF ActivateBestChain, LockMain, FindMostWorkChain, NothingToDo,
              index, failures
<1>10. CASE DropCandidate
  BY <1>10, Zenon DEF DropCandidate, index
<1>11. CASE DisconnectToFork \/ DisconnectTipFails
  BY Zenon, <1>11, ShorterChain
  DEF DisconnectToFork, DisconnectTipFails, IsFork, StopsAt, index, failures
<1>12. CASE ConnectTip
  <2>1. PICK b \in Block \ {Genesis} : b \notin BadConnect /\ tip' = b /\ Parent[b] = tip
    BY <1>12, ChainFacts, Zenon DEF ConnectTip, IsNext, IndInv, TypeOK
  <2>2. Chain[b] = Chain[tip] \cup {b}
    BY <2>1, ChainFacts
  <2> QED
    BY <1>12, <2>1, <2>2, Zenon DEF ConnectTip, failures
<1>13. CASE InvalidBlockFound
  BY <1>13, Zenon DEF InvalidBlockFound, index
<1>14. CASE Restart
  BY <1>14, Zenon DEF Restart
<1>15. CASE UNCHANGED vars
  BY <1>15, Zenon DEF vars, index, failures
<1> QED
  BY Zenon, <1>1, <1>2, <1>3, <1>4, <1>5, <1>6, <1>7, <1>8, <1>9, <1>10, <1>11, <1>12,
     <1>13, <1>14, <1>15
  DEF Next, Activation

(***************************************************************************)
(* AcceptBlockHeader's assertion on m_failed_blocks never fails, also when *)
(* the manual RPCs run between two rounds of activation.                   *)
(***************************************************************************)
THEOREM FailedMarked == Spec => []FailedBlocksMarked
<1>1. NothingBad => FailedBlocksMarked
  BY DEF NothingBad
<1> QED
  BY <1>1, IndInit, IndNext, NothingBadInit, NothingBadNext, PTL DEF Spec

----------------------------------------------------------------------------
(***************************************************************************)
(* When the manual RPCs wait for the end of an activation, neither the     *)
(* active chain nor the chain that activation works towards ever has a     *)
(* failed block: the flags that other calls set in between lie above a     *)
(* block that had failed before.                                           *)
(***************************************************************************)
Clean ==
    /\ ActiveChainNotFailed
    /\ Chain[tip] \subseteq scripts
    /\ pc # "idle" /\ pindexMostWork # NoBlock => Chain[pindexMostWork] \cap failed = {}

LEMMA CleanInit == Init => Clean
BY TreeAssumption DEF Init, Clean, ActiveChainNotFailed, failed

(***************************************************************************)
(* A chain of linked blocks without a failed one has no block above a      *)
(* failed one, so it stays so when the blocks above a failed one are marked.*)
(***************************************************************************)
LEMMA MarkingAbove ==
    ASSUME IndInv, NEW c \in linked, Chain[c] \cap failed = {},
           NEW f \in failed, NEW d \in Chain[c]
    PROVE  f \notin Chain[d]
BY ChainFacts, Zenon DEF IndInv, TypeOK

LEMMA CleanNext ==
    ASSUME ~RpcDuringActivation
    PROVE  IndInv /\ NothingBad /\ Clean /\ [Next]_vars => Clean'
<1> SUFFICES ASSUME IndInv, NothingBad, Clean, [Next]_vars PROVE Clean'
  OBVIOUS
<1> USE DEF Clean, ActiveChainNotFailed
<1>a. /\ tip \in linked /\ linked \subseteq Block
      /\ pindexMostWork # NoBlock => pindexMostWork \in linked
  BY Zenon DEF IndInv, TypeOK
<1>1. ASSUME NEW b \in Block \ {Genesis}, AcceptBlockHeader(b)
      PROVE  Clean'
  BY <1>1, Zenon DEF AcceptBlockHeader, failures, failed, abc
<1>2. ASSUME NEW b \in Block \ {Genesis}, RefuseBlockHeader(b)
      PROVE  Clean'
  <2>1. PICK f \in m_failed_blocks \cap Chain[Parent[b]] :
          failedChild' = failedChild \cup (Chain[Parent[b]] \ Chain[f])
    BY <1>2, Zenon DEF RefuseBlockHeader
  <2>2. f \in failed /\ f \in Block
    BY DEF NothingBad, FailedBlocksMarked, failed, IndInv, TypeOK
  <2>3. \A d \in Chain[Parent[b]] \ Chain[f] : f \in Chain[d]
    BY ChainFacts, ChainLinear
  <2>4. \A c \in linked : Chain[c] \cap failed = {}
                           => Chain[c] \cap (Chain[Parent[b]] \ Chain[f]) = {}
    BY <2>2, <2>3, MarkingAbove, Zenon
  <2>5. failed' = failed \cup (Chain[Parent[b]] \ Chain[f])
    BY <1>2, <2>1 DEF RefuseBlockHeader, failed
  <2> QED
    BY <1>2, <1>a, <2>4, <2>5, Zenon DEF RefuseBlockHeader, index, abc
<1>3. ASSUME NEW b \in Block \ {Genesis}, NEW fRequested \in BOOLEAN,
             AcceptBlock(b, fRequested)
      PROVE  Clean'
  <2>1. failed' = failed \/ (failed' = failed \cup {b} /\ b \in BadCheck)
    BY <1>3, Zenon DEF AcceptBlock, failed
  <2>2. \A c \in linked : Chain[c] \cap BadCheck = {}
    BY DEF NothingBad, IndInv, TypeOK, Closed
  <2> QED
    BY <1>3, <1>a, <2>1, <2>2, Zenon DEF AcceptBlock, abc
<1>4. ASSUME NEW b \in Block, PruneOneBlockFile(b)
      PROVE  Clean'
  BY <1>4, Zenon DEF PruneOneBlockFile, failures, failed, abc
<1>5. ASSUME NEW b \in Block, InvalidateBlock(b)
      PROVE  Clean'
  <2>1. pc' = "idle"
    BY <1>5, Zenon DEF InvalidateBlock, RpcMayRun, abc
  <2>2. CASE b \in Chain[tip]
    <3>1. tip' = Parent[b] /\ tip' \in Chain[tip] /\ b \notin Chain[tip']
      BY <1>5, <1>a, <2>2, ChainFacts, Zenon DEF InvalidateBlock
    <3>2. failed' = failed \cup (Chain[tip] \ Chain[b]) \cup {b}
      BY <1>5, <2>2, Zenon DEF InvalidateBlock, failed
    <3>3. Chain[tip'] \subseteq Chain[tip] /\ Chain[tip'] \subseteq Chain[b]
      BY <1>5, <3>1, ShorterChain, ChainFacts, Zenon DEF InvalidateBlock
    <3> QED
      BY <1>5, <2>1, <3>1, <3>2, <3>3, Zenon DEF InvalidateBlock, index
  <2>3. CASE b \notin Chain[tip]
    BY <1>5, <2>1, <2>3, Zenon DEF InvalidateBlock, failed, index
  <2> QED
    BY <2>2, <2>3, Zenon
<1>6. ASSUME NEW b \in Block, InvalidateBlockFails(b)
      PROVE  Clean'
  BY <1>6, ShorterChain, Zenon
  DEF InvalidateBlockFails, RpcMayRun, StopsAt, index, failures, failed, abc
<1>7. ASSUME NEW b \in Block, ResetBlockFailureFlags(b)
      PROVE  Clean'
  BY <1>7, Zenon DEF ResetBlockFailureFlags, RpcMayRun, failed, index, abc
<1>8. ASSUME NEW b \in Block, PreciousBlock(b)
      PROVE  Clean'
  BY <1>8, Zenon DEF PreciousBlock, index, failures, failed, abc
<1>9. CASE ActivateBestChain \/ LockMain \/ NothingToDo
  BY Zenon, <1>9 DEF ActivateBestChain, LockMain, NothingToDo, EndRound, At, index,
              failures, failed
<1>10. CASE FindMostWorkChain
  <2>1. pindexMostWork' \in Block /\ Unusable(pindexMostWork') = {}
    BY <1>10, Zenon DEF FindMostWorkChain, Best, IndInv, TypeOK
  <2>2. Chain[pindexMostWork'] \cap failed = {}
    BY <2>1 DEF Unusable
  <2> QED
    BY <1>10, <2>2, Zenon DEF FindMostWorkChain, index, failures, failed
<1>11. CASE DropCandidate
  <2>1. PICK p \in Best(setBlockIndexCandidates) : \E t \in Unusable(p) :
          \/ failedChild' = failedChild
          \/ t \in failed /\ failedChild' = failedChild \cup (Chain[p] \ Chain[t])
    BY <1>11, Zenon DEF DropCandidate
  <2>2. PICK t \in Unusable(p) :
          \/ failedChild' = failedChild
          \/ t \in failed /\ failedChild' = failedChild \cup (Chain[p] \ Chain[t])
    BY <2>1
  <2>3. p \in Block /\ t \in Chain[p]
    BY Zenon DEF Best, Unusable, IndInv, TypeOK
  <2>4. \A d \in Chain[p] \ Chain[t] : t \in Chain[d]
    BY <2>3, ChainLinear, Zenon
  <2>5. Chain[tip] \cap failed' = {}
    <3>1. CASE failedChild' = failedChild
      BY <1>11, <3>1, Zenon DEF DropCandidate, failed
    <3>2. CASE t \in failed /\ failedChild' = failedChild \cup (Chain[p] \ Chain[t])
      <4>1. Chain[tip] \cap (Chain[p] \ Chain[t]) = {}
        BY <1>a, <2>4, <3>2, MarkingAbove, Zenon
      <4>2. failed' = failed \cup (Chain[p] \ Chain[t])
        BY <1>11, <3>2, Zenon DEF DropCandidate, failed
      <4> QED
        BY <4>1, <4>2, Zenon
    <3> QED
      BY <2>2, <3>1, <3>2
  <2> QED
    BY <1>11, <2>5, Zenon DEF DropCandidate, At, index, abc
<1>12. CASE DisconnectToFork \/ DisconnectTipFails
  BY Zenon, <1>12, ShorterChain
  DEF DisconnectToFork, DisconnectTipFails, At, IsFork, StopsAt, index, failures, failed
<1>13. CASE ConnectTip
  <2>1. PICK b \in Block \ {Genesis} :
          /\ tip' = b /\ Parent[b] = tip /\ b \in Chain[pindexMostWork]
          /\ scripts' = scripts \cup ({b} \ failed)
    BY <1>13, <1>a, Zenon DEF ConnectTip, IsNext
  <2>2. Chain[b] = Chain[tip] \cup {b}
    BY <2>1, ChainFacts, Zenon
  <2>3. pc = "step"
    BY <1>13, Zenon DEF ConnectTip, At
  <2>4. pindexMostWork # NoBlock
    BY <1>a, <2>3, TreeAssumption DEF IndInv, HasTarget
  <2>5. Chain[pindexMostWork] \cap failed = {}
    BY <2>3, <2>4
  <2> QED
    BY <1>13, <2>1, <2>2, <2>5, Zenon DEF ConnectTip, failures, failed
<1>14. CASE InvalidBlockFound
  <2>1. PICK b \in BadConnect : failed' = failed \cup {b}
    BY <1>14, Zenon DEF InvalidBlockFound, failed
  <2> QED
    BY <1>14, <2>1, Zenon DEF InvalidBlockFound, index, NothingBad
<1>15. CASE Restart
  <2>1. Chain[tip] \cap failed' = {}
    BY <1>15, <1>a, ChainFacts DEF Restart, failed
  <2> QED
    BY <1>15, <2>1, Zenon DEF Restart
<1>16. CASE UNCHANGED vars
  BY <1>16, Zenon DEF vars, index, failures, failed, abc
<1> QED
  BY Zenon, <1>1, <1>2, <1>3, <1>4, <1>5, <1>6, <1>7, <1>8, <1>9, <1>10, <1>11, <1>12,
     <1>13, <1>14, <1>15, <1>16
  DEF Next, Activation

(***************************************************************************)
(* No active block is ever marked as failed, if the manual RPCs wait for   *)
(* the end of an activation.  (Without that condition a block invalidated  *)
(* between two rounds is connected by the next one.)                       *)
(***************************************************************************)
THEOREM ActiveNotFailed ==
    ASSUME ~RpcDuringActivation
    PROVE  Spec => []ActiveChainNotFailed
<1>1. Clean => ActiveChainNotFailed
  BY DEF Clean
<1> QED
  BY <1>1, IndInit, IndNext, NothingBadInit, NothingBadNext, CleanInit, CleanNext,
     PTL DEF Spec

(***************************************************************************)
(* Under the same condition every active block has passed AcceptBlock's    *)
(* checks and ConnectBlock, and is marked with BLOCK_VALID_SCRIPTS.        *)
(***************************************************************************)
THEOREM ActiveValidated ==
    ASSUME ~RpcDuringActivation
    PROVE  Spec => []ActiveChainValidated
<1>1. IndInv /\ NothingBad /\ Clean => ActiveChainValidated
  BY DEF Clean, NothingBad, ActiveChainValidated, IndInv, TypeOK, Closed
<1> QED
  BY <1>1, IndInit, IndNext, NothingBadInit, NothingBadNext, CleanInit, CleanNext,
     PTL DEF Spec

----------------------------------------------------------------------------
(* Work and height along a chain *)

(* A chain with a descendant of less work would have a shortest one. *)
LEMMA WorkGrows ==
    ASSUME NEW b \in Block, NEW a \in Chain[b]
    PROVE  /\ Work[a] \in Nat /\ Work[b] \in Nat
           /\ Work[a] =< Work[b]
<1> DEFINE Odd == {x \in Block : \E y \in Chain[x] : ~(Work[y] =< Work[x])}
           Chains == {Chain[x] : x \in Odd}
<1>1. ASSUME NEW x \in Odd PROVE FALSE
  <2>1. Chains \subseteq FiniteSubsetsOf(Block) /\ Chains # {}
    <3>1. \A y \in Block : IsFiniteSet(Chain[y]) /\ Chain[y] \subseteq Block
      BY FS_Subset, TreeAssumption, Zenon
    <3>2. \A y \in Block : Chain[y] \in FiniteSubsetsOf(Block)
      BY <3>1 DEF FiniteSubsetsOf
    <3> QED
      BY <3>2
  <2>2. IsWellFoundedOn(StrictSubsetOrdering(Block), FiniteSubsetsOf(Block))
    BY FS_StrictSubsetOrderingWellFounded
  <2>3. PICK C \in Chains : \A D \in Chains : ~(<<D, C>> \in StrictSubsetOrdering(Block))
    <3> HIDE DEF Chains
    <3> QED
      BY <2>1, <2>2, WFMin, Zenon
  <2>4. PICK m \in Odd : C = Chain[m]
    OBVIOUS
  <2>5. m # Genesis
    BY TreeAssumption, WorkAssumption
  <2>6. /\ Parent[m] \in Block /\ Chain[m] = Chain[Parent[m]] \cup {m}
        /\ m \notin Chain[Parent[m]]
    BY <2>5, ChainFacts, Zenon
  <2>7. <<Chain[Parent[m]], Chain[m]>> \in StrictSubsetOrdering(Block)
    BY <2>6, ChainFacts, Zenon DEF StrictSubsetOrdering
  <2>8. Parent[m] \notin Odd
    BY <2>3, <2>4, <2>7, Zenon
  <2>9. \A y \in Chain[Parent[m]] : Work[y] =< Work[Parent[m]]
    BY <2>6, <2>8, Zenon
  <2>10. Work[Parent[m]] < Work[m] /\ Work \in [Block -> Nat]
    BY <2>5, WorkAssumption
  <2>11. \A y \in Chain[m] : y \in Block
    BY ChainFacts
  <2>12. PICK y \in Chain[m] : ~(Work[y] =< Work[m])
    OBVIOUS
  <2>13. CASE y = m
    BY <2>10, <2>12, <2>13
  <2>14. CASE y \in Chain[Parent[m]]
    <3>1. Work[y] \in Nat /\ Work[Parent[m]] \in Nat /\ Work[m] \in Nat
      BY <2>6, <2>10, <2>11
    <3>2. Work[y] =< Work[Parent[m]] /\ Work[Parent[m]] < Work[m]
      BY <2>9, <2>10, <2>14
    <3> HIDE DEF Odd, Chains
    <3> QED
      BY ONLY <3>1, <3>2, <2>12
  <2> QED
    BY <2>6, <2>12, <2>13, <2>14, ZenonT(30)
<1>2. a \in Block /\ Work \in [Block -> Nat]
  BY ChainFacts, WorkAssumption
<1> QED
  BY <1>1, <1>2

LEMMA HeightGrows ==
    ASSUME NEW b \in Block, NEW a \in Chain[b], a # b
    PROVE  Height(a) \in Int /\ Height(b) \in Int /\ Height(a) < Height(b)
<1>1. a \in Block /\ b \notin Chain[a] /\ b \in Chain[b]
  BY ChainFacts, ChainAntisymmetric, Zenon
<1>2. Chain[a] \subseteq Chain[b] /\ Chain[a] # Chain[b]
  BY <1>1, ChainFacts, Zenon
<1>3. IsFiniteSet(Chain[b])
  BY FS_Subset, TreeAssumption, Zenon
<1>4. /\ Cardinality(Chain[a]) \in Nat /\ Cardinality(Chain[b]) \in Nat
      /\ Cardinality(Chain[a]) < Cardinality(Chain[b])
  BY <1>2, <1>3, FS_Subset, FS_CardinalityType
<1> QED
  BY <1>4 DEF Height

LEMMA HeightType == \A b \in Block : Height(b) \in Int
<1> SUFFICES ASSUME NEW b \in Block PROVE Height(b) \in Int
  OBVIOUS
<1>1. IsFiniteSet(Chain[b])
  BY FS_Subset, TreeAssumption
<1> QED
  BY <1>1, FS_CardinalityType DEF Height

----------------------------------------------------------------------------
(***************************************************************************)
(* While ActivateBestChain connects blocks or has released cs_main, the    *)
(* tip is on the way to the block it works towards: what is still to be    *)
(* connected is higher than the tip, where nothing is pruned.              *)
(***************************************************************************)
OnTrack ==
    /\ StepDataPresent
    /\ pc \in {"unlocked", "step"} /\ pindexMostWork # NoBlock
          => tip \in Chain[pindexMostWork]

LEMMA OnTrackInit == Init => OnTrack
BY DEF Init, OnTrack, StepDataPresent

LEMMA OnTrackNext == IndInv /\ OnTrack /\ [Next]_vars => OnTrack'
<1> SUFFICES ASSUME IndInv, OnTrack, [Next]_vars PROVE OnTrack'
  OBVIOUS
<1> USE DEF OnTrack, StepDataPresent
<1>a. tip \in Block /\ (pindexMostWork # NoBlock => pindexMostWork \in Block)
  BY Zenon DEF IndInv, TypeOK
<1>b. pindexMostWork # NoBlock => \A x \in Chain[pindexMostWork] :
         Chain[x] \subseteq Chain[pindexMostWork]
  BY <1>a, ChainFacts, Zenon
<1>1. ASSUME NEW b \in Block \ {Genesis}, AcceptBlockHeader(b) \/ RefuseBlockHeader(b)
      PROVE  OnTrack'
  BY <1>1, Zenon DEF AcceptBlockHeader, RefuseBlockHeader, index, abc
<1>2. ASSUME NEW b \in Block \ {Genesis}, NEW fRequested \in BOOLEAN,
             AcceptBlock(b, fRequested)
      PROVE  OnTrack'
  <2>1. haveData \subseteq haveData'
    BY <1>2, Zenon DEF AcceptBlock
  <2> QED
    BY <1>2, <2>1, Zenon DEF AcceptBlock, abc
<1>3. ASSUME NEW b \in Block, PruneOneBlockFile(b)
      PROVE  OnTrack'
  <2>1. UNCHANGED abc /\ tip' = tip /\ haveData' = haveData \ {b}
    BY <1>3, Zenon DEF PruneOneBlockFile
  <2>2. pc # "idle" /\ pindexMostWork # NoBlock => tip \in Chain[pindexMostWork]
    BY <1>3, Zenon DEF PruneOneBlockFile, Unlocked, At
  <2>3. ASSUME pc # "idle", pindexMostWork # NoBlock,
               b \in Chain[pindexMostWork] \ Chain[tip]
        PROVE  FALSE
    <3>1. tip \in Chain[b] /\ tip # b
      BY <1>a, <2>2, <2>3, ChainLinear, ChainFacts, Zenon
    <3>2. Height(tip) < Height(b) /\ Height(tip) \in Int /\ Height(b) \in Int
      BY <3>1, HeightGrows, Zenon
    <3>3. Height(b) + MinBlocksToKeep =< Height(tip) /\ MinBlocksToKeep \in Nat
      BY <1>3, ChainStateAssumption, Zenon DEF PruneOneBlockFile, OldEnough
    <3> QED
      BY <3>2, <3>3
  <2> QED
    BY <2>1, <2>2, <2>3 DEF abc
<1>4. ASSUME NEW b \in Block, InvalidateBlock(b)
      PROVE  OnTrack'
  <2>1. /\ tip' \in Chain[tip]
        /\ Chain[tip] \ Chain[tip'] \subseteq haveData
        /\ haveData' = haveData
        /\ UNCHANGED abc
    BY <1>4, <1>a, ChainFacts, Zenon DEF InvalidateBlock, CanDisconnect, index
  <2> QED
    BY <1>a, <1>b, <1>4, <2>1, Zenon DEF InvalidateBlock, RpcMayRun, Unlocked, abc
<1>5. ASSUME NEW b \in Block, InvalidateBlockFails(b)
      PROVE  OnTrack'
  <2>1. /\ tip' \in Chain[tip]
        /\ Chain[tip] \ Chain[tip'] \subseteq haveData
        /\ haveData' = haveData
        /\ UNCHANGED abc
    BY <1>5, Zenon DEF InvalidateBlockFails, StopsAt, CanDisconnect, index
  <2> QED
    BY <1>a, <1>b, <1>5, <2>1, Zenon DEF InvalidateBlockFails, RpcMayRun, Unlocked, abc
<1>6. ASSUME NEW b \in Block, ResetBlockFailureFlags(b) \/ PreciousBlock(b)
      PROVE  OnTrack'
  BY <1>6, Zenon DEF ResetBlockFailureFlags, PreciousBlock, index, abc
<1>7. CASE ActivateBestChain \/ DropCandidate \/ InvalidBlockFound \/ Restart
  BY <1>7, Zenon DEF ActivateBestChain, DropCandidate, InvalidBlockFound, Restart, abc
<1>8. CASE LockMain
  BY <1>8, Zenon DEF LockMain, At, index
<1>9. CASE FindMostWorkChain
  BY <1>9, Zenon DEF FindMostWorkChain, Unusable, At, index
<1>10. CASE NothingToDo
  BY <1>10, <1>a, ChainFacts, Zenon DEF NothingToDo, EndRound, At, index
<1>11. CASE DisconnectToFork
  <2>1. /\ IsFork(tip', tip, pindexMostWork)
        /\ pc = "find" /\ pindexMostWork' = pindexMostWork /\ haveData' = haveData
    BY <1>11, Zenon DEF DisconnectToFork, At, index
  <2> QED
    BY <2>1 DEF IsFork
<1>12. CASE DisconnectTipFails
  BY <1>12, Zenon DEF DisconnectTipFails
<1>13. CASE ConnectTip
  <2>1. PICK b \in Block \ {Genesis} :
          b \in Chain[pindexMostWork] /\ Parent[b] = tip /\ tip' = b
    BY <1>13, Zenon DEF ConnectTip, IsNext
  <2>2. Chain[tip] \subseteq Chain[b]
    BY <2>1, ChainFacts, Zenon
  <2>3. pc = "step" /\ pindexMostWork' = pindexMostWork /\ haveData' = haveData
    BY <1>13, Zenon DEF ConnectTip, At
  <2> QED
    BY <2>1, <2>2, <2>3, Zenon
<1>14. CASE UNCHANGED vars
  BY <1>14, Zenon DEF vars, index, abc
<1> QED
  BY Zenon, <1>1, <1>2, <1>3, <1>4, <1>5, <1>6, <1>7, <1>8, <1>9, <1>10, <1>11, <1>12,
     <1>13, <1>14
  DEF Next, Activation

(***************************************************************************)
(* ConnectTip finds on disk every block that ActivateBestChain has decided *)
(* to connect, for every tree of blocks, with pruning, restarts and manual *)
(* RPCs at any moment.                                                     *)
(***************************************************************************)
THEOREM StepDataKept == Spec => []StepDataPresent
<1>1. OnTrack => StepDataPresent
  BY DEF OnTrack
<1> QED
  BY <1>1, IndInit, IndNext, OnTrackInit, OnTrackNext, PTL DEF Spec

----------------------------------------------------------------------------
(***************************************************************************)
(* While ActivateBestChain works towards a block, a candidate has at least *)
(* its work, so no block connected on the way empties the candidates.      *)
(***************************************************************************)
Aimed ==
    /\ NoAssertFailure
    /\ pc # "idle" /\ pindexMostWork # NoBlock
          => \E c \in setBlockIndexCandidates : Work[pindexMostWork] =< Work[c]

LEMMA AimedInit == Init => Aimed
BY DEF Init, Aimed, NoAssertFailure

LEMMA AimedNext ==
    ASSUME ~RpcDuringActivation
    PROVE  IndInv /\ Clean /\ Aimed /\ [Next]_vars => Aimed'
<1> SUFFICES ASSUME IndInv, Clean, Aimed, [Next]_vars PROVE Aimed'
  OBVIOUS
<1> USE DEF Aimed, NoAssertFailure
<1>1. ASSUME NEW b \in Block \ {Genesis}, AcceptBlockHeader(b) \/ RefuseBlockHeader(b)
      PROVE  Aimed'
  BY <1>1, Zenon DEF AcceptBlockHeader, RefuseBlockHeader, sets, abc
<1>2. ASSUME NEW b \in Block \ {Genesis}, NEW fRequested \in BOOLEAN,
             AcceptBlock(b, fRequested)
      PROVE  Aimed'
  <2>1. setBlockIndexCandidates \subseteq setBlockIndexCandidates'
    BY <1>2, Zenon DEF AcceptBlock, ReceivedBlockTransactions, InsertByHeight, InsertAny, sets
  <2> QED
    BY <1>2, <2>1 DEF AcceptBlock, abc
<1>3. ASSUME NEW b \in Block, PruneOneBlockFile(b)
      PROVE  Aimed'
  BY <1>3 DEF PruneOneBlockFile, abc
<1>4. ASSUME NEW b \in Block,
             InvalidateBlock(b) \/ ResetBlockFailureFlags(b) \/ PreciousBlock(b)
      PROVE  Aimed'
  BY <1>4, Zenon DEF InvalidateBlock, ResetBlockFailureFlags, PreciousBlock, RpcMayRun, abc
<1>5. ASSUME NEW b \in Block, InvalidateBlockFails(b)
      PROVE  Aimed'
  BY <1>5, Zenon DEF InvalidateBlockFails, RpcMayRun, abc
<1>6. CASE ActivateBestChain \/ DropCandidate \/ InvalidBlockFound
  BY <1>6, Zenon DEF ActivateBestChain, DropCandidate, InvalidBlockFound, abc
<1>7. CASE LockMain \/ NothingToDo \/ DisconnectToFork
  BY <1>7, Zenon DEF LockMain, NothingToDo, DisconnectToFork, At, sets
<1>8. CASE FindMostWorkChain
  <2>1. /\ pindexMostWork' \in setBlockIndexCandidates /\ node' = node
        /\ setBlockIndexCandidates' = setBlockIndexCandidates
    BY <1>8 DEF FindMostWorkChain, Best, sets
  <2>2. pindexMostWork' \in Block /\ Work \in [Block -> Nat]
    BY <2>1, WorkAssumption, Zenon DEF IndInv, TypeOK
  <2> QED
    BY <2>1, <2>2
<1>9. CASE DisconnectTipFails
  BY <1>9, Zenon DEF DisconnectTipFails
<1>10. CASE ConnectTip
  <2>1. pc = "step" /\ pindexMostWork \in linked /\ pindexMostWork' = pindexMostWork
    BY <1>10, Zenon DEF ConnectTip, At, IndInv, HasTarget
  <2>2. pindexMostWork \in Block /\ pindexMostWork # NoBlock
    BY <2>1, TreeAssumption, Zenon DEF IndInv, TypeOK
  <2>3. PICK c \in setBlockIndexCandidates : Work[pindexMostWork] =< Work[c]
    BY <2>1, <2>2
  <2>4. PICK b \in Chain[pindexMostWork] :
          /\ setBlockIndexCandidates' = PruneBlockIndexCandidates(setBlockIndexCandidates, b)
          /\ setBlockIndexCandidates' # {} => node' = node
    BY <1>10, Zenon DEF ConnectTip, IsNext
  <2>5. Work[b] =< Work[pindexMostWork] /\ Work[b] \in Nat /\ Work[pindexMostWork] \in Nat
    BY <2>2, WorkGrows
  <2>6. Work[c] \in Nat
    BY WorkAssumption, Zenon DEF IndInv, TypeOK
  <2>7. c \in setBlockIndexCandidates'
    BY <2>3, <2>4, <2>5, <2>6 DEF PruneBlockIndexCandidates
  <2> QED
    BY <2>1, <2>3, <2>4, <2>7, Zenon
<1>11. CASE Restart
  <2>1. tip \in linked' \ (failedValid \cup failedChild')
    BY <1>11, ChainFacts, Zenon DEF Restart, Clean, ActiveChainNotFailed, failed, IndInv, TypeOK, Closed
  <2>2. PICK S \in InsertByHeight({}, linked' \ (failedValid \cup failedChild')) :
          setBlockIndexCandidates' = PruneBlockIndexCandidates(S, tip)
    BY <1>11, Zenon DEF Restart
  <2>3. PICK t \in S : Work[t] = Work[tip]
    BY <2>1, <2>2 DEF InsertByHeight, InsertAny
  <2>4. Work[tip] \in Nat
    BY WorkAssumption, Zenon DEF IndInv, TypeOK
  <2>5. setBlockIndexCandidates' # {}
    BY <2>2, <2>3, <2>4 DEF PruneBlockIndexCandidates
  <2> QED
    BY <1>11, <2>5, Zenon DEF Restart
<1>12. CASE UNCHANGED vars
  BY <1>12 DEF vars, sets, abc
<1> QED
  BY <1>1, <1>2, <1>3, <1>4, <1>5, <1>6, <1>7, <1>8, <1>9, <1>10, <1>11, <1>12, Zenon
  DEF Next, Activation

(***************************************************************************)
(* The assertion of PruneBlockIndexCandidates never fails, if the manual   *)
(* RPCs wait for the end of an activation: also blocks of equal work, of   *)
(* which the set keeps only one, never empty it.                           *)
(***************************************************************************)
THEOREM CandidatesRemain ==
    ASSUME ~RpcDuringActivation
    PROVE  Spec => []NoAssertFailure
<1>1. Aimed => NoAssertFailure
  BY DEF Aimed
<1> QED
  BY <1>1, IndInit, IndNext, NothingBadInit, NothingBadNext, CleanInit, CleanNext,
     AimedInit, AimedNext, PTL DEF Spec

=============================================================================
