----------------------------- MODULE ChainState -----------------------------
(***************************************************************************)
(* CChainState (src/validation.cpp): the block index, the candidates for   *)
(* the best chain and the active chain, under the calls that change them.  *)
(*                                                                         *)
(* Every handler runs under cs_main and is one action.  The exception is   *)
(* ActivateBestChain, which holds m_cs_chainstate for all of its run but   *)
(* takes cs_main anew for every round of its outer loop: its rounds are    *)
(* several actions, cs_main is held exactly while pc is "find" or "step",  *)
(* and between two rounds (pc = "unlocked") the other handlers run while   *)
(* pindexMostWork keeps the value it had.                                  *)
(*                                                                         *)
(* nStatus, nTx and nChainTx are sets of blocks.  Left out, as no decision *)
(* here reads them: pindexBestHeader, pindexBestInvalid and the fork       *)
(* warnings, notifications, the mempool and the dirty sets (an orderly     *)
(* shutdown writes all of them); also left out are disk errors.            *)
(***************************************************************************)
EXTENDS BlockTree

CONSTANTS
    BadCheck,             \* blocks AcceptBlock finds invalid
    BadConnect,           \* blocks ConnectBlock refuses
    MinBlocksToKeep,      \* MIN_BLOCKS_TO_KEEP
    MinimumChainWork,     \* nMinimumChainWork
    PruneMode,            \* fPruneMode
    Restarts,             \* may the node be restarted
    RpcBlocks,            \* blocks invalidateblock and preciousblock are given
    ReconsiderBlocks,     \* blocks reconsiderblock is given
    RpcDuringActivation   \* may they run between two rounds of activation

ASSUME ChainStateAssumption ==
    /\ BadCheck \subseteq Block \ {Genesis}
    /\ BadConnect \subseteq Block \ {Genesis}
    /\ MinBlocksToKeep \in Nat
    /\ MinimumChainWork \in Nat
    /\ PruneMode \in BOOLEAN
    /\ Restarts \in BOOLEAN
    /\ RpcBlocks \subseteq Block
    /\ ReconsiderBlocks \subseteq Block
    /\ RpcDuringActivation \in BOOLEAN

VARIABLES
    mapBlockIndex,            \* blocks whose header is known
    received,                 \* nTx > 0, BLOCK_VALID_TRANSACTIONS reached
    haveData,                 \* BLOCK_HAVE_DATA
    haveUndo,                 \* BLOCK_HAVE_UNDO
    linked,                   \* nChainTx > 0
    scripts,                  \* BLOCK_VALID_SCRIPTS reached
    failedValid,              \* BLOCK_FAILED_VALID
    failedChild,              \* BLOCK_FAILED_CHILD
    m_failed_blocks,
    setBlockIndexCandidates,
    mapBlocksUnlinked,        \* pairs <<parent, block>>
    tip,                      \* chainActive.Tip()
    node,                     \* "up", "shutdown" after AbortNode, "assert"
    pending,                  \* a caller still has to run ActivateBestChain
    pc,                       \* where ActivateBestChain is
    pindexMostWork,           \* locals of ActivateBestChain and of its step
    starting_tip,
    blocks_connected,
    pindexNewTip,
    pindexOldTip

index == <<mapBlockIndex, received, haveData, haveUndo, linked, scripts>>
failures == <<failedValid, failedChild, m_failed_blocks>>
sets == <<setBlockIndexCandidates, mapBlocksUnlinked>>
abc == <<pc, pindexMostWork, starting_tip, blocks_connected, pindexNewTip,
         pindexOldTip>>
vars == <<index, failures, sets, tip, node, pending, abc>>

(* BLOCK_FAILED_MASK *)
failed == failedValid \cup failedChild

(* cs_main can be taken and the node is running *)
Unlocked == pc \in {"idle", "unlocked"} /\ node = "up"

(* The manual RPCs take cs_main, not m_cs_chainstate. *)
RpcMayRun == Unlocked /\ (RpcDuringActivation \/ pc = "idle")

(* ActivateBestChain is at the label l. *)
At(l) == pc = l /\ node = "up"

----------------------------------------------------------------------------
(* After LoadGenesisBlock and LoadChainTip on an empty data directory. *)
Init ==
    /\ mapBlockIndex = {Genesis}
    /\ received = {Genesis}
    /\ haveData = {Genesis}
    /\ haveUndo = {}
    /\ linked = {Genesis}
    /\ scripts = {Genesis}
    /\ failedValid = {}
    /\ failedChild = {}
    /\ m_failed_blocks = {}
    /\ setBlockIndexCandidates = {Genesis}
    /\ mapBlocksUnlinked = {}
    /\ tip = Genesis
    /\ node = "up"
    /\ pending = FALSE
    /\ pc = "idle"
    /\ pindexMostWork = NoBlock
    /\ starting_tip = NoBlock
    /\ blocks_connected = FALSE
    /\ pindexNewTip = NoBlock
    /\ pindexOldTip = NoBlock

----------------------------------------------------------------------------
(* Headers and blocks                                                      *)

(* AcceptBlockHeader returns true. *)
HeaderAccepted(b) ==
    IF b \in mapBlockIndex
    THEN b \notin failed
    ELSE /\ Parent[b] \in mapBlockIndex \ failed
         /\ \/ Parent[b] \in scripts
            \/ m_failed_blocks \cap Chain[Parent[b]] = {}

(* A header known or new that passes: AddToBlockIndex. *)
AcceptBlockHeader(b) ==
    /\ Unlocked
    /\ b \notin mapBlockIndex
    /\ HeaderAccepted(b)
    /\ mapBlockIndex' = mapBlockIndex \cup {b}
    /\ UNCHANGED <<received, haveData, haveUndo, linked, scripts, failures,
                   sets, tip, node, pending, abc>>

(***************************************************************************)
(* A new header whose parent is not known to be invalid but descends from  *)
(* a block of m_failed_blocks: the blocks from the parent down to that     *)
(* block are marked, and the header is refused.                            *)
(***************************************************************************)
RefuseBlockHeader(b) ==
    /\ Unlocked
    /\ b \notin mapBlockIndex
    /\ Parent[b] \in mapBlockIndex \ (failed \cup scripts)
    /\ \E f \in m_failed_blocks \cap Chain[Parent[b]] :
          failedChild' = failedChild \cup (Chain[Parent[b]] \ Chain[f])
    /\ UNCHANGED <<index, failedValid, m_failed_blocks, sets, tip, node,
                   pending, abc>>

(* AcceptBlock goes on to look at the block itself. *)
WillProcess(b, fRequested) ==
    /\ HeaderAccepted(b)
    /\ b \notin haveData
    /\ \/ fRequested
       \/ /\ b \notin received
          /\ Work[b] >= Work[tip]
          /\ Height(b) =< Height(tip) + MinBlocksToKeep
          /\ Work[b] >= MinimumChainWork

(***************************************************************************)
(* b and the blocks waiting for it in mapBlocksUnlinked, as the queue of   *)
(* ReceivedBlockTransactions reaches them.                                 *)
(***************************************************************************)
NowLinked(b) ==
    {d \in Block :
        /\ b \in Chain[d]
        /\ \A e \in Chain[d] \ Chain[b] : <<Parent[e], e>> \in mapBlocksUnlinked}

(* Faulty: the parent's nChainTx is not looked at. *)
ReceivedBlockTransactions_Unordered(b) ==
    /\ linked' = linked \cup {b}
    /\ setBlockIndexCandidates' \in InsertByHeight(setBlockIndexCandidates, {b})
    /\ UNCHANGED mapBlocksUnlinked

ReceivedBlockTransactions(b) ==
    IF Parent[b] \in linked
    THEN /\ linked' = linked \cup NowLinked(b)
         /\ setBlockIndexCandidates' \in
               InsertByHeight(setBlockIndexCandidates,
                              {d \in NowLinked(b) : Work[d] >= Work[tip]})
         /\ mapBlocksUnlinked' =
               {p \in mapBlocksUnlinked : p[1] \notin NowLinked(b)}
    ELSE /\ linked' = linked \ {b}
         /\ mapBlocksUnlinked' =
               mapBlocksUnlinked \cup
                  (IF Parent[b] \notin failed THEN {<<Parent[b], b>>} ELSE {})
         /\ UNCHANGED setBlockIndexCandidates

(* Faulty: the block is stored without having been checked. *)
AcceptBlock_Unchecked(b, fRequested) ==
    /\ Unlocked
    /\ WillProcess(b, fRequested)
    /\ mapBlockIndex' = mapBlockIndex \cup {b}
    /\ received' = received \cup {b}
    /\ haveData' = haveData \cup {b}
    /\ ReceivedBlockTransactions(b)
    /\ pending' = TRUE
    /\ UNCHANGED <<haveUndo, scripts, failures, tip, node, abc>>

(***************************************************************************)
(* AcceptBlock, called by ProcessNewBlock, which runs ActivateBestChain    *)
(* once it has released cs_main.  A block whose body does not belong to    *)
(* its header (CorruptionPossible, or a wrong format for its height) only  *)
(* has the effect of AcceptBlockHeader.                                    *)
(***************************************************************************)
AcceptBlock(b, fRequested) ==
    /\ Unlocked
    /\ WillProcess(b, fRequested)
    /\ mapBlockIndex' = mapBlockIndex \cup {b}
    /\ \/ /\ b \in BadCheck
          /\ failedValid' = failedValid \cup {b}
          /\ UNCHANGED <<received, haveData, linked, sets, pending>>
       \/ /\ b \notin BadCheck
          /\ received' = received \cup {b}
          /\ haveData' = haveData \cup {b}
          /\ ReceivedBlockTransactions(b)
          /\ pending' = TRUE
          /\ UNCHANGED failedValid
    /\ UNCHANGED <<haveUndo, scripts, failedChild, m_failed_blocks, tip, node,
                   abc>>

(* Faulty: no block is spared. *)
OldEnough_Always(b) == TRUE

(* FindFilesToPrune and FindFilesToPruneManual spare the last blocks. *)
OldEnough(b) == Height(b) + MinBlocksToKeep =< Height(tip)

(***************************************************************************)
(* PruneOneBlockFile, from FlushStateToDisk, which ConnectTip calls too, or *)
(* from the pruneblockchain RPC.  A file is taken to hold one block.       *)
(***************************************************************************)
PruneOneBlockFile(b) ==
    /\ PruneMode
    /\ Unlocked \/ At("step")
    /\ b \in haveData
    /\ OldEnough(b)
    /\ haveData' = haveData \ {b}
    /\ haveUndo' = haveUndo \ {b}
    /\ mapBlocksUnlinked' = {p \in mapBlocksUnlinked : p[2] # b}
    /\ UNCHANGED <<mapBlockIndex, received, linked, scripts, failures,
                   setBlockIndexCandidates, tip, node, pending, abc>>

----------------------------------------------------------------------------
(* Activation of the best chain                                            *)

(* Faulty: the tip itself goes too. *)
PruneBlockIndexCandidates_Strict(S, t) == {c \in S : Work[c] > Work[t]}

(* PruneBlockIndexCandidates *)
PruneBlockIndexCandidates(S, t) == {c \in S : Work[c] >= Work[t]}

(* A caller of ActivateBestChain gets m_cs_chainstate. *)
ActivateBestChain ==
    /\ At("idle")
    /\ pc' = "unlocked"
    /\ pindexMostWork' = NoBlock
    /\ pindexNewTip' = NoBlock
    /\ pending' = FALSE
    /\ UNCHANGED <<index, failures, sets, tip, node, starting_tip,
                   blocks_connected, pindexOldTip>>

(* The outer loop takes cs_main. *)
LockMain ==
    /\ At("unlocked")
    /\ pc' = "find"
    /\ starting_tip' = tip
    /\ blocks_connected' = FALSE
    /\ UNCHANGED <<index, failures, sets, tip, node, pending, pindexMostWork,
                   pindexNewTip, pindexOldTip>>

(* Faulty: one round only. *)
EndRound_Once(newTip, mostWork) == pc' = "idle"

(* The condition of the outer loop: release cs_main, go round again or end. *)
EndRound(newTip, mostWork) == pc' = IF newTip = mostWork THEN "idle" ELSE "unlocked"

(* Faulty: failed blocks are not noticed. *)
Unusable_Missing(p) == {t \in Chain[p] \ Chain[tip] : t \notin haveData}

(* The blocks from p down to the active chain that cannot be connected. *)
Unusable(p) == {t \in Chain[p] \ Chain[tip] : t \in failed \/ t \notin haveData}

(* FindMostWorkChain returns the best candidate. *)
FindMostWorkChain ==
    /\ At("find") /\ pindexMostWork = NoBlock
    /\ \E p \in Best(setBlockIndexCandidates) :
          /\ Unusable(p) = {}
          /\ pindexMostWork' = p
    /\ UNCHANGED <<index, failures, sets, tip, node, pending, pc, starting_tip,
                   blocks_connected, pindexNewTip, pindexOldTip>>

(* Faulty: they are forgotten. *)
Waiting_None(D) == {}

(* The pairs that let the blocks of D be found when their parents arrive. *)
Waiting(D) == {<<Parent[d], d>> : d \in D}

(***************************************************************************)
(* FindMostWorkChain meets a failed or missing block t below the best      *)
(* candidate p: the blocks above t are marked as failed, or wait for its   *)
(* data, and t and all of them leave the candidates.                       *)
(***************************************************************************)
DropCandidate ==
    /\ At("find") /\ pindexMostWork = NoBlock
    /\ \E p \in Best(setBlockIndexCandidates) : \E t \in Unusable(p) :
          LET above == Chain[p] \ Chain[t] IN
          /\ Unusable(p) \subseteq Chain[t]
          /\ setBlockIndexCandidates' = Erase(setBlockIndexCandidates, above \cup {t})
          /\ \/ /\ t \in failed
                /\ failedChild' = failedChild \cup above
                /\ UNCHANGED mapBlocksUnlinked
             \/ /\ t \notin failed
                /\ mapBlocksUnlinked' =
                      mapBlocksUnlinked \cup Waiting(above)
                /\ UNCHANGED failedChild
    /\ UNCHANGED <<index, failedValid, m_failed_blocks, tip, node, pending, abc>>

(* Nothing to do: no candidate is left, or the best one is the tip. *)
NothingToDo ==
    /\ At("find")
    /\ \/ pindexMostWork = NoBlock /\ setBlockIndexCandidates = {}
       \/ pindexMostWork = tip
    /\ IF blocks_connected THEN EndRound(pindexNewTip, pindexMostWork)
                           ELSE pc' = "idle"
    /\ UNCHANGED <<index, failures, sets, tip, node, pending, pindexMostWork,
                   starting_tip, blocks_connected, pindexNewTip, pindexOldTip>>

(* DisconnectTip can read the blocks of D and their undo data. *)
CanDisconnect(D) == D \subseteq haveData \cap haveUndo

(* The block of D, a part of the active chain, at which disconnecting stops. *)
StopsAt(t, D) ==
    /\ t \in D
    /\ ~CanDisconnect({t})
    /\ CanDisconnect(Chain[tip] \ Chain[t])

(* ActivateBestChainStep disconnects the active blocks above the fork. *)
DisconnectToFork ==
    /\ At("find") /\ pindexMostWork \notin {NoBlock, tip}
    /\ \E fork \in Block :
          /\ IsFork(fork, tip, pindexMostWork)
          /\ CanDisconnect(Chain[tip] \ Chain[fork])
          /\ tip' = fork
    /\ pindexOldTip' = tip
    /\ blocks_connected' = TRUE
    /\ pc' = "step"
    /\ UNCHANGED <<index, failures, sets, node, pending, pindexMostWork,
                   starting_tip, pindexNewTip>>

(***************************************************************************)
(* DisconnectTip fails on a block that has been pruned, and                *)
(* ActivateBestChain returns with that block as the tip.  A block that     *)
(* cannot be read is an AbortNode; missing undo data is only an error.     *)
(***************************************************************************)
DisconnectTipFails ==
    /\ At("find") /\ pindexMostWork \notin {NoBlock, tip}
    /\ \E t \in Block :
          /\ StopsAt(t, Chain[tip] \ Chain[pindexMostWork])
          /\ tip' = t
          /\ node' = IF t \in haveData THEN node ELSE "shutdown"
    /\ pc' = "idle"
    /\ UNCHANGED <<index, failures, sets, pending, pindexMostWork, starting_tip,
                   blocks_connected, pindexNewTip, pindexOldTip>>

(* Faulty: cs_main is released whatever the tip is. *)
EndStep_Release(newTip, mostWork) == EndRound(newTip, mostWork)

(* The inner loop repeats while the tip has less work than at its start. *)
EndStep(newTip, mostWork) ==
    IF Work[newTip] < Work[starting_tip] THEN pc' = "find"
                                         ELSE EndRound(newTip, mostWork)

(***************************************************************************)
(* ConnectTip connects the next block towards pindexMostWork; the step     *)
(* ends once the tip is better than before it, or is pindexMostWork.       *)
(***************************************************************************)
ConnectTip ==
    /\ At("step")
    /\ \E b \in Block :
          /\ IsNext(b, tip, pindexMostWork)
          /\ b \in haveData \ BadConnect
          /\ tip' = b
          /\ haveUndo' = haveUndo \cup {b}
          /\ scripts' = scripts \cup ({b} \ failed)
          /\ setBlockIndexCandidates' =
                PruneBlockIndexCandidates(setBlockIndexCandidates, b)
          /\ IF setBlockIndexCandidates' = {}
             THEN node' = "assert" /\ UNCHANGED <<pc, pindexNewTip>>
             ELSE /\ UNCHANGED node
                  /\ IF Work[b] > Work[pindexOldTip] \/ b = pindexMostWork
                     THEN pindexNewTip' = b /\ EndStep(b, pindexMostWork)
                     ELSE UNCHANGED <<pc, pindexNewTip>>
    /\ UNCHANGED <<mapBlockIndex, received, haveData, linked, failures,
                   mapBlocksUnlinked, pending, pindexMostWork, starting_tip,
                   blocks_connected, pindexOldTip>>

(* ConnectTip fails on the next block: InvalidBlockFound. *)
InvalidBlockFound ==
    /\ At("step")
    /\ \E b \in haveData \cap BadConnect :
          /\ IsNext(b, tip, pindexMostWork)
          /\ failedValid' = failedValid \cup {b}
          /\ m_failed_blocks' = m_failed_blocks \cup {b}
          /\ setBlockIndexCandidates' = Erase(setBlockIndexCandidates, {b})
    /\ pindexMostWork' = NoBlock
    /\ pindexNewTip' = tip
    /\ EndStep(tip, NoBlock)
    /\ UNCHANGED <<index, failedChild, mapBlocksUnlinked, tip, node, pending,
                   starting_tip, blocks_connected, pindexOldTip>>

----------------------------------------------------------------------------
(* The manual RPCs                                                         *)

(* Faulty: nothing is offered again. *)
Readmitted_None(D, newTip) == {}

(* The blocks InvalidateBlock offers again, once D is marked as failed. *)
Readmitted(D, newTip) ==
    {d \in (received \cap linked) \ (failed \cup D) : Work[d] >= Work[newTip]}

(***************************************************************************)
(* InvalidateBlock: disconnect down to below b, mark b and what was        *)
(* disconnected, then offer every usable block as good as the new tip as a *)
(* candidate again.                                                        *)
(***************************************************************************)
InvalidateBlock(b) ==
    /\ RpcMayRun
    /\ b \in (RpcBlocks \cap mapBlockIndex) \ {Genesis}
    /\ LET inChain == b \in Chain[tip]
           above == IF inChain THEN Chain[tip] \ Chain[b] ELSE {}
           newTip == IF inChain THEN Parent[b] ELSE tip
       IN /\ CanDisconnect(Chain[tip] \ Chain[newTip])
          /\ tip' = newTip
          /\ failedChild' = failedChild \cup above
          /\ failedValid' = failedValid \cup {b}
          /\ m_failed_blocks' = m_failed_blocks \cup {b}
          /\ setBlockIndexCandidates' \in
                InsertAny(Erase(setBlockIndexCandidates, above \cup {b}),
                          Readmitted(above \cup {b}, newTip))
    /\ pending' = TRUE
    /\ UNCHANGED <<index, mapBlocksUnlinked, node, abc>>

(***************************************************************************)
(* InvalidateBlock when DisconnectTip fails, as it always does on the      *)
(* genesis block, which has no undo data: nothing is marked, and the RPC   *)
(* activates the best chain unless the failure was an AbortNode.           *)
(***************************************************************************)
InvalidateBlockFails(b) ==
    /\ RpcMayRun
    /\ b \in RpcBlocks \cap Chain[tip]
    /\ \E t \in Block :
          /\ StopsAt(t, {d \in Chain[tip] : b \in Chain[d]})
          /\ tip' = t
          /\ node' = IF t \in haveData THEN node ELSE "shutdown"
          /\ pending' = (pending \/ t \in haveData)
    /\ UNCHANGED <<index, failures, sets, abc>>

(* Faulty: m_failed_blocks is not updated. *)
StillFailed_All(D) == m_failed_blocks

(* What is left of m_failed_blocks once the flags of D are cleared. *)
StillFailed(D) == m_failed_blocks \ (D \cap failed)

(* ResetBlockFailureFlags, called by reconsiderblock. *)
ResetBlockFailureFlags(b) ==
    /\ RpcMayRun
    /\ b \in ReconsiderBlocks \cap mapBlockIndex
    /\ LET descendants == {d \in mapBlockIndex \cap failed : b \in Chain[d]}
           cleared == descendants \cup Chain[b]
       IN /\ failedValid' = failedValid \ cleared
          /\ failedChild' = failedChild \ cleared
          /\ m_failed_blocks' = StillFailed(cleared)
          /\ setBlockIndexCandidates' \in
                InsertAny(setBlockIndexCandidates,
                          {d \in descendants \cap received \cap linked :
                              Work[d] > Work[tip]})
    /\ pending' = TRUE
    /\ UNCHANGED <<index, mapBlocksUnlinked, tip, node, abc>>

(* PreciousBlock; a block with less work than the tip is ignored. *)
PreciousBlock(b) ==
    /\ RpcMayRun
    /\ b \in RpcBlocks \cap mapBlockIndex
    /\ Work[b] >= Work[tip]
    /\ LET erased == Erase(setBlockIndexCandidates, {b})
       IN setBlockIndexCandidates' =
             IF b \in (received \cap linked) \ failed
             THEN PruneBlockIndexCandidates(erased \cup {b}, tip)
             ELSE erased
    /\ pending' = TRUE
    /\ UNCHANGED <<index, failures, mapBlocksUnlinked, tip, node, abc>>

----------------------------------------------------------------------------
(***************************************************************************)
(* An orderly shutdown, which writes everything, and a start: LoadBlockIndex*)
(* in order of height, LoadChainTip, and ThreadImport's ActivateBestChain. *)
(***************************************************************************)
Restart ==
    /\ Restarts
    /\ pc \in {"idle", "unlocked"} /\ node \in {"up", "shutdown"}
    /\ linked' = {b \in received : Chain[b] \subseteq received}
    /\ mapBlocksUnlinked' = Waiting(received \ linked')
    /\ failedChild' =
          failedChild \cup {b \in mapBlockIndex \ failed : Chain[b] \cap failed # {}}
    /\ m_failed_blocks' = {}
    /\ \E S \in InsertByHeight({}, linked' \ (failedValid \cup failedChild')) :
          setBlockIndexCandidates' = PruneBlockIndexCandidates(S, tip)
    /\ node' = IF setBlockIndexCandidates' = {} THEN "assert" ELSE "up"
    /\ pending' = TRUE
    /\ pc' = "idle"
    /\ pindexMostWork' = NoBlock
    /\ UNCHANGED <<mapBlockIndex, received, haveData, haveUndo, scripts,
                   failedValid, tip, starting_tip, blocks_connected, pindexNewTip, pindexOldTip>>

----------------------------------------------------------------------------
Activation ==
    \/ LockMain
    \/ FindMostWorkChain
    \/ DropCandidate
    \/ NothingToDo
    \/ DisconnectToFork
    \/ DisconnectTipFails
    \/ ConnectTip
    \/ InvalidBlockFound

Next ==
    \/ \E b \in Block \ {Genesis} :
          \/ AcceptBlockHeader(b)
          \/ RefuseBlockHeader(b)
          \/ \E fRequested \in BOOLEAN : AcceptBlock(b, fRequested)
    \/ \E b \in Block :
          \/ PruneOneBlockFile(b)
          \/ InvalidateBlock(b)
          \/ InvalidateBlockFails(b)
          \/ ResetBlockFailureFlags(b)
          \/ PreciousBlock(b)
    \/ ActivateBestChain
    \/ Activation
    \/ Restart

Spec == Init /\ [][Next]_vars

(***************************************************************************)
(* The thread that holds m_cs_chainstate keeps running, and a thread that  *)
(* has to call ActivateBestChain gets it.                                  *)
(***************************************************************************)
FairSpec == Spec /\ WF_vars(Activation) /\ WF_vars(pending /\ ActivateBestChain)

----------------------------------------------------------------------------
(* Properties                                                              *)

(* The flags of the block index are kept in step with each other. *)
TypeOK ==
    /\ mapBlockIndex \in SUBSET Block
    /\ received \in SUBSET mapBlockIndex
    /\ haveData \in SUBSET received
    /\ haveUndo \in SUBSET received
    /\ linked \in SUBSET received
    /\ scripts \in SUBSET linked
    /\ failedValid \in SUBSET mapBlockIndex
    /\ failedChild \in SUBSET mapBlockIndex
    /\ m_failed_blocks \in SUBSET mapBlockIndex
    /\ setBlockIndexCandidates \in SUBSET linked
    /\ mapBlocksUnlinked \in SUBSET Waiting(received \ {Genesis})
    /\ tip \in linked
    /\ node \in {"up", "shutdown", "assert"}
    /\ pending \in BOOLEAN
    /\ pc \in {"idle", "unlocked", "find", "step"}
    /\ blocks_connected \in BOOLEAN
    /\ {pindexMostWork, starting_tip, pindexNewTip, pindexOldTip}
          \subseteq linked \cup {NoBlock}

(* The assertion of PruneBlockIndexCandidates never fails. *)
NoAssertFailure == node # "assert"

(***************************************************************************)
(* The assertion in FindMostWorkChain: a candidate and all its ancestors   *)
(* have nChainTx, so the whole chain to it has been received.  It relates  *)
(* the out-of-order arrival of blocks, the queue of unlinked blocks,       *)
(* pruning, and the rebuilding of both at a restart.                       *)
(***************************************************************************)
CandidateReady == \A c \in setBlockIndexCandidates : Chain[c] \subseteq linked

(***************************************************************************)
(* Every active block was received after all its ancestors and has passed  *)
(* ConnectBlock, whatever reorganisation, failed reorganisation, manual    *)
(* invalidation or restart put it there.                                   *)
(***************************************************************************)
ActiveChainValidated ==
    /\ Chain[tip] \subseteq scripts
    /\ Chain[tip] \cap (BadCheck \cup BadConnect) = {}

(* No active block is marked as failed. *)
ActiveChainNotFailed == Chain[tip] \cap failed = {}

(* AcceptBlockHeader's assertion on the blocks of m_failed_blocks. *)
FailedBlocksMarked == m_failed_blocks \subseteq failedValid

(***************************************************************************)
(* ConnectTip finds on disk every block that ActivateBestChain has decided *)
(* to connect, also after rounds in which cs_main was released: pruning    *)
(* never takes a block out of its hands.                                   *)
(***************************************************************************)
StepDataPresent ==
    pc # "idle" /\ pindexMostWork # NoBlock
        => Chain[pindexMostWork] \ Chain[tip] \subseteq haveData

(***************************************************************************)
(* ActivateBestChain has returned and no caller waits to run it.  A tip    *)
(* without undo data is where a disconnection stopped at a pruned block:   *)
(* the failure that ActivateBestChain and InvalidateBlock report.          *)
(***************************************************************************)
Settled == At("idle") /\ ~pending /\ tip \in haveUndo \cup {Genesis}

(* The blocks that could be connected now, as far as the block index says. *)
Usable == {b \in linked : /\ Chain[b] \cap failed = {}
                          /\ Chain[b] \ Chain[tip] \subseteq haveData}

(***************************************************************************)
(* ActivateBestChain's promise, an activated best chain: once it has       *)
(* returned, and no caller waits to run it, no usable block has more work  *)
(* than the tip.                                                           *)
(***************************************************************************)
BestChain ==
    Settled => \A b \in Usable : Work[b] =< Work[tip]

(***************************************************************************)
(* No received block is forgotten.  One that is not linked waits in        *)
(* mapBlocksUnlinked, where the arrival of its missing ancestor will find  *)
(* it.  For one better than the tip a candidate is as good as it, or it    *)
(* waits for the data of an ancestor that was pruned.                      *)
(***************************************************************************)
NoBlockForgotten ==
    /\ \A b \in haveData \ linked :
          Chain[b] \cap failed = {} => <<Parent[b], b>> \in mapBlocksUnlinked
    /\ Settled =>
          \A b \in haveData :
              Chain[b] \cap failed = {} /\ Work[b] > Work[tip] =>
                  \/ \E c \in setBlockIndexCandidates : Work[c] >= Work[b]
                  \/ <<Parent[b], b>> \in mapBlocksUnlinked

(***************************************************************************)
(* Seen by those who take cs_main, the active chain behaves as ForkChoice: *)
(* what a round of ActivateBestChain disconnects and fails to connect on   *)
(* its way is never seen.                                                  *)
(***************************************************************************)
VisibleTip == IF pc \in {"find", "step"} THEN starting_tip ELSE tip

FC == INSTANCE ForkChoice WITH
         have <- linked, active <- VisibleTip, Bad <- BadCheck \cup BadConnect

RefinesForkChoice == FC!Spec

(* Every call of ActivateBestChain returns. *)
ActivationEnds == pc # "idle" ~> pc = "idle"

(***************************************************************************)
(* A chain of valid blocks that has wholly arrived is activated, or one    *)
(* with at least as much work is.                                          *)
(***************************************************************************)
ValidChainActivated ==
    \A b \in {b \in Block : Chain[b] \cap (BadCheck \cup BadConnect) = {}} :
        b \in linked ~> Work[tip] >= Work[b]

=============================================================================
