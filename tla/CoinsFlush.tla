----------------------------- MODULE CoinsFlush -----------------------------
(***************************************************************************)
(* Writing the chain state to disk, and finding it again after a crash:    *)
(* FlushStateToDisk writes the block index and then the coins, the latter  *)
(* in several batches between which the database is neither the old nor    *)
(* the new UTXO set; ReplayBlocks repairs that at the next start.          *)
(*                                                                         *)
(* A coin is the height of the block that created it, 0 for none, so that  *)
(* the same output created at different heights on two branches is told    *)
(* apart.  pcoinsTip is the function view: what CoinsCache shows its two   *)
(* cache layers to be worth.  The block and undo files, which              *)
(* FlushStateToDisk syncs before it writes the block index, are taken to   *)
(* survive a crash with what that index says of them.                      *)
(***************************************************************************)
EXTENDS BlockTree

CONSTANTS
    Outpoint,
    Spends,         \* the outpoints the inputs of a block's transactions name
    Creates,        \* the spendable outputs of a block's transactions
    Utxo,           \* the unspent coins after each block
    KeepBlocks,     \* MIN_BLOCKS_TO_KEEP
    MaxCrashes      \* bound on the number of crashes

VARIABLES
    disk,           \* the chainstate database as a restarted process sees it
    stable,         \* the part of it that survives a power failure
    tree,           \* the block index on disk, synced when written
    index,          \* mapBlockIndex with its BLOCK_HAVE_DATA and BLOCK_HAVE_UNDO; fHavePruned
    tip,            \* the best block of view
    view,           \* the coins of pcoinsTip, or of the cache of ReplayBlocks
    pending,        \* dirty entries BatchWrite has not written yet
    walk,           \* where ReplayBlocks is
    phase,
    crashes

vars == <<disk, stable, tree, index, tip, view, pending, walk, phase, crashes>>

NoCoins == [x \in Outpoint |-> 0]

UtxoOf(b) == IF b = NoBlock THEN NoCoins ELSE Utxo[b]

\* The effect of a block; what it creates and spends itself is gone after it.
Applied(b, coins) ==
    [x \in Outpoint |-> IF x \in Spends[b] THEN 0
                        ELSE IF x \in Creates[b] THEN Height(b) ELSE coins[x]]

(***************************************************************************)
(* Utxo is what the blocks make of it.  Every connected block has passed   *)
(* ConnectBlock: its outputs were not there before (BIP30), its inputs     *)
(* were, unless the block itself creates them.  The genesis block's output *)
(* is never added.                                                         *)
(***************************************************************************)
ASSUME CoinsAssumption ==
    /\ Spends \in [Block -> SUBSET Outpoint]
    /\ Creates \in [Block -> SUBSET Outpoint]
    /\ Utxo \in [Block -> [Outpoint -> Nat]]
    /\ Utxo[Genesis] = NoCoins
    /\ \A b \in Block \ {Genesis} :
          /\ Utxo[b] = Applied(b, Utxo[Parent[b]])
          /\ \A x \in Creates[b] : Utxo[Parent[b]][x] = 0
          /\ \A x \in Spends[b] \ Creates[b] : Utxo[Parent[b]][x] # 0
    /\ KeepBlocks \in Nat
    /\ MaxCrashes \in Nat

Heads == [new : Block, old : Block \cup {NoBlock}]
NoHeads == [new |-> NoBlock, old |-> NoBlock]

Database ==
    [coins : [Outpoint -> Nat], best : Block \cup {NoBlock}, heads : Heads \cup {NoHeads}]

BlockIndex ==
    [known : SUBSET Block, data : SUBSET Block, undo : SUBSET Block, fHavePruned : BOOLEAN]

TypeOK ==
    /\ disk \in Database /\ stable \in Database
    /\ tree \in BlockIndex /\ index \in BlockIndex
    /\ tip \in Block \cup {NoBlock}
    /\ view \in [Outpoint -> Nat]
    /\ pending \in SUBSET Outpoint
    /\ walk \in Block \cup {NoBlock}
    /\ phase \in {"run", "flush", "start", "replay", "replayflush", "failed"}
    /\ crashes \in 0 .. MaxCrashes

Init ==
    /\ disk = [coins |-> NoCoins, best |-> NoBlock, heads |-> NoHeads]
    /\ stable = disk
    /\ tree = [known |-> {Genesis}, data |-> {Genesis}, undo |-> {}, fHavePruned |-> FALSE]
    /\ index = tree
    /\ tip = Genesis /\ view = NoCoins
    /\ pending = {} /\ walk = NoBlock /\ phase = "run" /\ crashes = 0

-----------------------------------------------------------------------------
(* The running node.                                                       *)

AcceptBlock(b) ==
    /\ phase = "run"
    /\ b \notin index.data /\ b # Genesis /\ Parent[b] \in index.known
    /\ index' = [index EXCEPT !.known = @ \cup {b}, !.data = @ \cup {b}]
    /\ UNCHANGED <<disk, stable, tree, tip, view, pending, walk, phase, crashes>>

\* ConnectBlock writes the undo data of the block and flushes its view into pcoinsTip.
ConnectTip(b) ==
    /\ phase = "run"
    /\ b \in index.data \ {Genesis} /\ Parent[b] = tip
    /\ tip' = b
    /\ view' = Applied(b, view)
    /\ index' = [index EXCEPT !.undo = @ \cup {b}]
    /\ UNCHANGED <<disk, stable, tree, pending, walk, phase, crashes>>

(***************************************************************************)
(* DisconnectBlock: transactions are undone last first, the outputs of     *)
(* each removed and its inputs restored from the undo data, whether or not *)
(* the view had them.  The undo data, written when the block was connected *)
(* for the first time, holds the coins the parent's UTXO set had.          *)
(***************************************************************************)
Undone(b, coins) ==
    [x \in Outpoint |-> IF x \in Creates[b] THEN 0
                        ELSE IF x \in Spends[b] THEN Utxo[Parent[b]][x] ELSE coins[x]]

DisconnectTip ==
    /\ phase = "run"
    /\ tip \in (index.data \cap index.undo) \ {Genesis}
    /\ tip' = Parent[tip]
    /\ view' = Undone(tip, view)
    /\ UNCHANGED <<disk, stable, tree, index, pending, walk, phase, crashes>>

-----------------------------------------------------------------------------
(* FlushStateToDisk.                                                       *)

Changed == {x \in Outpoint : view[x] # disk.coins[x]}

(***************************************************************************)
(* What FindFilesToPrune may choose: whole files, none of whose blocks is  *)
(* near the tip.  Which blocks share a file depends on when they arrived   *)
(* and how large they are, which is left open.                             *)
(***************************************************************************)
Prunable == SUBSET {b \in index.data : Height(b) + KeepBlocks =< Height(tip)}

Pruned(P) ==
    [index EXCEPT !.data = @ \ P, !.undo = @ \ P, !.fHavePruned = @ \/ P # {}]

\* FlushStateToDisk when only the block index is due.
WriteIndex ==
    /\ phase = "run"
    /\ tree' = index
    /\ UNCHANGED <<disk, stable, index, tip, view, pending, walk, phase, crashes>>

\* Mutant: the coins are flushed without the block index.
FlushStateToDisk_CoinsOnly(P) ==
    /\ phase = "run"
    /\ index' = Pruned(P)
    /\ phase' = "flush"
    /\ pending' = Changed
    /\ UNCHANGED <<disk, stable, tree, tip, view, walk, crashes>>

\* A full flush: the block index, without the pruned blocks, and then the coins.
FlushStateToDisk(P) ==
    /\ phase = "run"
    /\ index' = Pruned(P)
    /\ tree' = Pruned(P)
    /\ phase' = "flush"
    /\ pending' = Changed
    /\ UNCHANGED <<disk, stable, tip, view, walk, crashes>>

Flushing == phase \in {"flush", "replayflush"}

old_tip == IF disk.best # NoBlock THEN disk.best ELSE disk.heads.old

Written(S) == [x \in Outpoint |-> IF x \in S THEN view[x] ELSE disk.coins[x]]

\* Mutant: the old tip is forgotten when a replay is flushed.
PartialBatch_NoOldTip(S) ==
    /\ Flushing
    /\ S \subseteq pending
    /\ disk' = [coins |-> Written(S), best |-> NoBlock,
                heads |-> [new |-> tip, old |-> disk.best]]
    /\ pending' = pending \ S
    /\ UNCHANGED <<stable, tree, index, tip, view, walk, phase, crashes>>

\* Mutant: the two blocks of the mark are swapped.
PartialBatch_Swapped(S) ==
    /\ Flushing
    /\ S \subseteq pending
    /\ disk' = [coins |-> Written(S), best |-> NoBlock,
                heads |-> [new |-> old_tip, old |-> tip]]
    /\ pending' = pending \ S
    /\ UNCHANGED <<stable, tree, index, tip, view, walk, phase, crashes>>

\* CCoinsViewDB::BatchWrite: a partial batch, the first one with the marks.
PartialBatch(S) ==
    /\ Flushing
    /\ S \subseteq pending
    /\ disk' = [coins |-> Written(S), best |-> NoBlock,
                heads |-> [new |-> tip, old |-> old_tip]]
    /\ pending' = pending \ S
    /\ UNCHANGED <<stable, tree, index, tip, view, walk, phase, crashes>>

\* The final batch.  After ReplayBlocks the start goes on with LoadChainTip.
FinalBatch ==
    /\ Flushing
    /\ disk' = [coins |-> Written(pending), best |-> tip, heads |-> NoHeads]
    /\ pending' = {}
    /\ phase' = IF phase = "flush" THEN "run" ELSE "start"
    /\ UNCHANGED <<stable, tree, index, tip, view, walk, crashes>>

\* The batches are not synced; the system writes them out, in order, when it likes.
Sync ==
    /\ stable # disk
    /\ stable' = disk
    /\ UNCHANGED <<disk, tree, index, tip, view, pending, walk, phase, crashes>>

-----------------------------------------------------------------------------
(* Crashes and the next start.                                             *)

Crash(powerFails) ==
    /\ crashes < MaxCrashes
    /\ crashes' = crashes + 1
    /\ disk' = IF powerFails THEN stable ELSE disk
    /\ index' = tree
    /\ tip' = NoBlock /\ view' = NoCoins /\ pending' = {} /\ walk' = NoBlock
    /\ phase' = "start"
    /\ UNCHANGED <<stable, tree>>

\* With an empty database the chain is activated from the genesis block.
LoadChainTip ==
    /\ phase = "start" /\ disk.heads = NoHeads
    /\ disk.best \in index.known \cup {NoBlock}
    /\ tip' = IF disk.best = NoBlock THEN Genesis ELSE disk.best
    /\ view' = disk.coins
    /\ walk' = NoBlock
    /\ phase' = "run"
    /\ UNCHANGED <<disk, stable, tree, index, pending, crashes>>

\* ReplayBlocks up to its first loop; a first flush is replayed from the genesis block.
ReplayBlocks ==
    /\ phase = "start" /\ disk.heads # NoHeads
    /\ disk.heads.new \in index.known
    /\ disk.heads.old \in index.known \cup {NoBlock}
    /\ walk' = IF disk.heads.old = NoBlock THEN Genesis ELSE disk.heads.old
    /\ view' = disk.coins
    /\ phase' = "replay"
    /\ UNCHANGED <<disk, stable, tree, index, tip, pending, crashes>>

\* One round of the first loop: walk is not yet the last common ancestor.
RollBack ==
    /\ phase = "replay"
    /\ walk \notin Chain[disk.heads.new]
    /\ walk \in index.data \cap index.undo
    /\ view' = Undone(walk, view)
    /\ walk' = Parent[walk]
    /\ UNCHANGED <<disk, stable, tree, index, tip, pending, phase, crashes>>

\* One round of the second loop.
RollforwardBlock ==
    /\ phase = "replay"
    /\ \E b \in index.data :
          /\ walk \in Chain[disk.heads.new] /\ IsNext(b, walk, disk.heads.new)
          /\ view' = Applied(b, view)
          /\ walk' = b
    /\ UNCHANGED <<disk, stable, tree, index, tip, pending, phase, crashes>>

\* SetBestBlock and Flush at the end of ReplayBlocks.
ReplayFlush ==
    /\ phase = "replay" /\ walk = disk.heads.new
    /\ tip' = walk
    /\ pending' = Changed
    /\ phase' = "replayflush"
    /\ UNCHANGED <<disk, stable, tree, index, view, walk, crashes>>

\* A block of the transition is unknown, or its data or undo data is gone.
Unreplayable ==
    \/ phase = "start" /\ disk.heads # NoHeads
        /\ ~ {disk.heads.new, disk.heads.old} \subseteq index.known \cup {NoBlock}
    \/ phase = "start" /\ disk.heads = NoHeads /\ disk.best \notin index.known \cup {NoBlock}
    \/ phase = "replay"
        /\ IF walk \notin Chain[disk.heads.new]
           THEN walk \notin index.data \cap index.undo
           ELSE \E b \in Block \ index.data : IsNext(b, walk, disk.heads.new)

StartFails ==
    /\ Unreplayable
    /\ phase' = "failed"
    /\ UNCHANGED <<disk, stable, tree, index, tip, view, pending, walk, crashes>>

-----------------------------------------------------------------------------
Write ==
    \/ \E S \in SUBSET pending : PartialBatch(S)
    \/ FinalBatch

Start ==
    \/ LoadChainTip
    \/ ReplayBlocks
    \/ RollBack
    \/ RollforwardBlock
    \/ ReplayFlush
    \/ StartFails

Next ==
    \/ \E b \in Block : AcceptBlock(b) \/ ConnectTip(b)
    \/ DisconnectTip
    \/ WriteIndex
    \/ phase = "run" /\ \E P \in Prunable : FlushStateToDisk(P)
    \/ Write
    \/ Sync
    \/ \E powerFails \in BOOLEAN : Crash(powerFails)
    \/ Start

Spec == Init /\ [][Next]_vars

\* The thread that flushes or starts the node goes on until it crashes.
FairSpec == Spec /\ WF_vars(Start) /\ WF_vars(FinalBatch)

-----------------------------------------------------------------------------
(***************************************************************************)
(* The coins are exactly the UTXO set of the block they claim to belong    *)
(* to: on disk whenever the database is not marked as in a transition, and *)
(* in the view of the running node, whatever was flushed, interrupted,     *)
(* lost, rolled back and rolled forward before.                            *)
(***************************************************************************)
UtxoExact ==
    /\ disk.heads = NoHeads => disk.coins = UtxoOf(disk.best)
    /\ phase = "run" => view = Utxo[tip]

(***************************************************************************)
(* The assertion of BatchWrite: a database in the middle of a transition   *)
(* is only ever flushed for the block the transition leads to.             *)
(***************************************************************************)
HeadsMatch ==
    Flushing /\ disk.best = NoBlock /\ disk.heads # NoHeads => disk.heads.new = tip

(***************************************************************************)
(* A node that crashes, also in the middle of its recovery, is running     *)
(* again in the end, unless a block file was ever pruned: every block of   *)
(* the transition is in the block index, with its data and, on the old     *)
(* branch, its undo data.                                                  *)
(***************************************************************************)
Recovers == phase = "start" ~> (phase = "run" \/ index.fHavePruned)
=============================================================================
