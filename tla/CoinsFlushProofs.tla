-------------------------- MODULE CoinsFlushProofs --------------------------
(***************************************************************************)
(* Proofs about CoinsFlush, for every block tree, every UTXO history and   *)
(* any number of crashes.                                                  *)
(*                                                                         *)
(* A database in a transition holds, for every outpoint, the coin of the   *)
(* old or of the new tip.  Replaying preserves this with the block walked  *)
(* to in place of the old tip, so that it ends at the new one.             *)
(***************************************************************************)
EXTENDS CoinsFlush, TLAPS

\* Every coin is the one after block a or the one after block b.
Between(coins, a, b) ==
    \A x \in Outpoint : coins[x] = UtxoOf(a)[x] \/ coins[x] = UtxoOf(b)[x]

Consistent(d) ==
    /\ d.heads = NoHeads => d.coins = UtxoOf(d.best)
    /\ d.heads # NoHeads => d.best = NoBlock /\ Between(d.coins, d.heads.old, d.heads.new)

MemoryExact ==
    /\ phase \in {"run", "flush", "replayflush"} => tip \in Block /\ view = Utxo[tip]
    /\ phase = "run" => disk.heads = NoHeads
    /\ phase \in {"flush", "replayflush"} =>
        /\ pending = Changed
        /\ disk.heads # NoHeads => disk.heads.new = tip
    /\ phase = "replay" =>
        /\ disk.heads # NoHeads
        /\ walk \in Block
        /\ Between(view, walk, disk.heads.new)

FlushInv == TypeOK /\ Consistent(disk) /\ Consistent(stable) /\ MemoryExact

-----------------------------------------------------------------------------
\* Connecting a block leads from its parent's UTXO set to its own.
LEMMA AppliedExact ==
    ASSUME NEW b \in Block \ {Genesis}
    PROVE  Applied(b, Utxo[Parent[b]]) = Utxo[b]
BY CoinsAssumption

\* Disconnecting it leads back.
LEMMA UndoneExact ==
    ASSUME NEW b \in Block \ {Genesis}
    PROVE  Undone(b, Utxo[b]) = Utxo[Parent[b]]
<1>1. Parent[b] \in Block
  BY TreeAssumption
<1>2. Utxo[b] = Applied(b, Utxo[Parent[b]]) /\ Utxo[Parent[b]] \in [Outpoint -> Nat]
  BY <1>1, CoinsAssumption
<1>3. \A x \in Creates[b] : Utxo[Parent[b]][x] = 0
  BY CoinsAssumption
<1>4. \A x \in Outpoint : Undone(b, Utxo[b])[x] = Utxo[Parent[b]][x]
  BY <1>2, <1>3 DEF Undone, Applied
<1> QED
  BY <1>2, <1>4 DEF Undone

\* A block rolled forward over a database between two UTXO sets.
LEMMA AppliedBetween ==
    ASSUME NEW b \in Block \ {Genesis}, NEW n \in Block,
           NEW coins \in [Outpoint -> Nat], Between(coins, Parent[b], n)
    PROVE  Applied(b, coins) \in [Outpoint -> Nat] /\ Between(Applied(b, coins), b, n)
<1>1. Parent[b] \in Block /\ Parent[b] # NoBlock /\ b # NoBlock /\ n # NoBlock
  BY TreeAssumption
<1>2. /\ Utxo[b] = Applied(b, Utxo[Parent[b]])
      /\ Utxo[b] \in [Outpoint -> Nat] /\ Utxo[n] \in [Outpoint -> Nat]
  BY CoinsAssumption
<1>3. \A x \in Outpoint : Applied(b, coins)[x] = Utxo[b][x] \/ Applied(b, coins)[x] = Utxo[n][x]
  <2> TAKE x \in Outpoint
  <2>1. coins[x] = Utxo[Parent[b]][x] \/ coins[x] = Utxo[n][x]
    BY <1>1 DEF Between, UtxoOf
  <2>2. CASE x \in Spends[b] \/ x \in Creates[b]
    BY <1>2, <2>2 DEF Applied
  <2>3. CASE ~(x \in Spends[b] \/ x \in Creates[b])
    BY <1>2, <2>1, <2>3 DEF Applied
  <2> QED
    BY <2>2, <2>3
<1>4. \A x \in Outpoint : Applied(b, coins)[x] \in Nat
  BY <1>2, <1>3
<1> QED
  BY <1>1, <1>3, <1>4 DEF Between, UtxoOf, Applied

\* A block rolled back over a database between two UTXO sets.
LEMMA UndoneBetween ==
    ASSUME NEW b \in Block \ {Genesis}, NEW n \in Block,
           NEW coins \in [Outpoint -> Nat], Between(coins, b, n)
    PROVE  Undone(b, coins) \in [Outpoint -> Nat] /\ Between(Undone(b, coins), Parent[b], n)
<1>1. Parent[b] \in Block /\ Parent[b] # NoBlock /\ b # NoBlock /\ n # NoBlock
  BY TreeAssumption
<1>2. /\ Utxo[b] = Applied(b, Utxo[Parent[b]])
      /\ Utxo[Parent[b]] \in [Outpoint -> Nat] /\ Utxo[n] \in [Outpoint -> Nat]
      /\ \A x \in Creates[b] : Utxo[Parent[b]][x] = 0
  BY <1>1, CoinsAssumption
<1>3. \A x \in Outpoint :
        Undone(b, coins)[x] = Utxo[Parent[b]][x] \/ Undone(b, coins)[x] = Utxo[n][x]
  <2> TAKE x \in Outpoint
  <2>1. coins[x] = Utxo[b][x] \/ coins[x] = Utxo[n][x]
    BY <1>1 DEF Between, UtxoOf
  <2>2. CASE x \in Creates[b]
    BY <1>2, <2>2 DEF Undone
  <2>3. CASE x \notin Creates[b] /\ x \in Spends[b]
    BY <2>3 DEF Undone
  <2>4. CASE x \notin Creates[b] /\ x \notin Spends[b]
    <3>1. Undone(b, coins)[x] = coins[x]
      BY <2>4 DEF Undone
    <3>2. Utxo[b][x] = Utxo[Parent[b]][x]
      BY <1>2, <2>4 DEF Applied
    <3> QED
      BY <2>1, <3>1, <3>2
  <2> QED
    BY <2>2, <2>3, <2>4
<1>4. \A x \in Outpoint : Undone(b, coins)[x] \in Nat
  BY <1>2, <1>3
<1> QED
  BY <1>1, <1>3, <1>4 DEF Between, UtxoOf, Undone

\* UtxoOf is a set of coins.
LEMMA UtxoOfType ==
    ASSUME NEW b \in Block \cup {NoBlock}
    PROVE  UtxoOf(b) \in [Outpoint -> Nat]
BY CoinsAssumption DEF UtxoOf, NoCoins

-----------------------------------------------------------------------------
LEMMA InitFlush == Init => FlushInv
<1> SUFFICES ASSUME Init PROVE FlushInv
  OBVIOUS
<1>1. Genesis \in Block /\ NoBlock \notin Block /\ MaxCrashes \in Nat /\ Utxo[Genesis] = NoCoins
  BY TreeAssumption, CoinsAssumption
<1>2. NoCoins \in [Outpoint -> Nat]
  BY DEF NoCoins
<1>3. disk \in Database
  BY <1>2 DEF Init, Database, NoHeads
<1>4. tree \in BlockIndex
  BY <1>1 DEF Init, BlockIndex
<1>5. TypeOK
  BY <1>1, <1>2, <1>3, <1>4 DEF TypeOK, Init
<1>6. Consistent(disk)
  BY DEF Consistent, Init, UtxoOf
<1> QED
  BY <1>1, <1>5, <1>6 DEF FlushInv, MemoryExact, Init

\* The database after a batch of the entries S of pending.
LEMMA BatchConsistent ==
    ASSUME FlushInv, Flushing, NEW S \in SUBSET pending
    PROVE  /\ Written(S) \in [Outpoint -> Nat]
           /\ old_tip \in Block \cup {NoBlock}
           /\ Between(Written(S), old_tip, tip)
           /\ Written(pending) = view
           /\ pending \ S = {x \in Outpoint : view[x] # Written(S)[x]}
<1>1. /\ tip \in Block /\ view = Utxo[tip] /\ pending = Changed
      /\ disk.heads # NoHeads => disk.heads.new = tip
  BY DEF FlushInv, MemoryExact, Flushing
<1>2. /\ disk.coins \in [Outpoint -> Nat] /\ view \in [Outpoint -> Nat]
      /\ disk.best \in Block \cup {NoBlock} /\ disk.heads \in Heads \cup {NoHeads}
  BY DEF FlushInv, TypeOK, Database
<1>3. Written(S) \in [Outpoint -> Nat]
  BY <1>2 DEF Written
<1>4. old_tip \in Block \cup {NoBlock}
  BY <1>2 DEF old_tip, Heads, NoHeads
<1>5. Written(pending) = view
  BY <1>1, <1>2 DEF Written, Changed
<1>6. pending \ S = {x \in Outpoint : view[x] # Written(S)[x]}
  BY <1>1, <1>2 DEF Written, Changed
<1>7. Between(disk.coins, old_tip, tip)
  <2>1. CASE disk.heads = NoHeads
    <3>1. disk.coins = UtxoOf(disk.best)
      BY <2>1 DEF FlushInv, Consistent
    <3>2. old_tip = disk.best
      BY <2>1 DEF old_tip, NoHeads
    <3> QED
      BY <3>1, <3>2 DEF Between
  <2>2. CASE disk.heads # NoHeads
    <3>1. disk.best = NoBlock /\ Between(disk.coins, disk.heads.old, disk.heads.new)
      BY <2>2 DEF FlushInv, Consistent
    <3>2. old_tip = disk.heads.old
      BY <3>1 DEF old_tip
    <3> QED
      BY <1>1, <2>2, <3>1, <3>2
  <2> QED
    BY <2>1, <2>2
<1>8. Between(Written(S), old_tip, tip)
  <2> SUFFICES ASSUME NEW x \in Outpoint
               PROVE  Written(S)[x] = UtxoOf(old_tip)[x] \/ Written(S)[x] = UtxoOf(tip)[x]
    BY DEF Between
  <2>1. UtxoOf(tip) = view
    BY <1>1, TreeAssumption DEF UtxoOf
  <2>2. CASE x \in S
    BY <2>1, <2>2 DEF Written
  <2>3. CASE x \notin S
    BY <1>7, <2>3 DEF Written, Between
  <2> QED
    BY <2>2, <2>3
<1> QED
  BY <1>3, <1>4, <1>5, <1>6, <1>8

LEMMA NextFlush == FlushInv /\ [Next]_vars => FlushInv'
<1> SUFFICES ASSUME FlushInv, [Next]_vars PROVE FlushInv'
  OBVIOUS
<1> USE DEF FlushInv
<1>0. /\ Genesis \in Block /\ NoBlock \notin Block
      /\ Parent \in [Block \ {Genesis} -> Block]
      /\ \A b \in Block : Genesis \in Chain[b]
      /\ MaxCrashes \in Nat /\ Utxo[Genesis] = NoCoins
  BY TreeAssumption, CoinsAssumption
<1>c. NoCoins \in [Outpoint -> Nat]
  BY DEF NoCoins
<1>d. /\ disk.coins \in [Outpoint -> Nat]
      /\ disk.best \in Block \cup {NoBlock}
      /\ disk.heads # NoHeads => disk.heads.new \in Block /\ disk.heads.old \in Block \cup {NoBlock}
  BY DEF TypeOK, Database, Heads
<1>1. ASSUME NEW b \in Block, AcceptBlock(b) PROVE FlushInv'
  <2>1. index' \in BlockIndex
    BY <1>1 DEF AcceptBlock, TypeOK, BlockIndex
  <2> QED
    BY <1>1, <2>1 DEF AcceptBlock, TypeOK, Consistent, MemoryExact, Changed
<1>2. ASSUME NEW b \in Block, ConnectTip(b) PROVE FlushInv'
  <2>1. index' \in BlockIndex
    BY <1>2 DEF ConnectTip, TypeOK, BlockIndex
  <2>2. view' = Utxo[b] /\ view' \in [Outpoint -> Nat]
    BY <1>2, AppliedExact, CoinsAssumption DEF ConnectTip, MemoryExact
  <2> QED
    BY <1>2, <2>1, <2>2 DEF ConnectTip, TypeOK, Consistent, MemoryExact
<1>3. ASSUME DisconnectTip PROVE FlushInv'
  <2>1. tip \in Block \ {Genesis} /\ Parent[tip] \in Block
    BY <1>0, <1>3 DEF DisconnectTip, MemoryExact
  <2>2. view' = Utxo[Parent[tip]] /\ view' \in [Outpoint -> Nat]
    BY <1>3, <2>1, UndoneExact, CoinsAssumption DEF DisconnectTip, MemoryExact
  <2> QED
    BY <1>3, <2>1, <2>2 DEF DisconnectTip, TypeOK, Consistent, MemoryExact
<1>4. ASSUME WriteIndex PROVE FlushInv'
  BY <1>4 DEF WriteIndex, TypeOK, Consistent, MemoryExact
<1>5. ASSUME NEW P, FlushStateToDisk(P) PROVE FlushInv'
  <2>1. index' \in BlockIndex /\ tree' \in BlockIndex
    BY <1>5 DEF FlushStateToDisk, Pruned, TypeOK, BlockIndex
  <2>2. Changed \in SUBSET Outpoint /\ Changed' = Changed
    BY <1>5 DEF Changed, FlushStateToDisk
  <2> QED
    BY <1>5, <2>1, <2>2 DEF FlushStateToDisk, TypeOK, Consistent, MemoryExact
<1>6. ASSUME NEW S \in SUBSET pending, PartialBatch(S) PROVE FlushInv'
  <2>1. /\ Written(S) \in [Outpoint -> Nat]
        /\ old_tip \in Block \cup {NoBlock}
        /\ Between(Written(S), old_tip, tip)
        /\ pending \ S = {x \in Outpoint : view[x] # Written(S)[x]}
    BY <1>6, BatchConsistent DEF PartialBatch
  <2>2. tip \in Block
    BY <1>6 DEF PartialBatch, Flushing, MemoryExact
  <2>3. /\ disk'.coins = Written(S) /\ disk'.best = NoBlock
        /\ disk'.heads = [new |-> tip, old |-> old_tip]
        /\ disk'.heads.new = tip /\ disk'.heads.old = old_tip
    BY <1>6 DEF PartialBatch
  <2>4. disk' \in Database
    BY <1>6, <2>1, <2>2 DEF PartialBatch, Database, Heads
  <2>5. disk'.heads # NoHeads
    BY <1>0, <2>2, <2>3 DEF NoHeads
  <2>6. Consistent(disk)'
    BY <2>1, <2>3, <2>5 DEF Consistent
  <2>7. pending' = Changed'
    BY <1>6, <2>1, <2>3 DEF PartialBatch, Changed
  <2> QED
    BY <1>6, <2>2, <2>3, <2>4, <2>5, <2>6, <2>7
    DEF PartialBatch, TypeOK, Consistent, MemoryExact, Flushing
<1>7. ASSUME FinalBatch PROVE FlushInv'
  <2>1. tip \in Block /\ view = Utxo[tip] /\ UtxoOf(tip) = Utxo[tip]
    BY <1>0, <1>7 DEF FinalBatch, Flushing, MemoryExact, UtxoOf
  <2>2. Written(pending) = view
    BY <1>7, BatchConsistent DEF FinalBatch
  <2>3. disk'.coins = view /\ disk'.best = tip /\ disk'.heads = NoHeads
    BY <1>7, <2>2 DEF FinalBatch
  <2>4. disk' \in Database
    BY <1>7, <2>1, <2>2 DEF FinalBatch, Database, TypeOK
  <2>5. Consistent(disk)'
    BY <1>7, <2>1, <2>3 DEF Consistent, FinalBatch
  <2> QED
    BY <1>7, <2>1, <2>3, <2>4, <2>5 DEF FinalBatch, TypeOK, Consistent, MemoryExact
<1>8. ASSUME Sync PROVE FlushInv'
  BY <1>8 DEF Sync, TypeOK, Consistent, MemoryExact, Changed
<1>9. ASSUME NEW powerFails \in BOOLEAN, Crash(powerFails) PROVE FlushInv'
  <2>1. disk' \in Database /\ Consistent(disk)'
    BY <1>9 DEF Crash, TypeOK, Consistent
  <2>2. crashes' \in 0 .. MaxCrashes
    BY <1>0, <1>9 DEF Crash, TypeOK
  <2> QED
    BY <1>9, <1>c, <2>1, <2>2 DEF Crash, TypeOK, Consistent, MemoryExact
<1>10. ASSUME LoadChainTip PROVE FlushInv'
  <2>1. tip' \in Block /\ view' = Utxo[tip'] /\ view' \in [Outpoint -> Nat]
    BY <1>0, <1>d, <1>10 DEF LoadChainTip, Consistent, UtxoOf
  <2> QED
    BY <1>10, <2>1 DEF LoadChainTip, TypeOK, Consistent, MemoryExact
<1>11. ASSUME ReplayBlocks PROVE FlushInv'
  <2>1. walk' \in Block /\ UtxoOf(walk') = UtxoOf(disk.heads.old)
    BY <1>0, <1>d, <1>11 DEF ReplayBlocks, UtxoOf
  <2>2. Between(view', walk', disk'.heads.new)
    BY <1>11, <2>1 DEF ReplayBlocks, Consistent, Between
  <2> QED
    BY <1>d, <1>11, <2>1, <2>2 DEF ReplayBlocks, TypeOK, Consistent, MemoryExact
<1>12. ASSUME RollBack PROVE FlushInv'
  <2>1. /\ disk.heads.new \in Block /\ walk \in Block \ {Genesis} /\ Parent[walk] \in Block
        /\ disk.heads # NoHeads /\ Between(view, walk, disk.heads.new)
    BY <1>0, <1>d, <1>12 DEF RollBack, MemoryExact
  <2>2. view' \in [Outpoint -> Nat] /\ Between(view', Parent[walk], disk.heads.new)
    BY <1>12, <2>1, UndoneBetween DEF RollBack, TypeOK
  <2> QED
    BY <1>12, <2>1, <2>2 DEF RollBack, TypeOK, Consistent, MemoryExact
<1>13. ASSUME RollforwardBlock PROVE FlushInv'
  <2>1. /\ disk.heads.new \in Block /\ disk.heads # NoHeads
        /\ Between(view, walk, disk.heads.new)
    BY <1>d, <1>13 DEF RollforwardBlock, MemoryExact
  <2>2. PICK b \in index.data :
            /\ IsNext(b, walk, disk.heads.new)
            /\ view' = Applied(b, view)
            /\ walk' = b
    BY <1>13 DEF RollforwardBlock
  <2>3. b \in Block \ {Genesis} /\ Parent[b] = walk
    BY <2>2 DEF IsNext, TypeOK, BlockIndex
  <2>4. view' \in [Outpoint -> Nat] /\ Between(view', b, disk.heads.new)
    BY <2>1, <2>2, <2>3, AppliedBetween DEF TypeOK
  <2> QED
    BY <1>13, <2>1, <2>2, <2>3, <2>4 DEF RollforwardBlock, TypeOK, Consistent, MemoryExact
<1>14. ASSUME ReplayFlush PROVE FlushInv'
  <2>1. walk \in Block /\ disk.heads # NoHeads /\ Between(view, walk, walk)
    BY <1>14 DEF ReplayFlush, MemoryExact
  <2>2. UtxoOf(walk) = Utxo[walk] /\ Utxo[walk] \in [Outpoint -> Nat]
    BY <1>0, <2>1, CoinsAssumption DEF UtxoOf
  <2>3. view = Utxo[walk]
    BY <2>1, <2>2 DEF Between, TypeOK
  <2>4. Changed \in SUBSET Outpoint /\ Changed' = Changed
    BY <1>14 DEF Changed, ReplayFlush
  <2> QED
    BY <1>14, <2>1, <2>3, <2>4 DEF ReplayFlush, TypeOK, Consistent, MemoryExact
<1>15. ASSUME StartFails PROVE FlushInv'
  BY <1>15 DEF StartFails, TypeOK, Consistent, MemoryExact
<1>16. ASSUME UNCHANGED vars PROVE FlushInv'
  BY <1>16 DEF vars, TypeOK, Consistent, MemoryExact, Changed
<1> QED
  BY <1>1, <1>2, <1>3, <1>4, <1>5, <1>6, <1>7, <1>8, <1>9, <1>10, <1>11, <1>12, <1>13,
     <1>14, <1>15, <1>16 DEF Next, Write, Start

LEMMA FlushInvariant == Spec => []FlushInv
<1> QED
  BY InitFlush, NextFlush, PTL DEF Spec

(***************************************************************************)
(* Whatever is flushed, interrupted, lost and replayed, the coins on disk  *)
(* and in memory are the UTXO set of the block they claim to belong to     *)
(* (CCoinsViewDB::BatchWrite, ReplayBlocks, LoadChainTip).                 *)
(***************************************************************************)
THEOREM CrashSafe == Spec => []UtxoExact
<1>1. FlushInv => UtxoExact
  BY DEF FlushInv, Consistent, MemoryExact, UtxoExact
<1> QED
  BY <1>1, FlushInvariant, PTL

(***************************************************************************)
(* The assertion old_heads[0] == hashBlock of CCoinsViewDB::BatchWrite.    *)
(***************************************************************************)
THEOREM HeadsAgree == Spec => []HeadsMatch
<1>1. FlushInv => HeadsMatch
  BY DEF FlushInv, MemoryExact, HeadsMatch, Flushing
<1> QED
  BY <1>1, FlushInvariant, PTL
=============================================================================
