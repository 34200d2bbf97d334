------------------------------ MODULE Mempool ------------------------------
(***************************************************************************)
(* The memory pool (src/src/txmempool.cpp) and the code of validation.cpp  *)
(* that keeps it in step with the active chain: acceptance with its        *)
(* package limits and replacement rules, removal when a block is           *)
(* connected, the queue of disconnected transactions during a              *)
(* reorganisation, and the repair at the end of one.                       *)
(*                                                                         *)
(* An entry carries what the code caches in it: the totals (count, size,   *)
(* modified fee) of its in-pool ancestors and of its in-pool descendants,  *)
(* itself included in both.  Nothing recomputes these totals, every        *)
(* operation adjusts them.  The signature operation total is kept exactly  *)
(* like the ancestor size and is left out.                                 *)
(*                                                                         *)
(* cs_main is held throughout ActivateBestChainStep and InvalidateBlock,   *)
(* so that no transaction is accepted while blocks are being disconnected. *)
(***************************************************************************)
EXTENDS Integers, FiniteSets, FiniteSetsExt, SequencesExt

CONSTANTS
  Tx,                 \* the transactions
  NoTx,               \* "none": the creator of a coin that was always there
  Coinbase,           \* the transactions that may only open a block
  Outpoint,           \* the coins
  Source,             \* the transaction that creates a coin, or NoTx
  Spends,             \* the coins that a transaction spends
  Size, Fee,          \* of a transaction
  Replaceable,        \* transactions that signal BIP 125 replacement
  NonStandard,        \* transactions that only a block may carry
  Blocks,             \* what a block may hold: sequences of transactions
  Prioritisable,      \* bound: the transactions given to prioritisetransaction
  MaxDelta,           \* bound: the largest fee delta
  MaxHeight,          \* bound: the length of the chain
  MaxTime,            \* bound: the clock
  CoinbaseMaturity, MaxFutureBlockTime,
  LimitAncestors, LimitAncestorSize, LimitDescendants, LimitDescendantSize,
  MinRelayTxFee, IncrementalRelayFee,  \* per unit of size
  MaxMempool,         \* -maxmempool, in units of DynamicMemoryUsage
  MaxDisconnectedPool \* MAX_DISCONNECTED_TX_POOL_SIZE, counted in transactions

ASSUME TxAssumption ==
  /\ NoTx \notin Tx
  /\ Coinbase \subseteq Tx /\ Replaceable \subseteq Tx /\ NonStandard \subseteq Tx
  /\ Source \in [Outpoint -> Tx \cup {NoTx}]
  /\ Spends \in [Tx -> SUBSET Outpoint]
  /\ Size \in [Tx -> Nat \ {0}] /\ Fee \in [Tx -> Nat]
  /\ Blocks \subseteq Seq(Tx)

VARIABLES
  pool,   \* the CTxMemPool
  chain,  \* the blocks above the genesis: what they hold and their time
  queue,  \* DisconnectedBlockTransactions::queuedTx, in insertion order
  phase,  \* where ActivateBestChainStep or InvalidateBlock is
  clock   \* GetAdjustedTime

vars == <<pool, chain, queue, phase, clock>>

(***************************************************************************)
(* Totals.                                                                 *)
(***************************************************************************)
Zero == [count |-> 0, size |-> 0, fee |-> 0]

Plus(x, y) == [k \in {"count", "size", "fee"} |-> x[k] + y[k]]

Minus(x, y) == [k \in {"count", "size", "fee"} |-> x[k] - y[k]]

\* The fee of an entry with the delta it carries (GetModifiedFee).
ModifiedFee(p, t) == Fee[t] + p.feeDelta[t]

Total(p, S) ==
  [count |-> Cardinality(S),
   size  |-> MapThenSumSet(LAMBDA t : Size[t], S),
   fee   |-> MapThenSumSet(LAMBDA t : ModifiedFee(p, t), S)]

\* UpdateAncestorState and UpdateDescendantState of the entries in the domain of d
\* with their assertions; d gives the new totals, "which" says which of the two.
UpdateState(p, which, d) ==
  LET new == [t \in Tx |-> IF t \in DOMAIN d THEN d[t] ELSE p[which][t]]
  IN [p EXCEPT ![which] = new,
               !.assertsHeld = @ /\ \A t \in DOMAIN d : d[t].count > 0 /\ d[t].size > 0]

(***************************************************************************)
(* The graph of the pool.  mapLinks holds it in both directions.           *)
(***************************************************************************)
RECURSIVE Closure(_, _)
Closure(links, S) ==
  LET next == S \cup UNION {links[t] : t \in S}
  IN IF next = S THEN S ELSE Closure(links, next)

\* CalculateDescendants of every member of S, the members included.
CalculateDescendants(p, S) == Closure(p.children, S)

\* GetMemPoolParents found from the inputs (fSearchForParents).
InPoolParents(p, t) == {Source[o] : o \in Spends[t]} \cap p.mapTx

\* CalculateMemPoolAncestors without limits, from the links of an entry.
Ancestors(p, t) == Closure(p.parents, p.parents[t])

EmptyPool ==
  [mapTx |-> {},
   parents |-> [t \in Tx |-> {}], children |-> [t \in Tx |-> {}],
   ancestors |-> [t \in Tx |-> Zero], descendants |-> [t \in Tx |-> Zero],
   feeDelta |-> [t \in Tx |-> 0],
   mapNextTx |-> [o \in Outpoint |-> NoTx],
   mapDeltas |-> [t \in {} |-> 0],
   totalTxSize |-> 0,
   assertsHeld |-> TRUE]

\* ApplyDelta: the delta mapDeltas has for t, or none.
Delta(p, t) == IF t \in DOMAIN p.mapDeltas THEN p.mapDeltas[t] ELSE 0

\* An entry, with its links and inputs, is one unit, and so is a key of mapDeltas.
DynamicMemoryUsage(p) == Cardinality(p.mapTx) + Cardinality(DOMAIN p.mapDeltas)

(***************************************************************************)
(* addUnchecked: t enters below its ancestors A.                           *)
(***************************************************************************)
addUnchecked(p, t, A) ==
  LET parents == InPoolParents(p, t)
      p1 == [p EXCEPT
               !.mapTx = @ \cup {t},
               !.feeDelta[t] = Delta(p, t),
               !.mapNextTx = [o \in Outpoint |->
                                IF o \in Spends[t] /\ @[o] = NoTx THEN t ELSE @[o]],
               !.parents[t] = parents,
               !.children = [u \in Tx |-> IF u \in parents THEN @[u] \cup {t} ELSE @[u]],
               !.totalTxSize = @ + Size[t]]
      own == Total(p1, {t})
      p2 == [p1 EXCEPT !.ancestors[t] = own, !.descendants[t] = own]
      p3 == UpdateState(p2, "descendants", [a \in A |-> Plus(p2.descendants[a], own)])
  IN UpdateState(p3, "ancestors", [u \in {t} |-> Plus(own, Total(p3, A))])

(***************************************************************************)
(* RemoveStaged.  The members of S leave.  Their remaining ancestors lose  *)
(* them; with updateDescendants their remaining descendants do too, which  *)
(* is what a block needs: it takes a parent and leaves its children.       *)
(***************************************************************************)
UpdateForRemoveFromMempool(p, S, updateDescendants) ==
  LET below(t) == CalculateDescendants(p, {t}) \ {t}
      p1 == IF updateDescendants
              THEN UpdateState(p, "ancestors", [t \in UNION {below(r) : r \in S} |->
                     Minus(p.ancestors[t], Total(p, {r \in S : t \in below(r)}))])
              ELSE p
      p2 == UpdateState(p1, "descendants", [t \in UNION {Ancestors(p, r) : r \in S} |->
              Minus(p.descendants[t], Total(p, {r \in S : t \in Ancestors(p, r)}))])
      kept(links, other) == [t \in Tx |-> links[t] \ {r \in S : t \in other[r]}]
  IN [p2 EXCEPT !.children = kept(@, p.parents), !.parents = kept(@, p.children)]

\* removeUnchecked of every member of S.
removeUnchecked(p, S) ==
  LET gone(f, none) == [t \in Tx |-> IF t \in S THEN none ELSE f[t]]
  IN [p EXCEPT
        !.mapTx = @ \ S,
        !.mapNextTx = [o \in Outpoint |->
                         IF \E t \in S : o \in Spends[t] THEN NoTx ELSE @[o]],
        !.parents = gone(@, {}), !.children = gone(@, {}),
        !.ancestors = gone(@, Zero), !.descendants = gone(@, Zero),
        !.feeDelta = gone(@, 0),
        !.totalTxSize = @ - Total(p, S).size]

RemoveStaged(p, S, updateDescendants) ==
  removeUnchecked(UpdateForRemoveFromMempool(p, S, updateDescendants), S)

removeRecursive_OnlyInPool(p, t) ==
  RemoveStaged(p, CalculateDescendants(p, {t} \cap p.mapTx), FALSE)

\* A transaction that is not in the pool stands for the pool's spenders of its
\* outputs: they are its children although no link says so.
removeRecursive(p, t) ==
  LET spenders == {p.mapNextTx[o] : o \in {u \in Outpoint : Source[u] = t}} \ {NoTx}
      txToRemove == IF t \in p.mapTx THEN {t} ELSE spenders
  IN RemoveStaged(p, CalculateDescendants(p, txToRemove), FALSE)

ClearPrioritisation(p, t) == [p EXCEPT !.mapDeltas = Restrict(@, DOMAIN @ \ {t})]

\* What spends the coin o in the pool now, if it is not t itself, goes.
removeConflict(p, t, o) ==
  LET u == p.mapNextTx[o]
  IN IF u \in {NoTx, t} THEN p ELSE removeRecursive(ClearPrioritisation(p, u), u)

removeConflicts(p, t) == FoldSet(LAMBDA o, q : removeConflict(q, t, o), p, Spends[t])

removeForBlock(p, vtx) ==
  FoldLeft(LAMBDA q, t :
             LET q1 == IF t \in q.mapTx THEN RemoveStaged(q, {t}, TRUE) ELSE q
             IN ClearPrioritisation(removeConflicts(q1, t), t),
           p, vtx)

(***************************************************************************)
(* The active chain and its coins.                                         *)
(***************************************************************************)
\* The height of the block of ch that holds t; the coins of NoTx are older.
Confirmed(ch) == UNION {ToSet(ch[h].vtx) : h \in DOMAIN ch}

HeightOf(ch, t) ==
  IF t = NoTx THEN 0 ELSE CHOOSE h \in DOMAIN ch : Contains(ch[h].vtx, t)

HaveCoin(ch, o) ==
  /\ Source[o] \in Confirmed(ch) \cup {NoTx}
  /\ \A t \in Confirmed(ch) : o \notin Spends[t]

\* Consensus::CheckTxInputs of one confirmed coin at a height and time.  Since
\* the TLR fork a coin may not be spent before the time of its block.
MayBeSpent(ch, o, height, time) ==
  LET created == HeightOf(ch, Source[o])
  IN /\ Source[o] \in Coinbase => height - created >= CoinbaseMaturity
     /\ created > 0 => ch[created].nTime <= time

\* A coin of the pool (CCoinsViewMemPool) or of the chain.
InputsSpendable(p, t, ch, time) ==
  \A o \in Spends[t] :
    \/ Source[o] \in p.mapTx
    \/ HaveCoin(ch, o) /\ MayBeSpent(ch, o, Len(ch) + 1, time)

(***************************************************************************)
(* Acceptance.                                                             *)
(***************************************************************************)
\* CalculateMemPoolAncestors of a transaction that is not in the pool yet.
NewAncestors(p, t) == Closure(p.parents, InPoolParents(p, t))

WithinLimits(p, t, A) ==
  A # {} => /\ Cardinality(A) + 1 <= LimitAncestors
            /\ Size[t] + Total(p, A).size <= LimitAncestorSize
            /\ \A a \in A : /\ p.descendants[a].count + 1 <= LimitDescendants
                            /\ p.descendants[a].size + Size[t] <= LimitDescendantSize

setConflicts(p, t) == {p.mapNextTx[o] : o \in Spends[t]} \ {NoTx}

\* The BIP 125 rules; newFee is the fee of t with its delta.  (The limit of 100 on
\* the transactions replaced at once is beyond any instance.)
MayReplace(p, t, newFee) ==
  LET direct == setConflicts(p, t)
      all    == CalculateDescendants(p, direct)
      conflictsParents == {Source[o] : o \in UNION {Spends[u] : u \in direct}}
  IN /\ direct \subseteq Replaceable
     /\ direct \cap NewAncestors(p, t) = {}
     /\ \A u \in direct : newFee * Size[u] > ModifiedFee(p, u) * Size[t]
     /\ InPoolParents(p, t) \subseteq conflictsParents
     /\ newFee - Total(p, all).fee >= IncrementalRelayFee * Size[t]

Acceptable(p, t, ch, time, bypass_limits) ==
  LET newFee == Fee[t] + Delta(p, t)
  IN /\ t \notin Coinbase \cup NonStandard \cup p.mapTx
     /\ InputsSpendable(p, t, ch, time)
     /\ ~bypass_limits => newFee >= MinRelayTxFee * Size[t]
     /\ WithinLimits(p, t, NewAncestors(p, t))
     /\ setConflicts(p, t) # {} => MayReplace(p, t, newFee)

Enter_KeepsConflicts(p, t) == addUnchecked(p, t, NewAncestors(p, t))

\* The end of AcceptToMemoryPoolWorker before the size limit.
Enter(p, t) ==
  LET all == CalculateDescendants(p, setConflicts(p, t))
  IN addUnchecked(RemoveStaged(p, all, FALSE), t, NewAncestors(p, t))

(***************************************************************************)
(* LimitMempoolSize: expiry of any entries, then eviction of the packages  *)
(* with the lowest descendant score.  Entry times are not modelled: any    *)
(* entries may be old, and any order of equal scores is possible.          *)
(***************************************************************************)
Score(p, t) ==
  LET own == Total(p, {t})
  IN IF p.descendants[t].fee * own.size > own.fee * p.descendants[t].size
       THEN p.descendants[t] ELSE own

\* The possible results of TrimToSize.
RECURSIVE TrimToSize(_)
TrimToSize(p) ==
  IF p.mapTx = {} \/ DynamicMemoryUsage(p) <= MaxMempool THEN {p}
  ELSE LET lowest == {t \in p.mapTx : \A u \in p.mapTx :
                        Score(p, t).fee * Score(p, u).size <= Score(p, u).fee * Score(p, t).size}
       IN UNION {TrimToSize(RemoveStaged(p, CalculateDescendants(p, {t}), FALSE)) : t \in lowest}

Expire(p, old) == RemoveStaged(p, CalculateDescendants(p, old), FALSE)

LimitMempoolSize(p) == UNION {TrimToSize(Expire(p, old)) : old \in SUBSET p.mapTx}

(***************************************************************************)
(* The repair at the end of a reorganisation.                              *)
(***************************************************************************)
UpdateForDescendants_CountsBlock(p, t, exclude) ==
  LET below == CalculateDescendants(p, {t}) \ {t}
      p1 == UpdateState(p, "ancestors", [u \in below |-> Plus(p.ancestors[u], Total(p, {t}))])
  IN UpdateState(p1, "descendants", [u \in {t} |-> Plus(p.descendants[u], Total(p, below))])

\* UpdateForDescendants: the descendants of t that did not come back from a block
\* with it.  (cachedDescendants only spares a second walk.)
UpdateForDescendants(p, t, exclude) ==
  LET below == CalculateDescendants(p, {t}) \ ({t} \cup exclude)
      p1 == UpdateState(p, "ancestors", [u \in below |-> Plus(p.ancestors[u], Total(p, {t}))])
  IN UpdateState(p1, "descendants", [u \in {t} |-> Plus(p.descendants[u], Total(p, below))])

LinkChildren(p, t, exclude) ==
  LET found == {p.mapNextTx[o] : o \in {u \in Outpoint : Source[u] = t}} \ ({NoTx} \cup exclude)
  IN [p EXCEPT !.children[t] = @ \cup found,
               !.parents = [u \in Tx |-> IF u \in found THEN @[u] \cup {t} ELSE @[u]]]

UpdateTransactionsFromBlock_OnlyLinks(p, hashes) ==
  FoldRight(LAMBDA t, q : IF t \in q.mapTx THEN LinkChildren(q, t, ToSet(hashes)) ELSE q, hashes, p)

\* From the last to the first: a child is complete before its parents.
UpdateTransactionsFromBlock(p, hashes) ==
  LET included == ToSet(hashes)
  IN FoldRight(LAMBDA t, q : IF t \in q.mapTx
                               THEN UpdateForDescendants(LinkChildren(q, t, included), t, included)
                               ELSE q,
               hashes, p)

\* Transactions that spend a coinbase, if the new tip makes it immature or another
\* input is gone, which is asserted not to be with -checkmempool.  Transactions that are
\* no longer final go too; LimitMempoolSize, which follows, takes any entries.
removeForReorg(p, ch, time) ==
  LET spender    == {t \in p.mapTx : \E o \in Spends[t] : Source[o] \in Coinbase}
      outside(t) == {o \in Spends[t] : Source[o] \notin p.mapTx}
      spent(t)   == \E o \in outside(t) : ~HaveCoin(ch, o)
      immature(t) == \E o \in outside(t) :
                       /\ HaveCoin(ch, o) /\ Source[o] \in Coinbase
                       /\ Len(ch) + 1 - HeightOf(ch, Source[o]) < CoinbaseMaturity
      txToRemove == {t \in spender : spent(t) \/ immature(t)}
      asserted   == [p EXCEPT !.assertsHeld = @ /\ \A t \in spender : ~spent(t)]
  IN RemoveStaged(asserted, CalculateDescendants(p, txToRemove), FALSE)

\* One queued transaction of UpdateMempoolForReorg: r is the pool so far and vHashUpdate.
Resurrect(r, t, ch, time, fAddToMempool) ==
  IF fAddToMempool /\ Acceptable(r.pool, t, ch, time, TRUE)
    THEN [pool |-> Enter(r.pool, t), update |-> Append(r.update, t)]
    ELSE [r EXCEPT !.pool = removeRecursive(@, t)]

Repaired(p, q, ch, time, fAddToMempool) ==
  LET r == FoldRight(LAMBDA t, s : Resurrect(s, t, ch, time, fAddToMempool), q,
                     [pool |-> p, update |-> <<>>])
  IN removeForReorg(UpdateTransactionsFromBlock(r.pool, r.update), ch, time)

UpdateMempoolForReorg_NoLimit(p, q, ch, time, fAddToMempool) ==
  {Repaired(p, q, ch, time, fAddToMempool)}

\* The possible pools at the end of UpdateMempoolForReorg.
UpdateMempoolForReorg(p, q, ch, time, fAddToMempool) ==
  LimitMempoolSize(Repaired(p, q, ch, time, fAddToMempool))

(***************************************************************************)
(* The actions.                                                            *)
(***************************************************************************)
Init ==
  /\ pool = EmptyPool
  /\ chain = <<>> /\ queue = <<>> /\ phase = "idle" /\ clock = 0

AcceptToMemoryPool(t) ==
  /\ phase = "idle"
  /\ Acceptable(pool, t, chain, clock, FALSE)
  /\ pool' \in LimitMempoolSize(Enter(pool, t))
  /\ UNCHANGED <<chain, queue, phase, clock>>

\* prioritisetransaction with a delta of d.
PrioritiseTransaction(t, d) ==
  /\ phase = "idle"
  /\ Delta(pool, t) + d \in 0..MaxDelta
  /\ LET p1 == [pool EXCEPT !.mapDeltas = (t :> Delta(pool, t) + d) @@ @]
         own == p1.mapDeltas[t] - p1.feeDelta[t]
         change(u) == [count |-> 0, size |-> 0, fee |-> IF u = t THEN own ELSE d]
         above == Ancestors(p1, t) \cup {t}
         below == CalculateDescendants(p1, {t})
         p2 == UpdateState([p1 EXCEPT !.feeDelta[t] = p1.mapDeltas[t]], "descendants",
                           [u \in above |-> Plus(p1.descendants[u], change(u))])
     IN pool' = IF t \in pool.mapTx
                  THEN UpdateState(p2, "ancestors", [u \in below |-> Plus(p1.ancestors[u], change(u))])
                  ELSE p1
  /\ UNCHANGED <<chain, queue, phase, clock>>

\* ConnectBlock on the inputs of a block: each transaction spends coins of the chain
\* or of the transactions before it.
Valid(ch, vtx, time) ==
  \A i \in DOMAIN vtx :
    /\ vtx[i] \notin Confirmed(ch) /\ \A j \in 1..(i - 1) : vtx[j] # vtx[i]
    /\ vtx[i] \in Coinbase => i = 1
    /\ \A o \in Spends[vtx[i]] :
         /\ \A j \in 1..(i - 1) : o \notin Spends[vtx[j]]
         /\ \/ \E j \in 1..(i - 1) : vtx[j] = Source[o] /\ vtx[j] \notin Coinbase
            \/ HaveCoin(ch, o) /\ MayBeSpent(ch, o, Len(ch) + 1, time)

ConnectTip_KeepsQueue(vtx, time) ==
  /\ Len(chain) < MaxHeight
  /\ time <= clock + MaxFutureBlockTime
  /\ Valid(chain, vtx, time)
  /\ pool' = removeForBlock(pool, vtx)
  /\ chain' = Append(chain, [vtx |-> vtx, nTime |-> time])
  /\ phase' = IF phase = "idle" THEN "idle" ELSE "connecting"
  /\ UNCHANGED <<queue, clock>>

ConnectTip(vtx, time) ==
  /\ Len(chain) < MaxHeight
  /\ time <= clock + MaxFutureBlockTime
  /\ Valid(chain, vtx, time)
  /\ pool' = removeForBlock(pool, vtx)
  /\ queue' = SelectSeq(queue, LAMBDA t : ~Contains(vtx, t))
  /\ chain' = Append(chain, [vtx |-> vtx, nTime |-> time])
  /\ phase' = IF phase = "idle" THEN "idle" ELSE "connecting"
  /\ UNCHANGED clock

\* The queue sheds its oldest entries when it is too large.
RECURSIVE Shed(_)
Shed(r) ==
  IF Len(r.queue) <= MaxDisconnectedPool THEN r
  ELSE Shed([pool |-> removeRecursive(r.pool, Head(r.queue)), queue |-> Tail(r.queue)])

DisconnectTip ==
  /\ phase \in {"idle", "disconnecting"}
  /\ chain # <<>>
  /\ LET r == Shed([pool |-> pool, queue |-> queue \o Reverse(Last(chain).vtx)])
     IN pool' = r.pool /\ queue' = r.queue
  /\ chain' = Front(chain)
  /\ phase' = "disconnecting"
  /\ UNCHANGED clock

\* The end of ActivateBestChainStep or of InvalidateBlock.  The transactions are not
\* added back when a block could not be read, written or connected.
FinishReorg(fAddToMempool) ==
  /\ phase # "idle" \/ ~fAddToMempool
  /\ pool' \in UpdateMempoolForReorg(pool, queue, chain, clock, fAddToMempool)
  /\ queue' = <<>> /\ phase' = "idle"
  /\ UNCHANGED <<chain, clock>>

Tick == clock < MaxTime /\ clock' = clock + 1 /\ UNCHANGED <<pool, chain, queue, phase>>

Next ==
  \/ \E t \in Tx : AcceptToMemoryPool(t)
  \/ \E t \in Prioritisable, d \in {-1, 1} : PrioritiseTransaction(t, d)
  \/ \E vtx \in Blocks, time \in 0..(MaxTime + MaxFutureBlockTime) : ConnectTip(vtx, time)
  \/ DisconnectTip
  \/ \E add \in BOOLEAN : FinishReorg(add)
  \/ Tick

Spec == Init /\ [][Next]_vars

(***************************************************************************)
(* Properties.                                                             *)
(***************************************************************************)
\* Outside a reorganisation the links and the cached totals are what a walk over the
\* inputs would compute.  This is what CTxMemPool::check asserts of links and ancestors;
\* of the descendants, on which eviction and the package limits rest, it only asserts a
\* lower bound.  A reorganisation puts parents under children that are already there.
PackagesExact ==
  phase = "idle" =>
    LET parents == [t \in Tx |-> IF t \in pool.mapTx THEN InPoolParents(pool, t) ELSE {}]
        children == [t \in Tx |-> {u \in pool.mapTx : t \in parents[u]}]
    IN /\ pool.parents = parents /\ pool.children = children
       /\ pool.totalTxSize = Total(pool, pool.mapTx).size
       /\ \A t \in pool.mapTx :
            /\ pool.ancestors[t] = Total(pool, Closure(parents, {t}))
            /\ pool.descendants[t] = Total(pool, Closure(children, {t}))

\* Every input of every entry is registered in mapNextTx for that entry, and nothing
\* else is, also during a reorganisation: so two entries never spend the same coin.
SpendsExact ==
  \A o \in Outpoint : \A t \in Tx :
    pool.mapNextTx[o] = t <=> t \in pool.mapTx /\ o \in Spends[t]

\* The assertions of UpdateAncestorState, UpdateDescendantState and removeForReorg never
\* fail: the totals of an entry never drop to zero, not even in the middle of a
\* reorganisation, when those of an entry and of its parents may disagree; and at the end
\* of one no entry that spends a coinbase has lost another input to the chain.
AssertionsHold == pool.assertsHeld

\* Outside a reorganisation every input of an entry is there to be spent by the next
\* block: it is an output of another entry or an unspent coin of the active chain, and
\* a coinbase is mature ("valid-according-to-the-current-best-chain", txmempool.h).
NextBlockMayInclude ==
  phase = "idle" => \A t \in pool.mapTx : InputsSpendable(pool, t, chain, clock)

\* The assumption that UpdateMempoolForReorg states: what the queue holds is neither
\* confirmed in the current chain nor in the pool, and the pool holds nothing confirmed.
QueueDisjoint ==
  /\ ToSet(queue) \cap (Confirmed(chain) \cup pool.mapTx) = {}
  /\ pool.mapTx \cap Confirmed(chain) = {}
  /\ phase = "idle" => queue = <<>>

\* A step that accepts a transaction or ends a reorganisation leaves the pool within its
\* memory limit, or empty, although transactions that come back from blocks bypass the
\* limit one by one and prioritisetransaction, which trims nothing, adds to mapDeltas.
PoolBounded ==
  [][phase' = "idle" /\ (phase # "idle" \/ ~ pool'.mapTx \subseteq pool.mapTx)
       => pool'.mapTx = {} \/ DynamicMemoryUsage(pool') <= MaxMempool]_vars
=============================================================================
