# TLA+ verification of the Taler node

Taler is a node for a hybrid proof-of-work and proof-of-stake chain, derived from
Bitcoin Core 0.17 (sources under `src/src/`). This directory models parts of it in
TLA+, checks small instances with TLC, and proves the central invariants for every
instance with TLAPS. `PROJECT.json` lists components, runs, mutants, the map from
definitions to source lines, findings, hazards and theorems; this file explains them.

## 1. The system

| Part | State | Operations | What makes it hard |
|---|---|---|---|
| Chain state (`validation.cpp`) | block index flags, `setBlockIndexCandidates`, `mapBlocksUnlinked`, `m_failed_blocks`, active tip | `AcceptBlockHeader`, `AcceptBlock`, `ActivateBestChain`, `InvalidateBlock`, `ResetBlockFailureFlags`, `PreciousBlock`, pruning, load | blocks arrive in any order; activation releases `cs_main` between rounds; a reorganisation fails half way; equal work |
| Coins cache (`coins.cpp`) | per layer: coin, DIRTY, FRESH | `FetchCoin`, `AddCoin`, `SpendCoin`, `BatchWrite`, `Flush`, `Uncache` | long sequences that make a flag wrong and lose a spend |
| Chain state on disk (`validation.cpp`, `txdb.cpp`) | coins database with best block and head blocks, block index database | `FlushStateToDisk`, `BatchWrite`, `ReplayBlocks`, `LoadChainTip` | crash between two batches, also during recovery; power failure; order of writes |
| Script check queue (`checkqueue.h`) | queue, counters, per-thread batches | `Add`, `Wait`, `Loop`, interruption | lost wake-ups, results merged late, shutdown |
| Chain lookups (`chain.cpp`, `chain.h`) | `pskip` | `GetAncestor`, `BuildSkip`, `LastCommonAncestor`, `FindFork`, `GetLocator`, `Next`, `FindEarliestAtLeast` | bit-pattern boundaries, termination |
| Memory pool (`txmempool.cpp`) | entries with package totals, rolling fee | `addUnchecked`, `removeRecursive`, `removeForBlock`, `removeForReorg`, `UpdateTransactionsFromBlock`, `TrimToSize` | totals after a reorganisation |
| Peer processing (`net_processing.cpp`) | `CNodeState`, blocks in flight, orphans | headers, block download, orphans, eviction, `FinalizeNode` | timeouts, late and repeated answers, counters asserted to return to zero |
| Scheduler, callbacks (`scheduler.cpp`, `validationinterface.cpp`) | task queue, per-client queue | `schedule`, `serviceQueue`, `stop`, `AddToProcessQueue` | order and exclusiveness over several threads, draining |
| Miner (`miner.cpp`) | work counters, templates | `CreateNewBlock`, mining and staking threads | unsynchronised counters, stale templates |
| Stake (`validation.cpp`, `chain.cpp`, `txdb.cpp`) | stake modifiers and hashes, in memory and on disk | `GetStakeModifier`, `CheckProofOfStake`, `FlushStake` | written unsynced before the index that needs them |
| Indexes, block files, wallet, address manager, RPC, GUI | see `components` in `PROJECT.json` | | |

Parts interact as follows. Peers, the miner and RPCs hand headers and blocks to the
chain state. `ConnectBlock` works on a coins view on top of `pcoinsTip`, has its
scripts verified by the check queue, and the view is flushed into `pcoinsTip` or
dropped. From time to time `FlushStateToDisk` writes block index and coins; at the
next start `ReplayBlocks` and `LoadChainTip` take them up. Everything that asks about
a chain goes through the skip list. What happens to the chain is told to the wallet,
the indexes and the network code by callbacks that the scheduler runs one after the
other. Blocks leave their transactions in the memory pool when they are disconnected
and take them out when they are connected. Headers and blocks come from peers; the
download code decides which peer is asked for what.

## 2. Modules

| Module | Models | Extends |
|---|---|---|
| `BlockTree` | tree of headers; `std::set` with `CBlockIndexWorkComparator` | |
| `ForkChoice` | abstract: the active block changes only to received blocks, and to more work | |
| `ChainState` | `CChainState` | `BlockTree`; refines `ForkChoice` |
| `CoinsView` | abstract: three plain maps (disk, tip, block) with reads, add, spend, commit, discard, sync | |
| `CoinsCache` | `CCoinsViewCache` over `CCoinsViewCache` over `CCoinsViewDB` | refines `CoinsView` |
| `CoinsFlush` | flush, crash and replay of the chain state | `BlockTree` |
| `CheckQueue` | `CCheckQueue`, `CCheckQueueControl` | |
| `ChainIndex` | skip list, forks, locators | |
| `ChainSearch` | `CChain::FindEarliestAtLeast` | |
| `SchedulerClient` | `CScheduler`, `SingleThreadedSchedulerClient`, `SyncWithValidationInterfaceQueue`, the shutdown of both | |
| `BlockDownload` | header and block download in `net_processing.cpp` | `BlockTree` |
| `Mempool` | `CTxMemPool`, `AcceptToMemoryPool`, the pool's part in connecting and disconnecting blocks | |
| `MC*` | the instances that TLC checks | the module they are named after |
| `*Proofs` | theorems (`ChainBestProofs` on top of `ChainStateProofs`) | the module they are named after, `TLAPS` |
| `BlockDownloadLemmas` | lemmas about the operators of `BlockDownload` | `BlockDownload`, `TLAPS` |

Operators named `X_Something` before a definition `X`, with a comment starting
"Mutant" or "Faulty", are plausible faulty versions of it. They are not used by any
specification; each shows that a property notices the fault.

### ChainState

`nStatus`, `nTx` and `nChainTx` are sets of blocks (`haveData`, `linked`, `failedValid`
and so on). Each handler that runs under `cs_main` is one action. `ActivateBestChain`
holds `m_cs_chainstate` throughout but takes `cs_main` anew for each round, so it is
several actions: `LockMain`; then `FindMostWorkChain`, `DropCandidate` or `NothingToDo`;
`DisconnectToFork` or `DisconnectTipFails`; and `ConnectTip` or `InvalidBlockFound`, whose
last parts `EndStep` and `EndRound` are the conditions of the two loops. Between two rounds
(`pc = "unlocked"`) other handlers run while `pindexMostWork` is kept. What a block
contains is abstracted to whether `AcceptBlock` finds it invalid (`BadCheck`) or
`ConnectBlock` refuses it (`BadConnect`). `CBlockIndexWorkComparator` compares work
only, so `Erase` and `InsertAny` act on whatever block has the same work.

### CoinsCache

An entry is a record of `cached`, `coin`, `dirty` and `fresh`. The two layers are
`cacheCoins` (`pcoinsTip`) and `viewCoins` (the view of a block being connected or
disconnected). Callers promise what the code's callers do: an output is added without
`possible_overwrite` only where there is none (BIP30 and `ApplyTxInUndo`). Where the
code throws `logic_error`, `thrown` is set. `call` records the last call and its answer,
so that the refinement of `CoinsView` tells a spend that is lost from no step at all.
`FetchCoin`'s branch for a spent coin read from the base is not modelled: no base
returns one.

### CoinsFlush

`disk` is the chainstate database, `stable` the part of it a power failure cannot
take back; `Sync` moves it forward at any time, as the batches are not synced. The
block index (`tree`) is. A full flush writes the index, then any number of partial
batches in any order of entries, then the final batch. `Crash` may happen before,
between and after all of these, and during `ReplayBlocks`, whose two loops go block by
block. A coin is the height of the block that created it, so an output created on two
branches at different heights is told apart. Undo data is what the parent's UTXO set
had. Pruning takes whole files: any set of stored blocks far enough below the tip, as the
blocks that share a file depend on their sizes and times of arrival. (That the file being
written to is kept is left out.) The unlinking of pruned files needs no action of its own: once the index on disk
no longer has `BLOCK_HAVE_DATA` nothing reads the file. `fHavePruned` is kept with the index,
in whose database it is.

Block and undo files are taken to survive a crash with what the index says of them:
`FlushStateToDisk` syncs them first. `FlushBlockFile` syncs the last file only, though, and undo
data of a block in an earlier file is written there later, so that a power failure may lose it;
this is not modelled.

### CheckQueue

One action per critical section of `Loop`, split where the lock is released:
`FirstIteration`, `Merge` and `WakeUp` each go on to `Proceed` (return, sleep or take a
batch); `Execute` runs a batch without the lock. Condition variables are external: a
notification wakes any one waiting thread or all, and a thread may also wake up
spuriously, though no fairness lets a property count on it. `Interrupt` is
`threadGroup.interrupt_all` at shutdown. The import thread can be the master and can be
interrupted as well.

### ChainIndex and ChainSearch

Two branches grow in any order; each new block gets its `pskip` by `BuildSkip`, computed
along the pointers below. `ChainSearch` takes one step per round of the loop, on every
chain of times that `ContextualCheckBlockHeader` accepts.

### SchedulerClient

One action per critical section of `newTaskMutex` or `m_cs_callbacks_pending`, and one for
a callback that runs without either. A serving thread goes through `serviceQueue`: `Start`,
`Loop`, the two waits with `Continue`, `Timeout` and `Spurious`, and the task: `ProcessQueue`
in its parts (take, run, reset, schedule the next), or another one, which `Repeat`
schedules again (`RunOther`). Callers emit signals or wait in
`SyncWithValidationInterfaceQueue`. The main thread interrupts all threads, joins them,
emits `ChainStateFlushed` and empties the queue. `Importer` are threads of the same group
as the servers, which the interruption reaches at their next interruption point and which
the main thread joins too. One that has just passed that point in `ActivateBestChain` goes on
with its round, which may start with a wait for the queue; within the round the order of this
wait and of the signals is left open. The boost condition variable and the clock are external: any
waiter is woken, a timed wait ends at its time or later.

The node runs one serving thread; the module allows several, for which
`SingleThreadedSchedulerClient` is written.

### BlockDownload

`net` holds `mapNodeState`, `mapBlocksInFlight` and the counters over all peers. A critical
section of `cs_main` is one action, written as the composition of the functions it calls, each
an operator from one value of `net` to the next, in the code's order. `SendMessages` is
`StartSync`, then `Availability`, the stalling, download and headers timeouts,
`ConsiderEviction` and `RequestBlocks`. Two handlers release the lock on their way, and
`handling` holds what they keep meanwhile: HEADERS is `ProcessHeadersMessage`, which stores the
headers, and `HeadersAccepted` (`UpdateBlockAvailability`, `MoreHeaders`, `DirectFetchBlocks`,
`InsufficientWork` and `Protect`); BLOCK is `ReceiveBlock`, which marks the block as received,
and `BlockProcessed`. In between the miner, the import thread, `EvictExtraOutboundPeers`, new
connections and the end of other peers' connections may run; messages and `SendMessages` may
not, as one thread serves them all, and the peer of the message stays, as that thread holds a
reference to it. (The lock is also released within the first part of HEADERS, before the headers
are stored; what was read by then is only whether they connect and whether the last one is new.)

`importing` is `fImporting || fReindex`: until `ThreadImport` has read its files (`ImportBlock`),
activated the best chain and ended, HEADERS and BLOCK messages are ignored, INV asks for nothing
and no sync is started. VERSION and VERACK are two actions.

Time is the set of timers that have expired when `SendMessages` is called, and two
sets of recent blocks. A peer outside `Prompt` may announce what it does not deliver, send
blocks nobody asked for, and go at any time, which also stands for bans. Prompt peers
answer, and for them the requests for headers are kept (`asked`).

Left out: `nUnconnectingHeaders`, one-shot connections and feelers, the peers' witness and
limited-node flags, the time of the last announcement in `EvictExtraOutboundPeers` (any
candidate may be the one dropped), compact blocks, and blocks that turn out invalid.

### Mempool

`pool` is a record of `mapTx`, the links in both directions, the totals that each entry
stores for its ancestors and descendants, `mapNextTx` and the fee deltas. The operations
of `CTxMemPool` are operators on it that update the stored totals step by step as the code
does; `assertsHeld` collects the assertions of `UpdateAncestorState` and
`UpdateDescendantState`, also for totals that are overwritten later in the same call, and the
one of `removeForReorg` that no input of an entry it looks at is spent. Memory is counted: an
entry with its inputs and links is one unit, and so is a key of `mapDeltas`, which
`PrioritiseTransaction` adds, also for a transaction that is not in the pool and without a trim,
and `ClearPrioritisation` erases. A reorganisation is
a sequence of `DisconnectTip`, `ConnectTip` and `FinishReorg`, during which nothing else
runs, as `cs_main` is held.

An entry's time of arrival is left out, so any set may expire and ties of the score are
broken in any way. The rolling minimum fee is left out: an acceptable transaction may
always be one that was never sent. Also left out: totals of signature operations, the
limit of 100 replaced transactions, lock times, the cache of
`UpdateForDescendants`. The entries that `removeForReorg` removes because they are no longer
final are among those that the expiry right after it may remove.

## 3. Runs

| Run | Shows | Bounds |
|---|---|---|
| `chain_select` | every active block is validated; refinement of `ForkChoice`; a received valid chain is activated or beaten | 7 blocks on 3 branches, one fails `AcceptBlock`, one fails `ConnectBlock`, `MinimumChainWork` above the first blocks |
| `chain_rpc` | candidates are complete, no active block is failed, best chain, data is there for each step, no block is forgotten; with `invalidateblock` and `preciousblock` between activations, pruning and restarts at any time | 6 blocks on 2 branches, one fails `ConnectBlock`, files of one block, one block kept |
| `chain_ties` | assertions, failure marks and termination with equal work, `invalidateblock` and `reconsiderblock` | 6 blocks, work equals height, one fails `ConnectBlock` |
| `coins_cache` | no `logic_error`, flags sound, refinement of `CoinsView` | 2 outpoints, 2 coins |
| `coins_flush` | exact UTXO set; `BatchWrite`'s assertion; unless it has pruned the node runs again | fork of 1+2 blocks, 3 outputs, 2 crashes, 1 block kept |
| `check_queue` | right verdict, queue unused between blocks, `Wait` returns | 4 checks, one bad, 2 workers, batches of at most 2 |
| `chain_index` | ancestors, forks, locators | heights to 40, fork at 13 |
| `scheduler` | callbacks one at a time and in order, none stranded, all delivered at shutdown; waits and the shutdown end | 2 serving threads, one caller, one import thread, 2 callbacks, one tick of the clock |
| `block_download` | requests and counters consistent, limits, window start, no block asked for twice; the node catches up with the prompt peer | 3 blocks, one of them mined or imported as well as served, the other imported or served; a prompt peer and one that may do anything, one block per peer in flight, window of 1 |
| `mempool` | totals, links and spends exact, assertions, entries may be spent on the tip, reorganisation queue apart from the pool, memory within the limit after every acceptance and reorganisation | 8 transactions, chains of up to 4 blocks, packages of 2, queue of 3, 3 units of memory |

Why these bounds are enough to be interesting: the tree of `chain_select` has a fork at
the genesis block and one above it, so that a failed reorganisation can fall back to two
different tips and a block can wait for a parent that waits itself. In `coins_flush` one
output is created on both branches at different heights, one is created by both
and spent on one branch only, one lives within a block; two crashes allow one within the recovery from the
other, and the empty database gives the first flush. A replay there undoes two blocks or
applies two, not both at once; the theorems cover that for the coins, and `Recovers` was
also checked once on a fork of 2+2 blocks (1.3 million states). Two workers and a master are
enough for every thread to be overtaken by another. Heights up to 40 pass each
alignment of the skip list up to 2^5 and reach a locator's doubling steps. In `scheduler`
two callbacks are enough for one to be added at each point of the other's life. The window of
`block_download` is shorter than the chain, so a peer can hold it up. The transactions of
`mempool` have a conflict, a diamond, a coinbase spend, a replaceable one, one that only a
block may carry, and one unrelated; limits of 2 and 3 are reached from every side.

`CHECK_DEADLOCK FALSE` is given where the model ends at a bound (`chain_index`), where
the modelled call returns (`search_returns`) and where a start may fail for good
because blocks were pruned (`coins_flush`), where the process ends (`scheduler`), where
all blocks are there and all connections have ended (`block_download`), and where time and
heights reach their bounds (`mempool`).

`BestChain` and `NoBlockForgotten` speak of a settled node, whose tip has its undo data: when
`DisconnectTip` misses pruned undo data, `ActivateBestChain` returns the failure its
comment allows for, on a lower tip, and every further activation fails there too.
Liveness is not checked with restarts, which may interrupt every activation.

### Runs that find a disagreement

Each of these checks one property that a comment of the source states, and TLC finds a
behaviour of the code that violates it.

| Run | Stated | What happens |
|---|---|---|
| `search_returns` | the search finds the earliest block (`chain.h:531`) | the loop does not end once it is between two neighbouring blocks of which the lower is too early |
| `mempool_future` | the pool holds transactions that may be included in the next block (`txmempool.h:368`) | from fork 2 on an input cannot be spent before the time of its block (`tx_verify.cpp:233`); a block stamped ahead of the clock confirms the parent of an entry, and the entry stays |

The second is what `assert(fCheckResult)` in `CTxMemPool::check` (`txmempool.cpp:608`) and
`TestBlockValidity` in `CreateNewBlock` (`miner.cpp:232`) then meet. `mempool` checks the same
property with `MaxFutureBlockTime = 0`, where it holds.

### Other observations

The first five are behaviours that TLC shows when the named property is checked in the instance described.

- `invalidateblock` of `pindexMostWork` between two rounds of `ActivateBestChain` empties the candidate set, against `validation.cpp:2745` "Either the current tip or a successor of it we're working towards is left in setBlockIndexCandidates." (`NoAssertFailure` with `RpcDuringActivation = TRUE`). The code allows it, as `InvalidateBlock` takes `cs_main` only. `ActiveChainNotFailed` fails as well: the kept `pindexMostWork` connects the invalidated block again. The theorems about failed blocks are therefore stated for activations that no RPC interrupts.
- `reconsiderblock` of a header clears the flags of its ancestors without making them candidates again (`validation.cpp:3081`), so the best chain is not activated, against `validation.cpp:2858` "The result is either failure or an activated best chain." (`BestChain` in `chain_rpc` with `b2` in `ReconsiderBlocks`).
- With equal work, the `erase` of a failed block (`validation.cpp:1299`) takes another block out of the candidates, possibly the old tip of a failed reorganisation, and `ActivateBestChain` ends on a tip with less work than that one, against `validation.cpp:2900` "We absolutely may not unlock cs_main until we've made forward progress" (`BestChain` in `chain_ties`, without RPCs). `PreciousBlock` of a header whose block is missing does the same to a candidate of equal work.
- A shutdown does not end if the import thread waits in `SyncWithValidationInterfaceQueue` when the serving thread is interrupted, or starts to wait then, having passed the interruption point at `validation.cpp:2883`: nothing runs its callback, and `join_all` waits for it. `ShutdownEnds` excludes such a wait (without its second alternative, it fails).
- A reorganisation deeper than `MIN_BLOCKS_TO_KEEP` may prune, while it runs, the chain it came from. If it then fails, that chain cannot be gone back to, and a third chain, better than where the reorganisation stopped, is no longer a candidate (`BestChain` with branches of two, three and one blocks, the third block of the second failing `ConnectBlock`, one block kept).
- With several serving threads a task may run before its time: a timed wait for one task ends and takes whatever is first in the queue then, against `scheduler.h:45` "Call func at/after time t". The node has one such thread.
- A reorganisation can leave packages above the ancestor and descendant limits.
- The branches for `forkNumber() >= 3` (`tx_verify.cpp:227`, `txmempool.cpp:518`) are never taken: `Consensus::Params::forkNumber` returns at most 2.
- A block that `AcceptBlock` finds invalid is flagged but not entered in `m_failed_blocks`, so a header above one of its descendants is still accepted.
- A block received while its parent is marked as failed is not entered in `mapBlocksUnlinked`, also not when the parent is reconsidered later. `NoBlockForgotten` is checked without `reconsiderblock` for this reason.
- `CChain::Next` of a block off the chain is the active block one height up, where its comment promises a null pointer.

### Fairness

`ChainState!FairSpec`: the thread in `ActivateBestChain` keeps running, and a caller
that is due to call it does. `CheckQueue!FairSpec`: each thread that holds work or has
been woken keeps running; nothing forces checks to be added. `CoinsFlush!FairSpec`: the
starting or flushing thread keeps running; the number of crashes is bounded. Blocks,
RPCs, pruning and flushes are never forced to happen. `ChainSearch!FairSpec`: the
single thread keeps running. `SchedulerClient!FairSpec`: every thread that can take a step keeps running, and
a timed wait ends; no signal is ever forced to be emitted, the shutdown to begin, or
a thread to wake up spuriously. `BlockDownload!FairSpec`: the handler of a message ends, and so
does the import; the message handler serves its peers in turn, so that `SendMessages` is called
for a prompt peer that has something to be sent, and a prompt peer that could start to sync again
and again is not passed over every time; prompt peers connect and answer; the
download and headers timers of other peers expire while they stay armed; a connection
marked for it is closed. The code gives these up to one point: `SendMessages` returns without
doing anything when it does not get `cs_main` at once (`net_processing.cpp:2804`). It is called
many times a second, and the fairness assumes that these misses are not arranged so that a
prompt peer meets one every time.

## 4. Proofs

The proofs hold for every value of the constants that satisfies the named assumptions:
`TreeAssumption` and `WorkAssumption` (a finite tree with ancestor sets, work growing
along chains), `ChainStateAssumption`, `QueueAssumption` (finite sets of checks and
workers, a batch size of at least one), `CoinAssumption`, `CoinsAssumption` (the UTXO
sets are those the blocks produce, outputs are new, inputs exist), `SchedulerAssumption`
(finitely many serving threads, threads of different kinds are different, a delay is
positive), `PeerAssumption` and `LimitAssumption` (finitely many peers, the limits on headers,
requests, the window and protected peers at least one). TLC evaluates all of them in the runs.

| Theorem | States | Argument |
|---|---|---|
| `TypeCorrect`, `CandidatesReady` | `TypeOK`; every candidate's chain is complete | `IndInv`: in addition the sets `mapBlockIndex` and `linked` are closed under ancestors, and a step has a linked target. Without closure, linking a waiting block would not make its chain complete. |
| `FailedMarked` | `AcceptBlockHeader`'s assertion | `NothingBad`, on top of `IndInv`: blocks failing `AcceptBlock`'s checks are never stored, those failing `ConnectBlock` never active |
| `ActiveNotFailed`, `ActiveValidated` | no active block is marked as failed, all are validated, if RPCs do not run between rounds | `Clean`: in addition the kept `pindexMostWork` has no failed ancestor |
| `StepDataKept` | `StepDataPresent`, without any condition | `OnTrack`: while blocks are connected or `cs_main` is released, the tip is an ancestor of `pindexMostWork`. What is to be connected is then higher than the tip, and pruning stays below it (`HeightGrows`). |
| `CandidatesRemain` | `PruneBlockIndexCandidates`' assertion, if RPCs do not run between rounds; equal work included | `Aimed`: some candidate has at least the work of `pindexMostWork`, so a block connected on the way, which has less (`WorkGrows`), leaves it |
| `BestChainActive`, `NothingForgotten` | `BestChain`, `NoBlockForgotten`, under `OrdinaryUse` | `BestInv`, see below |
| `ImplementsForkChoice` | `RefinesForkChoice`, under `Undisturbed` | `BestInv` and `Undoable` (every active block has undo data, so no disconnection fails); a round that ends has come to the work it started from |
| `Verdict`, `Unused` | the verdict is that of all checks; the queue is unused between blocks | `QueueInv`: each check is in one place, `nTodo` counts the checks queued or in a batch, and each bad check is queued, in work, or reported |
| `NeverThrows`, `FlagsAreSound`, `CachesImplementViews` | no `logic_error`, flags are sound, the caches refine plain maps | `CacheInv`, by lemmas about one entry and the layer below it |
| `CrashSafe`, `HeadsAgree` | coins are exactly a UTXO set; `BatchWrite`'s assertion | `FlushInv`: in a transition each coin is that of the old or of the new tip. Rolling a block back or forward keeps this with the block walked to in place of the old tip, so that at the new tip only one value is left |
| `CallbacksSerialInOrder`, `CallbacksNotStranded`, `ShutdownDeliversAll` | callbacks run one at a time and in order; none is left without a task; all have run at the end | `SchedulerInv`: `m_are_callbacks_running` is set exactly while one thread is in a callback (`FlagExact`), pending callbacks are numbered without a gap from those that have run (`Numbered`), and none is pending once the main thread has emptied the queue (`Emptied`) |
| `RequestsAgree`, `CountersAgree`, `RequestsStayBounded`, `WindowLinked`, `AskedOnce` | `InFlightConsistent`, `CountersExact`, `RequestsBounded`, `WindowStartsLinked`, and the action property `NeverAskedTwice` | `DownloadInv`, whose part `Good` is about `net` alone: `BlockDownloadLemmas` shows for each function a handler calls that it takes a good state to a good state and frames the rest, `BlockDownloadProofs` composes them in the order of the handler. `Serving`: the peer whose message is being handled is connected, so that its state is there when the lock is taken again |

The argument for the best chain. `BestChain` speaks of a node at rest; what makes it true
has to hold in the middle of a reorganisation. The invariant is the existence of an anchor
(`Anchor`): a candidate that has passed `ConnectBlock`, is not below a failed block, has at
least the work of the tip and of the tip the round started from, and is at least as good as
every linked block with a clean chain that is not itself a candidate. The anchor is the block
a failed reorganisation goes back to. `ConnectTip` removes worse candidates only, and if the
block it connects is better than the anchor it is the next anchor; a block that fails is not
the anchor, as it never passed `ConnectBlock` (`Kept`); `InvalidateBlock` and a restart offer
everything again, so the new tip is the anchor. `Rounds` says what activation has decided:
`pindexMostWork` beats every candidate unless a block arrived since, in which case a caller
is due to activate again. At rest the tip beats the candidates, hence the anchor, hence
everything.

`OrdinaryUse` has four conditions. For each of them TLC violates both `BestChain` and
`NoBlockForgotten` in an instance that satisfies the other three:

- `DistinctWork`: no two blocks have the same chain work (`chain_ties` without RPCs).
- `ReconsiderBlocks = {}`: `reconsiderblock` is not used (`chain_rpc` without pruning and restarts, with `b2` in `ReconsiderBlocks`).
- `~RpcDuringActivation`: the manual RPCs wait for the end of an activation (the tree of `chain_select` with `c2` failing `ConnectBlock` and RPCs for `a2`, `b1` and `b3`; in some other instances both properties hold).
- `ShallowForks`, with pruning only: a block is less than `MIN_BLOCKS_TO_KEEP` below any block that does not descend from it (the observation on deep reorganisations in section 3).

`Undisturbed` adds, for the refinement, no pruning and no manual RPCs. RPCs move the active
chain to less work, and TLC shows that they break the refinement. The proof uses the absence of
pruning in `Undoable`; in the small instance tried with shallow forks and pruning the
refinement still holds, so this condition may be stronger than needed.

`chain_select` satisfies all of them. `chain_rpc` does not satisfy `ShallowForks`, and its
properties hold there as well.

Only model-checked:

- All liveness properties (`ValidChainActivated`, `ActivationEnds`, `Recovers`, `WaitReturns`, `ShutdownEnds`, `CatchesUp` and the like): fairness is out of the prover's reach.
- `ChainIndex`, whose recursive operators and bit operations the prover does not handle.
- `Mempool`, whose totals are folded over recursively defined sets of ancestors.

## 5. Limits

- The parts of section 1 that no row of section 2 names are not modelled: orphans and compact blocks, the miner, stake, block files, the indexes, the wallet, the address manager, RPC and GUI.
- System errors inside `ConnectTip` and `AcceptBlock` (disk full, database errors, `AbortNode`) are not modelled.
- `ConnectBlock` declares `txdata` after `control`; on an early return it is destroyed before the queue has been waited for. `CheckQueue` models a check as a value and says nothing about the data it points to.
- Pruned files are unlinked before the coins are flushed, and nothing ties the blocks kept to the blocks connected since the last flush. After a crash in that flush a block to be replayed may be gone, which `Recovers` excludes: such a start fails, and no property speaks of it.
- `CoinsFlush` leaves out the stake, transaction and address databases, and the loss of block and undo data in a power failure.
- `NextBlockMayInclude` holds in `mempool` with `MaxFutureBlockTime = 0` only, see section 3.
- `BestChain` and `NoBlockForgotten` are not checked with `reconsiderblock`, see section 3; `FailedBlocksMarked` is.
- Chain work is an unbounded number; the code stores 128 bits of it.
- Notifications, the memory pool and fork warnings do not appear in `ChainState`; what `BlockDownload` and `Mempool` leave out is listed in section 2.
- The number of callbacks and the clock of `SchedulerClient` are bounded by `MaxCallbacks` and `MaxTime`; the theorems hold for every such bound.

## 6. Plan

Next, in this order:

1. `Orphans`: the three orphan maps, eviction and expiry.
2. `BlockFiles`: `FindBlockPos`, undo positions, both kinds of pruning, composed with `CoinsFlush`.
3. `StakeIndex`: stake modifiers and hashes in memory and on disk, composed with `CoinsFlush`; the address index over connects, disconnects and crashes.
4. `MinerThreads`; `Difficulty`, `Subsidy` and compact targets as bounded arithmetic; version bits.
5. `AddrMan`: new and tried tables, reference counts.
6. System-error exits of `ConnectTip`, composed with the flush.
7. Proofs: the links and spends of `Mempool`, once its sets of ancestors are defined without recursion; the refinement of `ForkChoice` with `preciousblock`.
