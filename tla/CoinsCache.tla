----------------------------- MODULE CoinsCache -----------------------------
(***************************************************************************)
(* CCoinsViewCache: the stack of coin caches a block is connected on.  The *)
(* view of the block (the local CCoinsViewCache of ConnectTip and          *)
(* DisconnectTip) lies on pcoinsTip, which lies on CCoinsViewDB.  A cache  *)
(* entry carries DIRTY (differs from the layer below) and FRESH (the layer *)
(* below has no unspent coin); FRESH entries are dropped when spent, and   *)
(* never written, so a flag that is wrong loses or resurrects a coin.      *)
(***************************************************************************)
CONSTANTS
    Outpoint,
    Coin,       \* unspent coins
    Spent       \* Coin().IsSpent(), and the absence of a coin

ASSUME CoinAssumption == Spent \notin Coin

VARIABLES
    db,         \* CCoinsViewDB
    cacheCoins, \* the entries of pcoinsTip
    viewCoins,  \* the entries of the block's view
    thrown,     \* a std::logic_error was thrown
    call        \* the last call that changed or answered something, for CoinsView

vars == <<db, cacheCoins, viewCoins, thrown, call>>

Value == Coin \cup {Spent}

Entry == [cached : BOOLEAN, coin : Value, dirty : BOOLEAN, fresh : BOOLEAN]

Absent == [cached |-> FALSE, coin |-> Spent, dirty |-> FALSE, fresh |-> FALSE]

TypeOK ==
    /\ db \in [Outpoint -> Value]
    /\ cacheCoins \in [Outpoint -> Entry]
    /\ viewCoins \in [Outpoint -> Entry]
    /\ thrown \in BOOLEAN

Init ==
    /\ db = [o \in Outpoint |-> Spent]
    /\ cacheCoins = [o \in Outpoint |-> Absent]
    /\ viewCoins = [o \in Outpoint |-> Absent]
    /\ thrown = FALSE
    /\ call = <<"none">>

-----------------------------------------------------------------------------
(***************************************************************************)
(* The operations on one entry e.  base is what the layer below answers.   *)
(***************************************************************************)
Read(e, base) == IF e.cached THEN e.coin ELSE base

\* GetCoin of the layer below fails for a spent coin, and then nothing is cached.
FetchCoin(e, base) ==
    IF e.cached \/ base = Spent THEN e
    ELSE [cached |-> TRUE, coin |-> base, dirty |-> FALSE, fresh |-> FALSE]

AddThrows(e, possible_overwrite) == ~possible_overwrite /\ e.coin # Spent

\* Mutant: the entry is marked FRESH although the layer below may have the coin.
AddCoin_Fresh(e, c, possible_overwrite) ==
    [cached |-> TRUE, coin |-> c, dirty |-> TRUE, fresh |-> e.fresh \/ ~possible_overwrite]

AddCoin(e, c, possible_overwrite) ==
    [cached |-> TRUE, coin |-> c, dirty |-> TRUE,
     fresh |-> e.fresh \/ (~possible_overwrite /\ ~e.dirty)]

\* Mutant: a spent coin's entry is always dropped.
SpendCoin_Erase(e) == Absent

\* e is the entry after FetchCoin; if there is none, SpendCoin returns false.
SpendCoin(e) ==
    IF ~e.cached \/ e.fresh THEN Absent
    ELSE [e EXCEPT !.coin = Spent, !.dirty = TRUE]

BatchWriteThrows(child, us) ==
    child.dirty /\ us.cached /\ child.fresh /\ us.coin # Spent

\* The entry us of the parent after the child's entry has been written to it.
BatchWrite(child, us) ==
    IF ~child.dirty THEN us
    ELSE IF ~us.cached
         THEN IF child.fresh /\ child.coin = Spent THEN us ELSE child
         ELSE IF us.fresh /\ child.coin = Spent THEN Absent
              ELSE [us EXCEPT !.coin = child.coin, !.dirty = TRUE]

TipCoin(o) == Read(cacheCoins[o], db[o])

ViewCoin(o) == Read(viewCoins[o], TipCoin(o))

-----------------------------------------------------------------------------
(***************************************************************************)
(* pcoinsTip->GetCoin, HaveCoin, AccessCoin: ConnectBlock looks up the     *)
(* staked coin, and every other reader its coins, in pcoinsTip itself.     *)
(***************************************************************************)
TipFetch(o) ==
    /\ cacheCoins' = [cacheCoins EXCEPT ![o] = FetchCoin(@, db[o])]
    /\ call' = <<"GetTip", o, cacheCoins'[o].coin>>
    /\ UNCHANGED <<db, viewCoins, thrown>>

(***************************************************************************)
(* The same through the view: a miss asks pcoinsTip, which caches as well. *)
(***************************************************************************)
ViewMiss(o) ==
    cacheCoins' = IF viewCoins[o].cached THEN cacheCoins
                  ELSE [cacheCoins EXCEPT ![o] = FetchCoin(@, db[o])]

ViewFetch(o) ==
    /\ ViewMiss(o)
    /\ viewCoins' = [viewCoins EXCEPT ![o] = FetchCoin(@, TipCoin(o))]
    /\ call' = <<"Get", o, viewCoins'[o].coin>>
    /\ UNCHANGED <<db, thrown>>

(***************************************************************************)
(* view.AddCoin.  UpdateCoins and ApplyTxInUndo pass possible_overwrite =  *)
(* false only after HaveCoin said that there is no unspent coin (the BIP30 *)
(* loop of ConnectBlock, fClean of ApplyTxInUndo).                         *)
(***************************************************************************)
ViewAdd(o, c, possible_overwrite) ==
    /\ possible_overwrite \/ ViewCoin(o) = Spent
    /\ IF AddThrows(viewCoins[o], possible_overwrite)
       THEN thrown' = TRUE /\ UNCHANGED <<viewCoins, call>>
       ELSE /\ viewCoins' = [viewCoins EXCEPT ![o] = AddCoin(@, c, possible_overwrite)]
            /\ call' = <<"Add", o, c>>
            /\ UNCHANGED thrown
    /\ UNCHANGED <<db, cacheCoins>>

ViewSpend(o) ==
    /\ ViewMiss(o)
    /\ viewCoins' = [viewCoins EXCEPT ![o] = SpendCoin(FetchCoin(@, TipCoin(o)))]
    /\ call' = <<"Spend", o, FetchCoin(viewCoins[o], TipCoin(o)).coin>>
    /\ UNCHANGED <<db, thrown>>

(***************************************************************************)
(* view.Flush(): the block is connected or disconnected.                   *)
(***************************************************************************)
FlushView ==
    /\ IF \E o \in Outpoint : BatchWriteThrows(viewCoins[o], cacheCoins[o])
       THEN thrown' = TRUE /\ UNCHANGED <<cacheCoins, viewCoins, call>>
       ELSE /\ cacheCoins' = [o \in Outpoint |-> BatchWrite(viewCoins[o], cacheCoins[o])]
            /\ viewCoins' = [o \in Outpoint |-> Absent]
            /\ call' = <<"Commit">>
            /\ UNCHANGED thrown
    /\ UNCHANGED db

(***************************************************************************)
(* The block failed to connect and its view goes out of scope.             *)
(***************************************************************************)
DropView ==
    /\ viewCoins' = [o \in Outpoint |-> Absent]
    /\ call' = <<"Discard">>
    /\ UNCHANGED <<db, cacheCoins, thrown>>

(***************************************************************************)
(* pcoinsTip->Flush() into CCoinsViewDB::BatchWrite.                       *)
(***************************************************************************)
FlushTip ==
    /\ db' = [o \in Outpoint |-> IF cacheCoins[o].dirty THEN cacheCoins[o].coin ELSE db[o]]
    /\ cacheCoins' = [o \in Outpoint |-> Absent]
    /\ call' = <<"Sync">>
    /\ UNCHANGED <<viewCoins, thrown>>

\* Mutant: a modified entry is dropped as well.
Uncache_Dirty(o) ==
    /\ cacheCoins[o].cached
    /\ cacheCoins' = [cacheCoins EXCEPT ![o] = Absent]
    /\ UNCHANGED <<db, viewCoins, thrown, call>>

(***************************************************************************)
(* pcoinsTip->Uncache, after a transaction was refused by the mempool.     *)
(***************************************************************************)
Uncache(o) ==
    /\ cacheCoins[o].cached /\ ~cacheCoins[o].dirty /\ ~cacheCoins[o].fresh
    /\ cacheCoins' = [cacheCoins EXCEPT ![o] = Absent]
    /\ UNCHANGED <<db, viewCoins, thrown, call>>

Next ==
    \/ \E o \in Outpoint : TipFetch(o)
    \/ \E o \in Outpoint : ViewFetch(o)
    \/ \E o \in Outpoint, c \in Coin, possible_overwrite \in BOOLEAN :
          ViewAdd(o, c, possible_overwrite)
    \/ \E o \in Outpoint : ViewSpend(o)
    \/ FlushView
    \/ DropView
    \/ FlushTip
    \/ \E o \in Outpoint : Uncache(o)

Spec == Init /\ [][Next]_vars

-----------------------------------------------------------------------------
(***************************************************************************)
(* Neither "Adding new coin that replaces non-pruned entry" nor "FRESH     *)
(* flag misapplied" is ever thrown, whatever mixture of reads, flushes and *)
(* blocks produced the flags.                                              *)
(***************************************************************************)
NoLogicError == ~thrown

(***************************************************************************)
(* A FRESH entry lies on a layer without the coin, and an entry without    *)
(* DIRTY agrees with the layer below, on both levels.                      *)
(***************************************************************************)
Sound(e, base) ==
    /\ e.fresh => base = Spent
    /\ ~e.dirty => Read(e, base) = base

FlagsSound ==
    \A o \in Outpoint : Sound(cacheCoins[o], db[o]) /\ Sound(viewCoins[o], TipCoin(o))

(***************************************************************************)
(* The caches implement CoinsView: every read, add and spend is answered   *)
(* as by a plain map and has its effect, uncaching has none, flushing a    *)
(* view makes exactly its coins those of the tip, and flushing pcoinsTip   *)
(* puts exactly those on disk.                                             *)
(***************************************************************************)
Abstract == INSTANCE CoinsView WITH
    disk <- db,
    utxo <- [o \in Outpoint |-> TipCoin(o)],
    block <- [o \in Outpoint |-> ViewCoin(o)]

RefinesCoinsView == Abstract!Spec
=============================================================================
