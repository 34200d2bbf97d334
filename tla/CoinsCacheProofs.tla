-------------------------- MODULE CoinsCacheProofs --------------------------
(***************************************************************************)
(* The caches answer like three plain maps, for every set of outpoints and *)
(* coins.  The argument is about one entry and the layer below it.         *)
(***************************************************************************)
EXTENDS CoinsCache, TLAPS

(***************************************************************************)
(* The inductive invariant: the flags are sound, an entry that is not      *)
(* there has no flags and no coin, and a FRESH entry is DIRTY.             *)
(***************************************************************************)
WellFormed(e) == (~e.cached => e = Absent) /\ (e.fresh => e.dirty)

CacheInv ==
    /\ TypeOK /\ FlagsSound /\ NoLogicError
    /\ \A o \in Outpoint : WellFormed(cacheCoins[o]) /\ WellFormed(viewCoins[o])

LEMMA AbsentFacts ==
    /\ Absent \in Entry /\ WellFormed(Absent)
    /\ \A base : Sound(Absent, base) /\ Read(Absent, base) = base
BY DEF Absent, Entry, Value, WellFormed, Sound, Read

(***************************************************************************)
(* FetchCoin does not change what a layer answers, and the entry it leaves *)
(* holds the answer.                                                       *)
(***************************************************************************)
LEMMA FetchCoinFacts ==
    ASSUME NEW e \in Entry, NEW base \in Value, WellFormed(e), Sound(e, base)
    PROVE  LET f == FetchCoin(e, base)
           IN  /\ f \in Entry /\ WellFormed(f) /\ Sound(f, base)
               /\ Read(f, base) = Read(e, base)
               /\ f.coin = Read(e, base)
<1>1. CASE e.cached
  BY <1>1 DEF FetchCoin, Read
<1>2. CASE ~e.cached /\ base = Spent
  BY <1>2 DEF FetchCoin, Read, WellFormed, Absent
<1>3. CASE ~e.cached /\ base # Spent
  BY <1>3 DEF Entry, Value, WellFormed, Sound, Read, FetchCoin, Absent
<1> QED BY <1>1, <1>2, <1>3

(***************************************************************************)
(* AddCoin makes the layer answer c, and does not throw, if its caller     *)
(* keeps the promise that goes with possible_overwrite = false.            *)
(***************************************************************************)
LEMMA AddCoinFacts ==
    ASSUME NEW e \in Entry, NEW base \in Value, WellFormed(e), Sound(e, base),
           NEW c \in Coin, NEW possible_overwrite \in BOOLEAN,
           possible_overwrite \/ Read(e, base) = Spent
    PROVE  LET f == AddCoin(e, c, possible_overwrite)
           IN  /\ f \in Entry /\ WellFormed(f) /\ Sound(f, base)
               /\ Read(f, base) = c
               /\ ~AddThrows(e, possible_overwrite)
BY DEF Entry, Value, WellFormed, Sound, Read, AddCoin, AddThrows, Absent

(***************************************************************************)
(* SpendCoin, after FetchCoin, makes the layer answer that there is none.  *)
(***************************************************************************)
LEMMA SpendCoinFacts ==
    ASSUME NEW e \in Entry, NEW base \in Value, WellFormed(e), Sound(e, base)
    PROVE  LET f == SpendCoin(FetchCoin(e, base))
           IN  /\ f \in Entry /\ WellFormed(f) /\ Sound(f, base)
               /\ Read(f, base) = Spent
BY DEF Entry, Value, WellFormed, Sound, Read, FetchCoin, SpendCoin, Absent

(***************************************************************************)
(* BatchWrite makes the parent answer what the child answered, and the     *)
(* parent's flags stay sound for the grandparent's answer base.            *)
(***************************************************************************)
LEMMA BatchWriteFacts ==
    ASSUME NEW us \in Entry, NEW base \in Value, WellFormed(us), Sound(us, base),
           NEW child \in Entry, WellFormed(child), Sound(child, Read(us, base))
    PROVE  LET f == BatchWrite(child, us)
           IN  /\ f \in Entry /\ WellFormed(f) /\ Sound(f, base)
               /\ Read(f, base) = Read(child, Read(us, base))
               /\ ~BatchWriteThrows(child, us)
<1> DEFINE f == BatchWrite(child, us)
<1>1. ~BatchWriteThrows(child, us)
  BY DEF BatchWriteThrows, Sound, Read
<1>2. CASE ~child.dirty
  <2>1. f = us
    BY <1>2 DEF BatchWrite
  <2> QED BY <1>1, <1>2, <2>1 DEF Sound
<1>3. CASE child.dirty /\ ~us.cached /\ child.fresh /\ child.coin = Spent
  <2>1. f = us /\ us = Absent /\ child.cached
    BY <1>3 DEF BatchWrite, WellFormed, Absent
  <2>2. base = Spent
    BY <1>3 DEF Sound, Read
  <2> QED BY <1>1, <1>3, <2>1, <2>2, AbsentFacts DEF Read
<1>4. CASE child.dirty /\ ~us.cached /\ ~(child.fresh /\ child.coin = Spent)
  <2>1. f = child /\ Read(us, base) = base
    BY <1>4 DEF BatchWrite, Read
  <2> QED BY <1>1, <2>1
<1>5. CASE child.dirty /\ us.cached /\ us.fresh /\ child.coin = Spent
  <2>1. f = Absent /\ child.cached /\ base = Spent
    BY <1>5 DEF BatchWrite, WellFormed, Absent, Sound
  <2> QED BY <1>1, <1>5, <2>1, AbsentFacts DEF Read
<1>6. CASE child.dirty /\ us.cached /\ ~(us.fresh /\ child.coin = Spent)
  <2>1. f = [us EXCEPT !.coin = child.coin, !.dirty = TRUE]
    BY <1>6 DEF BatchWrite
  <2>2. /\ f \in Entry /\ f.cached = us.cached /\ f.coin = child.coin
        /\ f.dirty = TRUE /\ f.fresh = us.fresh
    BY <2>1 DEF Entry
  <2>3. child.cached
    BY <1>6 DEF WellFormed, Absent
  <2> QED BY <1>1, <1>6, <2>2, <2>3 DEF WellFormed, Sound, Read
<1> QED BY <1>2, <1>3, <1>4, <1>5, <1>6

LEMMA CacheInit == Init => CacheInv /\ Abstract!Init
BY AbsentFacts DEF Init, CacheInv, TypeOK, FlagsSound, NoLogicError, TipCoin, ViewCoin,
                   Value, Abstract!Init, Read, Absent

LEMMA Answers ==
    ASSUME CacheInv, NEW o \in Outpoint
    PROVE  TipCoin(o) \in Value /\ ViewCoin(o) \in Value
BY DEF CacheInv, TypeOK, TipCoin, ViewCoin, Read, Entry

(***************************************************************************)
(* One step of the caches keeps the invariant and is a step, or no step,   *)
(* of the abstract views.                                                  *)
(***************************************************************************)
LEMMA CacheNext ==
    CacheInv /\ [Next]_vars => CacheInv' /\ [Abstract!Next]_(Abstract!vars)
<1> SUFFICES ASSUME CacheInv, [Next]_vars
             PROVE  CacheInv' /\ [Abstract!Next]_(Abstract!vars)
  OBVIOUS
<1> DEFINE utxo == [o \in Outpoint |-> TipCoin(o)]
           block == [o \in Outpoint |-> ViewCoin(o)]
<1>0. \A o \in Outpoint :
        /\ cacheCoins[o] \in Entry /\ viewCoins[o] \in Entry /\ db[o] \in Value
        /\ WellFormed(cacheCoins[o]) /\ WellFormed(viewCoins[o])
        /\ Sound(cacheCoins[o], db[o]) /\ Sound(viewCoins[o], TipCoin(o))
        /\ TipCoin(o) \in Value /\ ViewCoin(o) \in Value
  BY Answers DEF CacheInv, TypeOK, FlagsSound
<1>1. ASSUME \A o \in Outpoint :
               /\ cacheCoins'[o] \in Entry /\ WellFormed(cacheCoins'[o])
               /\ viewCoins'[o] \in Entry /\ WellFormed(viewCoins'[o])
               /\ Sound(cacheCoins'[o], db'[o]) /\ Sound(viewCoins'[o], TipCoin(o)'),
             db' \in [Outpoint -> Value], thrown' = FALSE,
             cacheCoins' \in [Outpoint -> Entry], viewCoins' \in [Outpoint -> Entry]
      PROVE  CacheInv'
  BY <1>1 DEF CacheInv, TypeOK, FlagsSound, NoLogicError
<1>2. ASSUME NEW o \in Outpoint, TipFetch(o)
      PROVE  CacheInv' /\ Abstract!GetTip(o)
  <2>1. /\ cacheCoins' = [cacheCoins EXCEPT ![o] = FetchCoin(cacheCoins[o], db[o])]
        /\ call' = <<"GetTip", o, cacheCoins'[o].coin>>
        /\ UNCHANGED <<db, viewCoins, thrown>>
    BY <1>2 DEF TipFetch
  <2>2. \A p \in Outpoint :
          /\ cacheCoins'[p] \in Entry /\ WellFormed(cacheCoins'[p])
          /\ Sound(cacheCoins'[p], db[p]) /\ Read(cacheCoins'[p], db[p]) = TipCoin(p)
    BY <1>0, <2>1, FetchCoinFacts DEF TipCoin, CacheInv, TypeOK
  <2>3. \A p \in Outpoint : TipCoin(p)' = TipCoin(p) /\ ViewCoin(p)' = ViewCoin(p)
    BY <2>1, <2>2 DEF TipCoin, ViewCoin
  <2>4. CacheInv'
    BY <1>0, <1>1, <2>1, <2>2, <2>3 DEF CacheInv, TypeOK, NoLogicError
  <2>5. cacheCoins'[o].coin = utxo[o]
    BY <1>0, <2>1, FetchCoinFacts DEF TipCoin, CacheInv, TypeOK
  <2> QED BY <2>1, <2>3, <2>4, <2>5 DEF Abstract!GetTip
<1>3. ASSUME NEW o \in Outpoint, ViewMiss(o), UNCHANGED db
      PROVE  \A p \in Outpoint :
               /\ cacheCoins'[p] \in Entry /\ WellFormed(cacheCoins'[p])
               /\ Sound(cacheCoins'[p], db[p]) /\ TipCoin(p)' = TipCoin(p)
               /\ cacheCoins' \in [Outpoint -> Entry]
  <2>1. CASE viewCoins[o].cached
    BY <1>0, <1>3, <2>1 DEF ViewMiss, TipCoin, CacheInv, TypeOK
  <2>2. CASE ~viewCoins[o].cached
    <3>1. cacheCoins' = [cacheCoins EXCEPT ![o] = FetchCoin(cacheCoins[o], db[o])]
      BY <1>3, <2>2 DEF ViewMiss
    <3>2. \A p \in Outpoint :
            /\ cacheCoins'[p] \in Entry /\ WellFormed(cacheCoins'[p])
            /\ Sound(cacheCoins'[p], db[p]) /\ Read(cacheCoins'[p], db[p]) = TipCoin(p)
      BY <1>0, <3>1, FetchCoinFacts DEF TipCoin, CacheInv, TypeOK
    <3> QED BY <1>0, <1>3, <3>1, <3>2, FetchCoinFacts DEF TipCoin, CacheInv, TypeOK
  <2> QED BY <2>1, <2>2
<1>4. ASSUME NEW o \in Outpoint, ViewFetch(o)
      PROVE  CacheInv' /\ Abstract!Get(o)
  <2>1. /\ ViewMiss(o) /\ UNCHANGED <<db, thrown>>
        /\ call' = <<"Get", o, viewCoins'[o].coin>>
        /\ viewCoins' = [viewCoins EXCEPT ![o] = FetchCoin(viewCoins[o], TipCoin(o))]
    BY <1>4 DEF ViewFetch
  <2>2. \A p \in Outpoint :
          /\ viewCoins'[p] \in Entry /\ WellFormed(viewCoins'[p])
          /\ Sound(viewCoins'[p], TipCoin(p)) /\ Read(viewCoins'[p], TipCoin(p)) = ViewCoin(p)
    BY <1>0, <2>1, FetchCoinFacts DEF ViewCoin, CacheInv, TypeOK
  <2>3. \A p \in Outpoint : TipCoin(p)' = TipCoin(p) /\ ViewCoin(p)' = ViewCoin(p)
    BY <1>3, <2>1, <2>2 DEF ViewCoin
  <2>4. CacheInv'
    BY <1>0, <1>1, <1>3, <2>1, <2>2, <2>3 DEF CacheInv, TypeOK, NoLogicError
  <2>5. viewCoins'[o].coin = block[o]
    BY <1>0, <2>1, FetchCoinFacts DEF ViewCoin, CacheInv, TypeOK
  <2> QED BY <2>1, <2>3, <2>4, <2>5 DEF Abstract!Get
<1>5. ASSUME NEW o \in Outpoint, NEW c \in Coin, NEW possible_overwrite \in BOOLEAN,
             ViewAdd(o, c, possible_overwrite)
      PROVE  CacheInv' /\ Abstract!Add(o, c)
  <2>1. possible_overwrite \/ Read(viewCoins[o], TipCoin(o)) = Spent
    BY <1>5 DEF ViewAdd, ViewCoin
  <2>2. ~AddThrows(viewCoins[o], possible_overwrite)
    BY <1>0, <2>1, AddCoinFacts
  <2>3. /\ viewCoins' = [viewCoins EXCEPT ![o] = AddCoin(viewCoins[o], c, possible_overwrite)]
        /\ call' = <<"Add", o, c>>
        /\ UNCHANGED <<db, cacheCoins, thrown>>
    BY <1>5, <2>2 DEF ViewAdd
  <2>4. \A p \in Outpoint :
          /\ viewCoins'[p] \in Entry /\ WellFormed(viewCoins'[p]) /\ Sound(viewCoins'[p], TipCoin(p))
          /\ Read(viewCoins'[p], TipCoin(p)) = IF p = o THEN c ELSE ViewCoin(p)
    BY <1>0, <2>1, <2>3, AddCoinFacts DEF ViewCoin, CacheInv, TypeOK
  <2>5. \A p \in Outpoint :
          TipCoin(p)' = TipCoin(p) /\ ViewCoin(p)' = IF p = o THEN c ELSE ViewCoin(p)
    BY <2>3, <2>4 DEF TipCoin, ViewCoin
  <2>6. CacheInv'
    BY <1>0, <1>1, <2>3, <2>4, <2>5 DEF CacheInv, TypeOK, NoLogicError
  <2> QED BY <2>3, <2>5, <2>6 DEF Abstract!Add
<1>6. ASSUME NEW o \in Outpoint, ViewSpend(o)
      PROVE  CacheInv' /\ Abstract!Spend(o)
  <2>1. /\ ViewMiss(o) /\ UNCHANGED <<db, thrown>>
        /\ viewCoins' = [viewCoins EXCEPT ![o] = SpendCoin(FetchCoin(viewCoins[o], TipCoin(o)))]
        /\ call' = <<"Spend", o, FetchCoin(viewCoins[o], TipCoin(o)).coin>>
    BY <1>6 DEF ViewSpend
  <2>2. \A p \in Outpoint :
          /\ viewCoins'[p] \in Entry /\ WellFormed(viewCoins'[p]) /\ Sound(viewCoins'[p], TipCoin(p))
          /\ Read(viewCoins'[p], TipCoin(p)) = IF p = o THEN Spent ELSE ViewCoin(p)
    BY <1>0, <2>1, SpendCoinFacts DEF ViewCoin, CacheInv, TypeOK
  <2>3. \A p \in Outpoint :
          TipCoin(p)' = TipCoin(p) /\ ViewCoin(p)' = IF p = o THEN Spent ELSE ViewCoin(p)
    BY <1>3, <2>1, <2>2 DEF ViewCoin
  <2>4. CacheInv'
    BY <1>0, <1>1, <1>3, <2>1, <2>2, <2>3 DEF CacheInv, TypeOK, NoLogicError
  <2>5. FetchCoin(viewCoins[o], TipCoin(o)).coin = block[o]
    BY <1>0, FetchCoinFacts DEF ViewCoin
  <2> QED BY <2>1, <2>3, <2>4, <2>5 DEF Abstract!Spend
<1>7. ASSUME FlushView PROVE CacheInv' /\ Abstract!Commit
  <2>1. \A p \in Outpoint :
          LET f == BatchWrite(viewCoins[p], cacheCoins[p])
          IN  /\ f \in Entry /\ WellFormed(f) /\ Sound(f, db[p])
              /\ Read(f, db[p]) = ViewCoin(p)
              /\ ~BatchWriteThrows(viewCoins[p], cacheCoins[p])
    BY <1>0, BatchWriteFacts DEF TipCoin, ViewCoin
  <2>2. /\ cacheCoins' = [p \in Outpoint |-> BatchWrite(viewCoins[p], cacheCoins[p])]
        /\ viewCoins' = [p \in Outpoint |-> Absent]
        /\ call' = <<"Commit">>
        /\ UNCHANGED <<db, thrown>>
    BY <1>7, <2>1 DEF FlushView
  <2>3. \A p \in Outpoint : TipCoin(p)' = ViewCoin(p) /\ ViewCoin(p)' = ViewCoin(p)
    BY <2>1, <2>2, AbsentFacts DEF TipCoin, ViewCoin
  <2>4. CacheInv'
    BY <1>1, <2>1, <2>2, AbsentFacts DEF CacheInv, TypeOK, NoLogicError
  <2> QED BY <2>2, <2>3, <2>4 DEF Abstract!Commit
<1>8. ASSUME DropView PROVE CacheInv' /\ Abstract!Discard
  <2>1. /\ viewCoins' = [p \in Outpoint |-> Absent]
        /\ call' = <<"Discard">>
        /\ UNCHANGED <<db, cacheCoins, thrown>>
    BY <1>8 DEF DropView
  <2>2. \A p \in Outpoint : TipCoin(p)' = TipCoin(p) /\ ViewCoin(p)' = TipCoin(p)
    BY <2>1, AbsentFacts DEF TipCoin, ViewCoin
  <2>3. CacheInv'
    BY <1>0, <1>1, <2>1, <2>2, AbsentFacts DEF CacheInv, TypeOK, NoLogicError
  <2> QED BY <2>1, <2>2, <2>3 DEF Abstract!Discard
<1>9. ASSUME FlushTip PROVE CacheInv' /\ Abstract!Sync
  <2>1. /\ db' = [p \in Outpoint |-> IF cacheCoins[p].dirty THEN cacheCoins[p].coin ELSE db[p]]
        /\ cacheCoins' = [p \in Outpoint |-> Absent]
        /\ call' = <<"Sync">>
        /\ UNCHANGED <<viewCoins, thrown>>
    BY <1>9 DEF FlushTip
  <2>2. \A p \in Outpoint : db'[p] = TipCoin(p)
    BY <1>0, <2>1 DEF TipCoin, Read, Sound, WellFormed, Absent
  <2>3. \A p \in Outpoint : TipCoin(p)' = TipCoin(p) /\ ViewCoin(p)' = ViewCoin(p)
    BY <2>1, <2>2, AbsentFacts DEF TipCoin, ViewCoin
  <2>4. db' = [p \in Outpoint |-> TipCoin(p)]
    BY <2>1, <2>2
  <2>5. CacheInv'
    BY <1>0, <1>1, <2>1, <2>3, <2>4, AbsentFacts DEF CacheInv, TypeOK, NoLogicError
  <2> QED BY <2>1, <2>3, <2>4, <2>5 DEF Abstract!Sync
<1>10. ASSUME NEW o \in Outpoint, Uncache(o)
       PROVE  CacheInv' /\ UNCHANGED <<db, utxo, block, call>>
  <2>1. /\ ~cacheCoins[o].dirty /\ cacheCoins' = [cacheCoins EXCEPT ![o] = Absent]
        /\ UNCHANGED <<db, viewCoins, thrown, call>>
    BY <1>10 DEF Uncache
  <2>2. \A p \in Outpoint :
          /\ cacheCoins'[p] \in Entry /\ WellFormed(cacheCoins'[p])
          /\ Sound(cacheCoins'[p], db[p]) /\ Read(cacheCoins'[p], db[p]) = TipCoin(p)
    BY <1>0, <2>1, AbsentFacts DEF TipCoin, CacheInv, TypeOK, Sound
  <2>3. \A p \in Outpoint : TipCoin(p)' = TipCoin(p) /\ ViewCoin(p)' = ViewCoin(p)
    BY <2>1, <2>2 DEF TipCoin, ViewCoin
  <2>4. CacheInv'
    BY <1>0, <1>1, <2>1, <2>2, <2>3, AbsentFacts DEF CacheInv, TypeOK, NoLogicError
  <2> QED BY <2>1, <2>3, <2>4
<1>11. ASSUME UNCHANGED vars PROVE CacheInv' /\ UNCHANGED <<db, utxo, block, call>>
  BY <1>11 DEF vars, CacheInv, TypeOK, FlagsSound, NoLogicError, TipCoin, ViewCoin
<1> QED
  BY <1>2, <1>4, <1>5, <1>6, <1>7, <1>8, <1>9, <1>10, <1>11
  DEF Next, Abstract!Next, Abstract!vars

(***************************************************************************)
(* For every set of outpoints and coins, CCoinsViewCache throws no         *)
(* std::logic_error.                                                       *)
(***************************************************************************)
THEOREM NeverThrows == Spec => []NoLogicError
<1>1. CacheInv => NoLogicError
  BY DEF CacheInv
<1> QED BY <1>1, CacheInit, CacheNext, PTL DEF Spec

(***************************************************************************)
(* For every set of outpoints and coins, DIRTY and FRESH are sound in both *)
(* caches.                                                                 *)
(***************************************************************************)
THEOREM FlagsAreSound == Spec => []FlagsSound
<1>1. CacheInv => FlagsSound
  BY DEF CacheInv
<1> QED BY <1>1, CacheInit, CacheNext, PTL DEF Spec

(***************************************************************************)
(* For every set of outpoints and coins, the caches implement CoinsView:   *)
(* Flush, BatchWrite, Uncache and the reads lose and invent no coin.       *)
(***************************************************************************)
THEOREM CachesImplementViews == Spec => RefinesCoinsView
BY CacheInit, CacheNext, PTL DEF Spec, RefinesCoinsView, Abstract!Spec
=============================================================================
