-------------------------- MODULE CheckQueueProofs --------------------------
(***************************************************************************)
(* The check queue's verdict is right for every number of workers, checks  *)
(* and every batch size.                                                   *)
(***************************************************************************)
EXTENDS CheckQueue, FiniteSetTheorems, TLAPS

(***************************************************************************)
(* The checks that nTodo counts: queued, or in some thread's batch.        *)
(***************************************************************************)
Outstanding == {c \in added : c \in queue \/ \E t \in Thread : c \in vChecks[t]}

Asleep == {t \in Thread : pc[t] \in {"wait", "woken"}}

(***************************************************************************)
(* Every check is in one place, and only a thread between taking a batch   *)
(* and merging its result has one.                                         *)
(***************************************************************************)
Partition ==
    /\ \A t \in Thread : vChecks[t] \cap queue = {}
    /\ \A t, u \in Thread : t # u => vChecks[t] \cap vChecks[u] = {}
    /\ \A t \in Thread : pc[t] = "work" => vChecks[t] # {}
    /\ \A t \in Thread : pc[t] \notin {"work", "lock"} => vChecks[t] = {}

Counted ==
    /\ nTodo = Cardinality(Outstanding)
    /\ Cardinality(Asleep) <= nIdle
    /\ pc[Master] \in {"work", "wait", "woken"} \/ (pc[Master] = "lock" /\ vChecks[Master] # {})
          => nTotal >= 1

(***************************************************************************)
(* A failure is only ever reported for a bad check, and, until Wait        *)
(* returns, a bad check is still queued, still to be run, or has been      *)
(* reported.                                                               *)
(***************************************************************************)
NoFalseAlarm ==
    /\ ~fAllOk => added \cap BadCheck # {}
    /\ \A t \in Thread : vChecks[t] # {} /\ ~fOk[t] => added \cap BadCheck # {}

NoMiss ==
    pc[Master] # "out" => \A c \in added \cap BadCheck :
        \/ c \in queue
        \/ ~fAllOk
        \/ \E t \in Thread : c \in vChecks[t] /\ (pc[t] = "work" \/ ~fOk[t])

Quiet == pc[Master] = "out" => fAllOk /\ Outstanding = {}

QueueInv ==
    /\ TypeOK /\ Partition /\ Counted
    /\ NoFalseAlarm /\ NoMiss /\ Quiet /\ VerdictCorrect

LEMMA QueueInit == Init => QueueInv
<1> SUFFICES ASSUME Init PROVE QueueInv
  OBVIOUS
<1>1. TypeOK /\ Partition
  BY QueueAssumption DEF Init, TypeOK, Partition, Thread
<1>2. Outstanding = {} /\ Asleep = {}
  BY DEF Init, Outstanding, Asleep, Thread
<1>3. Counted
  BY <1>2, FS_EmptySet, QueueAssumption DEF Init, Counted, Thread
<1>4. NoFalseAlarm /\ NoMiss /\ Quiet /\ VerdictCorrect
  BY <1>2 DEF Init, NoFalseAlarm, NoMiss, Quiet, VerdictCorrect, Thread
<1> QED BY <1>1, <1>3, <1>4 DEF QueueInv

LEMMA FiniteSets ==
    ASSUME TypeOK
    PROVE  /\ IsFiniteSet(Outstanding) /\ IsFiniteSet(Asleep) /\ IsFiniteSet(queue)
           /\ IsFiniteSet(Thread)
<1>1. IsFiniteSet(added)
  BY FS_Subset, QueueAssumption DEF TypeOK
<1>2. IsFiniteSet(Outstanding) /\ IsFiniteSet(queue)
  <2>1. Outstanding \in SUBSET added /\ queue \in SUBSET added
    BY DEF Outstanding, TypeOK
  <2> QED BY <1>1, <2>1, FS_Subset
<1>3. IsFiniteSet(Thread)
  BY FS_AddElement, QueueAssumption DEF Thread
<1>4. IsFiniteSet(Asleep)
  <2>1. Asleep \in SUBSET Thread
    BY DEF Asleep
  <2> QED BY <1>3, <2>1, FS_Subset
<1> QED BY <1>2, <1>3, <1>4

(***************************************************************************)
(* What the first half of a critical section establishes for its second    *)
(* half, Proceed: the invariant with thread t's own batch taken out.       *)
(***************************************************************************)
Rest(t) == {c \in added : c \in queue \/ \E u \in Thread \ {t} : c \in vChecks[u]}

Settled(t, total, idle, ok, todo) ==
    /\ total \in Nat /\ total >= nTotal /\ (t = Master => total >= 1)
    /\ idle \in Nat /\ Cardinality(Asleep \ {t}) <= idle
    /\ ok \in BOOLEAN
    /\ todo = Cardinality(Rest(t))
    /\ ~ok => added \cap BadCheck # {}
    /\ pc[Master] # "out" => \A c \in added \cap BadCheck :
          \/ c \in queue
          \/ ~ok
          \/ \E u \in Thread \ {t} : c \in vChecks[u] /\ (pc[u] = "work" \/ ~fOk[u])
    /\ pc[Master] = "out" => t # Master /\ ok /\ Rest(t) = {}

LEMMA BatchSizePositive ==
    ASSUME TypeOK, NEW total \in Nat, NEW idle \in Nat
    PROVE  BatchSize(total, idle) \in Nat /\ BatchSize(total, idle) >= 1
<1>1. Cardinality(queue) \in Nat
  BY FiniteSets, FS_CardinalityType
<1> DEFINE n == total + idle + 1
           share == Cardinality(queue) \div n
<1>2. n \in Nat /\ n > 0
  OBVIOUS
<1>3. share \in Int
  BY <1>1, <1>2
<1> HIDE DEF share
<1>4. BatchSize(total, idle) =
        IF Least(nBatchSize, share) < 1 THEN 1 ELSE Least(nBatchSize, share)
  BY DEF BatchSize, share
<1> QED BY <1>3, <1>4, QueueAssumption DEF Least

LEMMA TakeBatchKeeps ==
    ASSUME QueueInv, NEW t \in Thread, NEW total, NEW idle, NEW ok, NEW todo,
           NEW W \in SUBSET Waiting(Thread), t \notin W,
           Settled(t, total, idle, ok, todo),
           nTodo' = todo, UNCHANGED <<added, uninterrupted>>,
           TakeBatch(t, total, idle, ok, W)
    PROVE  QueueInv'
<1> USE DEF QueueInv
<1>1. PICK B \in SUBSET queue :
        /\ Cardinality(B) = BatchSize(total, idle)
        /\ queue' = queue \ B
        /\ vChecks' = [vChecks EXCEPT ![t] = B]
  BY DEF TakeBatch
<1>2. total \in Nat /\ idle \in Nat /\ ok \in BOOLEAN
  BY DEF Settled
<1>3. B # {}
  <2>1. BatchSize(total, idle) \in Nat /\ BatchSize(total, idle) >= 1
    BY <1>2, BatchSizePositive
  <2>2. Cardinality(B) # 0
    BY <1>1, <2>1
  <2> QED BY <2>2, FS_EmptySet
<1>4. /\ pc' = [u \in Thread |-> IF u = t THEN "work" ELSE IF u \in W THEN "woken" ELSE pc[u]]
      /\ fOk' = [fOk EXCEPT ![t] = ok] /\ fAllOk' = ok
      /\ nTotal' = total /\ nIdle' = idle /\ fRet' = fRet
  BY DEF TakeBatch, Wake
<1>5. \A u \in W : pc[u] = "wait" /\ vChecks[u] = {}
  BY DEF Waiting, Partition
<1>6. \A u \in Thread : vChecks'[u] = IF u = t THEN B ELSE vChecks[u]
  BY <1>1 DEF TypeOK
<1>7. Outstanding' = Rest(t)
  BY <1>1, <1>6 DEF Outstanding, Rest, TypeOK
<1>8. Asleep' = Asleep \ {t}
  BY <1>4, <1>5 DEF Asleep
<1>9. TypeOK'
  <2>1. todo \in Nat
    <3>1. Rest(t) \in SUBSET Outstanding
      BY DEF Rest, Outstanding
    <3> QED BY <3>1, FiniteSets, FS_Subset, FS_CardinalityType DEF Settled
  <2> QED BY <1>1, <1>2, <1>4, <2>1 DEF TypeOK
<1>10. Partition'
  BY <1>1, <1>3, <1>4, <1>5, <1>6 DEF Partition
<1>11. Counted'
  <2>1. nTodo' = Cardinality(Outstanding')
    BY <1>7 DEF Settled
  <2>2. Cardinality(Asleep') <= nIdle'
    BY <1>4, <1>8 DEF Settled
  <2>3. (pc[Master] \in {"work", "wait", "woken"} \/ (pc[Master] = "lock" /\ vChecks[Master] # {})
          => nTotal >= 1)'
    <3>1. CASE t = Master
      BY <1>4, <3>1 DEF Settled
    <3>2. CASE t # Master
      BY <1>2, <1>4, <1>5, <1>6, <3>2 DEF Settled, Counted, TypeOK, Thread
    <3> QED BY <3>1, <3>2
  <2> QED BY <2>1, <2>2, <2>3 DEF Counted
<1>12. NoFalseAlarm'
  BY <1>4, <1>6 DEF NoFalseAlarm, Settled, TypeOK
<1>13. NoMiss'
  <2> SUFFICES ASSUME pc'[Master] # "out", NEW c \in added \cap BadCheck
               PROVE  \/ c \in queue'
                      \/ ~fAllOk'
                      \/ \E u \in Thread : c \in vChecks'[u] /\ (pc'[u] = "work" \/ ~fOk'[u])
    BY DEF NoMiss
  <2>1. CASE c \in queue
    BY <1>1, <1>4, <1>6, <2>1
  <2>2. CASE ~ok
    BY <1>4, <2>2
  <2>3. CASE \E u \in Thread \ {t} : c \in vChecks[u] /\ (pc[u] = "work" \/ ~fOk[u])
    <3>1. PICK u \in Thread \ {t} : c \in vChecks[u] /\ (pc[u] = "work" \/ ~fOk[u])
      BY <2>3
    <3>2. u \notin W
      BY <3>1, <1>5
    <3> QED BY <1>4, <1>6, <3>1, <3>2 DEF TypeOK
  <2>4. pc[Master] # "out"
    BY <1>4, <1>5 DEF Settled, Thread
  <2> QED BY <2>1, <2>2, <2>3, <2>4 DEF Settled
<1>14. Quiet'
  <2>1. CASE t = Master
    BY <1>4, <2>1 DEF Quiet
  <2>2. CASE t # Master
    BY <1>4, <1>7, <1>5, <2>2 DEF Quiet, Settled, Thread
  <2> QED BY <2>1, <2>2
<1>15. VerdictCorrect'
  BY <1>4 DEF VerdictCorrect
<1> QED BY <1>9, <1>10, <1>11, <1>12, <1>13, <1>14, <1>15

LEMMA ReturnKeeps ==
    ASSUME QueueInv, NEW t \in Thread, NEW total, NEW idle, NEW ok, NEW todo,
           Settled(t, total, idle, ok, todo),
           nTodo' = todo, UNCHANGED <<added, uninterrupted>>,
           Return(t, total, idle, ok, todo)
    PROVE  QueueInv'
<1> USE DEF QueueInv
<1>1. /\ t = Master /\ queue = {} /\ todo = 0
      /\ pc' = [pc EXCEPT ![Master] = "out"]
      /\ vChecks' = [vChecks EXCEPT ![Master] = {}]
      /\ nTotal' = total - 1 /\ nIdle' = idle /\ fAllOk' = TRUE
      /\ fRet' = [ok |-> ok, checks |-> added]
      /\ queue' = queue /\ fOk' = fOk
  BY DEF Return
<1>2. Rest(t) = {}
  <2>1. Rest(t) \in SUBSET Outstanding
    BY DEF Rest, Outstanding
  <2>2. IsFiniteSet(Rest(t)) /\ Cardinality(Rest(t)) = 0
    BY <1>1, <2>1, FiniteSets, FS_Subset DEF Settled
  <2> QED BY <2>2, FS_EmptySet
<1>3. \A u \in Thread : vChecks'[u] = {}
  BY <1>1, <1>2 DEF TypeOK, Rest
<1>4. Outstanding' = {}
  BY <1>1, <1>3 DEF Outstanding
<1>5. ok = (added \cap BadCheck = {})
  BY <1>1, <1>2 DEF Settled, Rest, Thread
<1>6. TypeOK'
  BY <1>1 DEF TypeOK, Settled, Thread
<1>7. Partition'
  BY <1>1, <1>3 DEF Partition, TypeOK
<1>8. Asleep' = Asleep \ {t}
  BY <1>1 DEF Asleep, TypeOK
<1>9. Counted'
  BY <1>1, <1>4, <1>8, FS_EmptySet DEF Counted, Settled, TypeOK, Thread
<1>10. NoFalseAlarm' /\ Quiet'
  BY <1>1, <1>3, <1>4 DEF NoFalseAlarm, Quiet
<1>11. NoMiss'
  BY <1>1 DEF NoMiss, TypeOK
<1>12. VerdictCorrect'
  BY <1>1, <1>5 DEF VerdictCorrect
<1> QED BY <1>6, <1>7, <1>9, <1>10, <1>11, <1>12

LEMMA SleepKeeps ==
    ASSUME QueueInv, NEW t \in Thread, NEW total, NEW idle, NEW ok, NEW todo,
           NEW W \in SUBSET Waiting(Thread), t \notin W,
           Settled(t, total, idle, ok, todo),
           nTodo' = todo, UNCHANGED <<added, uninterrupted>>,
           Sleep(t, total, idle, ok, todo, W)
    PROVE  QueueInv'
<1> USE DEF QueueInv
<1>1. /\ queue = {} /\ queue' = queue
      /\ vChecks' = [vChecks EXCEPT ![t] = {}]
      /\ pc' = [u \in Thread |-> IF u = t THEN "wait" ELSE IF u \in W THEN "woken" ELSE pc[u]]
      /\ fOk' = fOk /\ fAllOk' = ok /\ fRet' = fRet
      /\ nTotal' = total /\ nIdle' = idle + 1
  BY DEF Sleep, Wake
<1>2. total \in Nat /\ idle \in Nat /\ ok \in BOOLEAN
  BY DEF Settled
<1>3. \A u \in W : pc[u] = "wait" /\ vChecks[u] = {}
  BY DEF Waiting, Partition
<1>4. \A u \in Thread : vChecks'[u] = IF u = t THEN {} ELSE vChecks[u]
  BY <1>1 DEF TypeOK
<1>5. Outstanding' = Rest(t)
  BY <1>1, <1>4 DEF Outstanding, Rest, TypeOK
<1>6. Asleep' = (Asleep \ {t}) \cup {t}
  BY <1>1, <1>3 DEF Asleep
<1>7. TypeOK'
  <2>1. todo \in Nat
    <3>1. Rest(t) \in SUBSET Outstanding
      BY DEF Rest, Outstanding
    <3> QED BY <3>1, FiniteSets, FS_Subset, FS_CardinalityType DEF Settled
  <2> QED BY <1>1, <1>2, <2>1 DEF TypeOK
<1>8. Partition'
  BY <1>1, <1>3, <1>4 DEF Partition
<1>9. Counted'
  <2>1. nTodo' = Cardinality(Outstanding')
    BY <1>5 DEF Settled
  <2>2. Cardinality(Asleep') <= nIdle'
    <3>1. IsFiniteSet(Asleep \ {t})
      BY FiniteSets, FS_RemoveElement
    <3>2. Cardinality(Asleep') = Cardinality(Asleep \ {t}) + 1
      BY <1>6, <3>1, FS_AddElement
    <3>3. Cardinality(Asleep \ {t}) \in Nat
      BY <3>1, FS_CardinalityType
    <3> QED BY <1>1, <1>2, <3>2, <3>3 DEF Settled
  <2>3. (pc[Master] \in {"work", "wait", "woken"} \/ (pc[Master] = "lock" /\ vChecks[Master] # {})
          => nTotal >= 1)'
    <3>1. CASE t = Master
      BY <1>1, <3>1 DEF Settled
    <3>2. CASE t # Master
      BY <1>1, <1>2, <1>3, <1>4, <3>2 DEF Settled, Counted, TypeOK, Thread
    <3> QED BY <3>1, <3>2
  <2> QED BY <2>1, <2>2, <2>3 DEF Counted
<1>10. NoFalseAlarm'
  BY <1>1, <1>4 DEF NoFalseAlarm, Settled, TypeOK
<1>11. NoMiss'
  BY <1>1, <1>3, <1>4 DEF NoMiss, Settled, Thread
<1>12. Quiet'
  <2>1. CASE t = Master
    BY <1>1, <2>1 DEF Quiet
  <2>2. CASE t # Master
    BY <1>1, <1>5, <1>3, <2>2 DEF Quiet, Settled, Thread
  <2> QED BY <2>1, <2>2
<1>13. VerdictCorrect'
  BY <1>1 DEF VerdictCorrect
<1> QED BY <1>7, <1>8, <1>9, <1>10, <1>11, <1>12, <1>13

LEMMA ProceedKeeps ==
    ASSUME QueueInv, NEW t \in Thread, NEW total, NEW idle, NEW ok, NEW todo,
           NEW W \in SUBSET Waiting(Thread), t \notin W,
           Settled(t, total, idle, ok, todo),
           Proceed(t, total, idle, ok, todo, W)
    PROVE  QueueInv'
<1>1. nTodo' = todo /\ UNCHANGED <<added, uninterrupted>>
  BY DEF Proceed
<1>2. CASE TakeBatch(t, total, idle, ok, W)
  BY <1>1, <1>2, TakeBatchKeeps
<1>3. CASE Return(t, total, idle, ok, todo)
  BY <1>1, <1>3, ReturnKeeps
<1>4. CASE Sleep(t, total, idle, ok, todo, W)
  BY <1>1, <1>4, SleepKeeps
<1> QED BY <1>2, <1>3, <1>4 DEF Proceed

LEMMA QueueNext == QueueInv /\ [Next]_vars => QueueInv'
<1> SUFFICES ASSUME QueueInv, [Next]_vars PROVE QueueInv'
  OBVIOUS
<1> USE DEF QueueInv
<1>0. /\ Cardinality(Asleep) \in Nat /\ IsFiniteSet(Asleep)
      /\ IsFiniteSet(Outstanding) /\ Cardinality(Outstanding) \in Nat
      /\ Master \in Thread
  BY FiniteSets, FS_CardinalityType DEF Thread
<1>1. ASSUME Control PROVE QueueInv'
  <2>1. queue = {} /\ \A t \in Thread : vChecks[t] = {}
    BY <1>1 DEF Control, Quiet, Outstanding, TypeOK
  <2>2. Outstanding' = {} /\ Outstanding = {} /\ Asleep' = Asleep
    BY <1>1, <2>1 DEF Control, Outstanding, Asleep, TypeOK, Thread
  <2>3. TypeOK'
    BY <1>1, <2>1 DEF Control, TypeOK
  <2>4. Partition'
    BY <1>1, <2>1 DEF Control, Partition, TypeOK
  <2>5. Counted'
    BY <1>0, <1>1, <2>2 DEF Control, Counted, TypeOK
  <2>6. NoFalseAlarm' /\ NoMiss'
    BY <1>1, <2>1 DEF Control, NoFalseAlarm, NoMiss, Quiet, TypeOK
  <2>7. Quiet' /\ VerdictCorrect'
    BY <1>0, <1>1 DEF Control, Quiet, VerdictCorrect, TypeOK
  <2> QED BY <2>3, <2>4, <2>5, <2>6, <2>7
<1>2. ASSUME NEW S \in SUBSET (Check \ added), Add(S) PROVE QueueInv'
  <2>1. PICK W \in WakeSets(Worker, Cardinality(S) > 1) : pc' = Wake(W)
    BY <1>2 DEF Add
  <2>2. W \subseteq Worker /\ \A u \in W : pc[u] = "wait" /\ vChecks[u] = {}
    BY <2>1 DEF WakeSets, Waiting, Partition, Thread
  <2>3. pc' = [u \in Thread |-> IF u \in W THEN "woken" ELSE pc[u]]
    BY <2>1 DEF Wake
  <2>4. /\ pc[Master] = "control" /\ pc'[Master] = "control"
        /\ queue' = queue \cup S /\ added' = added \cup S
        /\ nTodo' = nTodo + Cardinality(S)
        /\ UNCHANGED <<nIdle, nTotal, fAllOk, vChecks, fOk, fRet, uninterrupted>>
    BY <1>0, <1>2, <2>2, <2>3, QueueAssumption DEF Add
  <2>5. IsFiniteSet(S) /\ Cardinality(S) \in Nat
    <3>1. S \in SUBSET Check
      BY <1>2
    <3> QED BY <3>1, FS_Subset, FS_CardinalityType, QueueAssumption
  <2>6. Outstanding' = Outstanding \cup S /\ Outstanding \cap S = {}
    BY <1>2, <2>4 DEF Outstanding, TypeOK
  <2>7. Cardinality(Outstanding') = Cardinality(Outstanding) + Cardinality(S)
    BY <1>0, <2>5, <2>6, FS_Union, FS_EmptySet
  <2>8. Asleep' = Asleep
    BY <2>2, <2>3 DEF Asleep
  <2>9. TypeOK'
    BY <1>2, <2>3, <2>4, <2>5 DEF TypeOK
  <2>10. Partition'
    BY <1>2, <2>2, <2>3, <2>4 DEF Partition, TypeOK
  <2>11. Counted'
    BY <2>4, <2>7, <2>8 DEF Counted
  <2>12. NoFalseAlarm'
    BY <2>4 DEF NoFalseAlarm
  <2>13. NoMiss'
    BY <2>2, <2>3, <2>4 DEF NoMiss
  <2>14. Quiet' /\ VerdictCorrect'
    BY <2>4 DEF Quiet, VerdictCorrect
  <2> QED BY <2>9, <2>10, <2>11, <2>12, <2>13, <2>14
<1>3. ASSUME Wait PROVE QueueInv'
  <2>1. vChecks[Master] = {} /\ pc'[Master] = "lock"
    BY <1>0, <1>3 DEF Wait, Partition, TypeOK
  <2>2. Outstanding' = Outstanding /\ Asleep' = Asleep
    BY <1>3 DEF Wait, Outstanding, Asleep, TypeOK
  <2>3. TypeOK' /\ Partition'
    BY <1>3, <2>1 DEF Wait, TypeOK, Partition
  <2>4. Counted'
    BY <1>3, <2>1, <2>2 DEF Wait, Counted
  <2>5. NoFalseAlarm' /\ NoMiss'
    BY <1>3, <2>1 DEF Wait, NoFalseAlarm, NoMiss, TypeOK
  <2>6. Quiet' /\ VerdictCorrect'
    BY <1>3, <2>1 DEF Wait, Quiet, VerdictCorrect
  <2> QED BY <2>3, <2>4, <2>5, <2>6
<1>4. ASSUME NEW t \in Thread, FirstIteration(t) PROVE QueueInv'
  <2>1. PICK total, idle, ok, todo :
          total = nTotal + 1 /\ idle = nIdle /\ ok = fAllOk /\ todo = nTodo
    OBVIOUS
  <2>2. vChecks[t] = {} /\ pc[t] \in {"start", "lock"} /\ (t = Master => pc[t] = "lock")
    BY <1>4 DEF FirstIteration
  <2>3. Rest(t) = Outstanding /\ Asleep \ {t} = Asleep
    BY <2>2 DEF Rest, Outstanding, Asleep
  <2>4. Settled(t, total, idle, ok, todo)
    <3>1. total \in Nat /\ total >= nTotal /\ total >= 1 /\ idle \in Nat /\ ok \in BOOLEAN
      BY <2>1 DEF TypeOK
    <3>2. Cardinality(Asleep \ {t}) <= idle /\ todo = Cardinality(Rest(t))
      BY <2>1, <2>3 DEF Counted
    <3>3. ~ok => added \cap BadCheck # {}
      BY <2>1 DEF NoFalseAlarm
    <3>4. pc[Master] # "out" => \A c \in added \cap BadCheck :
             \/ c \in queue
             \/ ~ok
             \/ \E u \in Thread \ {t} : c \in vChecks[u] /\ (pc[u] = "work" \/ ~fOk[u])
      BY <2>1, <2>2 DEF NoMiss
    <3>5. pc[Master] = "out" => t # Master /\ ok /\ Rest(t) = {}
      BY <2>1, <2>2, <2>3 DEF Quiet
    <3> QED BY <3>1, <3>2, <3>3, <3>4, <3>5 DEF Settled
  <2>5. Proceed(t, total, idle, ok, todo, {})
    BY <1>4, <2>1 DEF FirstIteration
  <2> QED BY <2>4, <2>5, ProceedKeeps
<1>5. ASSUME NEW t \in Thread, Merge(t) PROVE QueueInv'
  <2>1. PICK total, idle, ok, todo :
          /\ total = nTotal /\ idle = nIdle /\ ok = (fAllOk /\ fOk[t])
          /\ todo = nTodo - Cardinality(vChecks[t])
    OBVIOUS
  <2>2. pc[t] = "lock" /\ vChecks[t] # {}
    BY <1>5 DEF Merge
  <2>3. PICK W \in IF todo = 0 /\ t # Master THEN WakeSets({Master}, FALSE) ELSE {{}} :
          Proceed(t, total, idle, ok, todo, W)
    BY <1>5, <2>1 DEF Merge
  <2>4. W \in SUBSET Waiting(Thread) /\ t \notin W
    BY <1>0, <2>2, <2>3 DEF WakeSets, Waiting
  <2>5. Rest(t) = Outstanding \ vChecks[t] /\ Outstanding \cap vChecks[t] = vChecks[t]
    BY DEF Rest, Outstanding, Partition, TypeOK
  <2>6. Cardinality(Rest(t)) = Cardinality(Outstanding) - Cardinality(vChecks[t])
    BY <1>0, <2>5, FS_Difference
  <2>7. Asleep \ {t} = Asleep
    BY <2>2 DEF Asleep
  <2>8. Settled(t, total, idle, ok, todo)
    <3>1. total \in Nat /\ total >= nTotal /\ idle \in Nat
      BY <2>1 DEF TypeOK
    <3>2. t = Master => total >= 1
      BY <2>1, <2>2 DEF Counted
    <3>3. ok \in BOOLEAN
      BY <2>1, Zenon
    <3>4. Cardinality(Asleep \ {t}) <= idle /\ todo = Cardinality(Rest(t))
      BY <2>1, <2>6, <2>7 DEF Counted
    <3>5. ~ok => added \cap BadCheck # {}
      BY <2>1, <2>2 DEF NoFalseAlarm
    <3>6. pc[Master] # "out" => \A c \in added \cap BadCheck :
             \/ c \in queue
             \/ ~ok
             \/ \E u \in Thread \ {t} : c \in vChecks[u] /\ (pc[u] = "work" \/ ~fOk[u])
      BY <2>1, <2>2 DEF NoMiss
    <3>7. pc[Master] # "out"
      BY <2>2 DEF Quiet, Outstanding, TypeOK
    <3> QED BY <3>1, <3>2, <3>3, <3>4, <3>5, <3>6, <3>7 DEF Settled
  <2> QED BY <2>3, <2>4, <2>8, ProceedKeeps
<1>6. ASSUME NEW t \in Thread, WakeUp(t) PROVE QueueInv'
  <2>1. PICK total, idle, ok, todo :
          total = nTotal /\ idle = nIdle - 1 /\ ok = fAllOk /\ todo = nTodo
    OBVIOUS
  <2>2. pc[t] \in {"wait", "woken"} /\ vChecks[t] = {} /\ t \in Asleep
    BY <1>6 DEF WakeUp, Partition, Asleep
  <2>3. Rest(t) = Outstanding
    BY <2>2 DEF Rest, Outstanding
  <2>4. Cardinality(Asleep \ {t}) = Cardinality(Asleep) - 1 /\ Cardinality(Asleep \ {t}) \in Nat
    BY <1>0, <2>2, FS_RemoveElement, FS_CardinalityType
  <2>5. Settled(t, total, idle, ok, todo)
    <3>1. idle \in Nat /\ Cardinality(Asleep \ {t}) <= idle
      BY <1>0, <2>1, <2>4 DEF Counted, TypeOK
    <3>2. total \in Nat /\ total >= nTotal /\ ok \in BOOLEAN
      BY <2>1 DEF TypeOK
    <3>3. t = Master => total >= 1
      BY <2>1, <2>2 DEF Counted
    <3>4. todo = Cardinality(Rest(t))
      BY <2>1, <2>3 DEF Counted
    <3>5. ~ok => added \cap BadCheck # {}
      BY <2>1 DEF NoFalseAlarm
    <3>6. pc[Master] # "out" => \A c \in added \cap BadCheck :
             \/ c \in queue
             \/ ~ok
             \/ \E u \in Thread \ {t} : c \in vChecks[u] /\ (pc[u] = "work" \/ ~fOk[u])
      BY <2>1, <2>2 DEF NoMiss
    <3>7. pc[Master] = "out" => t # Master /\ ok /\ Rest(t) = {}
      BY <2>1, <2>2, <2>3 DEF Quiet
    <3> QED BY <3>1, <3>2, <3>3, <3>4, <3>5, <3>6, <3>7 DEF Settled
  <2>6. Proceed(t, total, idle, ok, todo, {})
    BY <1>6, <2>1 DEF WakeUp
  <2> QED BY <2>5, <2>6, ProceedKeeps
<1>7. ASSUME NEW t \in Thread, Execute(t) PROVE QueueInv'
  <2>1. /\ pc[t] = "work" /\ vChecks[t] # {}
        /\ pc' = [pc EXCEPT ![t] = "lock"]
        /\ fOk' = [fOk EXCEPT ![t] = fOk[t] /\ vChecks[t] \cap BadCheck = {}]
        /\ UNCHANGED <<queue, nIdle, nTotal, fAllOk, nTodo, vChecks, added, fRet, uninterrupted>>
    BY <1>7 DEF Execute, Partition
  <2>2. Outstanding' = Outstanding /\ Asleep' = Asleep
    BY <2>1 DEF Outstanding, Asleep, TypeOK
  <2>3. TypeOK' /\ Partition'
    BY <2>1 DEF TypeOK, Partition
  <2>4. Counted'
    BY <2>1, <2>2 DEF Counted, TypeOK
  <2>5. NoFalseAlarm'
    BY <2>1 DEF NoFalseAlarm, TypeOK
  <2>6. NoMiss'
    BY <2>1 DEF NoMiss, TypeOK, Thread
  <2>7. Quiet' /\ VerdictCorrect'
    BY <2>1, <2>2 DEF Quiet, VerdictCorrect, TypeOK, Thread
  <2> QED BY <2>3, <2>4, <2>5, <2>6, <2>7
<1>8. ASSUME NEW t \in Thread, Interrupt(t) PROVE QueueInv'
  <2>1. /\ pc[t] \in {"wait", "woken"} /\ vChecks[t] = {}
        /\ pc' = [pc EXCEPT ![t] = IF t = Master THEN "lock" ELSE "gone"]
        /\ fOk' = [fOk EXCEPT ![t] = TRUE]
        /\ uninterrupted' = uninterrupted \ {t}
        /\ UNCHANGED <<queue, nIdle, nTotal, fAllOk, nTodo, vChecks, added, fRet>>
    BY <1>8 DEF Interrupt, Partition
  <2>2. Outstanding' = Outstanding /\ Asleep' = Asleep \ {t}
    BY <2>1 DEF Outstanding, Asleep, TypeOK
  <2>3. TypeOK' /\ Partition'
    BY <2>1 DEF TypeOK, Partition
  <2>4. Cardinality(Asleep') <= nIdle'
    <3>1. Cardinality(Asleep \ {t}) = Cardinality(Asleep) - 1
      BY <1>0, <2>1, FS_RemoveElement DEF Asleep
    <3> QED BY <1>0, <2>1, <2>2, <3>1 DEF Counted, TypeOK
  <2>5. Counted'
    BY <2>1, <2>2, <2>4 DEF Counted, TypeOK, Thread
  <2>6. NoFalseAlarm' /\ NoMiss'
    BY <2>1 DEF NoFalseAlarm, NoMiss, TypeOK, Thread
  <2>7. Quiet' /\ VerdictCorrect'
    BY <2>1, <2>2 DEF Quiet, VerdictCorrect, TypeOK, Thread
  <2> QED BY <2>3, <2>5, <2>6, <2>7
<1>9. ASSUME UNCHANGED vars PROVE QueueInv'
  BY <1>9 DEF vars, TypeOK, Partition, Counted, Outstanding, Asleep, NoFalseAlarm, NoMiss,
              Quiet, VerdictCorrect
<1> QED BY <1>1, <1>2, <1>3, <1>4, <1>5, <1>6, <1>7, <1>8, <1>9 DEF Next

(***************************************************************************)
(* For every number of workers and checks, Wait returns true if and only   *)
(* if all the checks of the block are good (CCheckQueue::Loop).            *)
(***************************************************************************)
THEOREM Verdict == Spec => []VerdictCorrect
<1>1. QueueInv => VerdictCorrect
  BY DEF QueueInv
<1> QED BY <1>1, QueueInit, QueueNext, PTL DEF Spec

(***************************************************************************)
(* For every number of workers and checks, the queue is unused, and its    *)
(* status reset, whenever no control holds it (CCheckQueueControl).        *)
(***************************************************************************)
THEOREM Unused == Spec => []UnusedBetweenBlocks
<1>1. QueueInv => UnusedBetweenBlocks
  <2> SUFFICES ASSUME QueueInv, pc[Master] = "out"
               PROVE  /\ queue = {} /\ nTodo = 0 /\ fAllOk
                      /\ \A t \in Thread : vChecks[t] = {}
    BY DEF UnusedBetweenBlocks
  <2>1. fAllOk /\ Outstanding = {}
    BY DEF QueueInv, Quiet
  <2>2. nTodo = 0
    BY <2>1, FS_EmptySet DEF QueueInv, Counted
  <2>3. queue = {} /\ \A t \in Thread : vChecks[t] = {}
    BY <2>1 DEF QueueInv, TypeOK, Outstanding
  <2> QED BY <2>1, <2>2, <2>3
<1> QED BY <1>1, QueueInit, QueueNext, PTL DEF Spec
=============================================================================
