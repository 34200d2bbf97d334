----------------------------- MODULE CheckQueue -----------------------------
(***************************************************************************)
(* CCheckQueue: the pool of script-check workers that ConnectBlock hands   *)
(* the checks of a block to, and its master, the thread that connects the  *)
(* block and joins the work in Wait.                                       *)
(*                                                                         *)
(* Everything Loop does between taking the mutex and releasing it (at the  *)
(* end of the block or inside cond.wait) is one action; the checks run     *)
(* without the mutex, on the thread's own batch.                           *)
(***************************************************************************)
EXTENDS Integers, FiniteSets

CONSTANTS
    Check,          \* the checks a block may consist of
    BadCheck,       \* the ones that evaluate to false
    Worker,         \* the threads started with ThreadScriptCheck
    Master,         \* the thread that holds ControlMutex
    nBatchSize

ASSUME QueueAssumption ==
    /\ IsFiniteSet(Check)
    /\ BadCheck \subseteq Check
    /\ IsFiniteSet(Worker)
    /\ Master \notin Worker
    /\ nBatchSize \in Nat \ {0}

Thread == Worker \cup {Master}

VARIABLES
    queue,          \* checks not yet taken; their order does not matter
    nIdle,
    nTotal,
    fAllOk,
    nTodo,
    pc,             \* where each thread is
    vChecks,        \* the batch of each thread, until its result is merged
    fOk,            \* the result of the batch
    added,          \* the checks of the current CCheckQueueControl
    fRet,           \* what the control's Wait returned, and for which checks
    uninterrupted   \* the threads interrupt_all has not thrown in yet

vars == <<queue, nIdle, nTotal, fAllOk, nTodo, pc, vChecks, fOk, added, fRet, uninterrupted>>

(***************************************************************************)
(* "start": a worker before its first iteration; "out" and "control": the  *)
(* master outside and inside a CCheckQueueControl, before Wait; "lock":    *)
(* about to take the mutex; "work": running its batch; "wait": inside      *)
(* cond.wait; "woken": notified, about to take the mutex again; "gone": a  *)
(* worker interrupted in cond.wait at shutdown.                            *)
(***************************************************************************)
TypeOK ==
    /\ queue \subseteq added
    /\ nIdle \in Nat /\ nTotal \in Nat /\ nTodo \in Nat
    /\ fAllOk \in BOOLEAN
    /\ pc \in [Thread -> {"start", "out", "control", "lock", "work", "wait", "woken", "gone"}]
    /\ vChecks \in [Thread -> SUBSET added]
    /\ fOk \in [Thread -> BOOLEAN]
    /\ added \subseteq Check
    /\ fRet \in [ok : BOOLEAN, checks : SUBSET Check]
    /\ uninterrupted \subseteq Thread

Init ==
    /\ queue = {} /\ nIdle = 0 /\ nTotal = 0 /\ fAllOk = TRUE /\ nTodo = 0
    /\ pc = [t \in Thread |-> IF t = Master THEN "out" ELSE "start"]
    /\ vChecks = [t \in Thread |-> {}]
    /\ fOk = [t \in Thread |-> TRUE]
    /\ added = {}
    /\ fRet = [ok |-> TRUE, checks |-> {}]
    /\ uninterrupted = Thread

(***************************************************************************)
(* notify_one wakes some thread of W that waits, if there is one;          *)
(* notify_all wakes them all.                                              *)
(***************************************************************************)
Waiting(W) == {t \in W : pc[t] = "wait"}

WakeSets(W, all) ==
    IF all THEN {Waiting(W)}
    ELSE IF Waiting(W) = {} THEN {{}} ELSE {{t} : t \in Waiting(W)}

Wake(W) == [t \in Thread |-> IF t \in W THEN "woken" ELSE pc[t]]

(***************************************************************************)
(* CCheckQueueControl(): the master takes ControlMutex.  The local fRet of *)
(* the previous control's Wait is gone with it.                            *)
(***************************************************************************)
Control ==
    /\ pc[Master] = "out"
    /\ pc' = [pc EXCEPT ![Master] = "control"]
    /\ added' = {}
    /\ fRet' = [ok |-> TRUE, checks |-> {}]
    /\ UNCHANGED <<queue, nIdle, nTotal, fAllOk, nTodo, vChecks, fOk, uninterrupted>>

(***************************************************************************)
(* Add: the checks of one transaction.                                     *)
(***************************************************************************)
Add(S) ==
    /\ pc[Master] = "control"
    /\ queue' = queue \cup S
    /\ added' = added \cup S
    /\ nTodo' = nTodo + Cardinality(S)
    /\ \E W \in WakeSets(Worker, Cardinality(S) > 1) : pc' = Wake(W)
    /\ UNCHANGED <<nIdle, nTotal, fAllOk, vChecks, fOk, fRet, uninterrupted>>

(***************************************************************************)
(* Wait: Loop(true).  The destructor of the control calls it as well, when *)
(* ConnectBlock gave up on the block early.                                *)
(***************************************************************************)
Wait ==
    /\ pc[Master] = "control"
    /\ pc' = [pc EXCEPT ![Master] = "lock"]
    /\ fOk' = [fOk EXCEPT ![Master] = TRUE]
    /\ UNCHANGED <<queue, nIdle, nTotal, fAllOk, nTodo, vChecks, added, fRet, uninterrupted>>

(***************************************************************************)
(* nNow: the size of the next batch, with the other threads counted.       *)
(***************************************************************************)
Least(a, b) == IF a < b THEN a ELSE b

BatchSize(total, idle) ==
    LET share == Least(nBatchSize, Cardinality(queue) \div (total + idle + 1))
    IN  IF share < 1 THEN 1 ELSE share

(***************************************************************************)
(* The part of Loop from its inner while to the end of the critical        *)
(* section, for thread t, with nTotal, nIdle, fAllOk and nTodo as the      *)
(* earlier part left them.  W is the set of threads notified before.       *)
(***************************************************************************)
TakeBatch(t, total, idle, ok, W) ==
    /\ queue # {}
    /\ \E B \in SUBSET queue :
          /\ Cardinality(B) = BatchSize(total, idle)
          /\ queue' = queue \ B
          /\ vChecks' = [vChecks EXCEPT ![t] = B]
    /\ fOk' = [fOk EXCEPT ![t] = ok]
    /\ pc' = [Wake(W) EXCEPT ![t] = "work"]
    /\ nTotal' = total /\ nIdle' = idle
    /\ fAllOk' = ok
    /\ UNCHANGED fRet

\* Mutant: the status is not reset for the next block.
Return_NoReset(t, total, idle, ok, todo) ==
    /\ queue = {} /\ t = Master /\ todo = 0
    /\ nTotal' = total - 1 /\ nIdle' = idle
    /\ fRet' = [ok |-> ok, checks |-> added]
    /\ fAllOk' = ok
    /\ pc' = [pc EXCEPT ![t] = "out"]
    /\ vChecks' = [vChecks EXCEPT ![t] = {}]
    /\ UNCHANGED <<queue, fOk>>

\* Mutant: the master returns as soon as the queue is empty.
Return_QueueEmpty(t, total, idle, ok, todo) ==
    /\ queue = {} /\ t = Master
    /\ nTotal' = total - 1 /\ nIdle' = idle
    /\ fRet' = [ok |-> ok, checks |-> added]
    /\ fAllOk' = TRUE
    /\ pc' = [pc EXCEPT ![t] = "out"]
    /\ vChecks' = [vChecks EXCEPT ![t] = {}]
    /\ UNCHANGED <<queue, fOk>>

Return(t, total, idle, ok, todo) ==
    /\ queue = {} /\ t = Master /\ todo = 0
    /\ nTotal' = total - 1 /\ nIdle' = idle
    /\ fRet' = [ok |-> ok, checks |-> added]
    /\ fAllOk' = TRUE
    /\ pc' = [pc EXCEPT ![t] = "out"]
    /\ vChecks' = [vChecks EXCEPT ![t] = {}]
    /\ UNCHANGED <<queue, fOk>>

Sleep(t, total, idle, ok, todo, W) ==
    /\ queue = {} /\ ~(t = Master /\ todo = 0)
    /\ nTotal' = total /\ nIdle' = idle + 1
    /\ fAllOk' = ok
    /\ pc' = [Wake(W) EXCEPT ![t] = "wait"]
    /\ vChecks' = [vChecks EXCEPT ![t] = {}]
    /\ UNCHANGED <<queue, fOk, fRet>>

Proceed(t, total, idle, ok, todo, W) ==
    /\ nTodo' = todo
    /\ UNCHANGED <<added, uninterrupted>>
    /\ \/ TakeBatch(t, total, idle, ok, W)
       \/ Return(t, total, idle, ok, todo)
       \/ Sleep(t, total, idle, ok, todo, W)

(***************************************************************************)
(* The first iteration of a thread's Loop.                                 *)
(***************************************************************************)
FirstIteration(t) ==
    /\ pc[t] = IF t = Master THEN "lock" ELSE "start"
    /\ vChecks[t] = {}
    /\ Proceed(t, nTotal + 1, nIdle, fAllOk, nTodo, {})

\* Mutant: the last worker does not notify the master.
Merge_Silent(t) ==
    /\ pc[t] = "lock"
    /\ vChecks[t] # {}
    /\ Proceed(t, nTotal, nIdle, fAllOk /\ fOk[t], nTodo - Cardinality(vChecks[t]), {})

(***************************************************************************)
(* Every later one merges the result of the batch first; the worker that   *)
(* finishes the last check notifies the master.                            *)
(***************************************************************************)
Merge(t) ==
    /\ pc[t] = "lock"
    /\ vChecks[t] # {}
    /\ LET todo == nTodo - Cardinality(vChecks[t])
       IN  \E W \in IF todo = 0 /\ t # Master
                    THEN WakeSets({Master}, FALSE) ELSE {{}} :
              Proceed(t, nTotal, nIdle, fAllOk /\ fOk[t], todo, W)

(***************************************************************************)
(* A thread comes back from cond.wait, notified or spuriously.             *)
(***************************************************************************)
WakeUp(t) ==
    /\ pc[t] \in {"wait", "woken"}
    /\ Proceed(t, nTotal, nIdle - 1, fAllOk, nTodo, {})

(***************************************************************************)
(* "if (fOk) fOk = check()" for every check of the batch.                  *)
(***************************************************************************)
Execute(t) ==
    /\ pc[t] = "work"
    /\ fOk' = [fOk EXCEPT ![t] = fOk[t] /\ vChecks[t] \cap BadCheck = {}]
    /\ pc' = [pc EXCEPT ![t] = "lock"]
    /\ UNCHANGED <<queue, nIdle, nTotal, fAllOk, nTodo, vChecks, added, fRet, uninterrupted>>

(***************************************************************************)
(* threadGroup.interrupt_all() at shutdown: cond.wait throws, once in each *)
(* thread, and nIdle and nTotal keep counting it.  A worker leaves Loop;   *)
(* a master (the import thread) leaves Wait for the destructor of its      *)
(* control, which calls Wait again.                                        *)
(***************************************************************************)
Interrupt(t) ==
    /\ pc[t] \in {"wait", "woken"}
    /\ t \in uninterrupted
    /\ uninterrupted' = uninterrupted \ {t}
    /\ pc' = [pc EXCEPT ![t] = IF t = Master THEN "lock" ELSE "gone"]
    /\ fOk' = [fOk EXCEPT ![t] = TRUE]
    /\ UNCHANGED <<queue, nIdle, nTotal, fAllOk, nTodo, vChecks, added, fRet>>

LoopStep(t) == FirstIteration(t) \/ Merge(t) \/ Execute(t) \/ (pc[t] = "woken" /\ WakeUp(t))

Next ==
    \/ Control
    \/ \E S \in SUBSET (Check \ added) : Add(S)
    \/ Wait
    \/ \E t \in Thread : FirstIteration(t)
    \/ \E t \in Thread : Merge(t)
    \/ \E t \in Thread : WakeUp(t)
    \/ \E t \in Thread : Execute(t)
    \/ \E t \in Thread : Interrupt(t)

Spec == Init /\ [][Next]_vars

(***************************************************************************)
(* Every thread that is not blocked runs, and gets the mutex in the end; a *)
(* spurious wake-up is never counted on.                                   *)
(***************************************************************************)
FairSpec == Spec /\ \A t \in Thread : WF_vars(LoopStep(t))

-----------------------------------------------------------------------------
(***************************************************************************)
(* Wait returns true exactly when every check added to the control since   *)
(* its construction is good, whichever threads ran them, whatever an       *)
(* earlier block left in fAllOk, and although threads skip checks once one *)
(* has failed.                                                             *)
(***************************************************************************)
VerdictCorrect == fRet.ok = (fRet.checks \cap BadCheck = {})

(***************************************************************************)
(* Between two controls no check of the last one is queued or in the hands *)
(* of a worker, and the status is reset: "passed queue is supposed to be   *)
(* unused".                                                                *)
(***************************************************************************)
UnusedBetweenBlocks ==
    pc[Master] = "out" =>
        /\ queue = {} /\ nTodo = 0 /\ fAllOk
        /\ \A t \in Thread : vChecks[t] = {}

(***************************************************************************)
(* Wait returns: the last worker's notification is not lost, a worker that *)
(* is interrupted takes no check with it, and nobody waits for a spurious  *)
(* wake-up.                                                                *)
(***************************************************************************)
WaitReturns == pc[Master] = "lock" ~> pc[Master] = "out"
=============================================================================
