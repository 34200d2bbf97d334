--------------------------- MODULE SchedulerClient ---------------------------
(***************************************************************************)
(* CScheduler, the queue of timed tasks with the threads that serve it,    *)
(* and SingleThreadedSchedulerClient, the queue of validation callbacks    *)
(* that runs on it; the threads that emit callbacks or wait for them; and  *)
(* what Shutdown does to all of them.                                      *)
(*                                                                         *)
(* What a thread does between taking newTaskMutex (or                      *)
(* m_cs_callbacks_pending) and releasing it is one action.  A notification *)
(* directly after the mutex is released belongs to that action: a thread   *)
(* that waits has seen the queue as it was before.                         *)
(***************************************************************************)
EXTENDS Integers, Sequences, FiniteSets

CONSTANTS
    Server,         \* the threads that run serviceQueue
    Caller,         \* the threads that emit signals
    Importer,       \* the callers in threadGroup, not joined before interrupt_all
    Main,           \* the thread that runs Shutdown
    MaxPending,     \* callbacks pending above which ActivateBestChain waits (10)
    Delta,          \* the interval of the periodic task
    MaxCallbacks,   \* bound: callbacks emitted by callers
    MaxTime         \* bound: the clock

ASSUME SchedulerAssumption ==
    /\ IsFiniteSet(Server)
    /\ Importer \subseteq Caller
    /\ Server \cap Caller = {} /\ Main \notin Server \cup Caller
    /\ MaxPending \in Nat
    /\ Delta \in Nat \ {0} /\ MaxCallbacks \in Nat /\ MaxTime \in Nat

Thread == Server \cup Caller \cup {Main}

VARIABLES
    now,
    taskQueue,      \* <<time, function>> by time; equal times in order of insertion
    nThreadsServicingQueue,
    stopRequested,
    stopWhenEmpty,
    m_callbacks_pending,     \* callbacks are numbered in the order they are added
    m_are_callbacks_running,
    pc,
    until,          \* the time a server waits for in wait_until
    cur,            \* the callback of a thread: the one it runs, or waits for
    interrupted,    \* the threads interrupt_all has reached
    nAdded,
    done            \* the callbacks that have run, in that order

clientVars == <<m_callbacks_pending, m_are_callbacks_running, cur, nAdded, done>>
stopVars == <<stopRequested, stopWhenEmpty, interrupted>>
vars == <<now, taskQueue, nThreadsServicingQueue, pc, until, clientVars, stopVars>>

Task == Nat \X {"ProcessQueue", "Repeat", "once"}

(***************************************************************************)
(* Servers: "start", "loop" (about to take newTaskMutex at the head of the *)
(* while), "seed" (in RandAddSeedSleep), "wait", "woken" (from wait),      *)
(* "timed" (in wait_until), "retime" (woken from it), "Repeat" and "once"  *)
(* (the tasks), "gone".  In the client's code, any thread: "process",      *)
(* "callback", "reset", "maybe", "schedule".  Callers: "idle", "sync".     *)
(* Main: "up", "join", "flush", "check", "down".                           *)
(***************************************************************************)
ServerPC == {"start", "loop", "seed", "wait", "woken", "timed", "retime", "Repeat", "once", "gone"}
ClientPC == {"process", "callback", "reset", "maybe", "schedule"}
ThreadPC == ServerPC \cup ClientPC \cup {"idle", "sync", "up", "join", "flush", "check", "down"}

TypeOK ==
    /\ now \in 0..MaxTime
    /\ taskQueue \in Seq(Task)
    /\ nThreadsServicingQueue \in Int
    /\ stopRequested \in BOOLEAN /\ stopWhenEmpty \in BOOLEAN
    /\ m_callbacks_pending \in Seq(Nat)
    /\ m_are_callbacks_running \in BOOLEAN
    /\ pc \in [Thread -> ThreadPC]
    /\ until \in [Server -> Nat]
    /\ cur \in [Thread -> Nat]
    /\ interrupted \subseteq Server
    /\ nAdded \in Nat
    /\ done \in Seq(Nat)

(***************************************************************************)
(* A periodic task or one for later may have been scheduled before the     *)
(* threads start.                                                          *)
(***************************************************************************)
Init ==
    /\ now = 0
    /\ taskQueue \in {<<>>, <<<<Delta, "Repeat">>>>, <<<<Delta, "once">>>>}
    /\ nThreadsServicingQueue = 0
    /\ stopRequested = FALSE /\ stopWhenEmpty = FALSE
    /\ m_callbacks_pending = <<>> /\ m_are_callbacks_running = FALSE
    /\ pc = [t \in Thread |-> IF t \in Server THEN "start" ELSE IF t = Main THEN "up" ELSE "idle"]
    /\ until = [s \in Server |-> 0]
    /\ cur = [t \in Thread |-> 0]
    /\ interrupted = {}
    /\ nAdded = 0
    /\ done = <<>>

Goto(t, label) == pc' = [pc EXCEPT ![t] = label]

(***************************************************************************)
(* Where a thread goes after ProcessQueue, AddToProcessQueue or schedule.  *)
(***************************************************************************)
ReturnTo(t) ==
    IF t \in Server THEN "loop"
    ELSE IF t = Main THEN "check"
    ELSE IF cur[t] = 0 THEN "idle" ELSE "sync"

(***************************************************************************)
(* notify_one: some server in wait or wait_until, if there is one, wakes.  *)
(***************************************************************************)
Blocked == {s \in Server : pc[s] \in {"wait", "timed"}}

Woken(W, label, t) ==
    [u \in Thread |-> IF u = t THEN label
                      ELSE IF u \notin W THEN pc[u]
                      ELSE IF pc[u] = "wait" THEN "woken" ELSE "retime"]

NotifyOne(t, label) ==
    \/ Blocked \ {t} = {} /\ Goto(t, label)
    \/ \E s \in Blocked \ {t} : pc' = Woken({s}, label, t)

-----------------------------------------------------------------------------
(***************************************************************************)
(* serviceQueue.                                                           *)
(***************************************************************************)
shouldStop == stopRequested \/ (stopWhenEmpty /\ taskQueue = <<>>)

Start(s) ==
    /\ pc[s] = "start"
    /\ nThreadsServicingQueue' = nThreadsServicingQueue + 1
    /\ Goto(s, "loop")
    /\ UNCHANGED <<now, taskQueue, until, clientVars, stopVars>>

(***************************************************************************)
(* What a thread at one of the loops does with the mutex held: leave       *)
(* serviceQueue, wait for a task (with a nap for entropy before the first  *)
(* wait), or wait for the time of the first task.                          *)
(***************************************************************************)
Leave(s) ==
    /\ shouldStop
    /\ nThreadsServicingQueue' = nThreadsServicingQueue - 1
    /\ NotifyOne(s, "gone")
    /\ UNCHANGED until

WaitForTask(s, label) ==
    /\ ~shouldStop /\ taskQueue = <<>>
    /\ Goto(s, label)
    /\ UNCHANGED <<nThreadsServicingQueue, until>>

WaitForTime(s) ==
    /\ ~shouldStop /\ taskQueue # <<>>
    /\ until' = [until EXCEPT ![s] = Head(taskQueue)[1]]
    /\ Goto(s, "timed")
    /\ UNCHANGED nThreadsServicingQueue

Loop(s) ==
    /\ pc[s] = "loop" \/ (pc[s] = "retime" /\ s \notin interrupted)
    /\ Leave(s) \/ WaitForTask(s, "seed") \/ WaitForTime(s)
    /\ UNCHANGED <<now, taskQueue, clientVars, stopVars>>

Continue(s) ==
    /\ pc[s] = "seed" \/ (pc[s] = "woken" /\ s \notin interrupted)
    /\ Leave(s) \/ WaitForTask(s, "wait") \/ WaitForTime(s)
    /\ UNCHANGED <<now, taskQueue, clientVars, stopVars>>

(***************************************************************************)
(* A wait may end without a notification; wait_until, before its time.     *)
(***************************************************************************)
Spurious(s) ==
    /\ pc[s] = "wait" \/ (pc[s] = "timed" /\ now < until[s])
    /\ Goto(s, IF pc[s] = "wait" THEN "woken" ELSE "retime")
    /\ UNCHANGED <<now, taskQueue, nThreadsServicingQueue, until, clientVars, stopVars>>

(***************************************************************************)
(* wait_until times out: the thread takes the first task, which need not   *)
(* be the one it waited for, or starts over if there is none.              *)
(***************************************************************************)
Timeout(s) ==
    /\ pc[s] = "timed" /\ until[s] <= now /\ s \notin interrupted
    /\ \/ /\ Leave(s) \/ WaitForTask(s, "seed")
          /\ UNCHANGED taskQueue
       \/ /\ ~shouldStop /\ taskQueue # <<>>
          /\ taskQueue' = Tail(taskQueue)
          /\ Goto(s, IF Head(taskQueue)[2] = "ProcessQueue" THEN "process" ELSE Head(taskQueue)[2])
          /\ UNCHANGED <<nThreadsServicingQueue, until>>
    /\ UNCHANGED <<now, clientVars, stopVars>>

Inserted(q, k, task) == SubSeq(q, 1, k - 1) \o <<task>> \o SubSeq(q, k, Len(q))

(***************************************************************************)
(* schedule: after the tasks that are not later.                           *)
(***************************************************************************)
schedule(t, task, label) ==
    /\ \E k \in 1..Len(taskQueue) + 1 :
          /\ \A i \in 1..k - 1 : taskQueue[i][1] <= task[1]
          /\ \A i \in k..Len(taskQueue) : task[1] < taskQueue[i][1]
          /\ taskQueue' = Inserted(taskQueue, k, task)
    /\ NotifyOne(t, label)
    /\ UNCHANGED <<now, nThreadsServicingQueue, until, clientVars, stopVars>>

(***************************************************************************)
(* The tasks that are not the client's: Repeat schedules itself again.     *)
(***************************************************************************)
RunOther(s) ==
    \/ /\ pc[s] = "once"
       /\ Goto(s, "loop")
       /\ UNCHANGED <<now, taskQueue, nThreadsServicingQueue, until, clientVars, stopVars>>
    \/ /\ pc[s] = "Repeat"
       /\ schedule(s, <<now + Delta, "Repeat">>, "loop")

Tick ==
    /\ now < MaxTime
    /\ now' = now + 1
    /\ UNCHANGED <<taskQueue, nThreadsServicingQueue, pc, until, clientVars, stopVars>>

-----------------------------------------------------------------------------
(***************************************************************************)
(* SingleThreadedSchedulerClient.                                          *)
(***************************************************************************)
AddToProcessQueue(t) ==
    /\ nAdded' = nAdded + 1
    /\ m_callbacks_pending' = Append(m_callbacks_pending, nAdded + 1)
    /\ Goto(t, "maybe")
    /\ UNCHANGED <<now, taskQueue, nThreadsServicingQueue, until, m_are_callbacks_running, done, stopVars>>

\* Mutant: nothing is scheduled when callbacks were pending before.
MaybeScheduleProcessQueue_OnlyFirst(t) ==
    /\ pc[t] = "maybe"
    /\ Goto(t, IF m_are_callbacks_running \/ Len(m_callbacks_pending) # 1
               THEN ReturnTo(t) ELSE "schedule")
    /\ UNCHANGED <<now, taskQueue, nThreadsServicingQueue, until, clientVars, stopVars>>

MaybeScheduleProcessQueue(t) ==
    /\ pc[t] = "maybe"
    /\ Goto(t, IF m_are_callbacks_running \/ m_callbacks_pending = <<>>
               THEN ReturnTo(t) ELSE "schedule")
    /\ UNCHANGED <<now, taskQueue, nThreadsServicingQueue, until, clientVars, stopVars>>

ScheduleProcessQueue(t) ==
    /\ pc[t] = "schedule"
    /\ schedule(t, <<now, "ProcessQueue">>, ReturnTo(t))

\* Mutant: the flag is not looked at before a callback is taken.
ProcessQueue_Unguarded(t) ==
    /\ pc[t] = "process"
    /\ IF m_callbacks_pending = <<>>
       THEN Goto(t, ReturnTo(t)) /\ UNCHANGED clientVars
       ELSE /\ m_are_callbacks_running' = TRUE
            /\ cur' = [cur EXCEPT ![t] = Head(m_callbacks_pending)]
            /\ m_callbacks_pending' = Tail(m_callbacks_pending)
            /\ Goto(t, "callback")
            /\ UNCHANGED <<nAdded, done>>
    /\ UNCHANGED <<now, taskQueue, nThreadsServicingQueue, until, stopVars>>

ProcessQueue(t) ==
    /\ pc[t] = "process"
    /\ IF m_are_callbacks_running \/ m_callbacks_pending = <<>>
       THEN Goto(t, ReturnTo(t)) /\ UNCHANGED clientVars
       ELSE /\ m_are_callbacks_running' = TRUE
            /\ cur' = [cur EXCEPT ![t] = Head(m_callbacks_pending)]
            /\ m_callbacks_pending' = Tail(m_callbacks_pending)
            /\ Goto(t, "callback")
            /\ UNCHANGED <<nAdded, done>>
    /\ UNCHANGED <<now, taskQueue, nThreadsServicingQueue, until, stopVars>>

Callback(t) ==
    /\ pc[t] = "callback"
    /\ done' = Append(done, cur[t])
    /\ Goto(t, "reset")
    /\ UNCHANGED <<now, taskQueue, nThreadsServicingQueue, until, m_callbacks_pending,
                   m_are_callbacks_running, cur, nAdded, stopVars>>

\* Mutant: the destructor does not call MaybeScheduleProcessQueue.
Reset_NoReschedule(t) ==
    /\ pc[t] = "reset"
    /\ m_are_callbacks_running' = FALSE
    /\ cur' = [cur EXCEPT ![t] = 0]
    /\ Goto(t, ReturnTo(t))
    /\ UNCHANGED <<now, taskQueue, nThreadsServicingQueue, until, m_callbacks_pending, nAdded, done, stopVars>>

(***************************************************************************)
(* ~RAIICallbacksRunning; MaybeScheduleProcessQueue follows.               *)
(***************************************************************************)
Reset(t) ==
    /\ pc[t] = "reset"
    /\ m_are_callbacks_running' = FALSE
    /\ cur' = [cur EXCEPT ![t] = 0]
    /\ Goto(t, "maybe")
    /\ UNCHANGED <<now, taskQueue, nThreadsServicingQueue, until, m_callbacks_pending, nAdded, done, stopVars>>

-----------------------------------------------------------------------------
(***************************************************************************)
(* A caller emits a signal, or waits for the queue to drain: RPCs at any   *)
(* time, the import thread in ActivateBestChain when many callbacks are    *)
(* pending.  Once the interfaces that feed the others are stopped, only    *)
(* the import thread goes on, up to the interruption point at the head of  *)
(* ActivateBestChain's loop.  It may just have passed that point, with the *)
(* whole round, its wait for the queue included, still to come.            *)
(***************************************************************************)
Running(c) == pc[Main] = "up" \/ (pc[Main] = "join" /\ interrupted # {} /\ c \in Importer)

Emit(c) ==
    /\ pc[c] = "idle" /\ nAdded < MaxCallbacks
    /\ Running(c)
    /\ AddToProcessQueue(c)
    /\ UNCHANGED cur

SyncWithValidationInterfaceQueue(c) ==
    /\ pc[c] = "idle" /\ nAdded < MaxCallbacks
    /\ Running(c)
    /\ c \in Importer => Len(m_callbacks_pending) > MaxPending
    /\ AddToProcessQueue(c)
    /\ cur' = [cur EXCEPT ![c] = nAdded + 1]

SyncReturns(c) ==
    /\ pc[c] = "sync"
    /\ \E i \in 1..Len(done) : done[i] = cur[c]
    /\ cur' = [cur EXCEPT ![c] = 0]
    /\ Goto(c, "idle")
    /\ UNCHANGED <<now, taskQueue, nThreadsServicingQueue, until, m_callbacks_pending,
                   m_are_callbacks_running, nAdded, done, stopVars>>

(***************************************************************************)
(* Shutdown: RPC, peers and their threads are stopped, that is every       *)
(* caller but the import thread; then interrupt_all.                       *)
(***************************************************************************)
Shutdown ==
    /\ pc[Main] = "up"
    /\ \A c \in Caller \ Importer : pc[c] = "idle"
    /\ interrupted' = Server
    /\ Goto(Main, "join")
    /\ UNCHANGED <<now, taskQueue, nThreadsServicingQueue, until, clientVars, stopRequested, stopWhenEmpty>>

\* Mutant: the servers are not notified.
stop_Silent(drain) ==
    /\ pc[Main] = "up"
    /\ \A c \in Caller : pc[c] = "idle"
    /\ stopWhenEmpty' = drain
    /\ stopRequested' = ~drain
    /\ Goto(Main, "join")
    /\ UNCHANGED <<now, taskQueue, nThreadsServicingQueue, until, clientVars, interrupted>>

(***************************************************************************)
(* CScheduler::stop, which ends the threads of the tests and benchmarks    *)
(* instead, when nothing else runs.                                        *)
(***************************************************************************)
stop(drain) ==
    /\ pc[Main] = "up"
    /\ \A c \in Caller : pc[c] = "idle"
    /\ stopWhenEmpty' = drain
    /\ stopRequested' = ~drain
    /\ pc' = Woken(Blocked, "join", Main)
    /\ UNCHANGED <<now, taskQueue, nThreadsServicingQueue, until, clientVars, interrupted>>

(***************************************************************************)
(* thread_interrupted is thrown when a wait ends, in MilliSleep or by the  *)
(* interruption point of the periodic flush of the wallets.                *)
(***************************************************************************)
Interrupt(s) ==
    /\ s \in interrupted
    /\ pc[s] \in {"seed", "wait", "woken", "timed", "retime", "Repeat"}
    /\ nThreadsServicingQueue' = nThreadsServicingQueue - 1
    /\ Goto(s, "gone")
    /\ UNCHANGED <<now, taskQueue, until, clientVars, stopVars>>

(***************************************************************************)
(* join_all; then FlushStateToDisk emits ChainStateFlushed, if the coins   *)
(* were loaded.                                                            *)
(***************************************************************************)
Join ==
    /\ pc[Main] = "join"
    /\ \A s \in Server : pc[s] = "gone"
    /\ \A c \in Importer : pc[c] = "idle"
    /\ Goto(Main, "flush")
    /\ UNCHANGED <<now, taskQueue, nThreadsServicingQueue, until, clientVars, stopVars>>

FlushStateToDisk ==
    /\ pc[Main] = "flush"
    /\ \/ AddToProcessQueue(Main)
       \/ /\ Goto(Main, "check")
          /\ UNCHANGED <<now, taskQueue, nThreadsServicingQueue, until, clientVars, stopVars>>
    /\ UNCHANGED cur

\* Mutant: one call of ProcessQueue for the whole queue.
EmptyQueue_Once ==
    /\ pc[Main] = "check"
    /\ Goto(Main, IF done = <<>> THEN "process" ELSE "down")
    /\ UNCHANGED <<now, taskQueue, nThreadsServicingQueue, until, clientVars, stopVars>>

(***************************************************************************)
(* EmptyQueue: ProcessQueue, until nothing is pending.                     *)
(***************************************************************************)
EmptyQueue ==
    /\ pc[Main] = "check"
    /\ Goto(Main, IF m_callbacks_pending # <<>> THEN "process" ELSE "down")
    /\ UNCHANGED <<now, taskQueue, nThreadsServicingQueue, until, clientVars, stopVars>>

-----------------------------------------------------------------------------
ClientStep(t) ==
    \/ ProcessQueue(t) \/ Callback(t) \/ Reset(t)
    \/ MaybeScheduleProcessQueue(t) \/ ScheduleProcessQueue(t)

ServerStep(s) ==
    Start(s) \/ Loop(s) \/ Continue(s) \/ Timeout(s) \/ RunOther(s) \/ Interrupt(s) \/ ClientStep(s)

CallerStep(c) == ClientStep(c) \/ SyncReturns(c)

MainStep == Join \/ FlushStateToDisk \/ EmptyQueue \/ ClientStep(Main)

Next ==
    \/ \E s \in Server : ServerStep(s) \/ Spurious(s)
    \/ \E c \in Caller : Emit(c) \/ SyncWithValidationInterfaceQueue(c) \/ CallerStep(c)
    \/ Shutdown
    \/ \E drain \in BOOLEAN : stop(drain)
    \/ MainStep
    \/ Tick

Spec == Init /\ [][Next]_vars

(***************************************************************************)
(* Every thread that is not blocked runs and gets the mutexes in the end,  *)
(* the clock goes on, callbacks and tasks return.  No signal, no shutdown  *)
(* and no spurious wake-up is counted on.                                  *)
(***************************************************************************)
FairSpec ==
    /\ Spec
    /\ \A s \in Server : WF_vars(ServerStep(s))
    /\ \A c \in Caller : WF_vars(CallerStep(c))
    /\ WF_vars(MainStep)
    /\ WF_vars(Tick)

-----------------------------------------------------------------------------
(***************************************************************************)
(* Callbacks run one at a time and in the order in which they were added,  *)
(* whichever threads run them: one starts only when all added before it    *)
(* have ended.  In particular SyncWithValidationInterfaceQueue returns     *)
(* only after everything queued before it has been delivered.              *)
(***************************************************************************)
SerialInOrder ==
    /\ \A i \in 1..Len(done) : done[i] = i
    /\ \A t \in Thread : pc[t] = "callback" => cur[t] = Len(done) + 1
    /\ \A t, u \in Thread : pc[t] = "callback" /\ pc[u] = "callback" => t = u

(***************************************************************************)
(* MaybeScheduleProcessQueue schedules nothing while a callback runs, and  *)
(* ProcessQueue then returns at once; still, whenever callbacks are        *)
(* pending, one is running, or a ProcessQueue is queued, in the hands of a *)
(* thread, or about to be scheduled.                                       *)
(***************************************************************************)
NothingStranded ==
    m_callbacks_pending # <<>> =>
        \/ m_are_callbacks_running
        \/ \E i \in 1..Len(taskQueue) : taskQueue[i][2] = "ProcessQueue"
        \/ \E t \in Thread : pc[t] \in {"process", "maybe", "schedule"}

(***************************************************************************)
(* EmptyQueue's assertion that no thread serves the queue holds, whichever *)
(* way the threads ended, and once it returns every callback emitted so    *)
(* far has run, those that were queued when the servers were interrupted   *)
(* included.                                                               *)
(***************************************************************************)
AllDelivered ==
    /\ pc[Main] = "check" => nThreadsServicingQueue = 0
    /\ pc[Main] = "down" => m_callbacks_pending = <<>> /\ Len(done) = nAdded

(***************************************************************************)
(* SyncWithValidationInterfaceQueue returns.  The import thread's call     *)
(* counts until interrupt_all: a promise cannot be interrupted, and the    *)
(* scheduler's thread, which would keep it, may be.                        *)
(***************************************************************************)
SyncEnds ==
    \A c \in Caller : pc[c] = "sync" ~> pc[c] # "sync" \/ (c \in Importer /\ pc[Main] # "up")

(***************************************************************************)
(* Shutdown gets past join_all, and stop ends the threads, unless it is    *)
(* told to drain a queue with a periodic task, or the import thread is in  *)
(* SyncWithValidationInterfaceQueue, which it may also enter just after    *)
(* interrupt_all.                                                          *)
(***************************************************************************)
Endless == stopWhenEmpty /\ (\/ \E i \in 1..Len(taskQueue) : taskQueue[i][2] = "Repeat"
                             \/ \E s \in Server : pc[s] = "Repeat")

ShutdownEnds ==
    pc[Main] = "join" /\ ~Endless ~> pc[Main] = "down" \/ \E c \in Importer : cur[c] # 0
=============================================================================
