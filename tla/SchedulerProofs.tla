--------------------------- MODULE SchedulerProofs ---------------------------
(***************************************************************************)
(* Validation callbacks are serialised, ordered, never stranded and all    *)
(* delivered at shutdown, for every number of threads that serve the       *)
(* scheduler, of threads that emit signals and of callbacks.               *)
(***************************************************************************)
EXTENDS SchedulerClient, FiniteSetTheorems, TLAPS

(***************************************************************************)
(* Callers never run callbacks.  The main thread gets to the client's code *)
(* only after it has joined the servers.                                   *)
(***************************************************************************)
Labels ==
    /\ \A s \in Server : pc[s] \in ServerPC \cup ClientPC
    /\ \A c \in Caller : pc[c] \in {"idle", "sync", "maybe", "schedule"}
    /\ pc[Main] \in {"up", "join", "flush", "check", "down"} \cup ClientPC
    /\ pc[Main] \notin {"up", "join"} => \A s \in Server : pc[s] = "gone"

Serving == {s \in Server : pc[s] \notin {"start", "gone"}}

Counted == nThreadsServicingQueue = Cardinality(Serving)

(***************************************************************************)
(* The flag is set exactly while one thread is between taking a callback   *)
(* and the destructor that clears the flag.                                *)
(***************************************************************************)
InCallback == \E t \in Thread : pc[t] = "callback"

FlagExact ==
    /\ \A t, u \in Thread : pc[t] \in {"callback", "reset"} /\ pc[u] \in {"callback", "reset"} => t = u
    /\ m_are_callbacks_running <=> \E t \in Thread : pc[t] \in {"callback", "reset"}

(***************************************************************************)
(* The callbacks added are those that have run, the one that runs, and     *)
(* those pending, in this order.                                           *)
(***************************************************************************)
Numbered ==
    /\ \A i \in 1..Len(done) : done[i] = i
    /\ \A t \in Thread : pc[t] = "callback" => cur[t] = Len(done) + 1
    /\ \A i \in 1..Len(m_callbacks_pending) :
          m_callbacks_pending[i] = nAdded - Len(m_callbacks_pending) + i
    /\ nAdded = Len(done) + Len(m_callbacks_pending) + (IF InCallback THEN 1 ELSE 0)

Emptied == pc[Main] = "down" => m_callbacks_pending = <<>>

SchedulerInv ==
    TypeOK /\ Labels /\ Counted /\ FlagExact /\ Numbered /\ NothingStranded /\ Emptied

HasProcessQueue == \E i \in 1..Len(taskQueue) : taskQueue[i][2] = "ProcessQueue"

LEMMA SchedulerInit == Init => SchedulerInv
<1> SUFFICES ASSUME Init PROVE SchedulerInv
  OBVIOUS
<1>1. TypeOK
  <2>1. taskQueue \in Seq(Task)
    <3>1. <<Delta, "Repeat">> \in Task /\ <<Delta, "once">> \in Task
      BY SchedulerAssumption DEF Task
    <3>2. \A task \in Task : <<task>> \in Seq(Task)
      OBVIOUS
    <3>3. CASE taskQueue = <<>>
      BY <3>3
    <3>4. CASE taskQueue = <<<<Delta, "Repeat">>>> \/ taskQueue = <<<<Delta, "once">>>>
      BY <3>1, <3>2, <3>4
    <3> QED BY <3>3, <3>4 DEF Init
  <2>2. pc \in [Thread -> ThreadPC]
    BY DEF Init, ThreadPC, ServerPC
  <2>3. now \in 0..MaxTime
    BY SchedulerAssumption DEF Init
  <2>4. m_callbacks_pending \in Seq(Nat) /\ done \in Seq(Nat)
    BY DEF Init
  <2>5. until \in [Server -> Nat] /\ cur \in [Thread -> Nat] /\ interrupted \subseteq Server
    BY DEF Init
  <2>6. nThreadsServicingQueue \in Int /\ nAdded \in Nat
    BY DEF Init
  <2>7. stopRequested \in BOOLEAN /\ stopWhenEmpty \in BOOLEAN /\ m_are_callbacks_running \in BOOLEAN
    BY DEF Init
  <2> QED BY <2>1, <2>2, <2>3, <2>4, <2>5, <2>6, <2>7 DEF TypeOK
<1>2. Labels
  BY SchedulerAssumption DEF Init, Labels, Thread, ServerPC
<1>3. Counted
  <2>1. Serving = {}
    BY DEF Init, Serving, Thread
  <2> QED BY <2>1, FS_EmptySet DEF Init, Counted
<1>4. FlagExact /\ ~InCallback
  BY SchedulerAssumption DEF Init, FlagExact, InCallback, Thread
<1>5. Numbered /\ NothingStranded /\ Emptied
  BY <1>4, SchedulerAssumption DEF Init, Numbered, InCallback, NothingStranded, Emptied, Thread
<1> QED BY <1>1, <1>2, <1>3, <1>4, <1>5 DEF SchedulerInv

(***************************************************************************)
(* A step of thread t to a label; others are at most woken from a wait.    *)
(***************************************************************************)
Moves(t, label) ==
    /\ pc' \in [Thread -> ThreadPC]
    /\ pc'[t] = label
    /\ \A u \in Thread \ {t} :
          \/ pc'[u] = pc[u]
          \/ u \in Server /\ pc[u] \in {"wait", "timed"} /\ pc'[u] \in {"woken", "retime"}

LEMMA WokenMoves ==
    ASSUME TypeOK, NEW t \in Thread, NEW label \in ThreadPC, NEW W \in SUBSET Blocked,
           pc' = Woken(W, label, t)
    PROVE  Moves(t, label)
BY DEF TypeOK, Woken, Moves, Blocked, Thread, ThreadPC, ServerPC

LEMMA GotoMoves ==
    ASSUME TypeOK, NEW t \in Thread, NEW label \in ThreadPC, Goto(t, label)
    PROVE  Moves(t, label)
BY DEF TypeOK, Goto, Moves

LEMMA NotifyOneMoves ==
    ASSUME TypeOK, NEW t \in Thread, NEW label \in ThreadPC, NotifyOne(t, label)
    PROVE  Moves(t, label)
<1>1. CASE Goto(t, label)
  BY <1>1, GotoMoves
<1>2. CASE \E s \in Blocked \ {t} : pc' = Woken({s}, label, t)
  <2> PICK s \in Blocked \ {t} : pc' = Woken({s}, label, t)
    BY <1>2
  <2>1. {s} \in SUBSET Blocked
    OBVIOUS
  <2> QED BY <2>1, WokenMoves
<1> QED BY <1>1, <1>2 DEF NotifyOne

(***************************************************************************)
(* schedule keeps the tasks that are queued and adds one.                  *)
(***************************************************************************)
LEMMA ScheduleQueue ==
    ASSUME NEW q \in Seq(Task), NEW task \in Task, NEW k \in 1..Len(q) + 1
    PROVE  /\ Inserted(q, k, task) \in Seq(Task)
           /\ \A i \in 1..Len(q) : \E j \in 1..Len(Inserted(q, k, task)) : Inserted(q, k, task)[j] = q[i]
           /\ \E j \in 1..Len(Inserted(q, k, task)) : Inserted(q, k, task)[j] = task
<1> DEFINE n == Len(q)
           r == Inserted(q, k, task)
           a == SubSeq(q, 1, k - 1)
           b == SubSeq(q, k, n)
<1>1. n \in Nat
  OBVIOUS
<1>2. a \in Seq(Task) /\ Len(a) = k - 1 /\ \A i \in 1..k - 1 : a[i] = q[i]
  BY <1>1
<1>3. b \in Seq(Task) /\ Len(b) = n - k + 1 /\ \A i \in 1..n - k + 1 : b[i] = q[k + i - 1]
  BY <1>1
<1>4. r = a \o <<task>> \o b
  BY DEF Inserted
<1> HIDE DEF a, b, r
<1>5. /\ r \in Seq(Task) /\ Len(r) = Len(a) + 1 + Len(b)
      /\ r[Len(a) + 1] = task
      /\ \A i \in 1..Len(a) : r[i] = a[i]
      /\ \A i \in 1..Len(b) : r[Len(a) + 1 + i] = b[i]
  <2> DEFINE c == a \o <<task>>
  <2>1. /\ c \in Seq(Task) /\ Len(c) = Len(a) + 1 /\ c[Len(a) + 1] = task
        /\ \A i \in 1..Len(a) : c[i] = a[i]
    BY ONLY <1>2, task \in Task
  <2>2. r = c \o b
    BY <1>4
  <2> HIDE DEF c
  <2>5. c \in Seq(Task) /\ b \in Seq(Task)
    BY <2>1, <1>3
  <2>3. r \in Seq(Task) /\ Len(r) = Len(c) + Len(b) /\ \A i \in 1..Len(c) : r[i] = c[i]
    BY ONLY <2>2, <2>5
  <2>4. \A i \in 1..Len(b) : r[Len(c) + i] = b[i]
    BY ONLY <2>2, <2>5
  <2> QED BY ONLY <2>1, <2>3, <2>4, <1>2, <1>3
<1>6. Len(r) = n + 1 /\ r[k] = task /\ \A i \in 1..k - 1 : r[i] = q[i]
  BY ONLY <1>1, <1>2, <1>3, <1>5, k \in 1..n + 1
<1>7. ASSUME NEW i \in 1..n PROVE \E j \in 1..Len(r) : r[j] = q[i]
  <2>1. CASE i < k
    BY ONLY <2>1, <1>1, <1>6, i \in 1..n, k \in 1..n + 1
  <2>2. CASE i >= k
    <3> DEFINE j == i - k + 1
    <3>1. j \in 1..n - k + 1 /\ k + j - 1 = i /\ k + j = i + 1
      BY ONLY <2>2, <1>1, i \in 1..n, k \in 1..n + 1
    <3>2. r[k + j] = b[j] /\ b[j] = q[i]
      BY ONLY <3>1, <1>1, <1>2, <1>3, <1>5, k \in 1..n + 1
    <3>3. r[i + 1] = q[i] /\ i + 1 \in 1..Len(r)
      BY ONLY <3>1, <3>2, <1>1, <1>6, i \in 1..n
    <3> QED BY ONLY <3>3, <1>6, <1>1, i \in 1..n
  <2> QED BY ONLY <2>1, <2>2, <1>1, i \in 1..n, k \in 1..n + 1
<1>8. \E j \in 1..Len(r) : r[j] = task
  BY ONLY <1>1, <1>6, k \in 1..n + 1
<1> QED BY <1>5, <1>7, <1>8 DEF r

LEMMA ScheduleMoves ==
    ASSUME TypeOK, NEW t \in Thread, NEW task \in Task, NEW label \in ThreadPC,
           schedule(t, task, label)
    PROVE  /\ Moves(t, label)
           /\ taskQueue' \in Seq(Task)
           /\ HasProcessQueue => HasProcessQueue'
           /\ task[2] = "ProcessQueue" => HasProcessQueue'
<1>1. Moves(t, label)
  BY NotifyOneMoves DEF schedule
<1>2. taskQueue \in Seq(Task)
  BY DEF TypeOK
<1>3. PICK k \in 1..Len(taskQueue) + 1 : taskQueue' = Inserted(taskQueue, k, task)
  BY DEF schedule
<1>4. /\ taskQueue' \in Seq(Task)
      /\ \A i \in 1..Len(taskQueue) : \E j \in 1..Len(taskQueue') : taskQueue'[j] = taskQueue[i]
      /\ \E j \in 1..Len(taskQueue') : taskQueue'[j] = task
  BY <1>2, <1>3, ScheduleQueue, Zenon
<1> QED BY ONLY <1>1, <1>4 DEF HasProcessQueue

(***************************************************************************)
(* The number of threads in serviceQueue is what the counter says.         *)
(***************************************************************************)
LEMMA ServingFinite == IsFiniteSet(Serving)
<1>1. Serving \in SUBSET Server
  BY DEF Serving
<1> QED BY <1>1, FS_Subset, SchedulerAssumption

LEMMA CountStays ==
    ASSUME TypeOK, Counted, NEW t \in Thread, NEW label \in ThreadPC, Moves(t, label),
           t \in Server => pc[t] \notin {"start", "gone"} /\ label \notin {"start", "gone"},
           nThreadsServicingQueue' = nThreadsServicingQueue
    PROVE  Counted'
<1>1. Serving' = Serving
  BY DEF Serving, Moves, Thread
<1> QED BY <1>1 DEF Counted

LEMMA CountDown ==
    ASSUME TypeOK, Counted, NEW s \in Server, Moves(s, "gone"), pc[s] \notin {"start", "gone"},
           nThreadsServicingQueue' = nThreadsServicingQueue - 1
    PROVE  Counted'
<1>1. Serving' = Serving \ {s} /\ s \in Serving
  BY DEF Serving, Moves, Thread
<1>2. Cardinality(Serving \ {s}) = Cardinality(Serving) - 1
  BY <1>1, ServingFinite, FS_RemoveElement
<1> QED BY <1>1, <1>2 DEF Counted

LEMMA CountUp ==
    ASSUME TypeOK, Counted, NEW s \in Server, Moves(s, "loop"), pc[s] = "start",
           nThreadsServicingQueue' = nThreadsServicingQueue + 1
    PROVE  Counted'
<1>1. Serving' = Serving \cup {s} /\ s \notin Serving
  BY DEF Serving, Moves, Thread
<1>2. Cardinality(Serving \cup {s}) = Cardinality(Serving) + 1
  BY <1>1, ServingFinite, FS_AddElement
<1> QED BY <1>1, <1>2 DEF Counted

(***************************************************************************)
(* A step that neither starts nor ends a callback, nor adds one.           *)
(***************************************************************************)
Busy == {"process", "maybe", "schedule"}

LEMMA QuietStep ==
    ASSUME SchedulerInv, NEW t \in Thread, NEW label \in ThreadPC, Moves(t, label),
           pc[t] \notin {"callback", "reset"}, label \notin {"callback", "reset"},
           UNCHANGED <<m_callbacks_pending, m_are_callbacks_running, nAdded, done>>,
           \A u \in Thread : pc[u] = "callback" => cur'[u] = cur[u],
           HasProcessQueue => HasProcessQueue' \/ label \in Busy,
           pc[t] \in Busy => \/ label \in Busy \/ HasProcessQueue'
                            \/ m_are_callbacks_running \/ m_callbacks_pending = <<>>
    PROVE  FlagExact' /\ Numbered' /\ NothingStranded'
<1>1. \A u \in Thread : /\ pc'[u] = "callback" <=> pc[u] = "callback"
                        /\ pc'[u] = "reset" <=> pc[u] = "reset"
  BY DEF Moves
<1>2. FlagExact'
  BY <1>1 DEF SchedulerInv, FlagExact
<1>3. Numbered'
  <2>1. InCallback' <=> InCallback
    BY <1>1 DEF InCallback
  <2> QED BY <1>1, <2>1 DEF SchedulerInv, Numbered
<1>4. NothingStranded'
  <2> SUFFICES ASSUME m_callbacks_pending # <<>>, ~m_are_callbacks_running
               PROVE  HasProcessQueue' \/ \E u \in Thread : pc'[u] \in Busy
    BY DEF NothingStranded, HasProcessQueue, Busy
  <2>1. CASE HasProcessQueue
    BY <2>1 DEF Moves
  <2>2. CASE \E u \in Thread : pc[u] \in Busy
    BY <2>2 DEF Moves, Busy
  <2> QED BY <2>1, <2>2 DEF SchedulerInv, NothingStranded, HasProcessQueue, Busy
<1> QED BY <1>2, <1>3, <1>4

(***************************************************************************)
(* The steps of serviceQueue and of the tasks that are not the client's.   *)
(***************************************************************************)
Serves(s, label) ==
    /\ Moves(s, label)
    /\ nThreadsServicingQueue' = IF label = "gone" THEN nThreadsServicingQueue - 1
                                                   ELSE nThreadsServicingQueue
    /\ taskQueue' \in Seq(Task)
    /\ until' \in [Server -> Nat]
    /\ HasProcessQueue => HasProcessQueue' \/ label = "process"
    /\ UNCHANGED <<now, clientVars, stopVars>>

ServiceLabel == (ServerPC \ {"start"}) \cup {"process"}

Service(s) == Loop(s) \/ Continue(s) \/ Spurious(s) \/ Timeout(s) \/ RunOther(s) \/ Interrupt(s)

LEMMA HeadTask ==
    ASSUME TypeOK, taskQueue # <<>>
    PROVE  /\ Head(taskQueue)[1] \in Nat
           /\ Head(taskQueue)[2] \in {"ProcessQueue", "Repeat", "once"}
           /\ Tail(taskQueue) \in Seq(Task)
           /\ HasProcessQueue /\ Head(taskQueue)[2] # "ProcessQueue" =>
                 \E i \in 1..Len(Tail(taskQueue)) : Tail(taskQueue)[i][2] = "ProcessQueue"
<1>1. taskQueue \in Seq(Task) /\ Len(taskQueue) \in Nat \ {0}
  BY DEF TypeOK
<1>2. Head(taskQueue) = taskQueue[1] /\ Head(taskQueue) \in Task /\ Tail(taskQueue) \in Seq(Task)
  BY <1>1
<1>3. Head(taskQueue)[1] \in Nat /\ Head(taskQueue)[2] \in {"ProcessQueue", "Repeat", "once"}
  BY <1>2 DEF Task
<1>4. Len(Tail(taskQueue)) = Len(taskQueue) - 1
      /\ \A i \in 1..Len(taskQueue) - 1 : Tail(taskQueue)[i] = taskQueue[i + 1]
  BY <1>1
<1>5. ASSUME NEW i \in 1..Len(taskQueue), taskQueue[i][2] = "ProcessQueue",
             Head(taskQueue)[2] # "ProcessQueue"
      PROVE  \E j \in 1..Len(Tail(taskQueue)) : Tail(taskQueue)[j][2] = "ProcessQueue"
  <2>1. i # 1
    BY <1>2, <1>5
  <2>2. i - 1 \in 1..Len(taskQueue) - 1 /\ (i - 1) + 1 = i
    BY <1>1, <2>1
  <2>3. Tail(taskQueue)[i - 1] = taskQueue[i]
    BY <2>2, <1>4
  <2> QED BY ONLY <2>2, <2>3, <1>4, <1>5
<1> QED BY <1>2, <1>3, <1>5 DEF HasProcessQueue

LEMMA ServiceServes ==
    ASSUME TypeOK, NEW s \in Server, Service(s)
    PROVE  pc[s] \in ServerPC \ {"start", "gone"} /\ \E label \in ServiceLabel : Serves(s, label)
<1>0. pc[s] \in ServerPC \ {"start", "gone"}
  BY DEF Service, Loop, Continue, Spurious, Timeout, RunOther, Interrupt, ServerPC
<1> SUFFICES \E label \in ServiceLabel : Serves(s, label)
  BY <1>0
<1> s \in Thread /\ ServiceLabel \subseteq ThreadPC
  BY DEF Thread, ServiceLabel, ThreadPC, ServerPC, ClientPC
<1>a. taskQueue \in Seq(Task) /\ until \in [Server -> Nat]
  BY DEF TypeOK
<1>b. {"gone", "seed", "wait", "timed", "loop", "woken", "retime", "process", "Repeat", "once"}
        \subseteq ServiceLabel
  BY DEF ServiceLabel, ServerPC
<1>1. ASSUME Leave(s), UNCHANGED <<now, taskQueue, clientVars, stopVars>>
      PROVE  Serves(s, "gone")
  <2>1. Moves(s, "gone")
    BY <1>1, <1>b, NotifyOneMoves DEF Leave
  <2> QED BY <2>1, <1>1, <1>a DEF Leave, Serves, HasProcessQueue
<1>2. ASSUME NEW label \in ServiceLabel, Goto(s, label), label # "gone",
             UNCHANGED <<now, taskQueue, nThreadsServicingQueue, until, clientVars, stopVars>>
      PROVE  Serves(s, label)
  BY <1>2, <1>a, GotoMoves DEF Serves, HasProcessQueue
<1>3. ASSUME NEW label \in {"seed", "wait"}, WaitForTask(s, label),
             UNCHANGED <<now, taskQueue, clientVars, stopVars>>
      PROVE  Serves(s, label)
  BY <1>2, <1>3, <1>b DEF WaitForTask
<1>4. ASSUME WaitForTime(s), UNCHANGED <<now, taskQueue, clientVars, stopVars>>
      PROVE  Serves(s, "timed")
  <2>1. Moves(s, "timed")
    BY <1>4, <1>b, GotoMoves DEF WaitForTime
  <2>2. until' \in [Server -> Nat]
    BY <1>4, <1>a, HeadTask DEF WaitForTime
  <2> QED BY <2>1, <2>2, <1>4, <1>a DEF WaitForTime, Serves, HasProcessQueue
<1>5. CASE Loop(s)
  BY <1>5, <1>1, <1>3, <1>4, <1>b DEF Loop
<1>6. CASE Continue(s)
  BY <1>6, <1>1, <1>3, <1>4, <1>b DEF Continue
<1>7. CASE Spurious(s)
  BY <1>7, <1>2, <1>b DEF Spurious
<1>8. CASE Timeout(s)
  <2>1. CASE (Leave(s) \/ WaitForTask(s, "seed")) /\ UNCHANGED taskQueue
    BY <2>1, <1>8, <1>1, <1>3, <1>b DEF Timeout
  <2>2. CASE /\ taskQueue # <<>>
             /\ taskQueue' = Tail(taskQueue)
             /\ Goto(s, IF Head(taskQueue)[2] = "ProcessQueue" THEN "process" ELSE Head(taskQueue)[2])
             /\ UNCHANGED <<nThreadsServicingQueue, until>>
    <3> DEFINE label == IF Head(taskQueue)[2] = "ProcessQueue" THEN "process" ELSE Head(taskQueue)[2]
    <3>1. label \in {"process", "Repeat", "once"}
      BY <2>2, HeadTask
    <3>2. label # "process" => Head(taskQueue)[2] # "ProcessQueue"
      OBVIOUS
    <3>3. Goto(s, label)
      BY <2>2
    <3> HIDE DEF label
    <3>4. Moves(s, label)
      BY <3>1, <3>3, <1>b, GotoMoves
    <3>5. HasProcessQueue => HasProcessQueue' \/ label = "process"
      BY <2>2, <3>2, HeadTask DEF HasProcessQueue
    <3>6. taskQueue' \in Seq(Task)
      BY <2>2, HeadTask
    <3>7. Serves(s, label)
      BY <3>1, <3>4, <3>5, <3>6, <2>2, <1>8, <1>a DEF Timeout, Serves
    <3> QED BY <3>1, <3>7, <1>b
  <2> QED BY <2>1, <2>2, <1>8 DEF Timeout
<1>9. CASE RunOther(s)
  <2>1. CASE pc[s] = "once"
    BY <2>1, <1>9, <1>2, <1>b DEF RunOther
  <2>2. CASE schedule(s, <<now + Delta, "Repeat">>, "loop")
    <3>1. <<now + Delta, "Repeat">> \in Task
      BY SchedulerAssumption DEF Task, TypeOK
    <3>2. Moves(s, "loop") /\ taskQueue' \in Seq(Task) /\ (HasProcessQueue => HasProcessQueue')
      BY <3>1, <2>2, <1>b, ScheduleMoves
    <3> QED BY <3>2, <2>2, <1>a, <1>b DEF schedule, Serves
  <2> QED BY <2>1, <2>2, <1>9 DEF RunOther
<1>10. CASE Interrupt(s)
  <2>1. Moves(s, "gone")
    BY <1>10, <1>b, GotoMoves DEF Interrupt
  <2>2. Serves(s, "gone")
    BY <2>1, <1>10, <1>a DEF Interrupt, Serves, HasProcessQueue
  <2> QED BY <2>2, <1>b
<1> QED BY <1>5, <1>6, <1>7, <1>8, <1>9, <1>10 DEF Service

LEMMA LabelsStep ==
    ASSUME TypeOK, Labels, NEW t \in Thread, NEW label \in ThreadPC, Moves(t, label),
           t \in Server => pc[t] # "gone" /\ label \in ServerPC \cup ClientPC,
           t \in Caller => label \in {"idle", "sync", "maybe", "schedule"},
           t = Main => /\ label \in {"up", "join", "flush", "check", "down"} \cup ClientPC
                       /\ label \notin {"up", "join"} => \A s \in Server : pc[s] = "gone"
    PROVE  Labels'
<1>1. ASSUME NEW s \in Server PROVE pc'[s] \in ServerPC \cup ClientPC
  BY DEF Labels, Moves, Thread, ServerPC
<1>2. ASSUME NEW c \in Caller PROVE pc'[c] \in {"idle", "sync", "maybe", "schedule"}
  BY SchedulerAssumption DEF Labels, Moves, Thread
<1>3. Main \in Thread /\ Main \notin Server
  BY SchedulerAssumption DEF Thread
<1>4. pc'[Main] \in {"up", "join", "flush", "check", "down"} \cup ClientPC
  BY <1>3 DEF Labels, Moves
<1>5. ASSUME pc'[Main] \notin {"up", "join"}, NEW s \in Server PROVE pc'[s] = "gone"
  <2>1. \A u \in Server : pc[u] = "gone"
    BY <1>3, <1>5 DEF Labels, Moves
  <2>2. t \notin Server
    BY <2>1
  <2> QED BY <2>1, <2>2 DEF Moves, Thread
<1> QED BY <1>1, <1>2, <1>4, <1>5 DEF Labels

LEMMA ServiceKeeps ==
    ASSUME SchedulerInv, NEW s \in Server, Service(s)
    PROVE  SchedulerInv'
<1>1. pc[s] \in ServerPC \ {"start", "gone"}
  BY ServiceServes DEF SchedulerInv
<1>2. PICK label \in ServiceLabel : Serves(s, label)
  BY ServiceServes DEF SchedulerInv
<1>3. /\ label \in ThreadPC /\ s \in Thread /\ label # "start"
      /\ label \in ServerPC \cup ClientPC /\ label \notin {"callback", "reset"}
      /\ pc[s] \notin {"callback", "reset"} \cup Busy
  BY <1>1 DEF ServiceLabel, ServerPC, ClientPC, ThreadPC, Thread, Busy
<1>4. Moves(s, label) /\ UNCHANGED <<now, clientVars, stopVars>>
  BY <1>2 DEF Serves
<1>5. TypeOK'
  BY <1>2, <1>4 DEF SchedulerInv, TypeOK, Serves, Moves, clientVars, stopVars
<1>6. Labels'
  BY <1>1, <1>3, <1>4, LabelsStep, SchedulerAssumption DEF SchedulerInv
<1>7. Counted'
  <2>1. CASE label = "gone"
    BY <2>1, <1>1, <1>2, <1>4, CountDown DEF SchedulerInv, Serves
  <2>2. CASE label # "gone"
    BY <2>2, <1>1, <1>2, <1>3, <1>4, CountStays DEF SchedulerInv, Serves
  <2> QED BY <2>1, <2>2
<1>8. FlagExact' /\ Numbered' /\ NothingStranded'
  <2>1. HasProcessQueue => HasProcessQueue' \/ label \in Busy
    BY <1>2 DEF Serves, Busy
  <2> QED BY <2>1, <1>3, <1>4, QuietStep DEF clientVars
<1>9. Emptied'
  BY <1>3, <1>4, SchedulerAssumption DEF SchedulerInv, Emptied, Moves, Thread, clientVars
<1> QED BY <1>5, <1>6, <1>7, <1>8, <1>9 DEF SchedulerInv

LEMMA StartKeeps ==
    ASSUME SchedulerInv, NEW s \in Server, Start(s)
    PROVE  SchedulerInv'
<1>1. s \in Thread /\ {"loop"} \subseteq ThreadPC /\ "loop" \in ServerPC
  BY DEF Thread, ThreadPC, ServerPC
<1>2. Moves(s, "loop")
  BY <1>1, GotoMoves DEF Start, SchedulerInv
<1>3. TypeOK'
  BY <1>2 DEF SchedulerInv, TypeOK, Start, Moves, clientVars, stopVars
<1>4. Labels'
  BY <1>1, <1>2, LabelsStep, SchedulerAssumption DEF SchedulerInv, Start
<1>5. Counted'
  BY <1>2, CountUp DEF SchedulerInv, Start
<1>6. FlagExact' /\ Numbered' /\ NothingStranded'
  <2>1. HasProcessQueue => HasProcessQueue'
    BY DEF Start, HasProcessQueue
  <2> QED BY <2>1, <1>1, <1>2, QuietStep DEF clientVars, Start, Busy
<1>7. Emptied'
  BY <1>1, <1>2, SchedulerAssumption DEF SchedulerInv, Emptied, Moves, Thread, clientVars, Start
<1> QED BY <1>3, <1>4, <1>5, <1>6, <1>7 DEF SchedulerInv

LEMMA ReturnToLabel ==
    ASSUME NEW t \in Thread
    PROVE  /\ ReturnTo(t) \in ThreadPC \ ({"start", "gone", "callback", "reset", "down"} \cup Busy)
           /\ t \in Server => ReturnTo(t) = "loop"
           /\ t \in Caller => ReturnTo(t) \in {"idle", "sync"}
           /\ t = Main => ReturnTo(t) = "check"
BY SchedulerAssumption DEF ReturnTo, Thread, ThreadPC, ServerPC, Busy

(***************************************************************************)
(* A thread in the client's code goes to another place in it, or leaves.   *)
(***************************************************************************)
LEMMA ClientLabels ==
    ASSUME SchedulerInv, NEW t \in Thread, NEW label \in ThreadPC, Moves(t, label),
           pc[t] \in ClientPC,
           label = ReturnTo(t) \/ label \in {"maybe", "schedule"}
             \/ (label \in ClientPC /\ pc[t] \notin {"maybe", "schedule"}),
           nThreadsServicingQueue' = nThreadsServicingQueue
    PROVE  Labels' /\ Counted'
<1>1. t \in Server => label \in ServerPC \cup ClientPC /\ label \notin {"start", "gone"}
  BY ReturnToLabel DEF ServerPC, ClientPC
<1>2. t \in Server => pc[t] \notin {"start", "gone"}
  BY DEF ClientPC
<1>3. t \in Caller => label \in {"idle", "sync", "maybe", "schedule"}
  BY ReturnToLabel DEF SchedulerInv, Labels, ClientPC
<1>4. t = Main => /\ label \in {"up", "join", "flush", "check", "down"} \cup ClientPC
                  /\ label \notin {"up", "join"} => \A s \in Server : pc[s] = "gone"
  BY ReturnToLabel DEF SchedulerInv, Labels, ClientPC
<1> QED BY <1>1, <1>2, <1>3, <1>4, LabelsStep, CountStays DEF SchedulerInv

LEMMA ProcessQueueKeeps ==
    ASSUME SchedulerInv, NEW t \in Thread, ProcessQueue(t)
    PROVE  SchedulerInv'
<1>0. pc[t] = "process" /\ pc[t] \in ClientPC /\ UNCHANGED <<now, taskQueue, nThreadsServicingQueue, until, stopVars>>
  BY DEF ProcessQueue, ClientPC
<1>1. CASE m_are_callbacks_running \/ m_callbacks_pending = <<>>
  <2>1. Goto(t, ReturnTo(t)) /\ UNCHANGED clientVars
    BY <1>1 DEF ProcessQueue
  <2>2. Moves(t, ReturnTo(t))
    BY <2>1, ReturnToLabel, GotoMoves DEF SchedulerInv
  <2>3. TypeOK'
    BY <1>0, <2>1, <2>2 DEF SchedulerInv, TypeOK, Moves, clientVars, stopVars
  <2>4. Labels' /\ Counted'
    BY <1>0, <2>2, ReturnToLabel, ClientLabels
  <2>5. FlagExact' /\ Numbered' /\ NothingStranded'
    <3>1. HasProcessQueue => HasProcessQueue'
      BY <1>0 DEF HasProcessQueue
    <3> QED BY <3>1, <1>0, <1>1, <2>1, <2>2, ReturnToLabel, QuietStep DEF clientVars
  <2>6. Emptied'
    BY <2>1, <2>2, ReturnToLabel, SchedulerAssumption DEF SchedulerInv, Emptied, Moves, Thread, clientVars
  <2> QED BY <2>3, <2>4, <2>5, <2>6 DEF SchedulerInv
<1>2. CASE ~m_are_callbacks_running /\ m_callbacks_pending # <<>>
  <2>1. /\ m_are_callbacks_running' = TRUE
        /\ cur' = [cur EXCEPT ![t] = Head(m_callbacks_pending)]
        /\ m_callbacks_pending' = Tail(m_callbacks_pending)
        /\ Goto(t, "callback")
        /\ nAdded' = nAdded /\ done' = done
    BY <1>2 DEF ProcessQueue
  <2>2. "callback" \in ThreadPC /\ "callback" \in ClientPC
    BY DEF ThreadPC, ClientPC
  <2>3. Moves(t, "callback")
    BY <2>1, <2>2, GotoMoves DEF SchedulerInv
  <2>4. /\ m_callbacks_pending \in Seq(Nat) /\ Len(m_callbacks_pending) \in Nat \ {0}
        /\ nAdded \in Nat /\ done \in Seq(Nat) /\ Len(done) \in Nat /\ cur \in [Thread -> Nat]
    BY <1>2 DEF SchedulerInv, TypeOK
  <2>5. /\ m_callbacks_pending' \in Seq(Nat)
        /\ Head(m_callbacks_pending) = m_callbacks_pending[1] /\ Head(m_callbacks_pending) \in Nat
        /\ Len(m_callbacks_pending') = Len(m_callbacks_pending) - 1
        /\ \A i \in 1..Len(m_callbacks_pending) - 1 : m_callbacks_pending'[i] = m_callbacks_pending[i + 1]
    BY ONLY <2>1, <2>4
  <2>6. TypeOK'
    <3>1. cur' \in [Thread -> Nat]
      BY <2>1, <2>4, <2>5
    <3>2. m_are_callbacks_running' \in BOOLEAN
      BY <2>1
    <3> QED BY <3>1, <3>2, <1>0, <2>1, <2>3, <2>5 DEF SchedulerInv, TypeOK, Moves, stopVars
  <2>7. Labels' /\ Counted'
    BY <1>0, <2>2, <2>3, ClientLabels
  <2>8. \A u \in Thread : pc[u] \notin {"callback", "reset"}
    BY <1>2 DEF SchedulerInv, FlagExact
  <2>9. \A u \in Thread : pc'[u] \in {"callback", "reset"} <=> u = t
    BY <2>3, <2>8 DEF Moves
  <2>10. FlagExact'
    BY <2>1, <2>9 DEF FlagExact
  <2>11. Numbered'
    <3>1. ~InCallback /\ InCallback'
      BY <2>3, <2>8 DEF InCallback, Moves
    <3>2. /\ nAdded = Len(done) + Len(m_callbacks_pending)
          /\ \A i \in 1..Len(m_callbacks_pending) : m_callbacks_pending[i] = nAdded - Len(m_callbacks_pending) + i
          /\ \A i \in 1..Len(done) : done[i] = i
      BY <3>1, <2>4 DEF SchedulerInv, Numbered
    <3>3. \A u \in Thread : pc'[u] = "callback" => cur'[u] = Len(done) + 1
      <4>1. cur'[t] = m_callbacks_pending[1] /\ m_callbacks_pending[1] = nAdded - Len(m_callbacks_pending) + 1
        BY <2>1, <2>4, <2>5, <3>2
      <4> QED BY <4>1, <2>4, <2>9, <3>2
    <3>4. \A i \in 1..Len(m_callbacks_pending') : m_callbacks_pending'[i] = nAdded - Len(m_callbacks_pending') + i
      BY <2>4, <2>5, <3>2
    <3> QED BY <3>1, <3>2, <3>3, <3>4, <2>1, <2>4, <2>5 DEF Numbered
  <2>12. NothingStranded'
    BY <2>1 DEF NothingStranded
  <2>13. Emptied'
    BY <1>2, <2>3, SchedulerAssumption DEF SchedulerInv, Emptied, Moves, Thread
  <2> QED BY <2>6, <2>7, <2>10, <2>11, <2>12, <2>13 DEF SchedulerInv
<1>3. m_are_callbacks_running \in BOOLEAN
  BY DEF SchedulerInv, TypeOK
<1> QED BY <1>1, <1>2, <1>3

LEMMA CallbackKeeps ==
    ASSUME SchedulerInv, NEW t \in Thread, Callback(t)
    PROVE  SchedulerInv'
<1>0. /\ pc[t] = "callback" /\ pc[t] \in ClientPC /\ "reset" \in ThreadPC /\ "reset" \in ClientPC
      /\ done' = Append(done, cur[t]) /\ Goto(t, "reset")
      /\ UNCHANGED <<now, taskQueue, nThreadsServicingQueue, until, m_callbacks_pending,
                     m_are_callbacks_running, cur, nAdded, stopVars>>
  BY DEF Callback, ClientPC, ThreadPC
<1>1. Moves(t, "reset")
  BY <1>0, GotoMoves DEF SchedulerInv
<1>2. done \in Seq(Nat) /\ Len(done) \in Nat /\ cur[t] \in Nat /\ nAdded \in Nat
  BY DEF SchedulerInv, TypeOK
<1>3. /\ done' \in Seq(Nat) /\ Len(done') = Len(done) + 1 /\ done'[Len(done) + 1] = cur[t]
      /\ \A i \in 1..Len(done) : done'[i] = done[i]
  BY ONLY <1>0, <1>2
<1>4. TypeOK'
  BY <1>0, <1>1, <1>3 DEF SchedulerInv, TypeOK, Moves, stopVars
<1>5. Labels' /\ Counted'
  BY <1>0, <1>1, ClientLabels
<1>6. \A u \in Thread : pc[u] \in {"callback", "reset"} <=> u = t
  BY <1>0 DEF SchedulerInv, FlagExact
<1>7. \A u \in Thread : pc'[u] # "callback" /\ (pc'[u] = "reset" <=> u = t)
  BY <1>1, <1>6 DEF Moves
<1>8. FlagExact'
  <2>1. m_are_callbacks_running'
    BY <1>0 DEF SchedulerInv, FlagExact
  <2> QED BY <2>1, <1>7 DEF FlagExact
<1>9. Numbered'
  <2>1. InCallback /\ ~InCallback'
    BY <1>0, <1>7 DEF InCallback
  <2>2. cur[t] = Len(done) + 1 /\ nAdded = Len(done) + Len(m_callbacks_pending) + 1
    BY <2>1, <1>0 DEF SchedulerInv, Numbered
  <2>3. \A i \in 1..Len(done') : done'[i] = i
    <3>1. \A i \in 1..Len(done) : done[i] = i
      BY DEF SchedulerInv, Numbered
    <3> QED BY ONLY <3>1, <2>2, <1>2, <1>3
  <2>4. nAdded' = Len(done') + Len(m_callbacks_pending') + 0
    <3>1. Len(m_callbacks_pending) \in Nat
      BY DEF SchedulerInv, TypeOK
    <3> QED BY <3>1, <2>2, <1>0, <1>2, <1>3
  <2> QED BY <2>1, <2>3, <2>4, <1>0, <1>7 DEF SchedulerInv, Numbered
<1>10. NothingStranded'
  BY <1>0 DEF NothingStranded, SchedulerInv, FlagExact
<1>11. Emptied'
  BY <1>0, <1>1, SchedulerAssumption DEF SchedulerInv, Emptied, Moves, Thread
<1> QED BY <1>4, <1>5, <1>8, <1>9, <1>10, <1>11 DEF SchedulerInv

LEMMA ResetKeeps ==
    ASSUME SchedulerInv, NEW t \in Thread, Reset(t)
    PROVE  SchedulerInv'
<1>0. /\ pc[t] = "reset" /\ pc[t] \in ClientPC /\ "maybe" \in ThreadPC /\ "maybe" \in ClientPC
      /\ m_are_callbacks_running' = FALSE /\ cur' = [cur EXCEPT ![t] = 0] /\ Goto(t, "maybe")
      /\ UNCHANGED <<now, taskQueue, nThreadsServicingQueue, until, m_callbacks_pending,
                     nAdded, done, stopVars>>
  BY DEF Reset, ClientPC, ThreadPC
<1>1. Moves(t, "maybe")
  BY <1>0, GotoMoves DEF SchedulerInv
<1>2. TypeOK'
  <2>1. m_are_callbacks_running' \in BOOLEAN /\ cur' \in [Thread -> Nat]
    BY <1>0 DEF SchedulerInv, TypeOK
  <2> QED BY <2>1, <1>0, <1>1 DEF SchedulerInv, TypeOK, Moves, stopVars
<1>3. Labels' /\ Counted'
  BY <1>0, <1>1, ClientLabels
<1>4. \A u \in Thread : pc[u] \in {"callback", "reset"} <=> u = t
  BY <1>0 DEF SchedulerInv, FlagExact
<1>5. \A u \in Thread : pc[u] # "callback" /\ pc'[u] \notin {"callback", "reset"}
  BY <1>0, <1>1, <1>4 DEF Moves
<1>6. FlagExact'
  BY <1>0, <1>5 DEF FlagExact
<1>7. Numbered'
  <2>1. ~InCallback /\ ~InCallback'
    BY <1>5 DEF InCallback
  <2> QED BY <2>1, <1>0, <1>5 DEF SchedulerInv, Numbered
<1>8. NothingStranded'
  BY <1>1 DEF NothingStranded, Moves
<1>9. Emptied'
  BY <1>0, <1>1, SchedulerAssumption DEF SchedulerInv, Emptied, Moves, Thread
<1> QED BY <1>2, <1>3, <1>6, <1>7, <1>8, <1>9 DEF SchedulerInv

LEMMA MaybeKeeps ==
    ASSUME SchedulerInv, NEW t \in Thread, MaybeScheduleProcessQueue(t)
    PROVE  SchedulerInv'
<1> DEFINE label == IF m_are_callbacks_running \/ m_callbacks_pending = <<>> THEN ReturnTo(t) ELSE "schedule"
<1>0. /\ pc[t] = "maybe" /\ pc[t] \in ClientPC /\ Goto(t, label)
      /\ label = ReturnTo(t) \/ label = "schedule"
      /\ label = ReturnTo(t) => m_are_callbacks_running \/ m_callbacks_pending = <<>>
      /\ UNCHANGED <<now, taskQueue, nThreadsServicingQueue, until, clientVars, stopVars>>
  <2>1. ReturnTo(t) # "schedule"
    BY ReturnToLabel DEF Busy
  <2> QED BY <2>1 DEF MaybeScheduleProcessQueue, ClientPC
<1>1. label \in ThreadPC \ {"start", "gone", "callback", "reset", "down"}
  BY <1>0, ReturnToLabel DEF ThreadPC, ClientPC
<1> HIDE DEF label
<1>2. Moves(t, label)
  BY <1>0, <1>1, GotoMoves DEF SchedulerInv
<1>3. TypeOK'
  BY <1>0, <1>2 DEF SchedulerInv, TypeOK, Moves, clientVars, stopVars
<1>4. Labels' /\ Counted'
  BY <1>0, <1>1, <1>2, ClientLabels
<1>5. FlagExact' /\ Numbered' /\ NothingStranded'
  <2>1. HasProcessQueue => HasProcessQueue'
    BY <1>0 DEF HasProcessQueue
  <2>2. label \in Busy \/ m_are_callbacks_running \/ m_callbacks_pending = <<>>
    BY <1>0 DEF Busy
  <2> QED BY <2>1, <2>2, <1>0, <1>1, <1>2, QuietStep DEF clientVars
<1>6. Emptied'
  BY <1>0, <1>1, <1>2, SchedulerAssumption DEF SchedulerInv, Emptied, Moves, Thread, clientVars
<1> QED BY <1>3, <1>4, <1>5, <1>6 DEF SchedulerInv

LEMMA ScheduleKeeps ==
    ASSUME SchedulerInv, NEW t \in Thread, ScheduleProcessQueue(t)
    PROVE  SchedulerInv'
<1> DEFINE task == <<now, "ProcessQueue">>
<1>0. /\ pc[t] = "schedule" /\ pc[t] \in ClientPC
      /\ schedule(t, task, ReturnTo(t))
      /\ UNCHANGED <<now, nThreadsServicingQueue, until, clientVars, stopVars>>
  BY DEF ScheduleProcessQueue, ClientPC, schedule
<1>1. task \in Task /\ task[2] = "ProcessQueue"
  BY SchedulerAssumption DEF SchedulerInv, TypeOK, Task
<1>2. ReturnTo(t) \in ThreadPC \ ({"start", "gone", "callback", "reset", "down"} \cup Busy)
  BY ReturnToLabel
<1> HIDE DEF task
<1>3. Moves(t, ReturnTo(t)) /\ taskQueue' \in Seq(Task) /\ HasProcessQueue'
  BY <1>0, <1>1, <1>2, ScheduleMoves DEF SchedulerInv
<1>4. TypeOK'
  BY <1>0, <1>3 DEF SchedulerInv, TypeOK, Moves, clientVars, stopVars
<1>5. Labels' /\ Counted'
  BY <1>0, <1>2, <1>3, ClientLabels
<1>6. FlagExact' /\ Numbered' /\ NothingStranded'
  BY <1>0, <1>2, <1>3, QuietStep DEF clientVars
<1>7. Emptied'
  BY <1>0, <1>2, <1>3, SchedulerAssumption DEF SchedulerInv, Emptied, Moves, Thread, clientVars
<1> QED BY <1>4, <1>5, <1>6, <1>7 DEF SchedulerInv

(***************************************************************************)
(* AddToProcessQueue, by a caller at rest or by the main thread.  Only the *)
(* caller's own entry of cur may change.                                   *)
(***************************************************************************)
LEMMA AddKeeps ==
    ASSUME SchedulerInv, NEW t \in Thread \ Server, AddToProcessQueue(t),
           pc[t] \in {"idle", "flush"},
           t # Main => pc[Main] # "down",
           cur' \in [Thread -> Nat], \A u \in Thread \ {t} : cur'[u] = cur[u]
    PROVE  SchedulerInv'
<1>0. /\ nAdded' = nAdded + 1 /\ m_callbacks_pending' = Append(m_callbacks_pending, nAdded + 1)
      /\ Goto(t, "maybe") /\ "maybe" \in ThreadPC \cap ClientPC
      /\ UNCHANGED <<now, taskQueue, nThreadsServicingQueue, until, m_are_callbacks_running, done, stopVars>>
  BY DEF AddToProcessQueue, ThreadPC, ClientPC
<1>1. Moves(t, "maybe")
  BY <1>0, GotoMoves DEF SchedulerInv
<1>2. m_callbacks_pending \in Seq(Nat) /\ Len(m_callbacks_pending) \in Nat /\ nAdded \in Nat /\ Len(done) \in Nat
  BY DEF SchedulerInv, TypeOK
<1>3. /\ m_callbacks_pending' \in Seq(Nat) /\ Len(m_callbacks_pending') = Len(m_callbacks_pending) + 1
      /\ m_callbacks_pending'[Len(m_callbacks_pending) + 1] = nAdded + 1
      /\ \A i \in 1..Len(m_callbacks_pending) : m_callbacks_pending'[i] = m_callbacks_pending[i]
  BY ONLY <1>0, <1>2
<1>4. TypeOK'
  BY <1>0, <1>1, <1>2, <1>3 DEF SchedulerInv, TypeOK, Moves, stopVars
<1>5. Labels'
  BY <1>0, <1>1, LabelsStep DEF SchedulerInv, Labels
<1>6. Counted'
  BY <1>0, <1>1, CountStays DEF SchedulerInv
<1>7. \A u \in Thread : pc'[u] \in {"callback", "reset"} <=> pc[u] \in {"callback", "reset"}
  BY <1>1 DEF Moves
<1>8. \A u \in Thread : pc'[u] = "callback" <=> pc[u] = "callback"
  BY <1>1 DEF Moves
<1>9. FlagExact'
  BY <1>0, <1>7 DEF SchedulerInv, FlagExact
<1>10. Numbered'
  <2>1. InCallback' <=> InCallback
    BY <1>8 DEF InCallback
  <2>2. \A u \in Thread : pc'[u] = "callback" => cur'[u] = Len(done') + 1
    BY <1>0, <1>8 DEF SchedulerInv, Numbered
  <2>3. \A i \in 1..Len(m_callbacks_pending') : m_callbacks_pending'[i] = nAdded' - Len(m_callbacks_pending') + i
    <3>1. \A i \in 1..Len(m_callbacks_pending) : m_callbacks_pending[i] = nAdded - Len(m_callbacks_pending) + i
      BY DEF SchedulerInv, Numbered
    <3>2. nAdded' = nAdded + 1
      BY <1>0
    <3> TAKE i \in 1..Len(m_callbacks_pending')
    <3>3. CASE i = Len(m_callbacks_pending) + 1
      <4>1. m_callbacks_pending'[i] = nAdded + 1
        BY <3>3, <1>3
      <4> QED BY ONLY <4>1, <3>2, <3>3, <1>2, <1>3
    <3>4. CASE i # Len(m_callbacks_pending) + 1
      <4>1. i \in 1..Len(m_callbacks_pending)
        BY ONLY i \in 1..Len(m_callbacks_pending'), <3>4, <1>2, <1>3
      <4>2. m_callbacks_pending'[i] = nAdded - Len(m_callbacks_pending) + i
        BY <4>1, <3>1, <1>3
      <4> QED BY ONLY <4>1, <4>2, <3>2, <1>2, <1>3
    <3> QED BY <3>3, <3>4
  <2>4. nAdded' = Len(done') + Len(m_callbacks_pending') + (IF InCallback' THEN 1 ELSE 0)
    BY <2>1, <1>0, <1>2, <1>3 DEF SchedulerInv, Numbered
  <2> QED BY <2>2, <2>3, <2>4, <1>0 DEF SchedulerInv, Numbered
<1>11. NothingStranded'
  BY <1>1 DEF NothingStranded, Moves
<1>12. Emptied'
  BY <1>1, SchedulerAssumption DEF SchedulerInv, Emptied, Moves, Thread
<1> QED BY <1>4, <1>5, <1>6, <1>9, <1>10, <1>11, <1>12 DEF SchedulerInv

(***************************************************************************)
(* A step of a caller or of the main thread outside the client's code.     *)
(***************************************************************************)
LEMMA OutsideKeeps ==
    ASSUME SchedulerInv, NEW t \in Thread \ Server, NEW label \in ThreadPC, Moves(t, label),
           pc[t] \notin ClientPC, label \notin ClientPC \ {"process"},
           t \in Caller => label = "idle",
           t = Main => /\ label \in {"join", "flush", "check", "down", "process"}
                       /\ label # "join" => \A s \in Server : pc[s] = "gone",
           label = "down" => m_callbacks_pending = <<>>,
           cur' \in [Thread -> Nat], \A u \in Thread \ {t} : cur'[u] = cur[u],
           stopRequested' \in BOOLEAN, stopWhenEmpty' \in BOOLEAN, interrupted' \subseteq Server,
           UNCHANGED <<now, taskQueue, nThreadsServicingQueue, until, m_callbacks_pending,
                       m_are_callbacks_running, nAdded, done>>
    PROVE  SchedulerInv'
<1>1. TypeOK'
  BY DEF SchedulerInv, TypeOK, Moves
<1>2. Labels'
  BY LabelsStep DEF SchedulerInv, ClientPC
<1>3. Counted'
  BY CountStays DEF SchedulerInv
<1>4. FlagExact' /\ Numbered' /\ NothingStranded'
  <2>1. pc[t] \notin {"callback", "reset"} \cup Busy /\ label \notin {"callback", "reset"}
    BY DEF ClientPC, Busy
  <2>2. HasProcessQueue => HasProcessQueue'
    BY DEF HasProcessQueue
  <2>3. \A u \in Thread : pc[u] = "callback" => cur'[u] = cur[u]
    BY <2>1
  <2> QED BY <2>1, <2>2, <2>3, QuietStep
<1>5. Emptied'
  BY SchedulerAssumption DEF SchedulerInv, Emptied, Moves, Thread
<1> QED BY <1>1, <1>2, <1>3, <1>4, <1>5 DEF SchedulerInv

LEMMA CallerKeeps ==
    ASSUME SchedulerInv, NEW c \in Caller,
           Emit(c) \/ SyncWithValidationInterfaceQueue(c) \/ SyncReturns(c)
    PROVE  SchedulerInv'
<1>0. c \in Thread \ Server /\ c # Main /\ cur \in [Thread -> Nat] /\ nAdded \in Nat
  BY SchedulerAssumption DEF SchedulerInv, TypeOK, Thread
<1>1. CASE Emit(c)
  BY <1>0, <1>1, AddKeeps DEF Emit, Running
<1>2. CASE SyncWithValidationInterfaceQueue(c)
  <2>1. cur' \in [Thread -> Nat] /\ \A u \in Thread \ {c} : cur'[u] = cur[u]
    BY <1>0, <1>2 DEF SyncWithValidationInterfaceQueue
  <2> QED BY <2>1, <1>0, <1>2, AddKeeps DEF SyncWithValidationInterfaceQueue, Running
<1>3. CASE SyncReturns(c)
  <2>1. cur' \in [Thread -> Nat] /\ \A u \in Thread \ {c} : cur'[u] = cur[u]
    BY <1>0, <1>3 DEF SyncReturns
  <2>2. "idle" \in ThreadPC \ ClientPC /\ pc[c] \notin ClientPC
    BY <1>3 DEF SyncReturns, ThreadPC, ClientPC
  <2>3. Moves(c, "idle")
    BY <2>2, <1>0, <1>3, GotoMoves DEF SyncReturns, SchedulerInv
  <2>4. stopRequested' \in BOOLEAN /\ stopWhenEmpty' \in BOOLEAN /\ interrupted' \subseteq Server
    BY <1>3 DEF SyncReturns, SchedulerInv, TypeOK, stopVars
  <2> QED BY <2>1, <2>2, <2>3, <2>4, <1>0, <1>3, OutsideKeeps DEF SyncReturns
<1> QED BY <1>1, <1>2, <1>3

LEMMA MainKeeps ==
    ASSUME SchedulerInv,
           Shutdown \/ (\E drain \in BOOLEAN : stop(drain)) \/ Join \/ FlushStateToDisk \/ EmptyQueue
    PROVE  SchedulerInv'
<1>0. /\ Main \in Thread \ Server /\ Main \notin Caller /\ cur \in [Thread -> Nat]
      /\ {"join", "flush", "check", "down", "process"} \subseteq ThreadPC
      /\ {"join", "flush", "check", "down"} \cap ClientPC = {}
      /\ {"up", "join", "flush", "check"} \cap ClientPC = {}
  BY SchedulerAssumption DEF SchedulerInv, TypeOK, Thread, ThreadPC, ClientPC
<1>1. stopRequested \in BOOLEAN /\ stopWhenEmpty \in BOOLEAN /\ interrupted \subseteq Server
  BY DEF SchedulerInv, TypeOK
<1>2. CASE Shutdown
  <2>1. Moves(Main, "join")
    BY <1>0, <1>2, GotoMoves DEF Shutdown, SchedulerInv
  <2> QED BY <2>1, <1>0, <1>1, <1>2, OutsideKeeps DEF Shutdown, clientVars
<1>3. CASE \E drain \in BOOLEAN : stop(drain)
  <2> PICK drain \in BOOLEAN : stop(drain)
    BY <1>3
  <2>1. Moves(Main, "join")
    BY <1>0, WokenMoves DEF stop, SchedulerInv
  <2>2. stopRequested' \in BOOLEAN /\ stopWhenEmpty' \in BOOLEAN /\ interrupted' \subseteq Server
    BY <1>1 DEF stop
  <2> QED BY <2>1, <2>2, <1>0, OutsideKeeps DEF stop, clientVars
<1>4. CASE Join
  <2>1. Moves(Main, "flush")
    BY <1>0, <1>4, GotoMoves DEF Join, SchedulerInv
  <2> QED BY <2>1, <1>0, <1>1, <1>4, OutsideKeeps DEF Join, clientVars, stopVars
<1>5. ASSUME pc[Main] \in {"flush", "check"} PROVE \A s \in Server : pc[s] = "gone"
  BY <1>5 DEF SchedulerInv, Labels
<1>6. CASE FlushStateToDisk
  <2>1. CASE AddToProcessQueue(Main)
    BY <2>1, <1>0, <1>6, AddKeeps DEF FlushStateToDisk
  <2>2. CASE /\ Goto(Main, "check")
             /\ UNCHANGED <<now, taskQueue, nThreadsServicingQueue, until, clientVars, stopVars>>
    <3>1. Moves(Main, "check")
      BY <1>0, <2>2, GotoMoves DEF SchedulerInv
    <3> QED BY <3>1, <2>2, <1>0, <1>1, <1>5, <1>6, OutsideKeeps DEF FlushStateToDisk, clientVars, stopVars
  <2> QED BY <2>1, <2>2, <1>6 DEF FlushStateToDisk
<1>7. CASE EmptyQueue
  <2> DEFINE label == IF m_callbacks_pending # <<>> THEN "process" ELSE "down"
  <2>1. Goto(Main, label) /\ label \in {"process", "down"} /\ (label = "down" => m_callbacks_pending = <<>>)
    BY <1>7 DEF EmptyQueue
  <2> HIDE DEF label
  <2>2. Moves(Main, label)
    BY <2>1, <1>0, GotoMoves DEF SchedulerInv
  <2>3. label \notin ClientPC \ {"process"}
    BY <2>1, <1>0
  <2> QED BY <2>1, <2>2, <2>3, <1>0, <1>1, <1>5, <1>7, OutsideKeeps DEF EmptyQueue, clientVars, stopVars
<1> QED BY <1>2, <1>3, <1>4, <1>6, <1>7

LEMMA StillKeeps ==
    ASSUME SchedulerInv, Tick \/ UNCHANGED vars
    PROVE  SchedulerInv'
<1>1. now' \in 0..MaxTime /\ UNCHANGED <<taskQueue, nThreadsServicingQueue, pc, until, clientVars, stopVars>>
  BY SchedulerAssumption DEF Tick, vars, SchedulerInv, TypeOK
<1>2. TypeOK'
  BY <1>1 DEF SchedulerInv, TypeOK, clientVars, stopVars
<1>3. Labels' /\ Counted' /\ Emptied' /\ FlagExact'
  BY <1>1 DEF SchedulerInv, Labels, Counted, Serving, Emptied, FlagExact, clientVars
<1>4. Numbered' /\ NothingStranded'
  BY <1>1 DEF SchedulerInv, Numbered, InCallback, NothingStranded, clientVars
<1> QED BY <1>2, <1>3, <1>4 DEF SchedulerInv

LEMMA SchedulerNext == SchedulerInv /\ [Next]_vars => SchedulerInv'
<1> SUFFICES ASSUME SchedulerInv, [Next]_vars PROVE SchedulerInv'
  OBVIOUS
<1>1. ASSUME NEW t \in Thread, ClientStep(t) PROVE SchedulerInv'
  BY <1>1, ProcessQueueKeeps, CallbackKeeps, ResetKeeps, MaybeKeeps, ScheduleKeeps DEF ClientStep
<1>2. ASSUME NEW s \in Server, ServerStep(s) \/ Spurious(s) PROVE SchedulerInv'
  BY <1>1, <1>2, StartKeeps, ServiceKeeps DEF ServerStep, Service, Thread
<1>3. ASSUME NEW c \in Caller, Emit(c) \/ SyncWithValidationInterfaceQueue(c) \/ CallerStep(c) PROVE SchedulerInv'
  BY <1>1, <1>3, CallerKeeps DEF CallerStep, Thread
<1>4. ASSUME MainStep PROVE SchedulerInv'
  BY <1>1, <1>4, MainKeeps DEF MainStep, Thread
<1>5. CASE Next
  BY <1>2, <1>3, <1>4, <1>5, MainKeeps, StillKeeps DEF Next
<1>6. CASE UNCHANGED vars
  BY <1>6, StillKeeps
<1> QED BY <1>5, <1>6

LEMMA SchedulerInvariant == Spec => []SchedulerInv
BY SchedulerInit, SchedulerNext, PTL DEF Spec

(***************************************************************************)
(* Callbacks of SingleThreadedSchedulerClient run one at a time and in the *)
(* order in which they were added, with any number of threads in           *)
(* serviceQueue, and when Shutdown runs the rest on its own thread.        *)
(***************************************************************************)
THEOREM CallbacksSerialInOrder == Spec => []SerialInOrder
<1>1. SchedulerInv => SerialInOrder
  BY DEF SchedulerInv, Numbered, FlagExact, SerialInOrder
<1> QED BY <1>1, SchedulerInvariant, PTL

(***************************************************************************)
(* Pending callbacks always have somebody who will look at them, although  *)
(* MaybeScheduleProcessQueue and ProcessQueue both give up when a callback *)
(* is running.                                                             *)
(***************************************************************************)
THEOREM CallbacksNotStranded == Spec => []NothingStranded
<1>1. SchedulerInv => NothingStranded
  BY DEF SchedulerInv
<1> QED BY <1>1, SchedulerInvariant, PTL

(***************************************************************************)
(* EmptyQueue's assertion that no thread serves the scheduler never fails, *)
(* and no callback emitted is left when Shutdown has emptied the queue.    *)
(***************************************************************************)
THEOREM ShutdownDeliversAll == Spec => []AllDelivered
<1>1. ASSUME SchedulerInv PROVE AllDelivered
  <2>1. ASSUME pc[Main] = "check" PROVE nThreadsServicingQueue = 0
    <3>1. Serving = {}
      BY <1>1, <2>1 DEF SchedulerInv, Labels, Serving
    <3> QED BY <1>1, <3>1, FS_EmptySet DEF SchedulerInv, Counted
  <2>2. ASSUME pc[Main] = "down" PROVE m_callbacks_pending = <<>> /\ Len(done) = nAdded
    <3>1. ~InCallback
      <4>1. \A s \in Server : pc[s] = "gone"
        BY <1>1, <2>2 DEF SchedulerInv, Labels
      <4> QED BY <1>1, <2>2, <4>1 DEF SchedulerInv, Labels, InCallback, Thread
    <3>2. m_callbacks_pending = <<>> /\ Len(m_callbacks_pending) = 0 /\ Len(done) \in Nat
      BY <1>1, <2>2 DEF SchedulerInv, Emptied, TypeOK
    <3> QED BY <1>1, <3>1, <3>2 DEF SchedulerInv, Numbered
  <2> QED BY <2>1, <2>2 DEF AllDelivered
<1> QED BY <1>1, SchedulerInvariant, PTL
=============================================================================
