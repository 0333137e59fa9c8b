--------------------------- MODULE ThreadPoolProofs ---------------------------
(***************************************************************************)
(* Proofs about ThreadPool and its BlockQueue, for any number of workers,  *)
(* any producers, any size of the queue and any number of tasks.           *)
(***************************************************************************)
EXTENDS ThreadPool, SequenceTheorems, FiniteSetTheorems, TLAPS

-----------------------------------------------------------------------------
(* Type correctness *)

\* Where the owner is in its loop over the workers.  A thread that has not been
\* created counts down nothing.
Starting == {"creating", "latch", "latch sleep", "counting"}
OwnerAt ==
  /\ ownerPc = "new" => at = 0
  /\ ownerPc \in Starting \cup {"joining"} => at >= 1
  /\ ownerPc \in Starting \ {"creating"} => at <= NumWorkers
  /\ ownerPc = "creating" => \A w \in Workers : w >= at => pc[w] = "none"
  /\ ownerPc \in Starting => \A w \in Workers : w > at => pc[w] = "none"
  /\ at = 0 => \A w \in Workers : pc[w] = "none"
  /\ \A w \in Workers : pc[w] \in {"none", "created"} => latch[w] = 1

PInv == TypeOK /\ OwnerAt

\* Workers are threads and are numbered.
LEMMA WorkerNumbers ==
  /\ Workers \subseteq Threads /\ Producers \subseteq Threads
  /\ \A w \in Workers : w \in Int /\ w >= 1 /\ w <= NumWorkers
  /\ \A i \in Int : i >= 1 /\ i <= NumWorkers => i \in Workers
<1>1. Workers \subseteq Threads /\ Producers \subseteq Threads
  BY DEF Threads
<1>2. /\ \A w \in Workers : w \in Int /\ w >= 1 /\ w <= NumWorkers
      /\ \A i \in Int : i >= 1 /\ i <= NumWorkers => i \in Workers
  BY ThreadPoolAssumption DEF Workers
<1> QED
  BY <1>1, <1>2

\* The invariant holds of a pool that was just constructed.
LEMMA InitPInv == ASSUME Init PROVE PInv
<1>1. QueueTypeOK
  <2>1. queue = <<>> /\ taken = <<>>
    BY DEF Init, QueueInit
  <2>2. queue \in Seq(Tasks) /\ taken \in Seq(Tasks) /\ Len(queue) <= MaxSize
    BY <2>1, BlockQueueAssumption
  <2>3. stopped \in BOOLEAN
    BY DEF Init, QueueInit
  <2> QED
    BY <2>2, <2>3 DEF QueueTypeOK
<1>2. /\ pc \in [Threads -> WorkerPcs \cup {"idle"}]
      /\ \A w \in Workers : pc[w] = "none"
      /\ \A p \in Producers : pc[p] = "idle"
      /\ \A t \in Threads : pc[t] # "adding" /\ item[t] = 0
  BY ThreadPoolAssumption DEF Init, Threads, WorkerPcs
<1>3. /\ item \in [Threads -> 0..MaxTasks] /\ latch \in [Workers -> {0, 1}]
      /\ added \in 0..MaxTasks /\ at \in 0..(NumWorkers + 1)
  BY BlockQueueAssumption, ThreadPoolAssumption DEF Init
<1>4. /\ emptyWait = {} /\ fullWait = {} /\ ownerPc = "new"
      /\ start_ \in BOOLEAN /\ currentThreadNum \in Int
  <2>1. emptyWait = {} /\ fullWait = {} /\ ownerPc = "new" /\ start_ \in BOOLEAN
    BY DEF Init, QueueInit
  <2>2. currentThreadNum \in Int
    BY DEF Init
  <2> QED
    BY <2>1, <2>2
<1>5. TypeOK
  BY <1>1, <1>2, <1>3, <1>4, WorkerNumbers DEF TypeOK
<1>6. OwnerAt
  BY <1>2 DEF Init, OwnerAt, Starting
<1> QED
  BY <1>5, <1>6 DEF PInv

\* The steps of the owner change no queue and no producer.
LEMMA OwnerPInv == ASSUME PInv, OwnerStep PROVE PInv'
<1>a. NumWorkers \in Nat
  BY ThreadPoolAssumption
<1> USE DEF PInv, TypeOK, OwnerAt, Starting
<1>1. CASE Start
  BY <1>1, <1>a, WorkerNumbers DEF Start, bqvars, QueueTypeOK
<1>2. ASSUME NEW place \in {"created", "failed"},
             ownerPc = "creating", at <= NumWorkers, Goto(at, place),
             ownerPc' \in {"latch", "counting"},
             UNCHANGED <<bqvars, at, item, added, latch, start_,
                         currentThreadNum>>
      PROVE  PInv'
  <2>1. at \in Workers
    BY <1>2, WorkerNumbers
  <2>2. /\ pc[at] = "none"
        /\ pc' \in [Threads -> WorkerPcs \cup {"idle"}]
        /\ pc'[at] = place
        /\ \A t \in Threads : t # at => pc'[t] = pc[t]
    BY <1>2, <2>1, WorkerNumbers DEF Goto, WorkerPcs
  <2>3. TypeOK'
    <3>1. QueueTypeOK'
      BY <1>2 DEF bqvars, QueueTypeOK
    <3>2. /\ UNCHANGED <<at, item, added, latch, start_, currentThreadNum>>
          /\ emptyWait' = emptyWait /\ fullWait' = fullWait
          /\ ownerPc' \in {"latch", "counting"}
      BY <1>2 DEF bqvars
    <3>3. /\ \A t \in Threads : t # at => pc'[t] = pc[t]
          /\ pc'[at] \in {"created", "failed"} /\ pc[at] = "none" /\ at \in Threads
      BY <2>1, <2>2, WorkerNumbers
    <3>4. /\ emptyWait \subseteq {w \in Workers : pc'[w] = "getting"}
          /\ fullWait \subseteq {t \in Threads : pc'[t] = "adding"}
          /\ \A w \in Workers : pc'[w] # "idle"
          /\ \A p \in Producers : pc'[p] \in {"idle", "adding"}
          /\ \A t \in Threads : pc'[t] = "adding" <=> item[t] # 0
      <4>1. /\ emptyWait \subseteq {w \in Workers : pc[w] = "getting"}
            /\ fullWait \subseteq {t \in Threads : pc[t] = "adding"}
            /\ \A w \in Workers : pc[w] # "idle"
            /\ \A p \in Producers : pc[p] \in {"idle", "adding"}
            /\ \A t \in Threads : pc[t] = "adding" <=> item[t] # 0
        OBVIOUS
      <4> HIDE DEF PInv, TypeOK, OwnerAt
      <4> QED
        BY <3>3, <4>1, WorkerNumbers
    <3> QED
      BY <2>2, <3>1, <3>2, <3>4
  <2>4. /\ \A w \in Workers : w > at => pc'[w] = "none"
        /\ \A w \in Workers : pc'[w] \in {"none", "created"} => latch[w] = 1
        /\ at >= 1
    BY <1>2, <2>1, <2>2, WorkerNumbers
  <2>5. OwnerAt'
    <3> HIDE DEF PInv, TypeOK
    <3>1. at' = at /\ latch' = latch /\ at <= NumWorkers /\ at # 0
      BY <1>2, <2>4
    <3> QED
      BY <1>2, <2>4, <3>1
  <2> QED
    BY <2>3, <2>5
<1>3. CASE Create
  BY <1>2, <1>3 DEF Create
<1>4. CASE CreateFails
  BY <1>2, <1>4 DEF CreateFails
<1>5. CASE LatchWaits
  BY <1>5 DEF LatchWaits, bqvars, QueueTypeOK
<1>6. CASE LatchReturns
  BY <1>6 DEF LatchReturns, bqvars, QueueTypeOK
<1>7. CASE Counted
  BY <1>7, <1>a, WorkerNumbers DEF Counted, bqvars, QueueTypeOK
<1>8. CASE StartReturns
  BY <1>8 DEF StartReturns, bqvars, QueueTypeOK
<1>9. CASE Destroy
  BY <1>9 DEF Destroy, bqvars, QueueTypeOK
<1>10. CASE ClearStart
  BY <1>10 DEF ClearStart, bqvars, QueueTypeOK
<1>11. CASE StopQueue
  BY <1>11, <1>a DEF StopQueue, Stop, QueueTypeOK
<1>12. CASE JoinNext
  <2>1. /\ at' \in 1..(NumWorkers + 1)
        /\ ownerPc' \in {"joining", "aborted"}
        /\ UNCHANGED <<bqvars, pc, item, added, latch, start_, currentThreadNum>>
    BY <1>12, <1>a DEF JoinNext
  <2>2. at' # 0 /\ at' >= 1 /\ at' \in 0..(NumWorkers + 1)
    <3> HIDE DEF PInv, TypeOK, OwnerAt
    <3> QED
      BY <2>1, <1>a
  <2> QED
    BY <2>1, <2>2 DEF bqvars, QueueTypeOK
<1>13. CASE DestroyReturns
  BY <1>13 DEF DestroyReturns, Stop, QueueTypeOK
<1> QED
  BY <1>1, <1>3, <1>4, <1>5, <1>6, <1>7, <1>8, <1>9, <1>10, <1>11, <1>12, <1>13
     DEF OwnerStep

\* A thread that moves on from one place of its own to another, is in no wait
\* afterwards that it is not at the place of, and adds what it says it adds.
LEMMA MovePInv ==
  ASSUME PInv, QueueTypeOK', NEW t \in Threads, NEW place, Goto(t, place),
         pc[t] \notin {"none", "created"}, place \notin {"none", "created"},
         t \in Workers => place \in WorkerPcs,
         t \in Producers => place \in {"idle", "adding"},
         item' \in [Threads -> 0..MaxTasks],
         \A u \in Threads : u # t => item'[u] = item[u],
         place = "adding" <=> item'[t] # 0,
         added' \in 0..MaxTasks, currentThreadNum' \in Int,
         emptyWait' \subseteq emptyWait \ {t},
         fullWait' \subseteq fullWait \ {t},
         UNCHANGED <<ownerPc, at, latch, start_>>
  PROVE  PInv'
<1> USE DEF PInv, TypeOK, OwnerAt, Goto
<1>1. /\ pc'[t] = place
      /\ \A u \in Threads : u # t => pc'[u] = pc[u]
      /\ pc' \in [Threads -> WorkerPcs \cup {"idle"}]
  BY DEF Threads, WorkerPcs
<1>2. \A w \in Workers : pc'[w] # "idle"
  <2>1. (\A w \in Workers : pc[w] # "idle") /\ (t \in Workers => place # "idle")
    BY DEF WorkerPcs
  <2> HIDE DEF PInv, TypeOK, OwnerAt
  <2> QED
    BY <1>1, <2>1, WorkerNumbers
<1>3. \A p \in Producers : pc'[p] \in {"idle", "adding"}
  <2>1. \A p \in Producers : pc[p] \in {"idle", "adding"}
    OBVIOUS
  <2> HIDE DEF PInv, TypeOK, OwnerAt
  <2> QED
    BY <1>1, <2>1, WorkerNumbers
<1>4. \A u \in Threads : pc'[u] = "adding" <=> item'[u] # 0
  <2>1. \A u \in Threads : pc[u] = "adding" <=> item[u] # 0
    OBVIOUS
  <2> HIDE DEF PInv, TypeOK, OwnerAt
  <2> QED
    BY <1>1, <2>1
<1>5. /\ emptyWait' \subseteq {w \in Workers : pc'[w] = "getting"}
      /\ fullWait' \subseteq {u \in Threads : pc'[u] = "adding"}
  <2>1. /\ emptyWait \subseteq {w \in Workers : pc[w] = "getting"}
        /\ fullWait \subseteq {u \in Threads : pc[u] = "adding"}
    OBVIOUS
  <2> HIDE DEF PInv, TypeOK, OwnerAt
  <2> QED
    BY <1>1, <2>1, WorkerNumbers
<1>6. TypeOK'
  BY <1>1, <1>2, <1>3, <1>4, <1>5
<1>7. \A w \in Workers : pc'[w] \in {"none", "created"} <=> pc[w] \in {"none", "created"}
  BY <1>1, WorkerNumbers
<1>8. \A w \in Workers : pc[w] = "none" => pc'[w] = "none"
  BY <1>1, WorkerNumbers
<1>9. OwnerAt'
  BY <1>7, <1>8
<1> QED
  BY <1>6, <1>9

\* What getTask() and addTask() make of the queue is a queue of tasks that is
\* not too long.
LEMMA TakeType ==
  ASSUME QueueTypeOK, NEW t, GetTakes(t) PROVE QueueTypeOK'
<1>1. queue \in Seq(Tasks) /\ queue # <<>> /\ taken \in Seq(Tasks)
  BY DEF QueueTypeOK, GetTakes
<1>2. /\ Head(queue) \in Tasks /\ Tail(queue) \in Seq(Tasks)
      /\ Len(Tail(queue)) = Len(queue) - 1
  BY <1>1, HeadTailProperties
<1>3. queue' = Tail(queue) /\ taken' = Append(taken, Head(queue)) /\ stopped' = stopped
  BY DEF GetTakes
<1>4. taken' \in Seq(Tasks)
  BY <1>1, <1>2, <1>3
<1>5. Len(queue') <= MaxSize
  <2>1. Len(queue) \in Nat /\ Len(queue) <= MaxSize
    BY <1>1 DEF QueueTypeOK
  <2> QED
    BY <2>1, <1>2, <1>3, BlockQueueAssumption
<1> QED
  BY <1>2, <1>3, <1>4, <1>5 DEF QueueTypeOK

LEMMA PutType ==
  ASSUME QueueTypeOK, NEW t, NEW task \in Tasks, AddPuts(t, task)
  PROVE  QueueTypeOK'
<1>1. /\ queue' = Append(queue, task) /\ UNCHANGED <<stopped, taken>>
      /\ ~(Len(queue) >= MaxSize)
  BY DEF AddPuts, Full
<1>2. queue \in Seq(Tasks) /\ Len(queue) \in Nat
  BY DEF QueueTypeOK
<1>3. queue' \in Seq(Tasks) /\ Len(queue') = Len(queue) + 1
  BY <1>1, <1>2
<1>4. Len(queue') <= MaxSize
  BY <1>1, <1>2, <1>3, BlockQueueAssumption
<1> QED
  BY <1>1, <1>3, <1>4 DEF QueueTypeOK

\* A step that only moves threads into or out of the two waits of their places.
LEMMA WaitPInv ==
  ASSUME PInv, UNCHANGED <<queue, stopped, taken>>, UNCHANGED poolvars,
         emptyWait' \subseteq {w \in Workers : pc[w] = "getting"},
         fullWait' \subseteq {t \in Threads : pc[t] = "adding"}
  PROVE  PInv'
BY DEF PInv, TypeOK, OwnerAt, QueueTypeOK, poolvars

\* runInThread() up to its work, with the notify of the owner.
LEMMA CountDownPInv ==
  ASSUME PInv, NEW w \in Workers, CountDown(w) PROVE PInv'
<1> USE DEF PInv, TypeOK, OwnerAt
<1>1. /\ pc[w] = "created" /\ latch[w] = 1
      /\ pc' = [pc EXCEPT ![w] = "test"] /\ latch' = [latch EXCEPT ![w] = @ - 1]
      /\ UNCHANGED <<bqvars, at, item, added, start_, currentThreadNum>>
  BY DEF CountDown, Goto
<1>2. /\ pc'[w] = "test"
      /\ \A u \in Threads : u # w => pc'[u] = pc[u]
      /\ pc' \in [Threads -> WorkerPcs \cup {"idle"}]
  BY <1>1, WorkerNumbers DEF WorkerPcs
<1>3. /\ latch' \in [Workers -> {0, 1}]
      /\ \A v \in Workers : v # w => latch'[v] = latch[v]
  <2>1. latch \in [Workers -> {0, 1}]
    OBVIOUS
  <2>2. latch' = [latch EXCEPT ![w] = 0]
    <3> HIDE DEF PInv, TypeOK, OwnerAt
    <3> QED
      BY <1>1
  <2> HIDE DEF PInv, TypeOK, OwnerAt
  <2> QED
    BY <2>1, <2>2
<1>4. \/ ownerPc' = ownerPc
      \/ ownerPc = "latch sleep" /\ ownerPc' = "latch"
  BY DEF CountDown, NotifyOwner
<1>5. TypeOK'
  <2>1. QueueTypeOK'
    BY <1>1 DEF bqvars, QueueTypeOK
  <2>2. /\ emptyWait \subseteq {v \in Workers : pc'[v] = "getting"}
        /\ fullWait \subseteq {t \in Threads : pc'[t] = "adding"}
        /\ \A v \in Workers : pc'[v] # "idle"
        /\ \A p \in Producers : pc'[p] \in {"idle", "adding"}
        /\ \A t \in Threads : pc'[t] = "adding" <=> item[t] # 0
    <3>1. /\ emptyWait \subseteq {v \in Workers : pc[v] = "getting"}
          /\ fullWait \subseteq {t \in Threads : pc[t] = "adding"}
          /\ \A v \in Workers : pc[v] # "idle"
          /\ \A p \in Producers : pc[p] \in {"idle", "adding"}
          /\ \A t \in Threads : pc[t] = "adding" <=> item[t] # 0
      OBVIOUS
    <3>2. pc[w] = "created" /\ pc'[w] = "test" /\ w \notin Producers
      BY <1>1, <1>2, ThreadPoolAssumption
    <3> HIDE DEF PInv, TypeOK, OwnerAt
    <3> QED
      BY <1>2, <3>1, <3>2, WorkerNumbers
  <2>3. /\ UNCHANGED <<at, item, added, start_, currentThreadNum>>
        /\ emptyWait' = emptyWait /\ fullWait' = fullWait
    BY <1>1 DEF bqvars
  <2> QED
    BY <1>2, <1>3, <1>4, <2>1, <2>2, <2>3
<1>6. /\ \A v \in Workers : pc'[v] \in {"none", "created"} => latch'[v] = 1
      /\ \A v \in Workers : pc[v] = "none" => pc'[v] = "none"
  BY <1>1, <1>2, <1>3, WorkerNumbers
<1>7. OwnerAt'
  BY <1>1, <1>4, <1>6 DEF Starting
<1> QED
  BY <1>5, <1>7

\* A worker's steps.
LEMMA WorkerPInv ==
  ASSUME PInv, NEW w \in Workers, WorkerStep(w) PROVE PInv'
<1>0. /\ QueueTypeOK /\ item \in [Threads -> 0..MaxTasks] /\ added \in 0..MaxTasks
      /\ currentThreadNum \in Int /\ w \in Threads
      /\ emptyWait \subseteq {v \in Workers : pc[v] = "getting"}
      /\ fullWait \subseteq {t \in Threads : pc[t] = "adding"}
      /\ pc[w] = "adding" <=> item[w] # 0
      /\ w \notin Producers
  BY WorkerNumbers, ThreadPoolAssumption DEF PInv, TypeOK
<1>1. CASE CountDown(w)
  BY <1>1, CountDownPInv
<1>2. ASSUME NEW place \in {"getting", "leaving", "test", "ended"},
             pc[w] \in {"test", "running", "leaving"}, Goto(w, place),
             currentThreadNum' \in Int,
             UNCHANGED <<bqvars, ownerPc, at, item, added, latch, start_>>
      PROVE  PInv'
  <2>1. QueueTypeOK'
    BY <1>0, <1>2 DEF QueueTypeOK, bqvars
  <2>2. /\ emptyWait' \subseteq emptyWait \ {w}
        /\ fullWait' \subseteq fullWait \ {w}
    BY <1>0, <1>2 DEF bqvars
  <2>3. place \in WorkerPcs /\ place # "adding" /\ item'[w] = 0
    BY <1>0, <1>2 DEF WorkerPcs
  <2> QED
    BY <1>0, <1>2, <2>1, <2>2, <2>3, MovePInv
<1>3. CASE TestStart(w)
  BY <1>0, <1>2, <1>3 DEF TestStart
<1>4. CASE TaskDone(w)
  BY <1>0, <1>2, <1>4 DEF TaskDone
<1>5. CASE Leave(w)
  BY <1>0, <1>2, <1>5 DEF Leave
<1>6. CASE GetTask(w)
  <2>1. CASE GetWaits(w) /\ UNCHANGED pc
    BY <1>0, <1>6, <2>1, WaitPInv DEF GetTask, GetWaits, poolvars
  <2>2. ASSUME NEW place \in {"running", "leaving"}, Goto(w, place),
               QueueTypeOK', ~Waits(w),
               emptyWait' = emptyWait, fullWait' \subseteq fullWait
        PROVE  PInv'
    <3>1. /\ emptyWait' \subseteq emptyWait \ {w}
          /\ fullWait' \subseteq fullWait \ {w}
      BY <2>2 DEF Waits
    <3>2. place \in WorkerPcs /\ place # "adding" /\ item'[w] = 0
      BY <1>0, <1>6, <2>2 DEF WorkerPcs, GetTask
    <3> QED
      BY <1>0, <1>6, <2>2, <3>1, <3>2, MovePInv DEF GetTask
  <2>3. CASE GetTakes(w) /\ Goto(w, "running")
    BY <1>0, <2>2, <2>3, TakeType DEF GetTakes, FullLeft
  <2>4. CASE GetNothing(w) /\ Goto(w, "leaving")
    <3>1. QueueTypeOK'
      BY <1>0, <2>4 DEF GetNothing, bqvars, QueueTypeOK
    <3> QED
      BY <1>0, <2>2, <2>4, <3>1 DEF GetNothing, bqvars
  <2> QED
    BY <1>6, <2>1, <2>3, <2>4 DEF GetTask
<1> QED
  BY <1>1, <1>3, <1>4, <1>5, <1>6 DEF WorkerStep

\* A call of addTask by any thread.
LEMMA AddPInv ==
  ASSUME PInv, NEW t \in Threads, CallAdd(t) \/ AddTask(t) \/ Spurious(t)
  PROVE  PInv'
<1>0. /\ QueueTypeOK /\ item \in [Threads -> 0..MaxTasks] /\ added \in 0..MaxTasks
      /\ currentThreadNum \in Int
      /\ emptyWait \subseteq {v \in Workers : pc[v] = "getting"}
      /\ fullWait \subseteq {u \in Threads : pc[u] = "adding"}
      /\ pc[t] = "adding" <=> item[t] # 0
      /\ t \in Workers => t \notin Producers /\ pc[t] # "idle"
      /\ t \in Workers \/ t \in Producers
      /\ t \in Producers => pc[t] \in {"idle", "adding"}
  BY ThreadPoolAssumption DEF PInv, TypeOK, Threads
<1>1. CASE CallAdd(t)
  <2>1. QueueTypeOK'
    BY <1>0, <1>1 DEF CallAdd, QueueTypeOK, bqvars
  <2>2. added' \in 0..MaxTasks /\ added' # 0
    BY <1>0, <1>1, BlockQueueAssumption DEF CallAdd
  <2>3. /\ item' \in [Threads -> 0..MaxTasks]
        /\ item'[t] = added' /\ \A u \in Threads : u # t => item'[u] = item[u]
    BY <1>0, <1>1, <2>2 DEF CallAdd
  <2>4. /\ emptyWait' \subseteq emptyWait \ {t}
        /\ fullWait' \subseteq fullWait \ {t}
        /\ pc[t] \in {"idle", "running"} /\ Goto(t, "adding")
        /\ UNCHANGED <<ownerPc, at, latch, start_, currentThreadNum>>
    BY <1>0, <1>1 DEF CallAdd, bqvars
  <2>5. "adding" \in WorkerPcs
    BY DEF WorkerPcs
  <2> QED
    BY <1>0, <2>1, <2>2, <2>3, <2>4, <2>5, MovePInv
<1>2. CASE AddTask(t)
  <2>1. pc[t] = "adding" /\ item[t] \in Tasks
    BY <1>0, <1>2, BlockQueueAssumption DEF AddTask, Tasks
  <2>2. CASE AddWaits(t) /\ UNCHANGED <<pc, item>>
    BY <1>0, <1>2, <2>1, <2>2, WaitPInv DEF AddTask, AddWaits, poolvars
  <2>3. ASSUME AddPuts(t, item[t]) \/ AddDrops(t),
               Goto(t, IF t \in Workers THEN "running" ELSE "idle"),
               item' = [item EXCEPT ![t] = 0]
        PROVE  PInv'
    <3>1. QueueTypeOK'
      <4>1. CASE AddPuts(t, item[t])
        BY <1>0, <2>1, <4>1, PutType
      <4>2. CASE AddDrops(t)
        BY <1>0, <4>2 DEF AddDrops, bqvars, QueueTypeOK
      <4> QED
        BY <2>3, <4>1, <4>2
    <3>2. /\ emptyWait' \subseteq emptyWait \ {t}
          /\ fullWait' \subseteq fullWait \ {t}
      BY <2>3 DEF AddPuts, AddDrops, EmptyLeft, Waits, bqvars
    <3>3. /\ item' \in [Threads -> 0..MaxTasks] /\ item'[t] = 0
          /\ \A u \in Threads : u # t => item'[u] = item[u]
      BY <1>0, <2>3, BlockQueueAssumption
    <3>4. UNCHANGED <<ownerPc, at, added, latch, start_, currentThreadNum>>
      BY <1>2 DEF AddTask
    <3>5. CASE t \in Workers
      <4>1. Goto(t, "running") /\ "running" \in WorkerPcs
        BY <2>3, <3>5 DEF WorkerPcs
      <4> QED
        BY <1>0, <2>1, <3>1, <3>2, <3>3, <3>4, <3>5, <4>1, MovePInv
    <3>6. CASE t \notin Workers
      <4>1. Goto(t, "idle")
        BY <2>3, <3>6
      <4> QED
        BY <1>0, <2>1, <3>1, <3>2, <3>3, <3>4, <3>6, <4>1, MovePInv
    <3> QED
      BY <3>5, <3>6
  <2> QED
    BY <1>2, <2>2, <2>3 DEF AddTask
<1>3. CASE Spurious(t)
  BY <1>0, <1>3, WaitPInv DEF Spurious, WakesSpuriously
<1> QED
  BY <1>1, <1>2, <1>3

\* Every step keeps the invariant.
LEMMA NextPInv == ASSUME PInv, [Next]_tpvars PROVE PInv'
<1>1. CASE UNCHANGED tpvars
  BY <1>1 DEF tpvars, bqvars, poolvars, PInv, TypeOK, OwnerAt, QueueTypeOK
<1>2. CASE Next
  BY <1>2, OwnerPInv, WorkerPInv, AddPInv DEF Next
<1> QED
  BY <1>1, <1>2

\* The type invariant of the pool and its queue, with who waits for what, for
\* any number of workers, producers and tasks.
THEOREM PoolTypeCorrect == Spec => []TypeOK
<1>1. Spec => []PInv
  BY InitPInv, NextPInv, PTL DEF Spec
<1>2. PInv => TypeOK
  BY DEF PInv
<1> QED
  BY <1>1, <1>2, PTL

-----------------------------------------------------------------------------
(* Nobody waits in vain *)

\* Each step of the queue keeps it that who waits, waits for something: a step
\* that ends the reason of a wait ends the wait.
LEMMA QueueWaits ==
  ASSUME TypeOK, NobodyWaitsInVain, [Next]_tpvars PROVE NobodyWaitsInVain'
<1> USE DEF NobodyWaitsInVain, Full
<1>0. queue \in Seq(Tasks) /\ Len(queue) \in Nat /\ Len(queue) <= MaxSize
  <2>1. QueueTypeOK
    BY DEF TypeOK
  <2> QED
    BY <2>1 DEF QueueTypeOK
<1>1. CASE UNCHANGED bqvars
  BY <1>1 DEF bqvars
<1>2. ASSUME NEW t, GetWaits(t) PROVE NobodyWaitsInVain'
  BY <1>2 DEF GetWaits
<1>3. ASSUME NEW t, GetTakes(t) PROVE NobodyWaitsInVain'
  <2>1. emptyWait' = {}
    BY <1>3 DEF GetTakes
  <2>2. CASE fullWait' = {}
    BY <2>1, <2>2
  <2>3. CASE fullWait' # {}
    <3>1. ~(Len(queue) - 1 = MaxSize - 1) /\ fullWait # {}
      BY <1>3, <2>3 DEF GetTakes, FullLeft
    <3> QED
      \* nobody waits for room in a queue shorter than MaxSize
      BY <3>1, <1>0, BlockQueueAssumption
  <2> QED
    BY <2>2, <2>3
<1>4. ASSUME NEW t, AddWaits(t) PROVE NobodyWaitsInVain'
  BY <1>4, <1>0, BlockQueueAssumption DEF AddWaits
<1>5. ASSUME NEW t, NEW task \in Tasks, AddPuts(t, task) PROVE NobodyWaitsInVain'
  <2>1. emptyWait' = {}
    BY <1>5 DEF AddPuts, EmptyLeft
  <2>2. fullWait' = {}
    BY <1>5 DEF AddPuts
  <2> QED
    BY <2>1, <2>2
<1>6. CASE Stop
  BY <1>6 DEF Stop
<1>7. ASSUME NEW t, WakesSpuriously(t) PROVE NobodyWaitsInVain'
  BY <1>7 DEF WakesSpuriously
<1>8. CASE OwnerStep
  BY <1>1, <1>6, <1>8
     DEF OwnerStep, Start, Create, CreateFails, LatchWaits, LatchReturns, Counted,
         StartReturns, Destroy, ClearStart, StopQueue, JoinNext, DestroyReturns
<1>9. ASSUME NEW w \in Workers, WorkerStep(w) PROVE NobodyWaitsInVain'
  BY <1>1, <1>2, <1>3, <1>9
     DEF WorkerStep, CountDown, TestStart, GetTask, TaskDone, Leave, GetNothing
<1>10. ASSUME NEW t \in Threads, CallAdd(t) \/ AddTask(t) \/ Spurious(t)
       PROVE  NobodyWaitsInVain'
  <2>1. ASSUME AddTask(t) PROVE item[t] \in Tasks
    <3>1. item[t] \in 0..MaxTasks /\ item[t] # 0
      BY <2>1 DEF TypeOK, AddTask
    <3> QED
      BY <3>1, BlockQueueAssumption DEF Tasks
  <2> QED
    BY <1>1, <1>4, <1>5, <1>7, <1>10, <2>1
       DEF CallAdd, AddTask, Spurious, AddDrops
<1> QED
  BY <1>1, <1>8, <1>9, <1>10 DEF Next, tpvars

\* However many threads take and add tasks, and though the queue notifies at two
\* of its sizes only, no thread waits for a task or a place that is there.
THEOREM NobodySleepsOver == Spec => []NobodyWaitsInVain
<1>1. Init => NobodyWaitsInVain
  BY DEF Init, QueueInit, NobodyWaitsInVain
<1>2. TypeOK /\ NobodyWaitsInVain /\ [Next]_tpvars => NobodyWaitsInVain'
  BY QueueWaits
<1> QED
  BY <1>1, <1>2, PoolTypeCorrect, PTL DEF Spec

-----------------------------------------------------------------------------
(* Each task is taken at most once, in the order of the queue *)

Known == Order!Members(queue) \cup Order!Members(taken)

\* A task that is still being handed over has not been in the queue, and no two
\* threads hand over the same one.
Fresh ==
  /\ \A k \in Known : k <= added
  /\ \A t \in Threads : item[t] <= added
  /\ \A t \in Threads : item[t] # 0 => item[t] \notin Known
  /\ \A t, u \in Threads : item[t] # 0 /\ t # u => item[t] # item[u]

\* Append adds one member and keeps the others.
LEMMA MembersAppend ==
  ASSUME NEW S, NEW s \in Seq(S), NEW e \in S
  PROVE  Order!Members(Append(s, e)) = Order!Members(s) \cup {e}
<1> USE DEF Order!Members
<1>1. /\ Len(Append(s, e)) = Len(s) + 1
      /\ Append(s, e)[Len(s) + 1] = e
      /\ \A i \in 1..Len(s) : Append(s, e)[i] = s[i]
      /\ Len(s) \in Nat
  OBVIOUS
<1>2. 1..(Len(s) + 1) = (1..Len(s)) \cup {Len(s) + 1}
  BY <1>1
<1> QED
  BY <1>1, <1>2

\* The head and what is in the tail are members.
LEMMA MembersOfHeadTail ==
  ASSUME NEW S, NEW s \in Seq(S), s # <<>>
  PROVE  /\ Head(s) \in Order!Members(s)
         /\ Order!Members(Tail(s)) \subseteq Order!Members(s)
<1> USE DEF Order!Members
<1>1. 1 \in 1..Len(s) /\ Head(s) = s[1]
  OBVIOUS
<1>2. ASSUME NEW i \in 1..Len(Tail(s))
      PROVE  i + 1 \in 1..Len(s) /\ Tail(s)[i] = s[i + 1]
  OBVIOUS
<1> QED
  BY <1>1, <1>2

\* What is in a concatenation is in one of its parts.
LEMMA MembersConcat ==
  ASSUME NEW S, NEW s \in Seq(S), NEW r \in Seq(S)
  PROVE  Order!Members(s \o r) \subseteq Order!Members(s) \cup Order!Members(r)
<1> USE DEF Order!Members
<1> SUFFICES ASSUME NEW i \in 1..Len(s \o r)
             PROVE  \/ \E j \in 1..Len(s) : (s \o r)[i] = s[j]
                    \/ \E j \in 1..Len(r) : (s \o r)[i] = r[j]
  OBVIOUS
<1>1. CASE i <= Len(s)
  BY <1>1
<1>2. CASE i > Len(s)
  <2>1. i - Len(s) \in 1..Len(r)
    BY <1>2
  <2> QED
    BY <1>2, <2>1
<1> QED
  BY <1>1, <1>2

\* The steps that neither touch the queue nor hand anything over.
OrderQuiet == UNCHANGED <<queue, taken, item, added>>

\* What a step does to the queue and to the tasks being handed over.
LEMMA StepKinds ==
  ASSUME [Next]_tpvars
  PROVE  \/ OrderQuiet
         \/ \E w \in Workers : GetTakes(w) /\ UNCHANGED <<item, added>>
         \/ \E t \in Threads :
              /\ added < MaxTasks /\ added' = added + 1
              /\ item' = [item EXCEPT ![t] = added + 1]
              /\ UNCHANGED <<queue, taken>>
         \/ \E t \in Threads :
              /\ pc[t] = "adding"
              /\ AddPuts(t, item[t]) \/ AddDrops(t)
              /\ item' = [item EXCEPT ![t] = 0]
              /\ UNCHANGED added
<1> USE DEF OrderQuiet, bqvars
<1>1. CASE UNCHANGED tpvars
  BY <1>1 DEF tpvars, poolvars
<1>2. CASE OwnerStep
  BY <1>2
     DEF OwnerStep, Start, Create, CreateFails, LatchWaits, LatchReturns, Counted,
         StartReturns, Destroy, ClearStart, StopQueue, Stop, JoinNext,
         DestroyReturns
<1>3. ASSUME NEW w \in Workers, WorkerStep(w)
      PROVE  OrderQuiet \/ (GetTakes(w) /\ UNCHANGED <<item, added>>)
  BY <1>3
     DEF WorkerStep, CountDown, TestStart, GetTask, TaskDone, Leave, GetNothing,
         GetWaits
<1>4. ASSUME NEW t \in Threads, CallAdd(t)
      PROVE  /\ added < MaxTasks /\ added' = added + 1
             /\ item' = [item EXCEPT ![t] = added + 1]
             /\ UNCHANGED <<queue, taken>>
  BY <1>4 DEF CallAdd
<1>5. ASSUME NEW t \in Threads, AddTask(t)
      PROVE  \/ OrderQuiet
             \/ /\ pc[t] = "adding"
                /\ AddPuts(t, item[t]) \/ AddDrops(t)
                /\ item' = [item EXCEPT ![t] = 0]
                /\ UNCHANGED added
  BY <1>5 DEF AddTask, AddWaits
<1>6. ASSUME NEW t \in Threads, Spurious(t) PROVE OrderQuiet
  BY <1>6 DEF Spurious, WakesSpuriously, poolvars
<1> QED
  BY <1>1, <1>2, <1>3, <1>4, <1>5, <1>6 DEF Next

\* The numbers in play.
LEMMA TaskTypes ==
  ASSUME TypeOK
  PROVE  /\ queue \in Seq(Tasks) /\ taken \in Seq(Tasks)
         /\ item \in [Threads -> 0..MaxTasks] /\ added \in 0..MaxTasks
         /\ Known \subseteq Tasks
         /\ \A t \in Threads : pc[t] = "adding" => item[t] \in Tasks
<1>1. QueueTypeOK /\ item \in [Threads -> 0..MaxTasks] /\ added \in 0..MaxTasks
  BY DEF TypeOK
<1>2. queue \in Seq(Tasks) /\ taken \in Seq(Tasks)
  BY <1>1 DEF QueueTypeOK
<1>3. Known \subseteq Tasks
  BY <1>2 DEF Known, Order!Members
<1>4. \A t \in Threads : pc[t] = "adding" => item[t] # 0
  BY DEF TypeOK
<1> QED
  BY <1>1, <1>2, <1>3, <1>4, BlockQueueAssumption DEF Tasks

\* A step keeps new tasks new: only addTask() of the thread that hands one over
\* makes it known.
LEMMA NextFresh ==
  ASSUME TypeOK, Fresh, [Next]_tpvars PROVE Fresh'
<1>0. /\ queue \in Seq(Tasks) /\ taken \in Seq(Tasks)
      /\ item \in [Threads -> 0..MaxTasks] /\ added \in Nat
      /\ \A k \in Known : k \in Nat
      /\ \A t \in Threads : item[t] \in Nat
      /\ \A t \in Threads : pc[t] = "adding" => item[t] \in Tasks
  BY TaskTypes, BlockQueueAssumption DEF Tasks
<1>1. CASE OrderQuiet
  BY <1>1 DEF OrderQuiet, Fresh, Known
<1>2. ASSUME NEW w \in Workers, GetTakes(w), UNCHANGED <<item, added>>
      PROVE  Fresh'
  <2>1. /\ queue # <<>> /\ taken' = Append(taken, Head(queue))
        /\ queue' = Tail(queue)
    BY <1>2 DEF GetTakes
  <2>2. /\ Head(queue) \in Order!Members(queue)
        /\ Order!Members(queue') \subseteq Order!Members(queue)
    BY <1>0, <2>1, MembersOfHeadTail
  <2>3. Head(queue) \in Tasks
    BY <1>0, <2>1
  <2>4. Order!Members(taken') = Order!Members(taken) \cup {Head(queue)}
    BY <1>0, <2>1, <2>3, MembersAppend
  <2>5. Known' \subseteq Known
    BY <2>2, <2>4 DEF Known
  <2> QED
    BY <1>2, <2>5 DEF Fresh
<1>3. ASSUME NEW t \in Threads, added' = added + 1,
             item' = [item EXCEPT ![t] = added + 1], UNCHANGED <<queue, taken>>
      PROVE  Fresh'
  <2>1. Known' = Known
    BY <1>3 DEF Known
  <2>2. /\ item'[t] = added + 1
        /\ \A u \in Threads : u # t => item'[u] = item[u]
    BY <1>0, <1>3
  <2>3. /\ \A k \in Known : k <= added /\ k # added + 1
        /\ \A u \in Threads : item[u] <= added /\ item[u] # added + 1
    BY <1>0 DEF Fresh
  <2>4. \A k \in Known' : k <= added'
    BY <1>0, <1>3, <2>1, <2>3
  <2>5. \A u \in Threads : item'[u] <= added'
    BY <1>0, <1>3, <2>2, <2>3
  <2>6. \A u \in Threads : item'[u] # 0 => item'[u] \notin Known'
    BY <2>1, <2>2, <2>3 DEF Fresh
  <2>7. \A u, v \in Threads : item'[u] # 0 /\ u # v => item'[u] # item'[v]
    BY <2>2, <2>3 DEF Fresh
  <2> QED
    BY <2>4, <2>5, <2>6, <2>7 DEF Fresh
<1>4. ASSUME NEW t \in Threads, pc[t] = "adding",
             AddPuts(t, item[t]) \/ AddDrops(t),
             item' = [item EXCEPT ![t] = 0], UNCHANGED added
      PROVE  Fresh'
  <2>1. Known' \subseteq Known \cup {item[t]}
    <3>1. CASE AddPuts(t, item[t])
      <4>1. Order!Members(queue') = Order!Members(queue) \cup {item[t]}
        BY <1>0, <1>4, <3>1, MembersAppend DEF AddPuts
      <4> QED
        BY <3>1, <4>1 DEF AddPuts, Known
    <3>2. CASE AddDrops(t)
      BY <3>2 DEF AddDrops, bqvars, Known
    <3> QED
      BY <1>4, <3>1, <3>2
  <2>2. /\ item'[t] = 0 /\ item[t] # 0
        /\ \A u \in Threads : u # t => item'[u] = item[u]
    BY <1>0, <1>4, BlockQueueAssumption DEF Tasks
  <2>3. \A k \in Known' : k <= added'
    BY <1>4, <2>1 DEF Fresh
  <2>4. \A u \in Threads : item'[u] <= added'
    BY <1>0, <1>4, <2>2 DEF Fresh
  <2>5. \A u \in Threads : item'[u] # 0 => item'[u] \notin Known'
    BY <2>1, <2>2 DEF Fresh
  <2>6. \A u, v \in Threads : item'[u] # 0 /\ u # v => item'[u] # item'[v]
    BY <2>2 DEF Fresh
  <2> QED
    BY <2>3, <2>4, <2>5, <2>6 DEF Fresh
<1> QED
  BY <1>1, <1>2, <1>3, <1>4, StepKinds

\* Every step is a step of TaskQueue or a stutter of it.
LEMMA OrderStep ==
  ASSUME TypeOK, Fresh, [Next]_tpvars PROVE [Order!Next]_(Order!aqvars)
<1> USE DEF Order!Next, Order!aqvars
<1>0. /\ queue \in Seq(Tasks) /\ taken \in Seq(Tasks)
      /\ \A t \in Threads : pc[t] = "adding" => item[t] \in Tasks
  BY TaskTypes
<1>1. CASE UNCHANGED <<queue, taken>>
  BY <1>1
<1>2. ASSUME NEW w, GetTakes(w) PROVE Order!Run
  BY <1>2 DEF GetTakes, Order!Run
<1>3. ASSUME NEW t \in Threads, pc[t] = "adding", AddPuts(t, item[t])
      PROVE  Order!Submit(item[t]) /\ item[t] \in Tasks
  <2>1. item[t] \in Tasks /\ item[t] \notin Known
    BY <1>0, <1>3, BlockQueueAssumption DEF Fresh, Tasks
  <2>2. item[t] \notin Order!Members(queue \o taken)
    BY <1>0, <2>1, MembersConcat DEF Known
  <2>3. queue' = Append(queue, item[t]) /\ taken' = taken
    BY <1>3 DEF AddPuts
  <2> QED
    BY <2>1, <2>2, <2>3 DEF Order!Submit
<1>4. ASSUME NEW t, AddDrops(t) PROVE UNCHANGED <<queue, taken>>
  BY <1>4 DEF AddDrops, bqvars
<1> QED
  BY <1>1, <1>2, <1>3, <1>4, StepKinds DEF OrderQuiet

\* The pool's queue implements TaskQueue: however many threads add and take, each
\* task is taken at most once, in the order in which addTask() let them in.
THEOREM PoolKeepsOrder == Spec => TakenInOrder
<1>1. Init => Fresh /\ Order!Init
  <2> SUFFICES ASSUME Init PROVE Fresh /\ Order!Init
    OBVIOUS
  <2>1. /\ queue = <<>> /\ taken = <<>> /\ added = 0
        /\ \A t \in Threads : item[t] = 0
    BY DEF Init, QueueInit
  <2>2. Known = {}
    BY <2>1 DEF Known, Order!Members
  <2> QED
    BY <2>1, <2>2 DEF Fresh, Order!Init
<1>2. TypeOK /\ Fresh /\ [Next]_tpvars => Fresh'
  BY NextFresh
<1>3. TypeOK /\ Fresh /\ [Next]_tpvars => [Order!Next]_(Order!aqvars)
  BY OrderStep
<1> QED
  BY <1>1, <1>2, <1>3, PoolTypeCorrect, PTL DEF Spec, TakenInOrder, Order!Spec

-----------------------------------------------------------------------------
(* What the destructor leaves behind *)

\* currentThreadNum counts the workers that start() has been through less those
\* that have left work(); the destructor has joined the ones before its own.
Ended == {w \in Workers : pc[w] = "ended"}
Unstarted == \A w \in Workers : pc[w] = "none"
Ending == ownerPc \in {"clearing", "stopping"}
Accounted ==
  /\ ownerPc = "new" \/ (Ending /\ at = 0) => currentThreadNum = 0
  /\ ownerPc \in Starting => currentThreadNum = (at - 1) - Cardinality(Ended)
  /\ ownerPc = "using" => at # 0
  /\ ownerPc = "using" \/ (Ending /\ at # 0)
       => currentThreadNum = NumWorkers - Cardinality(Ended)
  /\ ownerPc \in {"joining", "destroyed"}
       => \/ Unstarted /\ currentThreadNum = 0
          \/ /\ \A w \in Workers : w < at => pc[w] = "ended"
             /\ currentThreadNum = NumWorkers - Cardinality(Ended)
  /\ ownerPc = "destroyed" => at > NumWorkers

\* The workers that have ended can be counted.
LEMMA EndedFinite ==
  /\ IsFiniteSet(Workers) /\ Cardinality(Workers) = NumWorkers
  /\ IsFiniteSet(Ended) /\ Cardinality(Ended) \in Nat
<1>1. IsFiniteSet(Workers) /\ Cardinality(Workers) = NumWorkers
  <2>1. NumWorkers \in Int /\ NumWorkers >= 0
    BY ThreadPoolAssumption
  <2>2. IsFiniteSet(1..NumWorkers)
         /\ Cardinality(1..NumWorkers)
              = IF 1 > NumWorkers THEN 0 ELSE NumWorkers - 1 + 1
    BY <2>1, FS_Interval
  <2> QED
    BY <2>1, <2>2 DEF Workers
<1>2. Ended \subseteq Workers
  BY DEF Ended
<1>3. IsFiniteSet(Ended)
  BY <1>1, <1>2, FS_Subset
<1>4. Cardinality(Ended) \in Nat
  BY <1>3, FS_CardinalityType
<1> QED
  BY <1>1, <1>3, <1>4

\* A thread's step that is no worker's end changes neither the workers that have
\* ended nor the count.
LEMMA ThreadSteps ==
  ASSUME PInv, NEW t \in Threads,
         \/ t \in Workers /\ WorkerStep(t)
         \/ CallAdd(t) \/ AddTask(t) \/ Spurious(t)
  PROVE  /\ at' = at
         /\ ownerPc' = ownerPc \/ (ownerPc = "latch sleep" /\ ownerPc' = "latch")
         /\ \/ Ended' = Ended /\ currentThreadNum' = currentThreadNum
            \/ /\ t \in Workers /\ pc[t] = "leaving" /\ Ended' = Ended \cup {t}
               /\ currentThreadNum' = currentThreadNum - 1
         /\ \A w \in Workers : pc[w] = "ended" => pc'[w] = "ended"
         /\ Unstarted => Unstarted'
<1>0. pc \in [Threads -> WorkerPcs \cup {"idle"}]
  BY DEF PInv, TypeOK
<1>1. CASE UNCHANGED <<pc, at, ownerPc, currentThreadNum>>
  BY <1>1 DEF Ended, Unstarted
<1>2. ASSUME NEW place, Goto(t, place), pc[t] \notin {"none", "ended"},
             place \notin {"none", "ended"}, at' = at,
             currentThreadNum' = currentThreadNum,
             ownerPc' = ownerPc \/ (ownerPc = "latch sleep" /\ ownerPc' = "latch")
      PROVE  /\ Ended' = Ended /\ (Unstarted => Unstarted')
             /\ \A w \in Workers : pc[w] = "ended" => pc'[w] = "ended"
  <2>1. /\ pc'[t] = place /\ \A u \in Threads : u # t => pc'[u] = pc[u]
    BY <1>0, <1>2 DEF Goto
  <2>2. \A w \in Workers : /\ pc'[w] = "ended" <=> pc[w] = "ended"
                           /\ pc[w] = "none" => pc'[w] = "none"
    BY <1>2, <2>1, WorkerNumbers
  <2> QED
    BY <2>2 DEF Ended, Unstarted
<1>3. CASE t \in Workers /\ CountDown(t)
  BY <1>2, <1>3 DEF CountDown, NotifyOwner
<1>4. CASE t \in Workers /\ TestStart(t)
  BY <1>2, <1>4 DEF TestStart
<1>5. CASE t \in Workers /\ GetTask(t)
  BY <1>1, <1>2, <1>5 DEF GetTask
<1>6. CASE t \in Workers /\ TaskDone(t)
  BY <1>2, <1>6 DEF TaskDone
<1>7. CASE t \in Workers /\ Leave(t)
  <2>1. /\ pc[t] = "leaving" /\ pc'[t] = "ended"
        /\ \A u \in Threads : u # t => pc'[u] = pc[u]
        /\ at' = at /\ ownerPc' = ownerPc /\ currentThreadNum' = currentThreadNum - 1
    BY <1>0, <1>7 DEF Leave, Goto
  <2>2. Ended' = Ended \cup {t}
    BY <1>7, <2>1, WorkerNumbers DEF Ended
  <2>3. \A w \in Workers : pc[w] = "ended" => pc'[w] = "ended"
    BY <2>1, WorkerNumbers
  <2>4. ~Unstarted
    BY <1>7, <2>1 DEF Unstarted
  <2> QED
    BY <1>7, <2>1, <2>2, <2>3, <2>4
<1>8. CASE CallAdd(t)
  BY <1>2, <1>8 DEF CallAdd
<1>9. CASE AddTask(t)
  <2>1. CASE AddWaits(t) /\ UNCHANGED <<pc, item>>
    BY <1>1, <1>9, <2>1 DEF AddTask
  <2>2. CASE Goto(t, IF t \in Workers THEN "running" ELSE "idle")
    BY <1>2, <1>9, <2>2 DEF AddTask
  <2> QED
    BY <1>9, <2>1, <2>2 DEF AddTask
<1>10. CASE Spurious(t)
  BY <1>1, <1>10 DEF Spurious, poolvars
<1> QED
  BY <1>3, <1>4, <1>5, <1>6, <1>7, <1>8, <1>9, <1>10 DEF WorkerStep

\* The count stays right when a thread steps.
LEMMA ThreadAccounted ==
  ASSUME PInv, Accounted, NEW t \in Threads,
         \/ t \in Workers /\ WorkerStep(t)
         \/ CallAdd(t) \/ AddTask(t) \/ Spurious(t)
  PROVE  Accounted'
<1>0. /\ currentThreadNum \in Int /\ at \in Int /\ NumWorkers \in Int
      /\ at = 0 => Unstarted
      /\ Ending' <=> Ending
      /\ ownerPc' \in Starting <=> ownerPc \in Starting
      /\ ownerPc = "new" => at = 0
      /\ \A s \in {"new", "using", "joining", "destroyed"} :
           ownerPc' = s <=> ownerPc = s
  <2>1. at \in 0..(NumWorkers + 1) /\ currentThreadNum \in Int
    BY DEF PInv, TypeOK
  <2>2. at \in Int /\ NumWorkers \in Int
    BY <2>1, ThreadPoolAssumption
  <2>3. (at = 0 => Unstarted) /\ (ownerPc = "new" => at = 0)
    BY DEF PInv, OwnerAt, Unstarted
  <2>4. ownerPc' = ownerPc \/ (ownerPc = "latch sleep" /\ ownerPc' = "latch")
    BY ThreadSteps
  <2>5. /\ Ending' <=> Ending
        /\ ownerPc' \in Starting <=> ownerPc \in Starting
        /\ \A s \in {"new", "using", "joining", "destroyed"} :
             ownerPc' = s <=> ownerPc = s
    BY <2>4 DEF Ending, Starting
  <2> QED
    BY <2>1, <2>2, <2>3, <2>5
<1>1. CASE Ended' = Ended /\ currentThreadNum' = currentThreadNum
  <2>1. Cardinality(Ended') = Cardinality(Ended)
    BY <1>1
  <2> QED
    BY <1>0, <1>1, <2>1, ThreadSteps DEF Accounted
<1>2. CASE /\ t \in Workers /\ pc[t] = "leaving" /\ Ended' = Ended \cup {t}
           /\ currentThreadNum' = currentThreadNum - 1
  <2>1. t \notin Ended /\ ~Unstarted
    BY <1>2 DEF Ended, Unstarted
  <2>2. /\ Cardinality(Ended') = Cardinality(Ended) + 1 /\ Cardinality(Ended) \in Int
    <3>1. IsFiniteSet(Ended) /\ Cardinality(Ended) \in Int
      BY EndedFinite
    <3>2. Cardinality(Ended \cup {t}) = Cardinality(Ended) + 1
      BY <2>1, <3>1, FS_AddElement
    <3> QED
      BY <1>2, <3>1, <3>2
  <2>3. at # 0 /\ at' = at /\ ownerPc # "new"
    BY <1>0, <2>1, ThreadSteps
  <2>4. /\ (at - 1) - Cardinality(Ended') = ((at - 1) - Cardinality(Ended)) - 1
        /\ NumWorkers - Cardinality(Ended') = (NumWorkers - Cardinality(Ended)) - 1
    BY <1>0, <2>2
  <2>5. \A w \in Workers : pc[w] = "ended" => pc'[w] = "ended"
    BY ThreadSteps
  <2> QED
    BY <1>0, <1>2, <2>1, <2>3, <2>4, <2>5 DEF Accounted
<1> QED
  BY <1>1, <1>2, ThreadSteps

\* The count stays right when the owner steps.
LEMMA OwnerAccounted ==
  ASSUME PInv, Accounted, OwnerStep PROVE Accounted'
<1>0. /\ currentThreadNum \in Int /\ at \in Int /\ NumWorkers \in Nat
      /\ at <= NumWorkers + 1 /\ at >= 0
      /\ Cardinality(Ended) \in Nat
      /\ at = 0 => Unstarted
      /\ ownerPc = "new" => at = 0
      /\ ownerPc \in Starting => at >= 1
      /\ pc \in [Threads -> WorkerPcs \cup {"idle"}]
      /\ ownerPc = "creating" => \A w \in Workers : w >= at => pc[w] = "none"
  <2>1. at \in 0..(NumWorkers + 1)
    BY DEF PInv, TypeOK
  <2>2. at \in Int /\ NumWorkers \in Nat /\ at <= NumWorkers + 1 /\ at >= 0
    BY <2>1, ThreadPoolAssumption
  <2>3. currentThreadNum \in Int /\ pc \in [Threads -> WorkerPcs \cup {"idle"}]
    BY DEF PInv, TypeOK
  <2>4. /\ at = 0 => Unstarted
        /\ ownerPc = "new" => at = 0
        /\ ownerPc \in Starting => at >= 1
        /\ ownerPc = "creating" => \A w \in Workers : w >= at => pc[w] = "none"
    BY DEF PInv, OwnerAt, Unstarted
  <2> QED
    BY <2>2, <2>3, <2>4, EndedFinite
<1>1. Unstarted => Cardinality(Ended) = 0
  <2>1. Unstarted => Ended = {}
    BY DEF Unstarted, Ended
  <2> QED
    BY <2>1, FS_EmptySet
<1>2. ASSUME pc' = pc
      PROVE  /\ Ended' = Ended /\ Cardinality(Ended') = Cardinality(Ended)
             /\ Unstarted' = Unstarted
  BY <1>2 DEF Ended, Unstarted
<1> USE DEF Accounted, Starting, Ending
<1>3. CASE Start
  BY <1>0, <1>1, <1>2, <1>3 DEF Start
<1>4. ASSUME NEW place \in {"created", "failed"}, Goto(at, place),
             ownerPc = "creating", at <= NumWorkers,
             ownerPc' \in {"latch", "counting"}, UNCHANGED <<at, currentThreadNum>>
      PROVE  Accounted'
  <2>1. at \in Workers /\ at \in Threads /\ pc[at] = "none"
    BY <1>0, <1>4, WorkerNumbers
  <2>2. pc'[at] = place /\ \A u \in Threads : u # at => pc'[u] = pc[u]
    BY <1>0, <1>4, <2>1 DEF Goto
  <2>3. Ended' = Ended
    BY <2>1, <2>2, WorkerNumbers DEF Ended
  <2>4. Cardinality(Ended') = Cardinality(Ended)
    BY <2>3
  <2> QED
    BY <1>4, <2>4
<1>5. CASE Create
  BY <1>4, <1>5 DEF Create
<1>6. CASE CreateFails
  BY <1>4, <1>6 DEF CreateFails
<1>7. CASE LatchWaits \/ LatchReturns
  BY <1>2, <1>7 DEF LatchWaits, LatchReturns
<1>8. CASE Counted
  BY <1>0, <1>2, <1>8 DEF Counted
<1>9. CASE StartReturns
  BY <1>0, <1>2, <1>9 DEF StartReturns
<1>10. CASE Destroy
  BY <1>0, <1>2, <1>10 DEF Destroy
<1>11. CASE ClearStart
  BY <1>2, <1>11 DEF ClearStart
<1>12. CASE StopQueue
  BY <1>0, <1>2, <1>12, WorkerNumbers DEF StopQueue
<1>13. CASE JoinNext
  <2>1. at \in Workers /\ ~Unstarted
    BY <1>0, <1>13, WorkerNumbers DEF JoinNext, Accounted, Unstarted, PInv, OwnerAt
  <2>2. /\ \A w \in Workers : w < at => pc[w] = "ended"
        /\ currentThreadNum = NumWorkers - Cardinality(Ended)
    BY <1>13, <2>1 DEF JoinNext
  <2>3. CASE pc[at] = "ended" /\ at' = at + 1 /\ ownerPc' = ownerPc
    <3>1. \A w \in Workers : w < at' => pc'[w] = "ended"
      BY <1>0, <1>13, <2>2, <2>3, WorkerNumbers DEF JoinNext
    <3> QED
      BY <1>2, <1>13, <2>2, <2>3, <3>1 DEF JoinNext
  <2>4. CASE ownerPc' = "aborted"
    BY <2>4
  <2> QED
    BY <1>13, <2>3, <2>4 DEF JoinNext
<1>14. CASE DestroyReturns
  BY <1>2, <1>14 DEF DestroyReturns, AllJoined
<1> QED
  BY <1>3, <1>5, <1>6, <1>7, <1>8, <1>9, <1>10, <1>11, <1>12, <1>13, <1>14
     DEF OwnerStep

\* A destructor that has returned has outlived every worker, and none of them is
\* counted any more, for any number of workers and whatever tasks they ran.
THEOREM DestructorLeavesNothing == Spec => []DestroyedIsClean
<1>1. Init => Accounted
  BY DEF Init, Accounted, Ending, Starting
<1>2. PInv /\ Accounted /\ [Next]_tpvars => Accounted'
  <2> SUFFICES ASSUME PInv, Accounted, [Next]_tpvars PROVE Accounted'
    OBVIOUS
  <2>1. CASE UNCHANGED tpvars
    BY <2>1 DEF tpvars, poolvars, Accounted, Ended, Unstarted, Ending
  <2>2. CASE OwnerStep
    BY <2>2, OwnerAccounted
  <2>3. ASSUME NEW w \in Workers, WorkerStep(w) PROVE Accounted'
    BY <2>3, ThreadAccounted, WorkerNumbers
  <2>4. ASSUME NEW t \in Threads, CallAdd(t) \/ AddTask(t) \/ Spurious(t)
        PROVE  Accounted'
    BY <2>4, ThreadAccounted
  <2> QED
    BY <2>1, <2>2, <2>3, <2>4 DEF Next
<1>3. PInv /\ Accounted => DestroyedIsClean
  <2> SUFFICES ASSUME PInv, Accounted, ownerPc = "destroyed"
               PROVE  /\ \A w \in Workers : pc[w] \in {"none", "ended"}
                      /\ currentThreadNum = 0
    BY DEF DestroyedIsClean
  <2>1. CASE Unstarted /\ currentThreadNum = 0
    BY <2>1 DEF Unstarted
  <2>2. CASE /\ \A w \in Workers : w < at => pc[w] = "ended"
             /\ currentThreadNum = NumWorkers - Cardinality(Ended)
    <3>1. at \in Int /\ at > NumWorkers /\ NumWorkers \in Int
      BY ThreadPoolAssumption DEF PInv, TypeOK, Accounted
    <3>2. \A w \in Workers : pc[w] = "ended"
      BY <2>2, <3>1, WorkerNumbers
    <3>3. Ended = Workers
      BY <3>2 DEF Ended
    <3>4. currentThreadNum = 0
      BY <2>2, <3>1, <3>3, EndedFinite
    <3> QED
      BY <3>2, <3>4
  <2> QED
    BY <2>1, <2>2 DEF Accounted
<1> QED
  BY <1>1, <1>2, <1>3, InitPInv, NextPInv, PTL DEF Spec
===============================================================================
