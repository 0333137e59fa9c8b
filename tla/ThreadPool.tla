------------------------------ MODULE ThreadPool ------------------------------
(***************************************************************************)
(* A ThreadPool from its constructor to its destructor                     *)
(* (src/base/ThreadPool.cc): workers that run tasks of a BlockQueue,       *)
(* producers that add them, tasks that add tasks themselves, and the owner *)
(* in start() and in the destructor.  Starting a worker is Thread::start() *)
(* with its CountDownLatch (src/base/Thread.cc, CountDownLatch.cc).        *)
(***************************************************************************)
EXTENDS BlockQueue, FiniteSets

CONSTANTS
  NumWorkers,  \* threadMaxSize_
  Producers    \* threads that call addTask, not the pool's

Workers == 1..NumWorkers
Threads == Workers \cup Producers

ASSUME ThreadPoolAssumption ==
  /\ NumWorkers \in Nat
  /\ Producers \cap Workers = {}

VARIABLES
  ownerPc,           \* where the owner is in start() or the destructor
  at,                \* the worker it is at there
  pc,                \* where each worker and producer is
  item,              \* the task a thread hands to addTask, 0 outside
  added,             \* how many tasks were handed to addTask
  latch,             \* count_ of each worker's latch_
  start_,            \* start_
  currentThreadNum   \* currentThreadNum

poolvars == <<ownerPc, at, pc, item, added, latch, start_, currentThreadNum>>
tpvars == <<bqvars, poolvars>>

Init ==
  /\ QueueInit
  /\ ownerPc = "new"
  /\ at = 0
  /\ pc = [t \in Threads |-> IF t \in Workers THEN "none" ELSE "idle"]
  /\ item = [t \in Threads |-> 0]
  /\ added = 0
  /\ latch = [w \in Workers |-> 1]
  /\ start_ = FALSE
  /\ currentThreadNum = 0

Goto(t, place) == pc' = [pc EXCEPT ![t] = place]

-----------------------------------------------------------------------------
(* start() *)

\* start_ = true
Start ==
  /\ ownerPc = "new"
  /\ start_' = TRUE
  /\ ownerPc' = "creating"
  /\ at' = 1
  /\ UNCHANGED <<bqvars, pc, item, added, latch, currentThreadNum>>

\* Thread::start(): pthread_create, then latch_.wait() is called
Create ==
  /\ ownerPc = "creating"
  /\ at <= NumWorkers
  /\ Goto(at, "created")
  /\ ownerPc' = "latch"
  /\ UNCHANGED <<bqvars, at, item, added, latch, start_, currentThreadNum>>

\* pthread_create fails: started_ = false, and start() goes on all the same
CreateFails ==
  /\ ownerPc = "creating"
  /\ at <= NumWorkers
  /\ Goto(at, "failed")
  /\ ownerPc' = "counting"
  /\ UNCHANGED <<bqvars, at, item, added, latch, start_, currentThreadNum>>

\* while(count_ > 0) cond_.wait()
LatchWaits ==
  /\ ownerPc = "latch"
  /\ latch[at] > 0
  /\ ownerPc' = "latch sleep"
  /\ UNCHANGED <<bqvars, at, pc, item, added, latch, start_, currentThreadNum>>

LatchReturns ==
  /\ ownerPc = "latch"
  /\ latch[at] = 0
  /\ ownerPc' = "counting"
  /\ UNCHANGED <<bqvars, at, pc, item, added, latch, start_, currentThreadNum>>

\* ++currentThreadNum, next worker
Counted ==
  /\ ownerPc = "counting"
  /\ currentThreadNum' = currentThreadNum + 1
  /\ at' = at + 1
  /\ ownerPc' = "creating"
  /\ UNCHANGED <<bqvars, pc, item, added, latch, start_>>

StartReturns ==
  /\ ownerPc = "creating"
  /\ at > NumWorkers
  /\ ownerPc' = "using"
  /\ UNCHANGED <<bqvars, at, pc, item, added, latch, start_, currentThreadNum>>

-----------------------------------------------------------------------------
(* A worker *)

\* countDown() notifies at zero.  Fault: it does not.
NotifyNobody(w) == ownerPc
NotifyOwner(w) ==
  IF ownerPc = "latch sleep" /\ at = w /\ latch'[w] = 0 THEN "latch" ELSE ownerPc

\* runInThread(): tid, latch_->countDown(), then work()
CountDown(w) ==
  /\ pc[w] = "created"
  /\ latch' = [latch EXCEPT ![w] = @ - 1]
  /\ ownerPc' = NotifyOwner(w)
  /\ Goto(w, "test")
  /\ UNCHANGED <<bqvars, at, item, added, start_, currentThreadNum>>

\* while(start_)
TestStart(w) ==
  /\ pc[w] = "test"
  /\ Goto(w, IF start_ THEN "getting" ELSE "leaving")
  /\ UNCHANGED <<bqvars, ownerPc, at, item, added, latch, start_,
                 currentThreadNum>>

\* task = getTask(); if(!task) break;
GetTask(w) ==
  /\ pc[w] = "getting"
  /\ \/ GetWaits(w) /\ UNCHANGED pc
     \/ GetTakes(w) /\ Goto(w, "running")
     \/ GetNothing(w) /\ Goto(w, "leaving")
  /\ UNCHANGED <<ownerPc, at, item, added, latch, start_, currentThreadNum>>

\* task() returns
TaskDone(w) ==
  /\ pc[w] = "running"
  /\ Goto(w, "test")
  /\ UNCHANGED <<bqvars, ownerPc, at, item, added, latch, start_,
                 currentThreadNum>>

\* --currentThreadNum, at the end of work()
Leave(w) ==
  /\ pc[w] = "leaving"
  /\ Goto(w, "ended")
  /\ currentThreadNum' = currentThreadNum - 1
  /\ UNCHANGED <<bqvars, ownerPc, at, item, added, latch, start_>>

-----------------------------------------------------------------------------
(* addTask, by a producer or by a task that a worker runs *)

destroying == ownerPc \in {"clearing", "stopping", "joining", "destroyed", "aborted"}

\* Producers begin no call once the destructor runs; one that waits may still
\* be in a call.
CallAdd(t) ==
  /\ added < MaxTasks
  /\ \/ pc[t] = "idle" /\ ~destroying
     \/ pc[t] = "running"
  /\ added' = added + 1
  /\ item' = [item EXCEPT ![t] = added + 1]
  /\ Goto(t, "adding")
  /\ UNCHANGED <<bqvars, ownerPc, at, latch, start_, currentThreadNum>>

AddTask(t) ==
  /\ pc[t] = "adding"
  /\ \/ AddWaits(t) /\ UNCHANGED <<pc, item>>
     \/ /\ AddPuts(t, item[t]) \/ AddDrops(t)
        /\ Goto(t, IF t \in Workers THEN "running" ELSE "idle")
        /\ item' = [item EXCEPT ![t] = 0]
  /\ UNCHANGED <<ownerPc, at, added, latch, start_, currentThreadNum>>

Spurious(t) == WakesSpuriously(t) /\ UNCHANGED poolvars

-----------------------------------------------------------------------------
(* The destructor *)

Destroy ==
  /\ ownerPc \in {"new", "using"}
  /\ ownerPc' = "clearing"
  /\ UNCHANGED <<bqvars, at, pc, item, added, latch, start_, currentThreadNum>>

\* start_ = false
ClearStart ==
  /\ ownerPc = "clearing"
  /\ start_' = FALSE
  /\ ownerPc' = "stopping"
  /\ UNCHANGED <<bqvars, at, pc, item, added, latch, currentThreadNum>>

\* taskQueuePtr_->stop()
StopQueue ==
  /\ ownerPc = "stopping"
  /\ Stop
  /\ ownerPc' = "joining"
  /\ at' = IF at = 0 THEN NumWorkers + 1 ELSE 1
  /\ UNCHANGED <<pc, item, added, latch, start_, currentThreadNum>>

\* join() of the next thread; its assertion that the thread was started fails
\* for one that could not be created
JoinNext ==
  /\ ownerPc = "joining"
  /\ at <= NumWorkers
  /\ \/ pc[at] = "ended" /\ at' = at + 1 /\ UNCHANGED ownerPc
     \/ pc[at] = "failed" /\ ownerPc' = "aborted" /\ UNCHANGED at
  /\ UNCHANGED <<bqvars, pc, item, added, latch, start_, currentThreadNum>>

\* for(auto& it : threads_) is over.  Fault: one thread too early.
AllButOneJoined == at >= NumWorkers
AllJoined == at > NumWorkers

\* the members are destroyed, ~BlockQueue() with another stop(); that no
\* producer is inside addTask any more is the callers' side of the contract
DestroyReturns ==
  /\ ownerPc = "joining"
  /\ AllJoined
  /\ \A p \in Producers : pc[p] = "idle"
  /\ Stop
  /\ ownerPc' = "destroyed"
  /\ UNCHANGED <<at, pc, item, added, latch, start_, currentThreadNum>>

OwnerStep ==
  \/ Start \/ Create \/ CreateFails \/ LatchWaits \/ LatchReturns \/ Counted
  \/ StartReturns
  \/ Destroy \/ ClearStart \/ StopQueue \/ JoinNext \/ DestroyReturns

WorkerStep(w) ==
  CountDown(w) \/ TestStart(w) \/ GetTask(w) \/ TaskDone(w) \/ Leave(w)

Next ==
  \/ OwnerStep
  \/ \E w \in Workers : WorkerStep(w)
  \/ \E t \in Threads : CallAdd(t) \/ AddTask(t) \/ Spurious(t)

Spec == Init /\ [][Next]_tpvars

\* Every thread that is inside a call of the library or runs a task goes on,
\* unless it waits; the owner need not destroy the pool, nobody need add tasks,
\* nobody is woken without a notify.
FairSpec ==
  /\ Spec
  /\ WF_tpvars(Create \/ CreateFails) /\ WF_tpvars(Counted)
  /\ WF_tpvars(LatchWaits \/ LatchReturns) /\ WF_tpvars(StartReturns)
  /\ WF_tpvars(ClearStart) /\ WF_tpvars(StopQueue)
  /\ WF_tpvars(JoinNext) /\ WF_tpvars(DestroyReturns)
  /\ \A w \in Workers :
       /\ WF_tpvars(CountDown(w)) /\ WF_tpvars(TestStart(w))
       /\ WF_tpvars(GetTask(w)) /\ WF_tpvars(TaskDone(w)) /\ WF_tpvars(Leave(w))
  /\ \A t \in Threads : WF_tpvars(AddTask(t))

-----------------------------------------------------------------------------
(* Properties *)

WorkerPcs == {"none", "created", "failed", "test", "getting", "running", "adding",
              "leaving", "ended"}

\* Types, and who can be waiting for what.
TypeOK ==
  /\ QueueTypeOK
  /\ ownerPc \in {"new", "creating", "latch", "latch sleep", "counting", "using",
                  "clearing", "stopping", "joining", "destroyed", "aborted"}
  /\ at \in 0..(NumWorkers + 1)
  /\ pc \in [Threads -> WorkerPcs \cup {"idle"}]
  /\ item \in [Threads -> 0..MaxTasks]
  /\ added \in 0..MaxTasks
  /\ latch \in [Workers -> {0, 1}]
  /\ start_ \in BOOLEAN
  /\ currentThreadNum \in Int
  /\ emptyWait \subseteq {w \in Workers : pc[w] = "getting"}
  /\ fullWait \subseteq {t \in Threads : pc[t] = "adding"}
  /\ \A w \in Workers : pc[w] # "idle"
  /\ \A p \in Producers : pc[p] \in {"idle", "adding"}
  /\ \A t \in Threads : pc[t] = "adding" <=> item[t] # 0

\* A pool whose destructor has returned has no worker that could still use its
\* queue, and getCurrentNum() counts none of its threads.
DestroyedIsClean ==
  ownerPc = "destroyed"
    => /\ \A w \in Workers : pc[w] \in {"none", "ended"}
       /\ currentThreadNum = 0

\* start() returns: no worker's latch is missed.
StartIsOver == (ownerPc = "latch") ~> (ownerPc = "using")

\* The destructor returns, though workers wait for tasks, tasks wait for room
\* in the queue, and producers do; only a thread that could not be created
\* makes join() fail.
DestructorIsOver == (ownerPc = "clearing") ~> (ownerPc \in {"destroyed", "aborted"})

\* A task in the queue of a started pool is taken, unless the destructor comes
\* first, no worker could be created, or every worker runs a task that itself
\* waits for room in the queue.
Stuck == \A w \in Workers : pc[w] = "failed" \/ w \in fullWait
TaskIsTaken ==
  \A t \in Tasks :
    (start_ /\ t \in Order!Members(queue))
      ~> (t \in Order!Members(taken) \/ ~start_ \/ Stuck)
===============================================================================
