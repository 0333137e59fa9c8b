------------------------------ MODULE BlockQueue ------------------------------
(***************************************************************************)
(* The bounded queue of tasks with its two conditions                      *)
(* (src/base/BlockQueue.cc).  A step is what one thread does between       *)
(* getting mutex_ and giving it up, by return or by a wait.  A thread that *)
(* waits is in a set and is out of it again once it was notified; it then  *)
(* gets the mutex and looks at the condition anew.  What the threads do    *)
(* between their calls is the module's that uses the queue.                *)
(***************************************************************************)
EXTENDS Integers, Sequences

CONSTANTS
  MaxSize,   \* maxSize_
  MaxTasks   \* bound: tasks ever handed to addTask

ASSUME BlockQueueAssumption == MaxSize \in Nat /\ MaxTasks \in Nat

VARIABLES
  queue,      \* taskQueue
  stopped,    \* stopped_
  emptyWait,  \* threads in emptyCond_.wait()
  fullWait,   \* threads in fullCond_.wait()
  taken       \* history: what getTask returned, in order

bqvars == <<queue, stopped, emptyWait, fullWait, taken>>

Tasks == 1..MaxTasks

QueueInit ==
  /\ queue = <<>>
  /\ stopped = FALSE
  /\ emptyWait = {}
  /\ fullWait = {}
  /\ taken = <<>>

Waits(t) == t \in emptyWait \cup fullWait

-----------------------------------------------------------------------------
(* getTask() *)

\* while(isEmpty() && !stopped_) emptyCond_.wait()
GetWaits(t) ==
  /\ ~Waits(t)
  /\ queue = <<>> /\ ~stopped
  /\ emptyWait' = emptyWait \cup {t}
  /\ UNCHANGED <<queue, stopped, fullWait, taken>>

\* return Task()
GetNothing(t) ==
  /\ ~Waits(t)
  /\ queue = <<>> /\ stopped
  /\ UNCHANGED bqvars

\* Who is left in fullCond_.wait() when a task was taken from a queue of this
\* length: the notifyAll is for the first free place only.  Fault: off by one.
FullLeftLate(size) == IF size - 1 = MaxSize THEN {} ELSE fullWait
FullLeft(size) == IF size - 1 = MaxSize - 1 THEN {} ELSE fullWait

\* Fault: the newest task is taken.
GetNewest(t) ==
  /\ ~Waits(t)
  /\ queue # <<>>
  /\ taken' = Append(taken, queue[Len(queue)])
  /\ queue' = SubSeq(queue, 1, Len(queue) - 1)
  /\ fullWait' = FullLeft(Len(queue))
  /\ UNCHANGED <<stopped, emptyWait>>

\* return taskQueue.front(), also when stopped
GetTakes(t) ==
  /\ ~Waits(t)
  /\ queue # <<>>
  /\ taken' = Append(taken, Head(queue))
  /\ queue' = Tail(queue)
  /\ fullWait' = FullLeft(Len(queue))
  /\ UNCHANGED <<stopped, emptyWait>>

-----------------------------------------------------------------------------
(* addTask(), stop() *)

\* taskQueue.size() >= maxSize_.  Fault: one task too late.
FullLate == Len(queue) > MaxSize
Full == Len(queue) >= MaxSize

\* while(size() >= maxSize_ && !stopped_) fullCond_.wait()
AddWaits(t) ==
  /\ ~Waits(t)
  /\ Full /\ ~stopped
  /\ fullWait' = fullWait \cup {t}
  /\ UNCHANGED <<queue, stopped, emptyWait, taken>>

\* if(stopped_) return; the task is dropped
AddDrops(t) ==
  /\ ~Waits(t)
  /\ stopped
  /\ UNCHANGED bqvars

\* Who is left in emptyCond_.wait() when a task was added: notifyAll for the
\* first task only.  Fault: only for a task that finds others.
EmptyLeftLater == IF queue # <<>> THEN {} ELSE emptyWait
EmptyLeft == IF queue = <<>> THEN {} ELSE emptyWait

AddPuts(t, task) ==
  /\ ~Waits(t)
  /\ ~Full /\ ~stopped
  /\ queue' = Append(queue, task)
  /\ emptyWait' = EmptyLeft
  /\ UNCHANGED <<stopped, fullWait, taken>>

\* Fault: stop() only wakes those who wait for room.
StopWakesFull ==
  /\ stopped' = TRUE
  /\ fullWait' = {}
  /\ UNCHANGED <<queue, emptyWait, taken>>

Stop ==
  /\ stopped' = TRUE
  /\ fullWait' = {}
  /\ emptyWait' = {}
  /\ UNCHANGED <<queue, taken>>

\* pthread_cond_wait may return for no reason
WakesSpuriously(t) ==
  /\ Waits(t)
  /\ emptyWait' = emptyWait \ {t}
  /\ fullWait' = fullWait \ {t}
  /\ UNCHANGED <<queue, stopped, taken>>

-----------------------------------------------------------------------------
(* Properties *)

QueueTypeOK ==
  /\ queue \in Seq(Tasks)
  /\ Len(queue) <= MaxSize
  /\ stopped \in BOOLEAN
  /\ taken \in Seq(Tasks)

\* Nobody waits in vain: getTask() only for a task there is none of, addTask()
\* only for a place there is none of, neither once the queue is stopped.  The
\* notifies are sent at two sizes of the queue only, the first task and the
\* first free place; that this is enough rests on their waking everybody.
NobodyWaitsInVain ==
  /\ emptyWait # {} => queue = <<>> /\ ~stopped
  /\ fullWait # {} => Full /\ ~stopped

\* Each task is taken at most once, in the order in which addTask() accepted
\* them, by however many threads.
Order == INSTANCE TaskQueue WITH waiting <- queue, done <- taken
TakenInOrder == Order!Spec
===============================================================================
