------------------------------ MODULE EventLoop ------------------------------
(***************************************************************************)
(* One EventLoop, its thread and the threads that talk to it through       *)
(* runInLoop and quit (src/net/EventLoop.cc).  The unit of atomicity is    *)
(* what the code makes atomic: one critical section of mutex_, one access  *)
(* of the atomic quit_, one system call on the eventfd.  A functor is the  *)
(* name of the runInLoop call that posted it.                              *)
(***************************************************************************)
EXTENDS Integers, Sequences

CONSTANTS
  Callers,   \* threads other than the loop's that call runInLoop and quit
  MaxPosts   \* bound: runInLoop calls per caller

ASSUME EventLoopAssumption == MaxPosts \in Nat

Tasks == Callers \X (1..MaxPosts)

VARIABLES
  loopPc,      \* where the loop thread is in loop()
  leaving,     \* the while of loop() was left: the last doPendingFuncs() runs
  quit,        \* quit_
  weakFd,      \* the counter of the eventfd behind weakChannel_
  pending,     \* pendingFunc_
  batch,       \* func of doPendingFuncs(), from the functor about to run on
  active,      \* activeChannels_ still to be handled in this iteration
  callerPc,    \* where each caller is in queueInLoop or quit
  posts,       \* runInLoop calls each caller has made
  executed,    \* history: the functors run, in order
  owed         \* history: functors posted when the while was left

loopVars == <<loopPc, leaving, quit, weakFd, pending, batch, active, executed,
              owed>>
callerVars == <<callerPc, posts>>
evars == <<loopVars, callerVars>>

Channels == {"weakup", "io"}

Init ==
  /\ loopPc = "created"
  /\ leaving = FALSE
  /\ quit = FALSE
  /\ weakFd = 0
  /\ pending = <<>>
  /\ batch = <<>>
  /\ active = {}
  /\ callerPc = [c \in Callers |-> "idle"]
  /\ posts = [c \in Callers |-> 0]
  /\ executed = <<>>
  /\ owed = 0

-----------------------------------------------------------------------------
(* The loop thread *)

\* loop() starts: quit_ is reset whatever it was.
EnterLoop ==
  /\ loopPc = "created"
  /\ loopPc' = "test"
  /\ quit' = FALSE
  /\ UNCHANGED <<leaving, weakFd, pending, batch, active, executed, owed,
                 callerVars>>

\* fault: the while is left without the last doPendingFuncs()
TestQuitNoDrain ==
  /\ loopPc = "test"
  /\ loopPc' = IF quit THEN "exited" ELSE "poll"
  /\ leaving' = quit
  /\ owed' = IF quit THEN Len(executed) + Len(pending) ELSE owed
  /\ UNCHANGED <<quit, weakFd, pending, batch, active, executed, callerVars>>

\* while(!quit_)
TestQuit ==
  /\ loopPc = "test"
  /\ loopPc' = IF quit THEN "drain" ELSE "poll"
  /\ leaving' = quit
  /\ owed' = IF quit THEN Len(executed) + Len(pending) ELSE owed
  /\ UNCHANGED <<quit, weakFd, pending, batch, active, executed, callerVars>>

\* epoll_wait(-1) returns: the eventfd is reported when its counter is not
\* zero (level triggered), other channels when they please; EINTR and a
\* failed epoll_wait are the return with an empty list.
Poll(io) ==
  /\ loopPc = "poll"
  /\ loopPc' = "dispatch"
  /\ active' = io \cup (IF weakFd > 0 THEN {"weakup"} ELSE {})
  /\ UNCHANGED <<leaving, quit, weakFd, pending, batch, executed, owed,
                 callerVars>>

\* weakChannel_'s read callback: read() returns the counter and zeroes it.
HandleWeakup ==
  /\ loopPc = "dispatch"
  /\ "weakup" \in active
  /\ active' = active \ {"weakup"}
  /\ weakFd' = 0
  /\ UNCHANGED <<loopPc, leaving, quit, pending, batch, executed, owed,
                 callerVars>>

\* quit() called by a callback, on the loop's own thread: no weakup().
QuitInLoop(q) == quit' = (quit \/ q)

\* The callback of another channel; q says whether it calls quit().
HandleIo(q) ==
  /\ loopPc = "dispatch"
  /\ "io" \in active
  /\ active' = active \ {"io"}
  /\ QuitInLoop(q)
  /\ UNCHANGED <<loopPc, leaving, weakFd, pending, batch, executed, owed,
                 callerVars>>

\* fault: func is a copy of pendingFunc_
SwapPendingCopies ==
  /\ \/ loopPc = "dispatch" /\ active = {}
     \/ loopPc = "drain"
  /\ loopPc' = "run"
  /\ batch' = pending
  /\ UNCHANGED <<leaving, quit, weakFd, pending, active, executed, owed,
                 callerVars>>

\* doPendingFuncs(): func.swap(pendingFunc_) under mutex_.
SwapPending ==
  /\ \/ loopPc = "dispatch" /\ active = {}
     \/ loopPc = "drain"
  /\ loopPc' = "run"
  /\ batch' = pending
  /\ pending' = <<>>
  /\ UNCHANGED <<leaving, quit, weakFd, active, executed, owed, callerVars>>

\* doPendingFuncs(): for(auto& f : func) f();
RunTask(q) ==
  /\ loopPc = "run"
  /\ batch # <<>>
  /\ executed' = Append(executed, Head(batch))
  /\ batch' = Tail(batch)
  /\ QuitInLoop(q)
  /\ UNCHANGED <<loopPc, leaving, weakFd, pending, active, owed, callerVars>>

\* fault: the loop over func ends before func does
BatchDoneEarly ==
  /\ loopPc = "run"
  /\ loopPc' = IF leaving THEN "exited" ELSE "test"
  /\ UNCHANGED <<leaving, quit, weakFd, pending, batch, active, executed, owed,
                 callerVars>>

\* The end of doPendingFuncs(): back to the while, or out of loop().
BatchDone ==
  /\ loopPc = "run"
  /\ batch = <<>>
  /\ loopPc' = IF leaving THEN "exited" ELSE "test"
  /\ UNCHANGED <<leaving, quit, weakFd, pending, batch, active, executed, owed,
                 callerVars>>

LoopStep ==
  \/ EnterLoop
  \/ TestQuit
  \/ \E io \in SUBSET {"io"} : Poll(io)
  \/ HandleWeakup
  \/ \E q \in BOOLEAN : HandleIo(q) \/ RunTask(q)
  \/ SwapPending
  \/ BatchDone

-----------------------------------------------------------------------------
(* The other threads *)

\* queueInLoop: if(!isInThread() || callingPendingFunc_) weakup(), and the
\* caller is never in the loop's thread here.
\* Faults: no weakup(); weakup() only for a loop seen in epoll_wait.
AfterPushNothing == "idle"
AfterPushIfAsleep == IF loopPc = "poll" THEN "weakup" ELSE "idle"
AfterPush == "weakup"

\* quit: if(!isInThread()) weakup().  Fault: no weakup().
AfterQuitNothing == "idle"
AfterQuit == "weakup"

\* runInLoop -> queueInLoop: push_back under mutex_
Push(c) ==
  /\ callerPc[c] = "idle"
  /\ posts[c] < MaxPosts
  /\ posts' = [posts EXCEPT ![c] = @ + 1]
  /\ pending' = Append(pending, <<c, posts[c] + 1>>)
  /\ callerPc' = [callerPc EXCEPT ![c] = AfterPush]
  /\ UNCHANGED <<loopPc, leaving, quit, weakFd, batch, active, executed, owed>>

\* quit(): if (quit_) return;
QuitTest(c) ==
  /\ callerPc[c] = "idle"
  /\ ~quit
  /\ callerPc' = [callerPc EXCEPT ![c] = "store"]
  /\ UNCHANGED <<loopVars, posts>>

\* quit(): quit_ = true;
QuitStore(c) ==
  /\ callerPc[c] = "store"
  /\ quit' = TRUE
  /\ callerPc' = [callerPc EXCEPT ![c] = AfterQuit]
  /\ UNCHANGED <<loopPc, leaving, weakFd, pending, batch, active, executed,
                 owed, posts>>

\* weakup(): write(weakFd_, 1)
Weakup(c) ==
  /\ callerPc[c] = "weakup"
  /\ weakFd' = weakFd + 1
  /\ callerPc' = [callerPc EXCEPT ![c] = "idle"]
  /\ UNCHANGED <<loopPc, leaving, quit, pending, batch, active, executed, owed,
                 posts>>

CallerStep(c) == Push(c) \/ QuitTest(c) \/ QuitStore(c) \/ Weakup(c)

Next == LoopStep \/ \E c \in Callers : CallerStep(c)

Spec == Init /\ [][Next]_evars

\* A thread that is inside a call of the library goes on, and epoll_wait
\* returns once the eventfd is readable.  No caller has to call anything, no
\* other channel has to become ready and nobody has to quit.
CallerFairness(c) ==
  /\ WF_evars(QuitStore(c))
  /\ WF_evars(Weakup(c))

LoopFairness ==
  /\ WF_evars(EnterLoop)
  /\ WF_evars(TestQuit)
  /\ WF_evars(weakFd > 0 /\ Poll({}))
  /\ WF_evars(HandleWeakup)
  /\ WF_evars(HandleIo(FALSE))
  /\ WF_evars(SwapPending)
  /\ WF_evars(RunTask(FALSE))
  /\ WF_evars(BatchDone)

FairSpec == Spec /\ LoopFairness /\ \A c \in Callers : CallerFairness(c)

-----------------------------------------------------------------------------
(* Properties *)

LoopPcs == {"created", "test", "poll", "dispatch", "drain", "run", "exited"}

\* Types, and the shape of loop(): functors are held in doPendingFuncs' local
\* list only while it runs, channels are active only while they are dispatched.
TypeOK ==
  /\ loopPc \in LoopPcs
  /\ leaving \in BOOLEAN
  /\ quit \in BOOLEAN
  /\ weakFd \in Nat
  /\ pending \in Seq(Tasks)
  /\ batch \in Seq(Tasks)
  /\ active \in SUBSET Channels
  /\ callerPc \in [Callers -> {"idle", "store", "weakup"}]
  /\ posts \in [Callers -> 0..MaxPosts]
  /\ executed \in Seq(Tasks)
  /\ owed \in Nat
  /\ batch # <<>> => loopPc = "run"
  /\ active # {} => loopPc = "dispatch"
  /\ leaving => loopPc \in {"drain", "run", "exited"}
  /\ loopPc \in {"drain", "exited"} => leaving

\* The lost wakeup: the loop never sleeps in epoll_wait(-1) over a functor
\* unless the eventfd is readable or the thread that will write it is on its
\* way.  queueInLoop writes after the unlock and doPendingFuncs swaps after
\* handleWeakup has zeroed the counter; either order reversed breaks this.
NoLostWakeup ==
  loopPc \in {"poll", "test"} /\ pending # <<>>
    => \/ weakFd > 0
       \/ \E c \in Callers : callerPc[c] = "weakup"

\* Every functor posted before loop() saw quit_ has been run when loop()
\* returns: the doPendingFuncs() after the while
\* ("防止loop循环退出后，pending中还有待处理回调").
ExitDrains == loopPc = "exited" => Len(executed) >= owed

\* The functors run at most once, in the order in which they were posted:
\* pendingFunc_ and the local list of doPendingFuncs together are the queue.
Queue == INSTANCE TaskQueue WITH waiting <- batch \o pending, done <- executed
ImplementsTaskQueue == Queue!Spec

\* A functor posted before the loop left its while is eventually run, though
\* no caller ever posts again and no other channel ever becomes ready.
TaskEventuallyRuns ==
  \A t \in Tasks :
    (~leaving /\ t \in Queue!Members(pending))
      ~> (t \in Queue!Members(executed))

\* quit() from any thread, while the loop runs, makes loop() return.
QuitLeadsToExit == (quit /\ loopPc # "created") ~> (loopPc = "exited")
==============================================================================
