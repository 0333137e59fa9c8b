--------------------------- MODULE EventLoopThread ---------------------------
(***************************************************************************)
(* An EventLoop that lives on the stack of its own thread                  *)
(* (src/net/EventLoopThread.cc): start() waits for the loop's address, the *)
(* destructor quits the loop through that address and joins the thread.    *)
(* The loop, its functors and the other threads are those of EventLoop.    *)
(***************************************************************************)
EXTENDS EventLoop

CONSTANT Owner  \* the thread that constructs, starts and destroys the object

ASSUME OwnerAssumption == Owner \in Callers

VARIABLES
  ownerPc,   \* where the owner is in start(), join() or the destructor
  threadPc,  \* where threadFunc() is
  locked,    \* mutex_ is held by the owner
  loopPtr,   \* loop_ # nullptr
  joined,    \* joined_
  selfQuit,  \* history: a callback in the loop's own thread called quit()
  promised   \* history: functors of the owner when it began the destructor

threadVars == <<ownerPc, threadPc, locked, loopPtr, joined, selfQuit, promised>>
tvars == <<evars, threadVars>>

OwnerPcs == {"new", "waiting", "using", "calling join", "locking", "quitting",
             "joining", "destroyed", "terminated"}
ThreadPcs == {"none", "init", "publish", "running", "unpublished", "finished"}

TInit ==
  /\ Init
  /\ ownerPc = "new"
  /\ threadPc = "none"
  /\ locked = FALSE
  /\ loopPtr = FALSE
  /\ joined = FALSE
  /\ selfQuit = FALSE
  /\ promised = 0

-----------------------------------------------------------------------------
(* threadFunc() *)

\* EventLoop loop; callback_(&loop): the init callback may call quit().
InitCallback(q) ==
  /\ threadPc = "init"
  /\ threadPc' = "publish"
  /\ QuitInLoop(q)
  /\ selfQuit' = q
  /\ UNCHANGED <<loopPc, leaving, weakFd, pending, batch, active, executed,
                 owed, callerVars, ownerPc, locked, loopPtr, joined, promised>>

\* loop_ = &loop; cond.notify_one(), under mutex_
Publish ==
  /\ threadPc = "publish"
  /\ ~locked
  /\ loopPtr' = TRUE
  /\ threadPc' = "running"
  /\ UNCHANGED <<evars, ownerPc, locked, joined, selfQuit, promised>>

\* loop.loop(): every step of EventLoop's thread.
LoopRuns ==
  /\ threadPc = "running"
  /\ LoopStep
  /\ selfQuit' = (selfQuit \/ (quit' /\ ~quit))
  /\ UNCHANGED <<ownerPc, threadPc, locked, loopPtr, joined, promised>>

\* fault: loop_ keeps the address of the loop
UnpublishKeepsPointer ==
  /\ threadPc = "running"
  /\ loopPc = "exited"
  /\ ~locked
  /\ threadPc' = "unpublished"
  /\ UNCHANGED <<evars, ownerPc, locked, loopPtr, joined, selfQuit, promised>>

\* fault: loop_ = nullptr without the mutex
UnpublishUnlocked ==
  /\ threadPc = "running"
  /\ loopPc = "exited"
  /\ loopPtr' = FALSE
  /\ threadPc' = "unpublished"
  /\ UNCHANGED <<evars, ownerPc, locked, joined, selfQuit, promised>>

\* loop_ = nullptr, under mutex_, once loop() has returned
Unpublish ==
  /\ threadPc = "running"
  /\ loopPc = "exited"
  /\ ~locked
  /\ loopPtr' = FALSE
  /\ threadPc' = "unpublished"
  /\ UNCHANGED <<evars, ownerPc, locked, joined, selfQuit, promised>>

\* ~EventLoop at the end of threadFunc(): it calls quit() on its own thread.
\* That nobody is inside runInLoop then is the callers' side of the contract;
\* that the destructor is not inside quit() is this class's side.
DestroyLoop ==
  /\ threadPc = "unpublished"
  /\ \A c \in Callers :
       callerPc[c] = "idle" \/ (c = Owner /\ ownerPc = "quitting")
  /\ threadPc' = "finished"
  /\ quit' = TRUE
  /\ UNCHANGED <<loopPc, leaving, weakFd, pending, batch, active, executed,
                 owed, callerVars, ownerPc, locked, loopPtr, joined, selfQuit,
                 promised>>

ThreadStep ==
  \/ \E q \in BOOLEAN : InitCallback(q)
  \/ Publish
  \/ LoopRuns
  \/ Unpublish
  \/ DestroyLoop

-----------------------------------------------------------------------------
(* The owner *)

\* start(): thread_ = std::thread(threadFunc)
Start ==
  /\ ownerPc = "new"
  /\ ownerPc' = "waiting"
  /\ threadPc' = "init"
  /\ UNCHANGED <<evars, locked, loopPtr, joined, selfQuit, promised>>

\* start(): cond.wait(lock, loop_ != nullptr) returns
Started ==
  /\ ownerPc = "waiting"
  /\ ~locked
  /\ loopPtr
  /\ ownerPc' = "using"
  /\ UNCHANGED <<evars, threadPc, locked, loopPtr, joined, selfQuit, promised>>

\* join(): returns at once when joined_, else once threadFunc() has returned
CallJoin ==
  /\ ownerPc = "using"
  /\ callerPc[Owner] = "idle"
  /\ ownerPc' = "calling join"
  /\ UNCHANGED <<evars, threadPc, locked, loopPtr, joined, selfQuit, promised>>

JoinReturns ==
  /\ ownerPc = "calling join"
  /\ joined \/ threadPc = "finished"
  /\ joined' = TRUE
  /\ ownerPc' = "using"
  /\ UNCHANGED <<evars, threadPc, locked, loopPtr, selfQuit, promised>>

\* The destructor of an object that was never started joins a std::thread
\* that is not joinable: std::system_error leaves a destructor.
DestroyUnstarted ==
  /\ ownerPc = "new"
  /\ ownerPc' = "terminated"
  /\ UNCHANGED <<evars, threadPc, locked, loopPtr, joined, selfQuit, promised>>

DestroyStarted ==
  /\ ownerPc = "using"
  /\ callerPc[Owner] = "idle"
  /\ ownerPc' = "locking"
  /\ promised' = posts[Owner]
  /\ UNCHANGED <<evars, threadPc, locked, loopPtr, joined, selfQuit>>

\* lock_guard; if(loop_) loop_->quit(), up to quit()'s test of quit_
DestroyLock ==
  /\ ownerPc = "locking"
  /\ ~locked
  /\ locked' = TRUE
  /\ ownerPc' = "quitting"
  /\ callerPc' = [callerPc EXCEPT ![Owner] =
                    IF loopPtr /\ ~quit THEN "store" ELSE @]
  /\ UNCHANGED <<loopVars, posts, threadPc, loopPtr, joined, selfQuit, promised>>

\* the rest of quit(): quit_ = true, then the write to the eventfd
DestroyQuits ==
  /\ ownerPc = "quitting"
  /\ QuitStore(Owner) \/ Weakup(Owner)
  /\ UNCHANGED threadVars

\* fault: the mutex is held over the join
DestroyUnlockAfterJoin ==
  /\ ownerPc = "quitting"
  /\ callerPc[Owner] = "idle"
  /\ ownerPc' = "joining"
  /\ UNCHANGED <<evars, threadPc, locked, loopPtr, joined, selfQuit, promised>>

DestroyUnlock ==
  /\ ownerPc = "quitting"
  /\ callerPc[Owner] = "idle"
  /\ locked' = FALSE
  /\ ownerPc' = "joining"
  /\ UNCHANGED <<evars, threadPc, loopPtr, joined, selfQuit, promised>>

\* fault: the destructor detaches the thread
DestroyDetaches ==
  /\ ownerPc = "joining"
  /\ joined' = TRUE
  /\ ownerPc' = "destroyed"
  /\ UNCHANGED <<evars, threadPc, locked, loopPtr, selfQuit, promised>>

\* if(!joined_) thread_.join()
DestroyJoin ==
  /\ ownerPc = "joining"
  /\ joined \/ threadPc = "finished"
  /\ joined' = TRUE
  /\ ownerPc' = "destroyed"
  /\ UNCHANGED <<evars, threadPc, locked, loopPtr, selfQuit, promised>>

OwnerStep ==
  \/ Start \/ Started \/ CallJoin \/ JoinReturns
  \/ DestroyUnstarted \/ DestroyStarted
  \/ DestroyLock \/ DestroyQuits \/ DestroyUnlock \/ DestroyJoin

\* runInLoop on the published loop, by the owner between its other calls and
\* by the other threads while the object and its loop exist.
Post(c) ==
  /\ ownerPc = "using"
  /\ threadPc # "finished"
  /\ Push(c) \/ Weakup(c)
  /\ UNCHANGED threadVars

FinishPost(c) ==
  /\ c # Owner
  /\ ownerPc # "using"
  /\ Weakup(c)
  /\ UNCHANGED threadVars

TNext ==
  \/ ThreadStep
  \/ OwnerStep
  \/ \E c \in Callers : Post(c) \/ FinishPost(c)

\* Both threads keep running; nobody has to call join() or the destructor.
TFairness ==
  /\ WF_tvars(InitCallback(FALSE)) /\ WF_tvars(Publish)
  /\ WF_tvars(threadPc = "running" /\ weakFd > 0 /\ Poll({})
              /\ UNCHANGED threadVars)
  /\ WF_tvars(LoopRuns /\ loopPc # "poll")
  /\ WF_tvars(Unpublish) /\ WF_tvars(DestroyLoop)
  /\ WF_tvars(Started) /\ WF_tvars(JoinReturns)
  /\ WF_tvars(DestroyLock) /\ WF_tvars(DestroyQuits)
  /\ WF_tvars(DestroyUnlock) /\ WF_tvars(DestroyJoin)
  /\ \A c \in Callers : WF_tvars((Post(c) \/ FinishPost(c)) /\ callerPc[c] = "weakup")

TSpec == TInit /\ [][TNext]_tvars /\ TFairness

-----------------------------------------------------------------------------
(* Properties *)

TTypeOK ==
  /\ TypeOK
  /\ ownerPc \in OwnerPcs
  /\ threadPc \in ThreadPcs
  /\ locked \in BOOLEAN
  /\ loopPtr \in BOOLEAN
  /\ joined \in BOOLEAN
  /\ selfQuit \in BOOLEAN
  /\ promised \in 0..MaxPosts
  /\ loopPtr <=> threadPc = "running"
  /\ locked <=> ownerPc = "quitting"
  /\ ownerPc = "destroyed" => threadPc = "finished"

\* The destructor reads loop_ and uses it several steps later: the loop is not
\* destroyed between them, though a callback may have ended loop() meanwhile.
\* What holds it is that threadFunc() clears loop_ under the same mutex_.
QuitOnLiveLoop ==
  ownerPc = "quitting" /\ callerPc[Owner] # "idle"
    => threadPc \notin {"unpublished", "finished"}

\* When the destructor has returned, every functor the owner had posted before
\* it has been run, unless a callback had ended the loop by itself.
DestructorDrains ==
  ownerPc = "destroyed" /\ ~selfQuit
    => \A n \in 1..promised : <<Owner, n>> \in Queue!Members(executed)

\* A destructor that begins once the thread is past the first statements of
\* loop() returns: the loop sees quit_ and the thread is joined.
DestructorReturnsIfEntered ==
  (ownerPc = "locking" /\ loopPc # "created") ~> (ownerPc = "destroyed")

\* The destructor of a started object returns (README: every resource follows
\* RAII).  The code breaks it: start() returns when loop_ is published, which
\* is before loop() resets quit_, so a quit() in between is lost and the join
\* never returns.
DestructorReturns == (ownerPc = "locking") ~> (ownerPc = "destroyed")
==============================================================================
