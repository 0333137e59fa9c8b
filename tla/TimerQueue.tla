------------------------------ MODULE TimerQueue ------------------------------
(***************************************************************************)
(* The timers of one EventLoop (src/net/TimerQueue.cc, Timer.h): two       *)
(* ordered sets of Timer*, one timerfd, and the list of expired timers     *)
(* whose callbacks run and may add and cancel timers themselves.  Another  *)
(* thread adds and cancels through runInLoop, here a queue of functors run *)
(* in order, as TaskQueue promises.  A Timer* is an address of a heap that *)
(* reuses freed addresses; a birth number tells apart the timers that      *)
(* lived at one address.  One unit of time is the 100 microseconds below   *)
(* which howMuchTimeFromNow() never goes.                                  *)
(***************************************************************************)
EXTENDS Integers, Sequences, FiniteSets

CONSTANTS
  Addrs,       \* addresses operator new may return
  Intervals,   \* intervals given to addTimer; 0 is a one-shot timer
  Creators,    \* threads that add timers: "loop", "other" or both
  MaxBirths,   \* bound: timers ever created
  MaxTime      \* bound: the latest expiration asked for

ASSUME TimerQueueAssumption ==
  /\ Addrs \subseteq Nat
  /\ Intervals \subseteq Nat
  /\ Creators \subseteq {"loop", "other"}
  /\ MaxBirths \in Nat
  /\ MaxTime \in Nat

VARIABLES
  phase,       \* where the loop thread is in an iteration of loop()
  reported,    \* timerfdChannel_ is in activeChannels_ and not handled yet
  io,          \* so is some other channel
  clock,       \* Timestamp::now()
  fdAt,        \* when timerfd_ becomes readable; Never when disarmed
  heap,        \* the Timer at each address, birth 0 where none lives
  timers,      \* timers_
  active,      \* activeTimers_
  cancelling,  \* cancelligTimer_
  expired,     \* handleRead()'s expired
  todo,        \* the part of expired whose callbacks are still to run
  readNow,     \* handleRead()'s now
  posted,      \* functors handed to runInLoop by the other thread
  due,         \* how many of them this iteration's doPendingFuncs() took
  creating,    \* the other thread inside Timer's constructor
  nextSeq,     \* Timer::s_numCreated_
  births,      \* history: timers created
  ids,         \* history: the TimerIds returned, each with its timer's birth
  fired,       \* history: births whose callback ran
  asked,       \* history: births whose TimerId was passed to cancel
  stopped,     \* history: births cancelInLoop found active or just expired
  raced        \* history: two threads were inside s_numCreated_++ at once

sets == <<timers, active, cancelling>>
batch == <<expired, todo, readNow>>
history == <<fired, asked, stopped, raced>>
tqvars == <<phase, reported, io, clock, fdAt, heap, sets, batch, posted,
            due, creating, nextSeq, births, ids, history>>

Never == -1
NoTimer == [birth |-> 0, seq |-> 0, exp |-> 0, interval |-> 0]
Idle == [addr |-> -1, seq |-> 0]
Horizon == MaxTime + 2
handleTimer == phase = "callbacks"

Key(a) == [seq |-> heap[a].seq, addr |-> a]
Entry(a) == [exp |-> heap[a].exp, addr |-> a]
Before(e, f) == e.exp < f.exp \/ (e.exp = f.exp /\ e.addr <= f.addr)
Later(s, t) == IF s > t THEN s ELSE t
Live == {a \in Addrs : heap[a].birth # 0}

\* resetTimerFd(howMuchTimeFromNow(exp)): at least one unit from now
ArmAt(exp) == Later(exp, clock + 1)
Earliest(S) == CHOOSE t \in {e.exp : e \in S} : \A e \in S : t <= e.exp

Init ==
  /\ phase = "poll"
  /\ reported = FALSE
  /\ io = FALSE
  /\ clock = 0
  /\ fdAt = Never
  /\ heap = [a \in Addrs |-> NoTimer]
  /\ timers = {}
  /\ active = {}
  /\ cancelling = {}
  /\ expired = {}
  /\ todo = {}
  /\ readNow = 0
  /\ posted = <<>>
  /\ due = 0
  /\ creating = Idle
  /\ nextSeq = 0
  /\ births = 0
  /\ ids = {}
  /\ fired = {}
  /\ asked = {}
  /\ stopped = {}
  /\ raced = FALSE

-----------------------------------------------------------------------------
(* addTimerInLoop and cancelInLoop, in the loop's thread *)

\* what addTimerInLoop does to the timerfd: armed when this is the earliest now.
\* Fault: armed for the first timer only.
ArmForFirst(exp) == IF timers = {} THEN ArmAt(exp) ELSE fdAt
ArmForNew(exp) == IF \A e \in timers : exp < e.exp THEN ArmAt(exp) ELSE fdAt

AddTimerInLoop(a, timer) ==
  /\ timers' = timers \cup {[exp |-> timer.exp, addr |-> a]}
  /\ active' = active \cup {[seq |-> timer.seq, addr |-> a]}
  /\ fdAt' = ArmForNew(timer.exp)

\* activeTimers_.find(key).  Fault: the address alone names a timer.
FindByAddress(key) == \E k \in active : k.addr = key.addr
FindActive(key) == key \in active

\* an active timer is freed; one that is not, while handleRead() runs
\* callbacks, is remembered for reset(); any other is gone already
CancelInLoop(id) ==
  LET key == [seq |-> id.seq, addr |-> id.addr]
  IN /\ asked' = asked \cup {id.birth}
     /\ \/ /\ FindActive(key)
           /\ timers' = timers \ {Entry(id.addr)}
           /\ active' = active \ {Key(id.addr)}
           /\ heap' = [heap EXCEPT ![id.addr] = NoTimer]
           /\ stopped' = stopped \cup {heap[id.addr].birth}
           /\ UNCHANGED cancelling
        \/ /\ ~FindActive(key)
           /\ handleTimer
           /\ cancelling' = cancelling \cup {key}
           /\ stopped' = stopped \cup
                {heap[e.addr].birth : e \in {f \in expired : Key(f.addr) = key}}
           /\ UNCHANGED <<timers, active, heap>>
        \/ /\ ~FindActive(key)
           /\ ~handleTimer
           /\ UNCHANGED <<sets, heap, stopped>>

\* new Timer(...) and its TimerId
Create(a, seq, exp, interval) ==
  LET timer == [birth |-> births + 1, seq |-> seq, exp |-> exp,
                interval |-> interval]
  IN /\ births < MaxBirths
     /\ births' = births + 1
     /\ heap' = [heap EXCEPT ![a] = timer]
     /\ ids' = ids \cup {[seq |-> seq, addr |-> a, birth |-> births + 1]}

\* addTimer called in the loop's thread: runInLoop calls addTimerInLoop at once
LoopAdds(a, exp, interval) ==
  /\ "loop" \in Creators
  /\ a \notin Live /\ creating.addr # a
  /\ Create(a, nextSeq, exp, interval)
  /\ nextSeq' = nextSeq + 1
  /\ AddTimerInLoop(a, heap'[a])
  /\ UNCHANGED <<cancelling, asked, stopped>>

LoopCancels(id) ==
  /\ CancelInLoop(id)
  /\ UNCHANGED <<fdAt, nextSeq, births, ids>>

\* What a callback in the loop's thread does with timers, one call of it.
UserCode ==
  \/ \E a \in Addrs, exp \in clock..MaxTime, interval \in Intervals :
       LoopAdds(a, exp, interval)
  \/ \E id \in ids : LoopCancels(id)
  \/ UNCHANGED <<fdAt, heap, sets, nextSeq, births, ids, asked, stopped>>

-----------------------------------------------------------------------------
(* One iteration of loop() *)

fdReadable == fdAt # Never /\ fdAt <= clock

\* epoll_wait returns, also for a wakeup or for nothing
Poll(other) ==
  /\ phase = "poll"
  /\ phase' = "dispatch"
  /\ reported' = fdReadable
  /\ io' = other
  /\ UNCHANGED <<clock, fdAt, heap, sets, batch, posted, due, creating,
                 nextSeq, births, ids, history>>

\* the callback of another channel of the same poll, before or after ours
HandleIo ==
  /\ phase = "dispatch"
  /\ io
  /\ io' = FALSE
  /\ UserCode
  /\ UNCHANGED <<phase, reported, clock, batch, posted, due, creating, fired,
                 raced>>

\* getExpired(now): lower_bound of the sentry {now, UINTPTR_MAX}.
\* Fault: one unit ahead.
DueSoon(now) == {e \in timers : e.exp <= now + 1}
Due(now) == {e \in timers : e.exp <= now}

\* handleRead() up to getExpired(now): the read disarms a timerfd that is
\* readable and fails with EAGAIN on one re-armed since the poll.
HandleRead ==
  /\ phase = "dispatch"
  /\ reported
  /\ reported' = FALSE
  /\ phase' = "callbacks"
  /\ fdAt' = IF fdReadable THEN Never ELSE fdAt
  /\ readNow' = clock
  /\ expired' = Due(clock)
  /\ todo' = expired'
  /\ timers' = timers \ expired'
  /\ active' = active \ {Key(e.addr) : e \in expired'}
  /\ UNCHANGED <<io, clock, heap, cancelling, posted, due, creating, nextSeq,
                 births, ids, history>>

\* entry.timer_->run(), in the order of the set; isCancelled() is never true,
\* because nothing calls Timer::cancel()
RunCallback ==
  /\ phase = "callbacks"
  /\ \E e \in todo :
       /\ \A f \in todo : Before(e, f)
       /\ todo' = todo \ {e}
       /\ fired' = fired \cup {heap[e.addr].birth}
  /\ UserCode
  /\ UNCHANGED <<phase, reported, io, clock, expired, readNow, posted,
                 due, creating, raced>>

\* The expired timers that reset() restarts.  Fault: cancelligTimer_ is ignored.
RepeatsAll == {e.addr : e \in {f \in expired : heap[f.addr].interval > 0}}
Repeats == {e.addr : e \in {f \in expired : /\ Key(f.addr) \notin cancelling
                                            /\ heap[f.addr].interval > 0}}
Restarted(a) == [heap[a] EXCEPT !.exp = readNow + heap[a].interval]

\* The others are deleted.  Fault: not those in cancelligTimer_.
DeletesOneShots == {e.addr : e \in {f \in expired : heap[f.addr].interval = 0}}
Deletes == {e.addr : e \in expired} \ Repeats

\* Filed again under the expiration restart() computed.
\* Fault: under the one they expired with.
FiledAsBefore == {[exp |-> heap[a].exp, addr |-> a] : a \in Repeats}
FiledAgain == {[exp |-> Restarted(a).exp, addr |-> a] : a \in Repeats}

\* resetTimerFd for the timers left, if any.  Fault: not called.
RearmNever(left) == fdAt
Rearm(left) == IF left = {} THEN fdAt ELSE ArmAt(Earliest(left))

\* cancelligTimer_.clear()
CancellingCleared == {}

\* reset(expired, now) and cancelligTimer_.clear()
Reset ==
  /\ phase = "callbacks"
  /\ todo = {}
  /\ phase' = "dispatch"
  /\ heap' = [a \in Addrs |-> IF a \in Repeats THEN Restarted(a)
                              ELSE IF a \in Deletes THEN NoTimer
                              ELSE heap[a]]
  /\ timers' = timers \cup FiledAgain
  /\ active' = active \cup {Key(a) : a \in Repeats}
  /\ cancelling' = CancellingCleared
  /\ expired' = {}
  /\ fdAt' = Rearm(timers')
  /\ UNCHANGED <<reported, io, clock, todo, readNow, posted, due, creating,
                 nextSeq, births, ids, history>>

\* doPendingFuncs() takes the functors posted so far,
DispatchDone ==
  /\ phase = "dispatch"
  /\ ~reported
  /\ ~io
  /\ phase' = "functors"
  /\ due' = Len(posted)
  /\ UNCHANGED <<reported, io, clock, fdAt, heap, sets, batch, posted,
                 creating, nextSeq, births, ids, history>>

\* runs them,
RunFunctor ==
  /\ phase = "functors"
  /\ due > 0
  /\ due' = due - 1
  /\ posted' = Tail(posted)
  /\ LET f == Head(posted)
     IN \/ /\ f.op = "add"
           /\ AddTimerInLoop(f.id.addr, heap[f.id.addr])
           /\ UNCHANGED <<heap, cancelling, asked, stopped>>
        \/ /\ f.op = "cancel"
           /\ CancelInLoop(f.id)
           /\ UNCHANGED fdAt
  /\ UNCHANGED <<phase, reported, io, clock, batch, creating, nextSeq, births,
                 ids, fired, raced>>

\* and returns to the poll.
FunctorsDone ==
  /\ phase = "functors"
  /\ due = 0
  /\ phase' = "poll"
  /\ UNCHANGED <<reported, io, clock, fdAt, heap, sets, batch, posted, due,
                 creating, nextSeq, births, ids, history>>

-----------------------------------------------------------------------------
(* The other thread, and time *)

\* addTimer: operator new, then the read half of s_numCreated_++, which is
\* neither atomic nor under a mutex
OtherReadsSeq(a) ==
  /\ "other" \in Creators
  /\ creating = Idle
  /\ births < MaxBirths
  /\ a \notin Live
  /\ creating' = [addr |-> a, seq |-> nextSeq]
  /\ UNCHANGED <<phase, reported, io, clock, fdAt, heap, sets, batch, posted, due,
                 nextSeq, births, ids, history>>

\* the write half, the rest of the constructor, and runInLoop's push_back
OtherAdds(exp, interval) ==
  /\ creating # Idle
  /\ Create(creating.addr, creating.seq, exp, interval)
  /\ nextSeq' = creating.seq + 1
  /\ raced' = (raced \/ nextSeq # creating.seq)
  /\ posted' = Append(posted, [op |-> "add",
                 id |-> [seq |-> creating.seq, addr |-> creating.addr,
                         birth |-> births + 1]])
  /\ creating' = Idle
  /\ UNCHANGED <<phase, reported, io, clock, fdAt, sets, batch, due, fired,
                 asked, stopped>>

\* cancel, once per TimerId
OtherCancels(id) ==
  /\ [op |-> "cancel", id |-> id] \notin {posted[i] : i \in 1..Len(posted)}
  /\ id.birth \notin asked
  /\ posted' = Append(posted, [op |-> "cancel", id |-> id])
  /\ UNCHANGED <<phase, reported, io, clock, fdAt, heap, sets, batch, due,
                 creating, nextSeq, births, ids, history>>

\* Time passes at any moment; after MaxTime, where the model ends, only while
\* nothing is under way.
Tick ==
  /\ clock < Horizon
  /\ clock >= MaxTime => posted = <<>> /\ phase # "callbacks"
  /\ clock' = clock + 1
  /\ UNCHANGED <<phase, reported, io, fdAt, heap, sets, batch, posted, due,
                 creating, nextSeq, births, ids, history>>

Next ==
  \/ \E other \in BOOLEAN : Poll(other)
  \/ HandleIo \/ HandleRead \/ RunCallback \/ Reset
  \/ DispatchDone \/ RunFunctor \/ FunctorsDone
  \/ \E a \in Addrs : OtherReadsSeq(a)
  \/ \E exp \in clock..MaxTime, interval \in Intervals : OtherAdds(exp, interval)
  \/ \E id \in ids : OtherCancels(id)
  \/ Tick

Spec == Init /\ [][Next]_tqvars

\* The loop's thread runs, epoll_wait returns once the timerfd is readable or
\* a functor was posted (EventLoop!NoLostWakeup), and time passes.
FairSpec ==
  /\ Spec
  /\ WF_tqvars((fdReadable \/ posted # <<>>) /\ Poll(FALSE))
  /\ WF_tqvars(HandleIo) /\ WF_tqvars(HandleRead)
  /\ WF_tqvars(RunCallback) /\ WF_tqvars(Reset)
  /\ WF_tqvars(DispatchDone)
  /\ WF_tqvars(RunFunctor) /\ WF_tqvars(FunctorsDone)
  /\ WF_tqvars(Tick)

-----------------------------------------------------------------------------
(* Properties *)

Births == 1..MaxBirths
TimerRecords == [birth : 0..MaxBirths, seq : Nat, exp : Nat, interval : Nat]
Keys == [seq : Nat, addr : Addrs]
Entries == [exp : Nat, addr : Addrs]
Ids == [seq : Nat, addr : Addrs, birth : Births]

TypeOK ==
  /\ phase \in {"poll", "dispatch", "callbacks", "functors"}
  /\ reported \in BOOLEAN
  /\ io \in BOOLEAN
  /\ clock \in Nat
  /\ fdAt \in Nat \cup {Never}
  /\ heap \in [Addrs -> TimerRecords]
  /\ timers \in SUBSET Entries
  /\ active \in SUBSET Keys
  /\ cancelling \in SUBSET Keys
  /\ expired \in SUBSET Entries
  /\ todo \in SUBSET expired
  /\ readNow \in Nat
  /\ posted \in Seq([op : {"add", "cancel"}, id : Ids])
  /\ due \in 0..Len(posted)
  /\ due > 0 => phase = "functors"
  /\ creating \in {Idle} \cup Keys
  /\ nextSeq \in Nat
  /\ births \in 0..MaxBirths
  /\ ids \in SUBSET Ids
  /\ fired \in SUBSET Births
  /\ asked \in SUBSET Births
  /\ stopped \in SUBSET Births
  /\ raced \in BOOLEAN
  /\ phase # "callbacks" => expired = {} /\ cancelling = {}
  /\ reported => phase = "dispatch"

Adding == {posted[i].id.addr : i \in {j \in 1..Len(posted) : posted[j].op = "add"}}
Expiring == {e.addr : e \in expired}
Queued == {e.addr : e \in timers}

\* No leak, no dangling Timer*: a Timer that lives is in exactly one of the
\* timer sets, handleRead()'s list and a functor on its way, and these hold no
\* address that was freed, whatever callbacks add and cancel meanwhile.
OneOwner ==
  /\ Live = Queued \cup Expiring \cup Adding
  /\ Queued \cap Expiring = {}
  /\ Queued \cap Adding = {}
  /\ Expiring \cap Adding = {}

\* Every variable has its type, and timers_ and activeTimers_ hold the same
\* timers, each filed under the expiration and the sequence number it has now;
\* otherwise a later erase misses one of the sets.
SetsAgree ==
  /\ TypeOK
  /\ timers = {Entry(a) : a \in Queued}
  /\ active = {Key(a) : a \in Queued}

\* The loop may sleep while a timer waits only if the timerfd will wake it, no
\* later than the earliest expiration or the minimal delay from now.
DeadlineArmed ==
  ~handleTimer /\ timers # {}
    => fdAt # Never /\ fdAt <= Later(Earliest(timers), clock + 1)

\* A timer ends only because its callback ran or because cancel was given its
\* own TimerId: an id kept after its timer died never hits the timer that got
\* the address next.  This is what the sequence number is for; it needs
\* s_numCreated_++ not to be torn by two threads.
OwnIdOnly ==
  ~raced => \A b \in 1..births :
    \/ b \in {heap[a].birth : a \in Live}
    \/ b \in fired
    \/ b \in asked

\* A timer that cancelInLoop found, among the active ones or the expired ones,
\* is never scheduled again: reset() does not re-insert a repeating timer
\* cancelled by its own callback or a neighbour's.
CancelledStaysOut ==
  \A a \in Queued : heap[a].birth \notin stopped

\* No callback runs before the expiration its timer has.
NeverEarly ==
  [][\A e \in todo \ todo' : heap[e.addr].exp <= clock]_tqvars

\* An entry of timers_ that is due leaves it: it fires or is cancelled, with
\* nothing but the timerfd to wake the loop.
DueTimersLeave ==
  \A a \in Addrs :
    (\E e \in timers : e.addr = a /\ e.exp <= clock)
      ~> ~(\E e \in timers : e.addr = a /\ e.exp <= clock)

\* cancel means that the callback does not run any more (README.md:225).  The
\* code breaks it: handleRead() runs the whole list of expired timers, also one
\* whose cancel an earlier callback of the list has just asked for, because
\* only reset() looks at cancelligTimer_.
CancelledNeverRuns ==
  [][\A e \in todo \ todo' : heap[e.addr].birth \notin stopped]_tqvars
===============================================================================
