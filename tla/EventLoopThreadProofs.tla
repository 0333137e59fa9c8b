------------------------ MODULE EventLoopThreadProofs ------------------------
(***************************************************************************)
(* Proofs about EventLoop for any set of callers and any number of posts,  *)
(* and, from them, about EventLoopThread, for any threads next to the      *)
(* owner's.                                                                *)
(***************************************************************************)
EXTENDS EventLoopThread, SequenceTheorems, TLAPS

-----------------------------------------------------------------------------
(* Type correctness *)

\* A loop that was just constructed has the types of TypeOK.
LEMMA InitTypeOK == ASSUME Init PROVE TypeOK
<1>1. <<>> \in Seq(Tasks)
  OBVIOUS
<1>2. [c \in Callers |-> 0] \in [Callers -> 0..MaxPosts]
  BY EventLoopAssumption
<1> QED
  BY <1>1, <1>2 DEF Init, TypeOK, LoopPcs, Channels

\* Every step of the loop thread and of a caller keeps TypeOK.
LEMMA NextTypeOK == ASSUME TypeOK, [Next]_evars PROVE TypeOK'
<1> USE EventLoopAssumption
<1> USE DEF TypeOK, LoopPcs
<1>1. CASE EnterLoop
  BY <1>1 DEF EnterLoop, callerVars
<1>2. CASE TestQuit
  BY <1>2 DEF TestQuit, callerVars
<1>3. ASSUME NEW io \in SUBSET {"io"}, Poll(io) PROVE TypeOK'
  BY <1>3 DEF Poll, callerVars, Channels
<1>4. CASE HandleWeakup
  BY <1>4 DEF HandleWeakup, callerVars
<1>5. ASSUME NEW q \in BOOLEAN, HandleIo(q) PROVE TypeOK'
  BY <1>5 DEF HandleIo, QuitInLoop, callerVars
<1>6. ASSUME NEW q \in BOOLEAN, RunTask(q) PROVE TypeOK'
  BY <1>6 DEF RunTask, QuitInLoop, callerVars
<1>7. CASE SwapPending
  BY <1>7 DEF SwapPending, callerVars
<1>8. CASE BatchDone
  BY <1>8 DEF BatchDone, callerVars
<1>9. ASSUME NEW c \in Callers, Push(c) PROVE TypeOK'
  <2>1. <<c, posts[c] + 1>> \in Tasks
    BY <1>9 DEF Push, AfterPush, Tasks
  <2> QED
    BY <1>9, <2>1 DEF Push, AfterPush
<1>10. ASSUME NEW c \in Callers, QuitTest(c) PROVE TypeOK'
  BY <1>10 DEF QuitTest, loopVars
<1>11. ASSUME NEW c \in Callers, QuitStore(c) PROVE TypeOK'
  BY <1>11 DEF QuitStore, AfterQuit
<1>12. ASSUME NEW c \in Callers, Weakup(c) PROVE TypeOK'
  BY <1>12 DEF Weakup
<1>13. CASE UNCHANGED evars
  BY <1>13 DEF evars, loopVars, callerVars
<1> QED
  BY <1>1, <1>2, <1>3, <1>4, <1>5, <1>6, <1>7, <1>8, <1>9, <1>10, <1>11,
     <1>12, <1>13 DEF Next, LoopStep, CallerStep

\* Types and the shape of loop(), for every number of callers and posts.
THEOREM TypeCorrect == Spec => []TypeOK
<1>1. Init => TypeOK
  BY InitTypeOK
<1>2. TypeOK /\ [Next]_evars => TypeOK'
  BY NextTypeOK
<1> QED
  BY <1>1, <1>2, PTL DEF Spec

-----------------------------------------------------------------------------
(* No lost wakeup *)

\* NoLostWakeup speaks of the two places before epoll_wait; what carries it
\* round the loop holds everywhere but between handleWeakup, which may zero
\* the counter, and the swap, which empties pendingFunc_.
WakeupPending ==
  loopPc # "dispatch" /\ pending # <<>>
    => \/ weakFd > 0
       \/ \E c \in Callers : callerPc[c] = "weakup"

\* Every step keeps WakeupPending: the writes come after the pushes, the
\* swap after the read.
LEMMA NextWakeupPending ==
  ASSUME TypeOK, WakeupPending, [Next]_evars
  PROVE  WakeupPending'
<1> USE DEF WakeupPending
<1>1. CASE EnterLoop \/ TestQuit \/ BatchDone
  BY <1>1 DEF EnterLoop, TestQuit, BatchDone, callerVars, TypeOK
<1>2. ASSUME NEW io \in SUBSET {"io"}, Poll(io) PROVE WakeupPending'
  BY <1>2 DEF Poll
<1>3. CASE HandleWeakup
  BY <1>3 DEF HandleWeakup
<1>4. ASSUME NEW q \in BOOLEAN, HandleIo(q) PROVE WakeupPending'
  BY <1>4 DEF HandleIo
<1>5. ASSUME NEW q \in BOOLEAN, RunTask(q) PROVE WakeupPending'
  BY <1>5 DEF RunTask, callerVars
<1>6. CASE SwapPending
  BY <1>6 DEF SwapPending
<1>7. ASSUME NEW c \in Callers, Push(c) PROVE WakeupPending'
  BY <1>7 DEF Push, AfterPush, TypeOK
<1>8. ASSUME NEW c \in Callers, QuitTest(c) PROVE WakeupPending'
  BY <1>8 DEF QuitTest, loopVars, TypeOK
<1>9. ASSUME NEW c \in Callers, QuitStore(c) PROVE WakeupPending'
  BY <1>9 DEF QuitStore, AfterQuit, TypeOK
<1>10. ASSUME NEW c \in Callers, Weakup(c) PROVE WakeupPending'
  BY <1>10 DEF Weakup, TypeOK
<1>11. CASE UNCHANGED evars
  BY <1>11 DEF evars, loopVars, callerVars
<1> QED
  BY <1>1, <1>2, <1>3, <1>4, <1>5, <1>6, <1>7, <1>8, <1>9, <1>10, <1>11
     DEF Next, LoopStep, CallerStep

\* The loop never sleeps over a posted functor: queueInLoop's push and write
\* against handleWeakup's read and doPendingFuncs' swap.
THEOREM WakeupNeverLost == Spec => []NoLostWakeup
<1>1. Init => WakeupPending
  BY DEF Init, WakeupPending
<1>2. TypeOK /\ WakeupPending /\ [Next]_evars => WakeupPending'
  BY NextWakeupPending
<1>3. WakeupPending => NoLostWakeup
  BY DEF WakeupPending, NoLostWakeup
<1> QED
  BY <1>1, <1>2, <1>3, TypeCorrect, PTL DEF Spec

-----------------------------------------------------------------------------
(* loop() drains what was posted before it left its while *)

\* Where the functors counted by owed are on the way out of loop().
OwedAccounted ==
  /\ loopPc = "drain" => owed <= Len(executed) + Len(pending)
  /\ leaving /\ loopPc = "run" => owed <= Len(executed) + Len(batch)
  /\ loopPc = "exited" => owed <= Len(executed)

\* Every step on the way out of loop() keeps the account.
LEMMA NextOwedAccounted ==
  ASSUME TypeOK, OwedAccounted, [Next]_evars
  PROVE  OwedAccounted'
<1> USE DEF OwedAccounted
<1>1. CASE EnterLoop
  BY <1>1 DEF EnterLoop, TypeOK
<1>2. CASE TestQuit
  BY <1>2 DEF TestQuit, TypeOK
<1>3. ASSUME NEW io \in SUBSET {"io"}, Poll(io) PROVE OwedAccounted'
  BY <1>3 DEF Poll
<1>4. CASE HandleWeakup
  BY <1>4 DEF HandleWeakup
<1>5. ASSUME NEW q \in BOOLEAN, HandleIo(q) PROVE OwedAccounted'
  BY <1>5 DEF HandleIo
<1>6. ASSUME NEW q \in BOOLEAN, RunTask(q) PROVE OwedAccounted'
  <2>1. /\ Len(executed') = Len(executed) + 1
        /\ Len(batch') = Len(batch) - 1
    BY <1>6 DEF RunTask, TypeOK
  <2>2. /\ Len(executed) \in Nat /\ Len(batch) \in Nat
        /\ loopPc' = "run" /\ leaving' = leaving /\ owed' = owed
        /\ loopPc = "run" /\ owed \in Nat
    BY <1>6 DEF RunTask, TypeOK
  <2> QED
    BY <2>1, <2>2
<1>7. CASE SwapPending
  BY <1>7 DEF SwapPending, TypeOK
<1>8. CASE BatchDone
  BY <1>8 DEF BatchDone, TypeOK
<1>9. ASSUME NEW c \in Callers, Push(c) PROVE OwedAccounted'
  <2>1. Len(pending') = Len(pending) + 1
    BY <1>9 DEF Push, AfterPush, TypeOK
  <2>2. /\ Len(executed) \in Nat /\ Len(pending) \in Nat /\ owed \in Nat
        /\ UNCHANGED <<loopPc, leaving, executed, batch, owed>>
    BY <1>9 DEF Push, AfterPush, TypeOK
  <2> QED
    BY <2>1, <2>2
<1>10. ASSUME NEW c \in Callers, QuitTest(c) PROVE OwedAccounted'
  BY <1>10 DEF QuitTest, loopVars
<1>11. ASSUME NEW c \in Callers, QuitStore(c) PROVE OwedAccounted'
  BY <1>11 DEF QuitStore, AfterQuit
<1>12. ASSUME NEW c \in Callers, Weakup(c) PROVE OwedAccounted'
  BY <1>12 DEF Weakup
<1>13. CASE UNCHANGED evars
  BY <1>13 DEF evars, loopVars
<1> QED
  BY <1>1, <1>2, <1>3, <1>4, <1>5, <1>6, <1>7, <1>8, <1>9, <1>10, <1>11,
     <1>12, <1>13 DEF Next, LoopStep, CallerStep

\* When loop() has returned, every functor posted before it saw quit_ has run.
THEOREM ExitHasDrained == Spec => []ExitDrains
<1>1. Init => OwedAccounted
  BY DEF Init, OwedAccounted
<1>2. TypeOK /\ OwedAccounted /\ [Next]_evars => OwedAccounted'
  BY NextOwedAccounted
<1>3. TypeOK /\ OwedAccounted => ExitDrains
  BY DEF TypeOK, OwedAccounted, ExitDrains
<1> QED
  BY <1>1, <1>2, <1>3, TypeCorrect, PTL DEF Spec

-----------------------------------------------------------------------------
(* EventLoop implements TaskQueue *)

\* The functors anywhere in the loop were posted: their numbers are not above
\* their caller's count.  So the functor of the next post is a new one.
Numbered(s) == \A i \in 1..Len(s) : s[i][2] <= posts[s[i][1]]
AllNumbered == Numbered(pending) /\ Numbered(batch) /\ Numbered(executed)

\* An element of a concatenation is an element of one of its parts.
LEMMA ConcatElement ==
  ASSUME NEW S, NEW s \in Seq(S), NEW t \in Seq(S),
         NEW i \in 1..Len(s \o t)
  PROVE  \/ \E j \in 1..Len(s) : (s \o t)[i] = s[j]
         \/ \E j \in 1..Len(t) : (s \o t)[i] = t[j]
<1>1. CASE i <= Len(s)
  BY <1>1
<1>2. CASE i > Len(s)
  <2>1. i - Len(s) \in 1..Len(t)
    BY <1>2
  <2> QED
    BY <1>2, <2>1
<1> QED
  BY <1>1, <1>2

\* No step moves a functor beyond its caller's count.
LEMMA NextAllNumbered ==
  ASSUME TypeOK, AllNumbered, [Next]_evars
  PROVE  AllNumbered'
<1> USE DEF AllNumbered, Numbered
<1>1. CASE EnterLoop \/ TestQuit \/ HandleWeakup \/ BatchDone
  BY <1>1 DEF EnterLoop, TestQuit, HandleWeakup, BatchDone, callerVars
<1>2. ASSUME NEW io \in SUBSET {"io"}, Poll(io) PROVE AllNumbered'
  BY <1>2 DEF Poll, callerVars
<1>3. ASSUME NEW q \in BOOLEAN, HandleIo(q) PROVE AllNumbered'
  BY <1>3 DEF HandleIo, callerVars
<1>4. ASSUME NEW q \in BOOLEAN, RunTask(q) PROVE AllNumbered'
  <2>1. /\ UNCHANGED <<posts, pending>>
        /\ executed' = Append(executed, Head(batch))
        /\ batch' = Tail(batch) /\ batch # <<>>
    BY <1>4 DEF RunTask, callerVars
  <2>2. batch \in Seq(Tasks) /\ executed \in Seq(Tasks)
    BY DEF TypeOK
  <2>3. Numbered(batch)'
    BY <2>1, <2>2
  <2>4. Numbered(executed)'
    BY <2>1, <2>2
  <2> QED
    BY <2>1, <2>3, <2>4
<1>5. CASE SwapPending
  BY <1>5 DEF SwapPending, callerVars
<1>6. ASSUME NEW c \in Callers, Push(c) PROVE AllNumbered'
  <2>1. /\ posts' = [posts EXCEPT ![c] = @ + 1]
        /\ pending' = Append(pending, <<c, posts[c] + 1>>)
        /\ UNCHANGED <<batch, executed>>
    BY <1>6 DEF Push, AfterPush
  <2>2. \A d \in Callers : posts[d] <= posts'[d]
    BY <2>1 DEF TypeOK
  <2>3. \A s \in Seq(Tasks) : Numbered(s) => \A i \in 1..Len(s) : s[i][2] <= posts'[s[i][1]]
    <3> SUFFICES ASSUME NEW s \in Seq(Tasks), Numbered(s), NEW i \in 1..Len(s)
                 PROVE  s[i][2] <= posts'[s[i][1]]
      OBVIOUS
    <3>1. s[i] \in Tasks /\ s[i][1] \in Callers /\ s[i][2] \in Nat
      BY EventLoopAssumption DEF Tasks
    <3>2. posts[s[i][1]] \in Nat /\ posts'[s[i][1]] \in Nat
      BY <3>1, <2>1, EventLoopAssumption DEF TypeOK
    <3> QED
      BY <3>1, <3>2, <2>2
  <2>4. Numbered(batch)' /\ Numbered(executed)'
    BY <2>1, <2>3 DEF TypeOK
  <2>5. ASSUME NEW i \in 1..Len(pending') PROVE pending'[i][2] <= posts'[pending'[i][1]]
    <3>1. CASE i \in 1..Len(pending)
      <4>1. pending[i][2] <= posts'[pending[i][1]]
        BY <3>1, <2>3 DEF TypeOK
      <4>2. pending'[i] = pending[i]
        BY <3>1, <2>1 DEF TypeOK
      <4> QED
        BY <4>1, <4>2
    <3>2. CASE i = Len(pending) + 1
      BY <3>2, <2>1 DEF TypeOK
    <3> QED
      BY <3>1, <3>2, <2>1 DEF TypeOK
  <2> QED
    BY <2>4, <2>5
<1>7. ASSUME NEW c \in Callers, QuitTest(c) PROVE AllNumbered'
  BY <1>7 DEF QuitTest, loopVars
<1>8. ASSUME NEW c \in Callers, QuitStore(c) PROVE AllNumbered'
  BY <1>8 DEF QuitStore, AfterQuit
<1>9. ASSUME NEW c \in Callers, Weakup(c) PROVE AllNumbered'
  BY <1>9 DEF Weakup
<1>10. CASE UNCHANGED evars
  BY <1>10 DEF evars, loopVars, callerVars
<1> QED
  BY <1>1, <1>2, <1>3, <1>4, <1>5, <1>6, <1>7, <1>8, <1>9, <1>10
     DEF Next, LoopStep, CallerStep

\* The functor that a push adds is in no list of the loop yet.
LEMMA PushIsFresh ==
  ASSUME TypeOK, AllNumbered, NEW c \in Callers
  PROVE  <<c, posts[c] + 1>> \notin
           Queue!Members((batch \o pending) \o executed)
<1> DEFINE t == <<c, posts[c] + 1>>
<1>1. ASSUME NEW s \in Seq(Tasks), Numbered(s), NEW i \in 1..Len(s)
      PROVE  s[i] # t
  <2>1. s[i] \in Callers \X Nat /\ posts[c] \in Nat
    BY <1>1 DEF TypeOK, Tasks
  <2>2. s[i][2] <= posts[s[i][1]]
    BY <1>1 DEF Numbered
  <2> QED
    BY <2>1, <2>2
<1>2. ASSUME NEW i \in 1..Len((batch \o pending) \o executed)
      PROVE  ((batch \o pending) \o executed)[i] # t
  <2>1. /\ batch \in Seq(Tasks) /\ pending \in Seq(Tasks)
        /\ executed \in Seq(Tasks) /\ batch \o pending \in Seq(Tasks)
    BY DEF TypeOK
  <2>2. CASE \E j \in 1..Len(executed) :
               ((batch \o pending) \o executed)[i] = executed[j]
    BY <2>1, <2>2, <1>1 DEF AllNumbered
  <2>3. CASE \E j \in 1..Len(batch \o pending) :
               ((batch \o pending) \o executed)[i] = (batch \o pending)[j]
    <3>1. PICK j \in 1..Len(batch \o pending) :
            ((batch \o pending) \o executed)[i] = (batch \o pending)[j]
      BY <2>3
    <3>2. \/ \E m \in 1..Len(batch) : (batch \o pending)[j] = batch[m]
          \/ \E m \in 1..Len(pending) : (batch \o pending)[j] = pending[m]
      <4>1. batch \in Seq(Tasks) /\ pending \in Seq(Tasks)
        BY <2>1
      <4> HIDE DEF t
      <4> QED
        BY ONLY <4>1, ConcatElement, j \in 1..Len(batch \o pending)
    <3>3. /\ \A m \in 1..Len(batch) : batch[m] # t
          /\ \A m \in 1..Len(pending) : pending[m] # t
      BY <2>1, <1>1 DEF AllNumbered
    <3> HIDE DEF t
    <3> QED
      BY <3>1, <3>2, <3>3
  <2> QED
    BY <2>1, <2>2, <2>3, ConcatElement
<1> QED
  BY <1>2 DEF Queue!Members

\* A step of EventLoop is a Submit, a Run or a stutter of TaskQueue.
LEMMA QueueStep ==
  ASSUME TypeOK, AllNumbered, [Next]_evars
  PROVE  [Queue!Next]_(Queue!aqvars)
<1> USE DEF Queue!aqvars
<1>1. CASE EnterLoop \/ TestQuit \/ HandleWeakup \/ BatchDone
  BY <1>1 DEF EnterLoop, TestQuit, HandleWeakup, BatchDone
<1>2. ASSUME NEW io \in SUBSET {"io"}, Poll(io) PROVE UNCHANGED Queue!aqvars
  BY <1>2 DEF Poll
<1>3. ASSUME NEW q \in BOOLEAN, HandleIo(q) PROVE UNCHANGED Queue!aqvars
  BY <1>3 DEF HandleIo
<1>4. ASSUME NEW q \in BOOLEAN, RunTask(q) PROVE Queue!Run
  <2>1. /\ executed' = Append(executed, Head(batch))
        /\ batch' = Tail(batch) /\ batch # <<>> /\ pending' = pending
    BY <1>4 DEF RunTask
  <2>2. batch \in Seq(Tasks) /\ pending \in Seq(Tasks)
    BY DEF TypeOK
  <2>3. batch \o pending # <<>> /\ Head(batch \o pending) = Head(batch)
    BY <2>1, <2>2
  <2>4. Tail(batch \o pending) = Tail(batch) \o pending
    BY <2>1, <2>2
  <2> QED
    BY <2>1, <2>3, <2>4 DEF Queue!Run
<1>5. CASE SwapPending
  <2>1. /\ batch = <<>> /\ batch' = pending /\ pending' = <<>>
        /\ executed' = executed
    BY <1>5 DEF SwapPending, TypeOK
  <2>2. batch' \o pending' = batch \o pending
    BY <2>1, ConcatEmptySeq DEF TypeOK
  <2> QED
    BY <2>1, <2>2
<1>6. ASSUME NEW c \in Callers, Push(c)
      PROVE  Queue!Submit(<<c, posts[c] + 1>>) /\ <<c, posts[c] + 1>> \in Tasks
  <2>1. /\ pending' = Append(pending, <<c, posts[c] + 1>>)
        /\ batch' = batch /\ executed' = executed
    BY <1>6 DEF Push, AfterPush
  <2>2. <<c, posts[c] + 1>> \in Tasks
    BY <1>6, EventLoopAssumption DEF Push, AfterPush, Tasks, TypeOK
  <2>3. batch \o Append(pending, <<c, posts[c] + 1>>)
          = Append(batch \o pending, <<c, posts[c] + 1>>)
    BY <2>2 DEF TypeOK
  <2> QED
    BY <2>1, <2>2, <2>3, PushIsFresh DEF Queue!Submit
<1>7. ASSUME NEW c \in Callers, QuitTest(c) \/ QuitStore(c) \/ Weakup(c)
      PROVE  UNCHANGED Queue!aqvars
  BY <1>7 DEF QuitTest, QuitStore, Weakup, loopVars
<1>8. CASE UNCHANGED evars
  BY <1>8 DEF evars, loopVars
<1> QED
  BY <1>1, <1>2, <1>3, <1>4, <1>5, <1>6, <1>7, <1>8
     DEF Next, LoopStep, CallerStep, Queue!Next

\* runInLoop's promise: functors run at most once and in the order in which
\* they were posted, for any number of callers.
THEOREM QueueRefinement == Spec => ImplementsTaskQueue
<1>1. Init => AllNumbered /\ Queue!Init
  BY DEF Init, AllNumbered, Numbered, Queue!Init
<1>2. TypeOK /\ AllNumbered /\ [Next]_evars => AllNumbered'
  BY NextAllNumbered
<1>3. TypeOK /\ AllNumbered /\ [Next]_evars => [Queue!Next]_(Queue!aqvars)
  BY QueueStep
<1> QED
  BY <1>1, <1>2, <1>3, TypeCorrect, PTL
     DEF Spec, ImplementsTaskQueue, Queue!Spec

-----------------------------------------------------------------------------
(* No functor is lost between the queue, the batch and its run *)

\* Every functor ever posted has been run, waits in the batch or is queued.
Held == Queue!Members(executed) \cup Queue!Members(batch)
          \cup Queue!Members(pending)
AllHeld == \A c \in Callers : \A n \in 1..posts[c] : <<c, n>> \in Held

\* Append adds one member and keeps the others.
LEMMA MembersAppend ==
  ASSUME NEW S, NEW s \in Seq(S), NEW e \in S
  PROVE  Queue!Members(Append(s, e)) = Queue!Members(s) \cup {e}
<1> USE DEF Queue!Members
<1>1. /\ Len(Append(s, e)) = Len(s) + 1
      /\ Append(s, e)[Len(s) + 1] = e
      /\ \A i \in 1..Len(s) : Append(s, e)[i] = s[i]
      /\ Len(s) \in Nat
  OBVIOUS
<1>2. 1..(Len(s) + 1) = (1..Len(s)) \cup {Len(s) + 1}
  BY <1>1
<1> QED
  BY <1>1, <1>2

\* A member is the head or in the tail.
LEMMA MembersHeadTail ==
  ASSUME NEW S, NEW s \in Seq(S), s # <<>>
  PROVE  Queue!Members(s) \subseteq {Head(s)} \cup Queue!Members(Tail(s))
<1> USE DEF Queue!Members
<1> SUFFICES ASSUME NEW i \in 1..Len(s), i # 1
             PROVE  \E j \in 1..Len(Tail(s)) : s[i] = Tail(s)[j]
  OBVIOUS
<1>1. i - 1 \in 1..Len(Tail(s)) /\ Tail(s)[i - 1] = s[i]
  OBVIOUS
<1> QED
  BY <1>1

\* No step of the loop or of a caller drops a functor.
LEMMA NextAllHeld ==
  ASSUME TypeOK, AllHeld, [Next]_evars
  PROVE  AllHeld'
<1> USE DEF AllHeld, Held
<1>1. CASE UNCHANGED <<pending, batch, executed, posts>>
  BY <1>1
<1>2. ASSUME NEW q \in BOOLEAN, RunTask(q) PROVE AllHeld'
  <2>1. /\ batch \in Seq(Tasks) /\ batch # <<>> /\ executed \in Seq(Tasks)
        /\ executed' = Append(executed, Head(batch)) /\ batch' = Tail(batch)
        /\ UNCHANGED <<pending, posts>>
    BY <1>2 DEF RunTask, TypeOK, callerVars
  <2>2. Head(batch) \in Tasks
    BY <2>1
  <2>3. Queue!Members(executed') = Queue!Members(executed) \cup {Head(batch)}
    BY <2>1, <2>2, MembersAppend
  <2>4. Queue!Members(batch) \subseteq {Head(batch)} \cup Queue!Members(batch')
    BY <2>1, MembersHeadTail
  <2>5. Queue!Members(pending') = Queue!Members(pending)
    BY <2>1
  <2>6. Held \subseteq Held'
    BY <2>3, <2>4, <2>5
  <2> QED
    BY <2>1, <2>6
<1>3. CASE SwapPending
  <2>1. batch' = pending /\ UNCHANGED <<executed, posts>>
    BY <1>3 DEF SwapPending, callerVars
  <2>2. batch = <<>>
    BY <1>3 DEF SwapPending, TypeOK
  <2>3. Queue!Members(batch) = {}
    BY <2>2 DEF Queue!Members
  <2> QED
    BY <2>1, <2>3
<1>4. ASSUME NEW c \in Callers, Push(c) PROVE AllHeld'
  <2>1. /\ pending' = Append(pending, <<c, posts[c] + 1>>)
        /\ posts' = [posts EXCEPT ![c] = @ + 1]
        /\ UNCHANGED <<batch, executed>>
        /\ pending \in Seq(Tasks)
        /\ posts \in [Callers -> 0..MaxPosts]
        /\ <<c, posts[c] + 1>> \in Tasks
    BY <1>4, EventLoopAssumption DEF Push, TypeOK, Tasks
  <2>2. Queue!Members(pending')
          = Queue!Members(pending) \cup {<<c, posts[c] + 1>>}
    BY <2>1, MembersAppend
  <2>3. Held' = Held \cup {<<c, posts[c] + 1>>}
    BY <2>1, <2>2
  <2>4. ASSUME NEW d \in Callers, NEW n \in 1..posts'[d]
        PROVE  n \in 1..posts[d] \/ (d = c /\ n = posts[c] + 1)
    BY <2>1, <2>4, EventLoopAssumption
  <2> QED
    BY <2>3, <2>4
<1> QED
  BY <1>1, <1>2, <1>3, <1>4
     DEF Next, LoopStep, CallerStep, EnterLoop, TestQuit, Poll, HandleWeakup,
         HandleIo, BatchDone, QuitTest, QuitStore, Weakup, evars, loopVars,
         callerVars

\* No functor is ever lost: one that was posted is queued, in the batch or run.
THEOREM NothingLost == Spec => []AllHeld
<1>1. Init => AllHeld
  BY DEF Init, AllHeld
<1>2. TypeOK /\ AllHeld /\ [Next]_evars => AllHeld'
  BY NextAllHeld
<1> QED
  BY <1>1, <1>2, TypeCorrect, PTL DEF Spec

-----------------------------------------------------------------------------
(* The thread that owns the loop *)

\* What carries QuitOnLiveLoop: the mutex keeps the thread before the store of
\* nullptr for as long as the destructor is inside quit(), and the owner enters
\* the destructor with no other call under way.  Nothing is joined before the
\* thread is done, and start() finds none.
QuitInside ==
  /\ ownerPc = "quitting" /\ callerPc[Owner] # "idle" => threadPc = "running"
  /\ ownerPc = "locking" => callerPc[Owner] = "idle"
  /\ joined => threadPc = "finished"
  /\ ownerPc = "new" => threadPc = "none"

TInv == TTypeOK /\ QuitInside

\* The invariant holds of an object that was just constructed.
LEMMA InitTInv == ASSUME TInit PROVE TInv
<1>1. TypeOK
  BY InitTypeOK DEF TInit
<1>2. promised \in 0..MaxPosts
  BY EventLoopAssumption DEF TInit
<1>3. TTypeOK
  BY <1>1, <1>2 DEF TInit, TTypeOK, OwnerPcs, ThreadPcs
<1>4. QuitInside
  BY DEF TInit, QuitInside
<1> QED
  BY <1>3, <1>4 DEF TInv

\* The steps of EventLoop's actors keep its type invariant, and so do the two
\* that only touch quit_ and the one that only moves the owner into quit().
LEMMA StepTypeOK == ASSUME TTypeOK, [TNext]_tvars PROVE TypeOK'
<1> USE OwnerAssumption
<1>1. CASE [Next]_evars
  BY <1>1, NextTypeOK DEF TTypeOK
<1>2. ASSUME NEW q \in BOOLEAN, InitCallback(q) PROVE TypeOK'
  BY <1>2 DEF TTypeOK, TypeOK, InitCallback, QuitInLoop, callerVars
<1>3. CASE DestroyLoop
  BY <1>3 DEF TTypeOK, TypeOK, DestroyLoop, callerVars
<1>4. CASE DestroyLock
  <2>1. callerPc' \in [Callers -> {"idle", "store", "weakup"}]
    BY <1>4 DEF TTypeOK, TypeOK, DestroyLock
  <2> QED
    BY <1>4, <2>1 DEF TTypeOK, TypeOK, DestroyLock, loopVars
<1>5. CASE LoopRuns \/ DestroyQuits
           \/ \E c \in Callers : Post(c) \/ FinishPost(c)
  <2>1. Next
    BY <1>5 DEF LoopRuns, DestroyQuits, Post, FinishPost, Next, CallerStep
  <2> QED
    BY <2>1, <1>1
<1>6. CASE Publish \/ Unpublish \/ Start \/ Started \/ CallJoin \/ JoinReturns
           \/ DestroyUnstarted \/ DestroyStarted \/ DestroyUnlock \/ DestroyJoin
  <2>1. UNCHANGED evars
    BY <1>6 DEF Publish, Unpublish, Start, Started, CallJoin, JoinReturns,
                DestroyUnstarted, DestroyStarted, DestroyUnlock, DestroyJoin
  <2> QED
    BY <2>1, <1>1
<1>7. CASE UNCHANGED tvars
  BY <1>7, <1>1 DEF tvars
<1> QED
  BY <1>2, <1>3, <1>4, <1>5, <1>6, <1>7 DEF TNext, ThreadStep, OwnerStep

\* The loop's own steps leave the callers where they are.
LEMMA LoopStepCallers == ASSUME LoopStep PROVE UNCHANGED callerPc
  BY DEF LoopStep, EnterLoop, TestQuit, Poll, HandleWeakup, HandleIo, RunTask,
         SwapPending, BatchDone, callerVars

\* No step of the thread, of the owner or of another caller breaks the
\* invariant.
LEMMA NextTInv == ASSUME TInv, [TNext]_tvars PROVE TInv'
<1> USE OwnerAssumption
<1> USE DEF TInv, QuitInside
<1>0. TypeOK'
  BY StepTypeOK
<1>1. ASSUME NEW q \in BOOLEAN, InitCallback(q) PROVE TInv'
  BY <1>0, <1>1 DEF InitCallback, TTypeOK, ThreadPcs, callerVars
<1>2. CASE Publish
  BY <1>0, <1>2 DEF Publish, TTypeOK, ThreadPcs, evars, callerVars
<1>3. CASE LoopRuns
  <2>1. UNCHANGED callerPc
    BY <1>3, LoopStepCallers DEF LoopRuns
  <2>2. selfQuit' \in BOOLEAN
    BY <1>3 DEF LoopRuns
  <2> QED
    BY <1>0, <1>3, <2>1, <2>2 DEF LoopRuns, TTypeOK
<1>4. CASE Unpublish
  BY <1>0, <1>4 DEF Unpublish, TTypeOK, ThreadPcs, evars, callerVars
<1>5. CASE DestroyLoop
  BY <1>0, <1>5 DEF DestroyLoop, TTypeOK, ThreadPcs, callerVars
<1>6. CASE Start
  <2>1. ~loopPtr /\ ~locked /\ ~joined
    BY <1>6 DEF Start, TTypeOK
  <2> QED
    BY <1>0, <1>6, <2>1 DEF Start, TTypeOK, ThreadPcs, OwnerPcs
<1>7. CASE Started
  BY <1>0, <1>7 DEF Started, TTypeOK, OwnerPcs
<1>8. CASE CallJoin
  BY <1>0, <1>8 DEF CallJoin, TTypeOK, OwnerPcs
<1>9. CASE JoinReturns
  <2>1. threadPc = "finished"
    BY <1>9 DEF JoinReturns
  <2> QED
    BY <1>0, <1>9, <2>1 DEF JoinReturns, TTypeOK, OwnerPcs
<1>10. CASE DestroyUnstarted
  BY <1>0, <1>10 DEF DestroyUnstarted, TTypeOK, OwnerPcs
<1>11. CASE DestroyStarted
  <2>1. posts[Owner] \in 0..MaxPosts
    BY DEF TTypeOK, TypeOK
  <2> QED
    BY <1>0, <1>11, <2>1 DEF DestroyStarted, TTypeOK, OwnerPcs, evars, callerVars
<1>12. CASE DestroyLock
  <2>1. callerPc'[Owner] # "idle" => loopPtr
    BY <1>12 DEF DestroyLock, TTypeOK, TypeOK
  <2> QED
    BY <1>0, <1>12, <2>1 DEF DestroyLock, TTypeOK, OwnerPcs
<1>13. CASE DestroyQuits
  <2>1. callerPc[Owner] # "idle"
    BY <1>13 DEF DestroyQuits, QuitStore, Weakup
  <2> QED
    BY <1>0, <1>13, <2>1 DEF DestroyQuits, threadVars, TTypeOK
<1>14. CASE DestroyUnlock
  BY <1>0, <1>14 DEF DestroyUnlock, TTypeOK, OwnerPcs
<1>15. CASE DestroyJoin
  <2>1. threadPc = "finished"
    BY <1>15 DEF DestroyJoin
  <2> QED
    BY <1>0, <1>15, <2>1 DEF DestroyJoin, TTypeOK, OwnerPcs
<1>16. ASSUME NEW c \in Callers, Post(c) PROVE TInv'
  BY <1>0, <1>16 DEF Post, threadVars, TTypeOK
<1>17. ASSUME NEW c \in Callers, FinishPost(c) PROVE TInv'
  <2>1. callerPc'[Owner] = callerPc[Owner]
    BY <1>17 DEF FinishPost, Weakup, TTypeOK, TypeOK
  <2> QED
    BY <1>0, <1>17, <2>1 DEF FinishPost, threadVars, TTypeOK
<1>18. CASE UNCHANGED tvars
  BY <1>0, <1>18 DEF tvars, evars, callerVars, threadVars, TTypeOK
<1> QED
  BY <1>1, <1>2, <1>3, <1>4, <1>5, <1>6, <1>7, <1>8, <1>9,
     <1>10, <1>11, <1>12, <1>13, <1>14, <1>15, <1>16, <1>17, <1>18
     DEF TNext, ThreadStep, OwnerStep

\* The inductive invariant of start(), threadFunc() and the destructor.
THEOREM TInvAlways == TSpec => []TInv
<1>1. TInit => TInv
  BY InitTInv
<1>2. TInv /\ [TNext]_tvars => TInv'
  BY NextTInv
<1> QED
  BY <1>1, <1>2, PTL DEF TSpec

\* Types, loop_ set exactly while the thread is inside loop(), and a destructor
\* that has returned has joined the thread.
THEOREM ThreadTypeCorrect == TSpec => []TTypeOK
<1>1. TInv => TTypeOK
  BY DEF TInv
<1> QED
  BY <1>1, TInvAlways, PTL

\* The destructor's quit() on loop_ never meets a loop whose thread has cleared
\* loop_ or destroyed it.
THEOREM QuitMeetsLiveLoop == TSpec => []QuitOnLiveLoop
<1>1. TInv => QuitOnLiveLoop
  BY DEF TInv, QuitInside, QuitOnLiveLoop
<1> QED
  BY <1>1, TInvAlways, PTL

-----------------------------------------------------------------------------
(* The destructor's drain *)

Gone == {"quitting", "joining", "destroyed"}

\* Unless a callback quits the loop, only the destructor does, after the owner's
\* last post; so none of the owner's functors can come behind the last swap.
\* Before the thread runs nobody has quit the loop.
DrainInv ==
  /\ quit /\ ~selfQuit => ownerPc \in Gone
  /\ leaving /\ ~selfQuit => ownerPc \in Gone
  /\ leaving /\ ~selfQuit /\ loopPc \in {"run", "exited"}
       => \A i \in 1..Len(pending) : pending[i][1] # Owner
  /\ threadPc \in {"unpublished", "finished"} => loopPc = "exited"
  /\ promised <= posts[Owner]
  /\ callerPc[Owner] = "store" => ownerPc = "quitting"
  /\ threadPc \in {"none", "init"} => ~quit /\ ~leaving

\* No step of the thread, of the owner or of another caller drops a functor.
LEMMA TNextAllHeld == ASSUME TTypeOK, AllHeld, [TNext]_tvars PROVE AllHeld'
<1>1. CASE [Next]_evars
  BY <1>1, NextAllHeld DEF TTypeOK
<1>2. CASE UNCHANGED <<pending, batch, executed, posts>>
  BY <1>2 DEF AllHeld, Held
<1>3. CASE LoopRuns \/ DestroyQuits
           \/ \E c \in Callers : Post(c) \/ FinishPost(c)
  <2>1. Next
    BY <1>3, OwnerAssumption
       DEF LoopRuns, DestroyQuits, Post, FinishPost, Next, CallerStep
  <2> QED
    BY <2>1, <1>1
<1> QED
  BY <1>1, <1>2, <1>3
     DEF TNext, ThreadStep, OwnerStep, InitCallback, Publish, Unpublish,
         DestroyLoop, Start, Started, CallJoin, JoinReturns, DestroyUnstarted,
         DestroyStarted, DestroyLock, DestroyUnlock, DestroyJoin, tvars, evars,
         loopVars, callerVars

\* The loop's own steps keep the invariant: it leaves its while only after a
\* quit() and the last swap empties the queue.
LEMMA LoopRunsDrainInv == ASSUME TTypeOK, DrainInv, LoopRuns PROVE DrainInv'
<1>1. LoopStep /\ selfQuit' = (selfQuit \/ (quit' /\ ~quit))
      /\ UNCHANGED <<ownerPc, threadPc, promised, callerPc, posts>>
  BY LoopStepCallers DEF LoopRuns, LoopStep, EnterLoop, TestQuit, Poll,
     HandleWeakup, HandleIo, RunTask, SwapPending, BatchDone, callerVars
<1>2. threadPc = "running"
  BY DEF LoopRuns
<1>3. quit' /\ ~selfQuit' => quit /\ ~selfQuit
  BY <1>1 DEF TTypeOK, TypeOK
<1>4. leaving' /\ ~selfQuit' => (leaving \/ quit) /\ ~selfQuit
  BY <1>1 DEF LoopStep, EnterLoop, TestQuit, Poll, HandleWeakup, HandleIo,
     RunTask, SwapPending, BatchDone
<1>5. leaving' /\ loopPc' \in {"run", "exited"}
        => \/ pending' = <<>>
           \/ pending' = pending /\ leaving /\ loopPc \in {"run", "exited"}
  BY <1>1 DEF LoopStep, EnterLoop, TestQuit, Poll, HandleWeakup, HandleIo,
     RunTask, SwapPending, BatchDone, TTypeOK, TypeOK
<1> QED
  BY <1>1, <1>2, <1>3, <1>4, <1>5 DEF DrainInv

\* No step of the thread, of the owner or of another caller breaks DrainInv.
LEMMA NextDrainInv == ASSUME TInv, DrainInv, [TNext]_tvars PROVE DrainInv'
<1> USE OwnerAssumption
<1> USE DEF DrainInv, Gone
<1>1. ASSUME NEW q \in BOOLEAN, InitCallback(q) PROVE DrainInv'
  BY <1>1 DEF InitCallback, QuitInLoop, callerVars, TInv, TTypeOK, TypeOK
<1>2. CASE Publish
  BY <1>2 DEF Publish, evars, loopVars, callerVars
<1>3. CASE LoopRuns
  BY <1>3, LoopRunsDrainInv DEF TInv
<1>4. CASE Unpublish
  BY <1>4 DEF Unpublish, evars, loopVars, callerVars
<1>5. CASE DestroyLoop
  <2>1. loopPc = "exited" /\ leaving
    BY <1>5 DEF DestroyLoop, TInv, TTypeOK, TypeOK
  <2> QED
    BY <1>5, <2>1 DEF DestroyLoop, callerVars
<1>6. CASE Start \/ Started \/ CallJoin \/ JoinReturns \/ DestroyUnstarted
           \/ DestroyUnlock \/ DestroyJoin
  <2>1. UNCHANGED <<quit, leaving, selfQuit, loopPc, pending, promised, posts,
                    callerPc>>
    BY <1>6 DEF Start, Started, CallJoin, JoinReturns, DestroyUnstarted,
       DestroyUnlock, DestroyJoin, evars, loopVars, callerVars
  <2>2. /\ ownerPc \in Gone => ownerPc' \in Gone
        /\ ownerPc = "quitting" /\ callerPc[Owner] = "store"
             => ownerPc' = "quitting"
    BY <1>6 DEF Start, Started, CallJoin, JoinReturns, DestroyUnstarted,
       DestroyUnlock, DestroyJoin
  <2>3. threadPc' = threadPc \/ (threadPc = "none" /\ threadPc' = "init")
    BY <1>6 DEF Start, Started, CallJoin, JoinReturns, DestroyUnstarted,
       DestroyUnlock, DestroyJoin, TInv, QuitInside
  <2> QED
    BY <2>1, <2>2, <2>3
<1>7. CASE DestroyStarted
  BY <1>7 DEF DestroyStarted, evars, loopVars, callerVars, TInv, TTypeOK, TypeOK
<1>8. CASE DestroyLock
  BY <1>8 DEF DestroyLock, loopVars, TInv, TTypeOK, TypeOK
<1>9. CASE DestroyQuits
  <2>1. /\ ownerPc = "quitting" /\ callerPc[Owner] # "idle"
        /\ UNCHANGED <<threadVars, leaving, loopPc, pending, posts>>
    BY <1>9 DEF DestroyQuits, QuitStore, Weakup
  <2>2. threadPc = "running"
    BY <2>1 DEF TInv, QuitInside
  <2> QED
    BY <2>1, <2>2 DEF threadVars
<1>10. ASSUME NEW c \in Callers, Post(c) PROVE DrainInv'
  <2>1. ownerPc = "using" /\ UNCHANGED <<threadVars, quit, leaving, loopPc>>
    BY <1>10 DEF Post, Push, Weakup
  <2>2. leaving => selfQuit
    BY <2>1
  <2>3. promised <= posts'[Owner]
    <3>1. posts \in [Callers -> 0..MaxPosts] /\ promised \in 0..MaxPosts
      BY DEF TInv, TTypeOK, TypeOK
    <3>2. posts' = posts \/ posts' = [posts EXCEPT ![c] = @ + 1]
      BY <1>10 DEF Post, Push, Weakup
    <3> QED
      BY <3>1, <3>2, EventLoopAssumption
  <2>4. callerPc'[Owner] = "store" => callerPc[Owner] = "store"
    BY <1>10 DEF Post, Push, Weakup, AfterPush, TInv, TTypeOK, TypeOK
  <2>5. ownerPc \notin Gone /\ callerPc[Owner] # "store"
    BY <2>1
  <2> QED
    BY <2>1, <2>2, <2>3, <2>4, <2>5 DEF threadVars
<1>11. ASSUME NEW c \in Callers, FinishPost(c) PROVE DrainInv'
  BY <1>11 DEF FinishPost, Weakup, threadVars, TInv, TTypeOK, TypeOK
<1>12. CASE UNCHANGED tvars
  BY <1>12 DEF tvars, evars, loopVars, callerVars, threadVars
<1> QED
  BY <1>1, <1>2, <1>3, <1>4, <1>5, <1>6, <1>7, <1>8, <1>9, <1>10, <1>11, <1>12
     DEF TNext, ThreadStep, OwnerStep

\* A destructor that has returned, from a loop that no callback has quit, has
\* run every functor its thread had posted.
THEOREM DestructorHasDrained == TSpec => []DestructorDrains
<1>1. TInit => AllHeld /\ DrainInv
  BY OwnerAssumption DEF TInit, Init, AllHeld, DrainInv
<1>2. TInv /\ AllHeld /\ DrainInv /\ [TNext]_tvars => AllHeld' /\ DrainInv'
  BY TNextAllHeld, NextDrainInv DEF TInv
<1>3. TInv /\ AllHeld /\ DrainInv => DestructorDrains
  <2> SUFFICES ASSUME TInv, AllHeld, DrainInv, ownerPc = "destroyed", ~selfQuit,
                      NEW n \in 1..promised
               PROVE  <<Owner, n>> \in Queue!Members(executed)
    BY DEF DestructorDrains
  <2>1. loopPc = "exited" /\ leaving /\ batch = <<>>
    BY DEF TInv, TTypeOK, TypeOK, DrainInv
  <2>2. n \in 1..posts[Owner]
    BY OwnerAssumption DEF DrainInv, TInv, TTypeOK, TypeOK
  <2>3. <<Owner, n>> \notin Queue!Members(batch)
    BY <2>1 DEF Queue!Members
  <2>4. <<Owner, n>> \notin Queue!Members(pending)
    <3> SUFFICES ASSUME NEW i \in 1..Len(pending), pending[i] = <<Owner, n>>
                 PROVE  FALSE
      BY DEF Queue!Members
    <3> QED
      BY <2>1 DEF DrainInv
  <2> QED
    <3>1. <<Owner, n>> \in Held
      BY <2>2, OwnerAssumption DEF AllHeld
    <3> QED
      BY <2>3, <2>4, <3>1 DEF Held
<1> QED
  BY <1>1, <1>2, <1>3, TInvAlways, PTL DEF TSpec
==============================================================================
