------------------------------ MODULE TcpServer ------------------------------
(***************************************************************************)
(* A TcpServer and the life of its connections (src/net/TcpServer.cc,      *)
(* Acceptor.cc, TcpConnection.cc): the base loop accepts and owns them, IO *)
(* loops handed out in turn run their callbacks, and user threads call     *)
(* them.  Each IO loop handles one report, timer or functor at a time; a   *)
(* call of another thread is a test of state_, then a store, then a post.  *)
(* Queues of functors and wakeups are what EventLoop shows them to be.     *)
(***************************************************************************)
EXTENDS TcpConnection

CONSTANTS
  MaxConns,  \* bound: connections the listening socket ever yields
  NumLoops,  \* eventThreadPool_'s threads
  Users,     \* threads other than the loops that hold connections
  MaxCalls   \* bound: calls of a connection per user thread

ASSUME TcpServerAssumption ==
  /\ MaxConns \in Nat
  /\ NumLoops \in Nat \ {0}
  /\ MaxCalls \in Nat
  /\ "base" \notin Users

Conns == 1..MaxConns
Loops == 1..NumLoops
Threads == Users \cup {"base"}

VARIABLES
  conn,         \* the connections
  connections,  \* connections_
  nextConnId,   \* nextConnId_
  listening,    \* started_, and the listening socket is watched
  spinning,     \* Acceptor::handleRead goes round over a failing accept
  copy,         \* stop()'s conns
  closing,      \* those of them stop() has still to close
  baseQ,        \* the base loop's functors: removeConnectionInLoop of whom
  ioQ,          \* each IO loop's functors
  due,          \* how many of them doPendingFuncs() has taken
  phase,        \* where each IO loop is in its iteration
  ready,        \* its active channels still to handle
  timersDue,    \* its timerfd is among them
  current,      \* the callbacks of the channel being handled
  expiring,     \* connections whose idle timer expired and is to run
  pc,           \* the call each thread is in
  calls,        \* calls each user thread has made
  held,         \* connections each user thread keeps
  revived,      \* history: state_ was kDisConnected and was overwritten
  lateSends     \* history: a send was posted after the removal from the map

serverVars == <<connections, nextConnId, listening, spinning, copy, closing>>
loopVars == <<due, phase, ready, timersDue, current, expiring>>
userVars == <<pc, calls, held, lateSends>>
svars == <<conn, serverVars, baseQ, ioQ, loopVars, userVars, revived>>

Idle == [op |-> "none", conn |-> 0, step |-> "none"]
Nothing == [conn |-> 0, cbs |-> <<>>]

\* getNextLoop() hands out the loops in turn
LoopOf(c) == ((c - 1) % NumLoops) + 1

Accepted == 1..(nextConnId - 1)

Init ==
  /\ conn = [c \in Conns |-> NewConnection]
  /\ connections = {}
  /\ nextConnId = 1
  /\ listening = TRUE
  /\ spinning = FALSE
  /\ copy = {}
  /\ closing = {}
  /\ baseQ = <<>>
  /\ ioQ = [l \in Loops |-> <<>>]
  /\ due = [l \in Loops |-> 0]
  /\ phase = [l \in Loops |-> "poll"]
  /\ ready = [l \in Loops |-> {}]
  /\ timersDue = [l \in Loops |-> FALSE]
  /\ current = [l \in Loops |-> Nothing]
  /\ expiring = [l \in Loops |-> {}]
  /\ pc = [t \in Threads |-> Idle]
  /\ calls = [u \in Users |-> 0]
  /\ held = [u \in Users |-> {}]
  /\ revived = {}
  /\ lateSends = {}

PostTo(l, op, c) == ioQ' = [ioQ EXCEPT ![l] = Append(@, [op |-> op, conn |-> c])]

\* Connection c becomes k; a call of closeCallback_ posts
\* removeConnectionInLoop to the base loop.
Becomes(c, k) ==
  /\ conn' = [conn EXCEPT ![c] = k]
  /\ baseQ' = IF k.closes > conn[c].closes THEN Append(baseQ, c) ELSE baseQ

-----------------------------------------------------------------------------
(* The base loop *)

baseFree == pc["base"] = Idle /\ copy = {} /\ ~spinning

\* Acceptor::handleRead: a connection waits to be accepted
Accepts == listening /\ nextConnId \in Conns

\* accept fails for a connection that waits (one more than MaxConns, maybe), and
\* not with EAGAIN: no descriptor is left, say.  The loop of handleRead goes on,
\* and its thread does nothing else.
AcceptFails ==
  /\ baseFree
  /\ listening
  /\ spinning' = TRUE
  /\ UNCHANGED <<conn, connections, nextConnId, listening, copy, closing, baseQ,
                 ioQ, loopVars, userVars, revived>>

\* accept fails no more: what it returns next is NewConn's, or it is EAGAIN
AcceptRecovers ==
  /\ spinning
  /\ spinning' = FALSE
  /\ UNCHANGED <<conn, connections, nextConnId, listening, copy, closing, baseQ,
                 ioQ, loopVars, userVars, revived>>

\* newConnection, for one accepted socket
NewConn ==
  /\ baseFree
  /\ Accepts
  /\ nextConnId' = nextConnId + 1
  /\ connections' = connections \cup {nextConnId}
  /\ PostTo(LoopOf(nextConnId), "established", nextConnId)
  /\ UNCHANGED <<conn, listening, spinning, copy, closing, baseQ, loopVars,
                 userVars, revived>>

\* erase() found the name (n == 1).  Fault: n is not looked at.
ErasedAlways(c) == TRUE
Erased(c) == c \in connections

\* removeConnectionInLoop: only the first removal of a name goes on
RemoveConnectionInLoop ==
  /\ baseFree
  /\ baseQ # <<>>
  /\ LET c == Head(baseQ)
     IN /\ baseQ' = Tail(baseQ)
        /\ connections' = connections \ {c}
        /\ IF Erased(c) THEN PostTo(LoopOf(c), "destroyed", c)
           ELSE UNCHANGED ioQ
  /\ UNCHANGED <<conn, nextConnId, listening, spinning, copy, closing, loopVars,
                 userVars, revived>>

\* auto conns = connections_
Snapshot == connections

\* Acceptor::close, in its loop's thread
CloseAcceptor == listening' = FALSE

\* stop(), in the base loop's thread: no more accepts, a copy of connections_,
\* then forceClose() of each (BaseCalls, Store, Post)
Stop ==
  /\ baseFree
  /\ listening
  /\ CloseAcceptor
  /\ copy' = Snapshot
  /\ closing' = connections
  /\ UNCHANGED <<conn, connections, nextConnId, spinning, baseQ, ioQ, loopVars,
                 userVars, revived>>

BaseCalls(c) ==
  /\ pc["base"] = Idle
  /\ c \in closing
  /\ closing' = closing \ {c}
  /\ pc' = [pc EXCEPT !["base"] =
              IF Passes("forceClose", conn[c])
              THEN [op |-> "forceClose", conn |-> c, step |-> "tested"] ELSE @]
  /\ UNCHANGED <<conn, connections, nextConnId, listening, spinning, copy, baseQ,
                 ioQ, loopVars, calls, held, revived, lateSends>>

StopReturns ==
  /\ pc["base"] = Idle
  /\ copy # {}
  /\ closing = {}
  /\ copy' = {}
  /\ UNCHANGED <<conn, connections, nextConnId, listening, spinning, closing, baseQ,
                 ioQ, loopVars, userVars, revived>>

-----------------------------------------------------------------------------
(* Calls of other threads *)

\* the test at the start of shutdown, forceClose and send
Call(u, c, op) ==
  /\ pc[u] = Idle
  /\ c \in held[u]
  /\ calls[u] < MaxCalls
  /\ calls' = [calls EXCEPT ![u] = @ + 1]
  /\ pc' = [pc EXCEPT ![u] = IF Passes(op, conn[c])
                             THEN [op |-> op, conn |-> c, step |-> "tested"]
                             ELSE @]
  /\ UNCHANGED <<conn, serverVars, baseQ, ioQ, loopVars, held, revived, lateSends>>

\* setState(kDisConnecting), whatever became of the state since the test
Store(t) ==
  /\ pc[t].step = "tested"
  /\ pc[t].op # "send"
  /\ LET c == pc[t].conn
     IN /\ conn' = [conn EXCEPT ![c].state = "kDisConnecting"]
        /\ revived' = revived \cup (IF conn[c].state = "kDisConnected" THEN {c}
                                    ELSE {})
  /\ pc' = [pc EXCEPT ![t].step = "stored"]
  /\ UNCHANGED <<serverVars, baseQ, ioQ, loopVars, calls, held, lateSends>>

\* runInLoop
Post(t) ==
  /\ \/ pc[t].step = "stored"
     \/ pc[t].step = "tested" /\ pc[t].op = "send"
  /\ PostTo(LoopOf(pc[t].conn), pc[t].op, pc[t].conn)
  /\ lateSends' = lateSends \cup (IF pc[t].op = "send"
                                 THEN {pc[t].conn} \ connections ELSE {})
  /\ pc' = [pc EXCEPT ![t] = Idle]
  /\ UNCHANGED <<conn, serverVars, baseQ, loopVars, calls, held, revived>>

\* the thread lets go of its TcpConnectionPtr
Release(u, c) ==
  /\ pc[u] = Idle
  /\ c \in held[u]
  /\ held' = [held EXCEPT ![u] = @ \ {c}]
  /\ UNCHANGED <<conn, serverVars, baseQ, ioQ, loopVars, pc, calls, revived,
                 lateSends>>

-----------------------------------------------------------------------------
(* An IO loop *)

Watched(l) == {c \in Accepted : LoopOf(c) = l /\ Registered(conn[c])}
IdleTimers(l) == {c \in Accepted : LoopOf(c) = l /\ conn[c].idle = "armed"}

\* epoll_wait reports some of the watched channels, the timerfd, or a wakeup
Poll(l) ==
  /\ phase[l] = "poll"
  /\ phase' = [phase EXCEPT ![l] = "dispatch"]
  /\ \E S \in SUBSET Watched(l) : \E report \in [S -> UNION {Reports(conn[c]) : c \in S}] :
       /\ \A c \in S : report[c] \in Reports(conn[c])
       /\ ready' = [ready EXCEPT ![l] = {[conn |-> c, cbs |-> report[c]] : c \in S}]
  /\ \E due2 \in {FALSE, IdleTimers(l) # {}} :
       timersDue' = [timersDue EXCEPT ![l] = due2]
  /\ UNCHANGED <<conn, serverVars, baseQ, ioQ, due, current, expiring, userVars,
                 revived>>

\* between two callbacks of the dispatch
between(l) == phase[l] = "dispatch" /\ current[l] = Nothing /\ expiring[l] = {}

\* activeChannels_ come in any order
TakeChannel(l) ==
  /\ between(l)
  /\ \E r \in ready[l] :
       /\ ready' = [ready EXCEPT ![l] = @ \ {r}]
       /\ current' = [current EXCEPT ![l] = r]
  /\ UNCHANGED <<conn, serverVars, baseQ, ioQ, due, phase, timersDue, expiring,
                 userVars, revived>>

\* the next callback of Channel::handleEvent()
RunHandler(l) ==
  /\ current[l].cbs # <<>>
  /\ LET c == current[l].conn
         rest == Tail(current[l].cbs)
     IN /\ \E k \in Handle(Head(current[l].cbs), conn[c]) : Becomes(c, k)
        /\ current' = [current EXCEPT ![l] =
                         IF rest = <<>> THEN Nothing ELSE [@ EXCEPT !.cbs = rest]]
  /\ UNCHANGED <<serverVars, ioQ, due, phase, ready, timersDue, expiring,
                 userVars, revived>>

\* TimerQueue::handleRead takes the expired idle timers,
ExpireTimers(l) ==
  /\ between(l)
  /\ timersDue[l]
  /\ timersDue' = [timersDue EXCEPT ![l] = FALSE]
  /\ \E S \in SUBSET IdleTimers(l) :
       /\ expiring' = [expiring EXCEPT ![l] = S]
       /\ conn' = [c \in Conns |-> IF c \in S THEN [conn[c] EXCEPT !.idle = "fired"]
                                   ELSE conn[c]]
  /\ UNCHANGED <<serverVars, baseQ, ioQ, due, phase, ready, current, userVars,
                 revived>>

\* and runs every one of them: onIdleTimeout
OnIdleTimeout(l) ==
  /\ \E c \in expiring[l] :
       /\ expiring' = [expiring EXCEPT ![l] = @ \ {c}]
       /\ Becomes(c, ForceCloseInLoop(conn[c]))
  /\ UNCHANGED <<serverVars, ioQ, due, phase, ready, timersDue, current,
                 userVars, revived>>

DispatchDone(l) ==
  /\ between(l)
  /\ ready[l] = {}
  /\ ~timersDue[l]
  /\ phase' = [phase EXCEPT ![l] = "functors"]
  /\ due' = [due EXCEPT ![l] = Len(ioQ[l])]
  /\ UNCHANGED <<conn, serverVars, baseQ, ioQ, ready, timersDue, current,
                 expiring, userVars, revived>>

\* What the functor op makes of connection k.
Run(op, k) ==
  CASE op = "established" -> ConnectEstablished(k)
    [] op = "destroyed"   -> {ConnectDestroyed(k)}
    [] op = "shutdown"    -> {ShutdownInLoop(k)}
    [] op = "forceClose"  -> {ForceCloseInLoop(k)}
    [] op = "send"        -> SendInLoop(k)

\* One functor.  connectionCallback_ may give the connection to user threads.  A
\* send that runs after ~TcpConnection is taken to find the memory as it was left.
RunFunctor(l) ==
  /\ phase[l] = "functors"
  /\ due[l] > 0
  /\ LET f == Head(ioQ[l])
     IN /\ \E k \in Run(f.op, conn[f.conn]) : Becomes(f.conn, k)
        /\ \E S \in IF f.op = "established" THEN SUBSET Users ELSE {{}} :
             held' = [u \in Users |-> IF u \in S THEN held[u] \cup {f.conn}
                                      ELSE held[u]]
  /\ ioQ' = [ioQ EXCEPT ![l] = Tail(@)]
  /\ due' = [due EXCEPT ![l] = @ - 1]
  /\ UNCHANGED <<serverVars, phase, ready, timersDue, current, expiring, pc,
                 calls, revived, lateSends>>

FunctorsDone(l) ==
  /\ phase[l] = "functors"
  /\ due[l] = 0
  /\ phase' = [phase EXCEPT ![l] = "poll"]
  /\ UNCHANGED <<conn, serverVars, baseQ, ioQ, due, ready, timersDue, current,
                 expiring, userVars, revived>>

BaseStep ==
  \/ NewConn \/ AcceptFails \/ AcceptRecovers
  \/ RemoveConnectionInLoop \/ Stop \/ StopReturns
  \/ \E c \in Conns : BaseCalls(c)

UserStep(u) ==
  \E c \in Conns :
    \/ \E op \in {"shutdown", "forceClose", "send"} : Call(u, c, op)
    \/ Release(u, c)

IoStep(l) ==
  \/ Poll(l) \/ TakeChannel(l) \/ RunHandler(l) \/ ExpireTimers(l)
  \/ OnIdleTimeout(l) \/ DispatchDone(l) \/ RunFunctor(l) \/ FunctorsDone(l)

Next ==
  \/ BaseStep
  \/ \E u \in Users : UserStep(u)
  \/ \E t \in Threads : Store(t) \/ Post(t)
  \/ \E l \in Loops : IoStep(l)

Spec == Init /\ [][Next]_svars

\* Threads inside a call go on; an IO loop with functors is woken and one in
\* an iteration finishes it; the base loop runs its functors, before it polls
\* again, and stop().  No channel need ever be ready, no user ever call, no idle
\* timer expire, and accept need not recover.
FairSpec ==
  /\ Spec
  /\ SF_svars(RemoveConnectionInLoop)
  /\ WF_svars(StopReturns)
  /\ \A c \in Conns : WF_svars(BaseCalls(c))
  /\ \A t \in Threads : WF_svars(Store(t) \/ Post(t))
  /\ \A l \in Loops :
       /\ WF_svars(ioQ[l] # <<>> /\ Poll(l))
       /\ WF_svars(TakeChannel(l)) /\ WF_svars(RunHandler(l))
       /\ WF_svars(ExpireTimers(l)) /\ WF_svars(OnIdleTimeout(l))
       /\ WF_svars(DispatchDone(l))
       /\ WF_svars(RunFunctor(l)) /\ WF_svars(FunctorsDone(l))

-----------------------------------------------------------------------------
(* Properties *)

Ops == {"established", "destroyed", "shutdown", "forceClose", "send"}
Functors == [op : Ops, conn : Conns]
CbSeqs == {Callbacks(rev) : rev \in SUBSET {"in", "out", "err", "hup"}}
InQueue(op, c) == \E i \in 1..Len(ioQ[LoopOf(c)]) :
                    ioQ[LoopOf(c)][i] = [op |-> op, conn |-> c]
InBaseQ(c) == \E i \in 1..Len(baseQ) : baseQ[i] = c

TypeOK ==
  /\ conn \in [Conns -> Connection]
  /\ connections \in SUBSET Conns
  /\ nextConnId \in 1..(MaxConns + 1)
  /\ listening \in BOOLEAN
  /\ spinning \in BOOLEAN
  /\ copy \in SUBSET Conns
  /\ closing \in SUBSET copy
  /\ baseQ \in Seq(Conns)
  /\ ioQ \in [Loops -> Seq(Functors)]
  /\ due \in [Loops -> Nat]
  /\ phase \in [Loops -> {"poll", "dispatch", "functors"}]
  /\ ready \in [Loops -> SUBSET [conn : Conns, cbs : CbSeqs]]
  /\ timersDue \in [Loops -> BOOLEAN]
  /\ \A l \in Loops : current[l] = Nothing \/ current[l].conn \in Conns
  /\ expiring \in [Loops -> SUBSET Conns]
  /\ pc \in [Threads -> [op : Ops \cup {"none"}, conn : Conns \cup {0},
                         step : {"none", "tested", "stored"}]]
  /\ calls \in [Users -> 0..MaxCalls]
  /\ held \in [Users -> SUBSET Conns]
  /\ revived \in SUBSET Conns
  /\ lateSends \in SUBSET Conns
  /\ \A l \in Loops : due[l] <= Len(ioQ[l])

\* Who keeps a TcpConnectionPtr: the map, stop()'s copy, user threads, and the
\* functors except send's, which captures this.
Kept(c) ==
  \/ c \in connections
  \/ c \in copy
  \/ \E u \in Users : c \in held[u]
  \/ InBaseQ(c)
  \/ \E op \in Ops \ {"send"} : InQueue(op, c)

Destroyed(c) == c \in Accepted /\ ~Kept(c)

\* A list that an IO loop works through points to the connection.
InHand(c) ==
  \E l \in Loops :
    \/ c \in expiring[l]
    \/ current[l].conn = c
    \/ \E r \in ready[l] : r.conn = c

\* No callback on a destroyed connection: channels and timers hold raw
\* pointers, so a connection that no TcpConnectionPtr keeps is not in the epoll
\* set, has no idle timer armed and is in no list an IO loop works through.  The
\* loop's queue may name it in one case: send() passed its test, the server
\* removed the connection, and the functor, which holds this, was posted only
\* then (lateSends); one posted earlier stands before connectDestroyed's.  (The
\* state of a revived connection may be overwritten after its cleanup.)
DestroyedIsQuiet ==
  \A c \in Conns : Destroyed(c) =>
    /\ InQueue("send", c) => c \in lateSends
    /\ c \notin revived => /\ ~Registered(conn[c])
                          /\ conn[c].idle # "armed"
                          /\ ~InHand(c)
                          /\ conn[c].state = "kDisConnected"

\* A closed connection may be back in the epoll set or have a timer again (its
\* other callbacks of the same report did it), but then connectDestroyed,
\* which undoes both, is still to come.
CleanupIsComing ==
  \A c \in Accepted \ revived :
    /\ conn[c].state = "kDisConnected"
    /\ Registered(conn[c]) \/ conn[c].idle = "armed"
    => InBaseQ(c) \/ InQueue("destroyed", c)

\* Every variable has its type, and connectDestroyed runs once, though
\* closeCallback_ may run more often: what holds it is removeConnectionInLoop's
\* look at the result of erase.
DestroyedOnce == TypeOK /\ \A c \in Conns : conn[c].destroys <= 1

\* An open connection cannot be forgotten: it is in the server's map, watched
\* for reading, and its idle timer runs or has just expired.
OpenIsWatched ==
  \A c \in Accepted \ revived :
    conn[c].state \in {"kConnected", "kDisConnecting"}
      => /\ c \in connections
         /\ Registered(conn[c]) /\ "in" \in conn[c].events
         /\ conn[c].idle = "armed" \/ \E l \in Loops : c \in expiring[l]

\* The stage of a connection, as the queues and the map tell it; state_ says only
\* that it is new, since other threads overwrite it.
Stage(c) ==
  CASE c \notin Accepted -> "none"
    [] c \in connections /\ conn[c].closes > 0 -> "closed"
    [] c \in connections /\ conn[c].closes = 0 ->
         IF conn[c].state = "kConnecting" THEN "accepted" ELSE "open"
    [] c \in Accepted \ connections ->
         IF InQueue("destroyed", c) THEN "removed" ELSE "destroyed"

Lives == INSTANCE ConnectionLife
           WITH stage <- [c \in Conns |-> Stage(c)], accepting <- listening

\* Accepted, established, closed, removed, destroyed: each connection goes through
\* these once and in this order, even one whose state_ was overwritten after its
\* close, and none is accepted after stop() (newConnection, closeCallback_,
\* removeConnectionInLoop, connectDestroyed).
ImplementsConnectionLife == Lives!Spec

\* A closed connection leaves the server's map and gets its connectDestroyed,
\* unless Acceptor::handleRead never comes out of its loop: over an accept that
\* fails for good the base loop runs no functor any more.
ClosedIsRemoved ==
  <>[]spinning \/
    \A c \in Conns :
      (conn[c].state = "kDisConnected")
        ~> (c \notin connections /\ conn[c].destroys = 1)

\* forceClose() that passed its test closes the connection.
ForceCloseCloses ==
  \A c \in Conns :
    (InQueue("forceClose", c)) ~> (conn[c].state = "kDisConnected")

\* ~TcpConnection asserts that the state is kDisConnected
\* (TcpConnection.cc:79).  shutdown() breaks it: its store may overwrite a
\* kDisConnected stored since its test, and shutdownInLoop leaves the state
\* alone while the channel still asks for write events.
DestructorAssertion ==
  \A c \in Conns : Destroyed(c) => conn[c].state = "kDisConnected"
===============================================================================
