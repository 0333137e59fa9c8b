-------------------------------- MODULE Client --------------------------------
(***************************************************************************)
(* A TcpClient with its Connector (src/net/TcpClient.cc, Connector.cc) and *)
(* the connections they make: calls of the user, in the loop's thread or   *)
(* in another, the results of connect(), the timers of both, and the       *)
(* loop's functors.  Attempt n to connect makes connection n.  What other  *)
(* threads do to connection_ is one step per call; calls in the loop's     *)
(* thread come between its callbacks, those of one expiry of the TimerQueue *)
(* included: it takes timers out, then runs all of them, and a cancel      *)
(* reaches only those still in the queue.  Where the code uses an          *)
(* object that is gone, the behaviours end (dangling); where it only reads *)
(* revents_ of a Channel that its own callback has freed, they end, or the *)
(* read finds nothing more to call.                                        *)
(***************************************************************************)
EXTENDS TcpConnection, Integers

CONSTANTS
  MaxAttempts,  \* bound: calls of Connector::connect()
  MaxCalls      \* bound: calls of connect() and disconnect()

ASSUME ClientAssumption == MaxAttempts \in Nat /\ MaxCalls \in Nat

VARIABLES
  cstate,      \* the Connector's state_
  channel,     \* the attempt that channel_ belongs to, 0 when it is null
  timers,      \* attempts whose connect timeout is in the TimerQueue
  timerId,     \* connectTimeoutId_: the attempt, 0 when it is not valid
  expired,     \* attempts whose timeout TimerQueue::handleRead is to run
  expiring,    \* connections whose idle timeout it is to run
  attempts,    \* how many there were
  connection,  \* connection_, 0 when it is null
  conns,       \* the TcpConnection of every attempt, as it was last
  functors,    \* the loop's pendingFuncs_
  client,      \* whether ~TcpClient has run
  muted,       \* the connection whose close callback it replaced, or 0
  calls,       \* of the user, so far
  again,       \* history: connect() ran in the middle of an attempt or connection
  stale,       \* history: an attempt failed in handleWrite, its timer stayed armed
  late,        \* history: a timeout ended another attempt than its own
  cut,         \* history: the write side was shut over unsent bytes
  dangling     \* history: an object that is gone would be used

convars == <<cstate, channel, timers, timerId, attempts>>
clivars == <<connection, conns, client, muted>>
exvars == <<expired, expiring, late>>
vars == <<convars, clivars, exvars, functors, calls, again, stale, cut, dangling>>

Attempts == 1..MaxAttempts

Init ==
  /\ cstate = "kDisconnected" /\ channel = 0 /\ timers = {} /\ timerId = 0
  /\ attempts = 0
  /\ connection = 0 /\ conns = [n \in Attempts |-> NewConnection]
  /\ client = "alive" /\ muted = 0 /\ functors = <<>> /\ calls = 0
  /\ expired = {} /\ expiring = {} /\ late = FALSE
  /\ again = FALSE /\ stale = FALSE /\ cut = FALSE /\ dangling = FALSE

-----------------------------------------------------------------------------
(* The client's side: newConnection, removeConnection *)

\* removeConnection, which the close callback of connection n runs
Forgotten(n, k) ==
  IF connection = n
  THEN /\ connection' = 0
       /\ conns' = [conns EXCEPT ![n] = ConnectDestroyed(k)]
  ELSE /\ connection' = connection
       /\ conns' = [conns EXCEPT ![n] = k]

\* The close callback of connection n is removeConnection of a client that is gone.
Astray(n) == client = "destroyed" /\ n # muted

\* Connection n becomes k, by a functor or a timer.
Becomes(n, k) ==
  /\ IF k.closes > conns[n].closes THEN Forgotten(n, k)
     ELSE /\ connection' = connection
          /\ conns' = [conns EXCEPT ![n] = k]
  /\ dangling' = (k.closes > conns[n].closes /\ Astray(n))
  /\ cut' = (cut \/ (k.shut /\ k.unsent))
  /\ UNCHANGED <<client, muted>>

\* connectEstablelished, with the user's connection callback
NewClientConnection(n) ==
  \E k \in ConnectEstablished(NewConnection) :
    /\ conns' = [conns EXCEPT ![n] = IF k.closes = 0 THEN k ELSE ConnectDestroyed(k)]
    /\ connection' = IF k.closes = 0 THEN n ELSE 0
    /\ dangling' = (client = "destroyed")
    /\ cut' = (cut \/ (k.shut /\ k.unsent))

-----------------------------------------------------------------------------
(* The Connector, in the loop's thread *)

\* The loop is in the middle of TimerQueue::handleRead.
inTimers == expired # {} \/ expiring # {}
handling == cstate = "kConnecting" /\ channel # 0 /\ ~inTimers

\* Fault: the timer stays armed.
TimerKept == UNCHANGED <<timers, timerId>>
\* cancel() takes the timer out of the queue; one that expired is not there
TimerCancelled == timers' = timers \ {timerId} /\ timerId' = 0
Over == channel' = 0 /\ cstate' = "kDisconnected"

\* The client is gone, no functor holds its Connector, and a channel or a timer
\* with a plain pointer to it is left.
Orphaned ==
  /\ client' = "destroyed"
  /\ ~\E i \in DOMAIN functors' : functors'[i].op \in {"start", "stop"}
  /\ channel' # 0 \/ timers' \cup expired' # {}

NoConnection == dangling' = Orphaned /\ UNCHANGED <<connection, conns, cut>>

\* Connector::connect(): ::connect() succeeds at once, goes on, or fails
Connect ==
  /\ attempts < MaxAttempts
  /\ attempts' = attempts + 1
  /\ UNCHANGED <<client, muted, exvars, stale>>
  /\ again' = (again \/ cstate = "kConnecting" \/ connection # 0)
  /\ \/ /\ cstate' = "kConnected"
        /\ NewClientConnection(attempts + 1)
        /\ UNCHANGED <<channel, timers, timerId>>
     \/ /\ cstate' = "kConnecting" /\ channel' = attempts + 1
        /\ timers' = timers \cup {attempts + 1} /\ timerId' = attempts + 1
        /\ NoConnection
     \/ UNCHANGED <<cstate, channel, timers, timerId>> /\ NoConnection

\* the functor of Connector::stop()
Stop ==
  /\ IF cstate = "kConnecting" THEN Over ELSE UNCHANGED <<cstate, channel>>
  /\ TimerCancelled

ConnectorKeeps == UNCHANGED <<attempts, client, muted, expiring, functors, calls, again>>

\* handleWrite: SO_ERROR is clear
HandleConnected ==
  /\ handling
  /\ TimerCancelled
  /\ cstate' = "kConnected" /\ channel' = 0
  /\ NewClientConnection(channel)
  /\ ConnectorKeeps /\ UNCHANGED <<expired, late, stale>>

\* handleWrite: SO_ERROR is set.  The timer is not cancelled.
HandleFailed ==
  /\ handling
  /\ Over /\ stale' = TRUE /\ UNCHANGED <<timers, timerId, expired, late>>
  /\ ConnectorKeeps /\ NoConnection

\* handleError, with the report's write callback still to come
HandleError ==
  /\ handling
  /\ Over /\ TimerCancelled
  /\ UNCHANGED <<connection, conns, cut>> /\ dangling' \in BOOLEAN
  /\ ConnectorKeeps /\ UNCHANGED <<expired, late, stale>>

TimeoutEffect ==
  IF cstate = "kConnecting" THEN Over /\ timerId' = 0
  ELSE UNCHANGED <<cstate, channel, timerId>>

\* handleTimeout, run by one of the expired timers, ends whichever attempt is in
\* progress
HandleTimeout ==
  \E n \in expired :
    /\ expired' = expired \ {n}
    /\ TimeoutEffect
    /\ late' = (late \/ (cstate = "kConnecting" /\ n # channel))
    /\ ConnectorKeeps /\ UNCHANGED <<timers, stale>> /\ NoConnection

-----------------------------------------------------------------------------
(* Calls of the user *)

Call == client = "alive" /\ calls < MaxCalls /\ calls' = calls + 1

ConnectInLoop == Call /\ UNCHANGED functors /\ Connect
ConnectByOther ==
  /\ Call
  /\ functors' = Append(functors, [op |-> "start", conn |-> 0])
  /\ UNCHANGED <<convars, clivars, exvars, again, stale, cut, dangling>>

\* disconnect(): stop(), shutdown() of the connection, and no connection any more
DisconnectInLoop ==
  /\ Call
  /\ Stop
  /\ IF connection # 0 /\ Passes("shutdown", conns[connection])
     THEN LET k == ShutdownInLoop([conns[connection] EXCEPT !.state = "kDisConnecting"])
          IN /\ conns' = [conns EXCEPT ![connection] =
                            IF k.closes > conns[connection].closes
                            THEN ConnectDestroyed(k) ELSE k]
             /\ cut' = (cut \/ (k.shut /\ k.unsent))
     ELSE UNCHANGED <<conns, cut>>
  /\ connection' = 0
  /\ UNCHANGED <<attempts, client, muted, exvars, functors, again, stale, dangling>>

DisconnectByOther ==
  /\ Call
  /\ LET stop == [op |-> "stop", conn |-> 0]
         shutdown == [op |-> "shutdown", conn |-> connection]
     IN IF connection # 0 /\ Passes("shutdown", conns[connection])
        THEN /\ functors' = functors \o <<stop, shutdown>>
             /\ conns' = [conns EXCEPT ![connection].state = "kDisConnecting"]
        ELSE /\ functors' = Append(functors, stop)
             /\ UNCHANGED conns
  /\ connection' = 0
  /\ UNCHANGED <<convars, client, muted, exvars, again, stale, cut, dangling>>

\* ~TcpClient.  The Connector goes with it, and its callbacks and its timer hold
\* plain pointers to the two; but the connection it closes gets a close callback
\* that does nothing.
Destroy(inLoop) ==
  /\ client = "alive" /\ client' = "destroyed"
  /\ connection' = 0 /\ muted' = connection
  /\ IF connection = 0 THEN UNCHANGED <<conns, functors>>
     ELSE LET closing == [conns[connection] EXCEPT !.state = "kDisConnecting"]
          IN IF ~Passes("forceClose", conns[connection]) THEN UNCHANGED <<conns, functors>>
             ELSE IF inLoop
             THEN /\ conns' = [conns EXCEPT ![connection] = ForceCloseInLoop(closing)]
                  /\ UNCHANGED functors
             ELSE /\ conns' = [conns EXCEPT ![connection] = closing]
                  /\ functors' = Append(functors, [op |-> "forceClose", conn |-> connection])
  /\ UNCHANGED <<convars, exvars, calls, again, stale, cut>>
  /\ dangling' = Orphaned

-----------------------------------------------------------------------------
(* The loop *)

\* A connection lives while connection_ or a functor holds it.
Pending(n) == \E i \in DOMAIN functors : functors[i].conn = n
Holds(n) == connection = n \/ Pending(n)

\* forceClose is ~TcpClient's, of the connection it muted.
Run(f) ==
  \/ f.op = "start" /\ Connect
  \/ /\ f.op = "stop"
     /\ Stop /\ UNCHANGED <<attempts, client, muted, exvars, again, stale>>
     /\ NoConnection
  \/ /\ f.op = "shutdown"
     /\ Becomes(f.conn, ShutdownInLoop(conns[f.conn]))
     /\ UNCHANGED <<convars, exvars, again, stale>>
  \/ /\ f.op = "forceClose"
     /\ conns' = [conns EXCEPT ![f.conn] = ForceCloseInLoop(@)]
     /\ UNCHANGED <<convars, connection, client, muted, exvars, again, stale, cut,
                    dangling>>

RunFunctor ==
  /\ functors # <<>> /\ ~inTimers
  /\ functors' = Tail(functors)
  /\ Run(Head(functors))
  /\ UNCHANGED calls

\* Callback cb of connection n, which is k by now.  The one that closes it also
\* runs removeConnection, after which it is gone unless a functor holds it.
Called(n, cb, k) ==
  LET over(q) == q.closes > conns[n].closes
  IN IF ~over(k)
     THEN {IF over(q) /\ connection = n THEN ConnectDestroyed(q) ELSE q : q \in Handle(cb, k)}
     ELSE IF Pending(n) THEN Handle(cb, k) ELSE {k}

\* Channel::handleEvent(): the callbacks cbs, one after the other
AllCalled(n, cbs) ==
  LET after[i \in 0..Len(cbs)] ==
        IF i = 0 THEN {conns[n]}
        ELSE UNION {Called(n, cbs[i], k) : k \in after[i - 1]}
  IN after[Len(cbs)]

Reported(n, cbs) ==
  \E k \in AllCalled(n, cbs) :
    LET over == k.closes > conns[n].closes
    IN /\ conns' = [conns EXCEPT ![n] = k]
       /\ connection' = IF over /\ connection = n THEN 0 ELSE connection
       /\ cut' = (cut \/ (k.shut /\ k.unsent))
       /\ dangling' \in IF ~over THEN {FALSE}
                        ELSE IF Astray(n) THEN {TRUE}
                        ELSE IF Pending(n) THEN {FALSE} ELSE BOOLEAN

ConnectionEvent ==
  \E n \in Attempts :
    /\ Holds(n) /\ Registered(conns[n]) /\ ~inTimers
    /\ \E cbs \in Reports(conns[n]) : Reported(n, cbs)
    /\ UNCHANGED <<convars, client, muted, exvars, functors, calls, again, stale>>

\* ~TcpConnection cancels its idle timer, so those in the queue are of connections
\* that somebody holds.
IdleTimers == {n \in Attempts : Holds(n) /\ conns[n].idle = "armed"}

\* TimerQueue::handleRead takes out the timers that are due,
ExpireTimers ==
  /\ ~inTimers
  /\ expired' \in SUBSET timers /\ expiring' \in SUBSET IdleTimers
  /\ expired' # {} \/ expiring' # {}
  /\ timers' = timers \ expired'
  /\ conns' = [n \in Attempts |-> IF n \in expiring' THEN [conns[n] EXCEPT !.idle = "fired"]
                                 ELSE conns[n]]
  /\ UNCHANGED <<cstate, channel, timerId, attempts, connection, client, muted, late,
                 functors, calls, again, stale, cut, dangling>>

\* and runs them: HandleTimeout, and the idle timeout of a connection, which
\* may be gone by now
IdleTimeout ==
  \E n \in Attempts :
    /\ n \in expiring /\ expiring' = expiring \ {n}
    /\ \/ Holds(n) /\ Becomes(n, ForceCloseInLoop(conns[n]))
       \/ ~Holds(n) /\ dangling' = TRUE /\ UNCHANGED <<clivars, cut>>
    /\ UNCHANGED <<convars, expired, late, functors, calls, again, stale>>

Next ==
  /\ ~dangling
  /\ \/ ConnectInLoop \/ ConnectByOther
     \/ DisconnectInLoop \/ DisconnectByOther
     \/ \E inLoop \in BOOLEAN : Destroy(inLoop)
     \/ HandleConnected \/ HandleFailed \/ HandleError
     \/ RunFunctor \/ ConnectionEvent
     \/ ExpireTimers \/ HandleTimeout \/ IdleTimeout

Spec == Init /\ [][Next]_vars

-----------------------------------------------------------------------------
(* Properties *)

\* An attempt to connect that is going on has its own timeout in the queue or about
\* to run, in whatever order results, timeouts, stops and new attempts come; and
\* when attempts do not overlap, the channel is there exactly during the attempt,
\* and the queue keeps no timer of an earlier one that could end a later one.  Two
\* cases are excepted: an attempt that failed in handleWrite, which forgets its
\* timer (stale); and a timeout that ended another attempt than its own (late):
\* cancel() does not reach a timer that TimerQueue::handleRead has taken out, and
\* handleTimeout asks only for state_ and drops the TimerId of the attempt it ends
\* (Connector.cc:92, 115, 160-175, TimerQueue.cc:143, 170-174).
AttemptIsTimed ==
  /\ cstate = "kConnecting" => channel \in timers \cup expired
  /\ ~again => (channel # 0 <=> cstate = "kConnecting")
  /\ ~again /\ ~stale /\ ~late => timers \subseteq {channel}

\* connection_ names only a connection that has not been closed, and one that
\* nothing holds any more was closed first, so that ~TcpConnection finds the state
\* it asserts, whoever disconnects or destroys the client in whatever thread;
\* unless connect() was called over it, or it was shut down over unsent bytes
\* (TcpClient.cc:31, 66, TcpConnection.cc:79).
HeldWhileOpen ==
  /\ connection # 0 => conns[connection].closes = 0
  /\ ~again /\ ~cut /\ ~dangling =>
       \A n \in 1..attempts :
         ~Holds(n) /\ conns[n] # NewConnection => conns[n].state = "kDisConnected"
=============================================================================
