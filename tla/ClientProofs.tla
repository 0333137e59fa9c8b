---------------------------- MODULE ClientProofs ----------------------------
(***************************************************************************)
(* Proofs about Client, for every number of attempts and calls: first the  *)
(* Connector's own members, whatever happens to the connections; then who  *)
(* holds the connections, whatever the kernel and the callbacks answer.    *)
(***************************************************************************)
EXTENDS Client, TcpConnectionProofs

\* AttemptIsTimed is not inductive: connectTimeoutId_ must name the timer of the
\* attempt that is going on, or what cancels it would cancel another; the attempts
\* must be numbered so that a new one's timer is new; and a timer that was taken
\* out of the queue is not in it.
Members ==
  /\ attempts \in Nat
  /\ timers \subseteq Nat \ {0} /\ expired \subseteq Nat
  /\ \A n \in timers \cup expired : n <= attempts
  /\ timers \cap expired = {}
  /\ cstate = "kConnecting" => timerId = channel

CInv == Members /\ AttemptIsTimed

LEMMA InitTimed == Init => CInv
BY DEF Init, CInv, Members, AttemptIsTimed

\* Connector::connect(), whatever the system call answers
LEMMA ConnectTimed == CInv /\ Connect => CInv'
<1> SUFFICES ASSUME CInv, Connect PROVE CInv'
  OBVIOUS
<1> USE DEF CInv, Members
<1>1. /\ again' = (again \/ cstate = "kConnecting" \/ connection # 0)
      /\ UNCHANGED <<stale, expired, late>>
  BY DEF Connect, exvars
<1>2. attempts' = attempts + 1 /\ attempts' \in Nat \ {0}
  BY DEF Connect
<1>3. /\ \A n \in timers \cup expired : n \in Nat /\ n <= attempts' /\ n # attempts'
      /\ attempts' \notin timers \cup expired
  BY <1>2
<1>4. CASE UNCHANGED <<timers, timerId, channel>> /\ cstate' \in {cstate, "kConnected"}
  <2>1. Members'
    BY <1>1, <1>2, <1>3, <1>4
  <2>2. ~again' => (channel' # 0 <=> cstate' = "kConnecting")
    BY <1>1, <1>4 DEF AttemptIsTimed
  <2> QED
    BY <1>1, <1>4, <2>1, <2>2 DEF AttemptIsTimed
<1>5. CASE /\ cstate' = "kConnecting" /\ channel' = attempts + 1
           /\ timers' = timers \cup {attempts + 1} /\ timerId' = attempts + 1
  <2>1. Members'
    BY <1>1, <1>2, <1>3, <1>5
  <2>2. ~again' /\ ~stale' /\ ~late' => timers = {}
    <3>1. ~again' => ~again /\ cstate # "kConnecting"
      BY <1>1
    <3> QED
      BY <1>1, <3>1 DEF AttemptIsTimed
  <2> QED
    BY <1>2, <1>5, <2>1, <2>2 DEF AttemptIsTimed
<1> QED
  BY <1>4, <1>5 DEF Connect

\* Connector::stop() and the outcomes of an attempt, which all leave attempts,
\* again and no later timer than the one they cancel
LEMMA StopTimed ==
  CInv /\ Stop /\ UNCHANGED <<attempts, exvars, again, stale>> => CInv'
<1> SUFFICES ASSUME CInv, Stop, UNCHANGED <<attempts, exvars, again, stale>>
             PROVE  CInv'
  OBVIOUS
<1> USE DEF CInv, Members, AttemptIsTimed, Stop, Over, TimerCancelled, exvars
<1>1. cstate' # "kConnecting"
  OBVIOUS
<1>2. Members'
  BY <1>1
<1>3. CASE cstate = "kConnecting"
  BY <1>1, <1>2, <1>3
<1>4. CASE cstate # "kConnecting"
  BY <1>1, <1>2, <1>4
<1> QED
  BY <1>3, <1>4

LEMMA OutcomeTimed ==
  ASSUME CInv, HandleConnected \/ HandleFailed \/ HandleError \/ HandleTimeout
  PROVE  CInv'
<1> USE DEF CInv, Members, AttemptIsTimed, ConnectorKeeps, Over
<1>1. CASE HandleConnected
  BY <1>1 DEF HandleConnected, TimerCancelled, handling
<1>2. CASE HandleFailed
  BY <1>2 DEF HandleFailed, handling
<1>3. CASE HandleError
  BY <1>3 DEF HandleError, TimerCancelled, handling
<1>4. CASE HandleTimeout
  <2>1. PICK n \in expired :
          /\ expired' = expired \ {n}
          /\ TimeoutEffect
          /\ late' = (late \/ (cstate = "kConnecting" /\ n # channel))
          /\ UNCHANGED <<attempts, timers, again, stale>>
    BY <1>4 DEF HandleTimeout
  <2>2. CASE cstate = "kConnecting"
    <3>1. /\ cstate' = "kDisconnected" /\ channel' = 0 /\ timerId' = 0
      BY <2>1, <2>2 DEF TimeoutEffect
    <3>2. ASSUME ~again, ~stale, ~late' PROVE timers = {}
      <4>1. n = channel /\ ~late
        BY <2>1, <2>2, <3>2
      <4> QED
        BY <3>2, <4>1
    <3> QED
      BY <2>1, <3>1, <3>2
  <2>3. CASE cstate # "kConnecting"
    BY <2>1, <2>3 DEF TimeoutEffect
  <2> QED
    BY <2>2, <2>3
<1> QED
  BY <1>1, <1>2, <1>3, <1>4

LEMMA ExpireTimed == CInv /\ ExpireTimers => CInv'
<1> SUFFICES ASSUME CInv, ExpireTimers PROVE CInv'
  OBVIOUS
<1>1. /\ expired = {} /\ expired' \subseteq timers /\ timers' = timers \ expired'
      /\ UNCHANGED <<cstate, channel, timerId, attempts, late, again, stale>>
  BY DEF ExpireTimers, inTimers
<1> QED
  BY <1>1 DEF CInv, Members, AttemptIsTimed

\* Steps that leave the Connector's members alone.
LEMMA OthersTimed ==
  CInv /\ UNCHANGED <<convars, expired, late, again, stale>> => CInv'
BY DEF CInv, Members, AttemptIsTimed, convars

LEMMA StepTimed == CInv /\ [Next]_vars => CInv'
<1> SUFFICES ASSUME CInv, [Next]_vars PROVE CInv'
  OBVIOUS
<1>1. CASE UNCHANGED vars
  BY <1>1, OthersTimed DEF vars, exvars
<1>2. CASE ConnectInLoop
  BY <1>2, ConnectTimed DEF ConnectInLoop
<1>3. CASE ConnectByOther \/ DisconnectByOther
  BY <1>3, OthersTimed DEF ConnectByOther, DisconnectByOther, exvars
<1>4. CASE DisconnectInLoop
  BY <1>4, StopTimed DEF DisconnectInLoop
<1>5. CASE \E inLoop \in BOOLEAN : Destroy(inLoop)
  BY <1>5, OthersTimed DEF Destroy, exvars
<1>6. CASE HandleConnected \/ HandleFailed \/ HandleError \/ HandleTimeout
  BY <1>6, OutcomeTimed
<1>7. CASE RunFunctor
  <2>1. CASE Head(functors).op = "start" /\ Connect
    BY <2>1, ConnectTimed
  <2>2. CASE Stop /\ UNCHANGED <<attempts, client, muted, exvars, again, stale>>
    BY <2>2, StopTimed
  <2>3. CASE UNCHANGED <<convars, exvars, again, stale>>
    BY <2>3, OthersTimed DEF exvars
  <2> QED
    BY <1>7, <2>1, <2>2, <2>3 DEF RunFunctor, Run
<1>8. CASE ConnectionEvent \/ IdleTimeout
  BY <1>8, OthersTimed DEF ConnectionEvent, IdleTimeout, exvars
<1>9. CASE ExpireTimers
  BY <1>9, ExpireTimed
<1> QED
  BY <1>1, <1>2, <1>3, <1>4, <1>5, <1>6, <1>7, <1>8, <1>9 DEF Next

\* For any number of attempts and of calls in any order, in callbacks of other
\* timers of the same expiry too: every attempt to connect that is going on has its
\* own timeout in the TimerQueue or about to run; and where attempts do not overlap,
\* the queue keeps no timer of an earlier one, unless one failed in handleWrite
\* (stale), or a timer that cancel() came too late for has ended another attempt
\* than its own (late) (Connector.cc, TimerQueue.cc:143).
THEOREM AttemptsAreTimed == Spec => []AttemptIsTimed
<1>1. CInv => AttemptIsTimed
  BY DEF CInv
<1> QED
  BY <1>1, InitTimed, StepTimed, PTL DEF Spec

-----------------------------------------------------------------------------
(* connection_, the connections and who keeps them *)

\* the histories, as predicates
WasCut == cut
WasAgain == again
IsDangling == dangling

Functors == [op : {"start", "stop", "shutdown", "forceClose"}, conn : Nat]
Elems(s) == {s[i] : i \in DOMAIN s}

HTypes ==
  /\ attempts \in 0..MaxAttempts
  /\ connection \in 0..attempts
  /\ channel \in 0..attempts
  /\ conns \in [Attempts -> Connection]
  /\ functors \in Seq(Functors)
  /\ client \in {"alive", "destroyed"}

\* A connection is new until its attempt succeeds.  Then connection_ names it
\* while it is connected, unless an attempt was made over it, and a functor holds
\* it while it is disconnecting, unless it waits with its write side shut.
OneConn(n) ==
  /\ Sound(conns[n])
  /\ conns[n].state = "kConnecting" => conns[n] = NewConnection
  /\ n > attempts => conns[n].state = "kConnecting"
  /\ conns[n].state = "kConnected" /\ ~WasAgain => connection = n
  /\ conns[n].state = "kDisConnecting" /\ ~WasCut => Pending(n)

ConnsInv == \A n \in Attempts : OneConn(n)

\* What connection_ names is open.
NamedInv ==
  connection # 0 => Open(conns[connection]) /\ conns[connection].closes = 0

\* The attempt that is going on has no connection yet, nor has the client.
ChannelInv ==
  /\ channel # 0 => conns[channel].state = "kConnecting"
  /\ channel # 0 /\ ~WasAgain => connection = 0

\* A functor holds no connection, or one that was established.
FunctorOK(f) ==
  \/ f.op \in {"start", "stop"} /\ f.conn = 0
  \/ /\ f.op \in {"shutdown", "forceClose"}
     /\ f.conn \in 1..attempts
     /\ conns[f.conn].state # "kConnecting"
     /\ f.op = "forceClose" => client = "destroyed"

FunctorInv == \A f \in Elems(functors) : FunctorOK(f)

ClientInv == ~IsDangling /\ client = "destroyed" => connection = 0

HInv ==
  HTypes /\ ConnsInv /\ NamedInv /\ ChannelInv /\ FunctorInv /\ ClientInv

-----------------------------------------------------------------------------
(* The loop's pendingFuncs_ *)

LEMMA PendingIs ==
  \A n : /\ Pending(n) <=> \E f \in Elems(functors) : f.conn = n
         /\ Pending(n)' <=> \E f \in Elems(functors') : f.conn = n
BY DEF Pending, Elems

LEMMA ElemsAppend ==
  ASSUME NEW S, NEW s \in Seq(S), NEW f \in S
  PROVE  /\ Append(s, f) \in Seq(S)
         /\ Elems(Append(s, f)) = Elems(s) \cup {f}
<1>1. Append(s, f) \in Seq(S) /\ DOMAIN Append(s, f) = 1..Len(s) + 1
  OBVIOUS
<1>2. \A i \in 1..Len(s) : Append(s, f)[i] = s[i]
  OBVIOUS
<1>3. Append(s, f)[Len(s) + 1] = f /\ Len(s) \in Nat /\ DOMAIN s = 1..Len(s)
  OBVIOUS
<1> QED
  BY <1>1, <1>2, <1>3 DEF Elems

LEMMA ElemsTail ==
  ASSUME NEW S, NEW s \in Seq(S), s # <<>>
  PROVE  /\ Tail(s) \in Seq(S) /\ Head(s) \in S
         /\ Elems(s) = {Head(s)} \cup Elems(Tail(s))
<1>1. /\ Tail(s) \in Seq(S) /\ Head(s) \in S /\ Head(s) = s[1]
      /\ Len(s) \in Nat \ {0} /\ DOMAIN s = 1..Len(s)
      /\ DOMAIN Tail(s) = 1..Len(s) - 1
  OBVIOUS
<1>2. \A i \in 1..Len(s) - 1 : Tail(s)[i] = s[i + 1]
  OBVIOUS
<1>3. ASSUME NEW e \in Elems(s) PROVE e \in {Head(s)} \cup Elems(Tail(s))
  <2>1. PICK i \in 1..Len(s) : e = s[i]
    BY <1>1 DEF Elems
  <2>2. CASE i = 1
    BY <1>1, <2>1, <2>2
  <2>3. CASE i # 1
    <3>1. i - 1 \in 1..Len(s) - 1 /\ Tail(s)[i - 1] = s[i]
      BY <1>1, <1>2, <2>3
    <3> QED
      BY <1>1, <2>1, <3>1 DEF Elems
  <2> QED
    BY <2>2, <2>3
<1>4. ASSUME NEW e \in Elems(Tail(s)) PROVE e \in Elems(s)
  <2>1. PICK i \in 1..Len(s) - 1 : e = Tail(s)[i]
    BY <1>1 DEF Elems
  <2>2. e = s[i + 1] /\ i + 1 \in 1..Len(s)
    BY <1>1, <1>2, <2>1
  <2> QED
    BY <1>1, <2>2 DEF Elems
<1>5. Head(s) \in Elems(s)
  BY <1>1 DEF Elems
<1> QED
  BY <1>1, <1>3, <1>4, <1>5

\* A functor stays good.
LEMMA FunctorStays ==
  ASSUME FunctorInv, attempts \in Nat, attempts' \in Nat, attempts' >= attempts,
         client' # client => client' = "destroyed",
         \A n \in 1..attempts : conns[n].state # "kConnecting" =>
                                conns'[n].state # "kConnecting"
  PROVE  \A f \in Elems(functors) : FunctorOK(f)'
<1> SUFFICES ASSUME NEW f \in Elems(functors) PROVE FunctorOK(f)'
  OBVIOUS
<1>1. FunctorOK(f)
  BY DEF FunctorInv
<1>2. CASE f.op \in {"start", "stop"} /\ f.conn = 0
  BY <1>2 DEF FunctorOK
<1>3. CASE /\ f.op \in {"shutdown", "forceClose"}
           /\ f.conn \in 1..attempts
           /\ conns[f.conn].state # "kConnecting"
           /\ f.op = "forceClose" => client = "destroyed"
  BY <1>3 DEF FunctorOK
<1> QED
  BY <1>1, <1>2, <1>3 DEF FunctorOK

-----------------------------------------------------------------------------
(* Steps of one connection *)

\* What any call or callback makes of a connection that was established.
Moves(k, d) ==
  /\ Sound(d)
  /\ \/ Open(k) /\ Open(d) /\ d.closes = k.closes
     \/ IsClosed(k, d)
     \/ StaysClosed(k, d)

LEMMA EffectMoves ==
  ASSUME NEW k, NEW d, Effect(k, d)
  PROVE  Moves(k, d)
BY DEF Effect, Moves, GoesOn

LEMMA MovesTwice ==
  ASSUME NEW k, NEW d, NEW e, Sound(k), Moves(k, d), Moves(d, e)
  PROVE  Moves(k, e)
<1>1. k.closes \in Nat /\ d.closes \in Nat /\ e.closes \in Nat
  BY DEF Moves, Sound, Connection
<1>2. ~(Open(d) /\ Closed(d)) /\ Sound(e)
  BY DEF Open, Closed, Moves
<1>3. CASE Open(d)
  BY <1>1, <1>2, <1>3 DEF Moves, IsClosed, StaysClosed
<1>4. CASE ~Open(d)
  BY <1>1, <1>2, <1>4 DEF Moves, IsClosed, StaysClosed
<1> QED
  BY <1>3, <1>4

\* Connection n becomes d, connection_ is given up when that closed it or was
\* meant to close it, and the functors still hold what they have to hold.
Changes(n, d) ==
  /\ Moves(conns[n], d)
  /\ conns' = [conns EXCEPT ![n] = d]
  /\ connection' # connection => connection' = 0 /\ connection = n
  /\ connection' = n => Open(d)
  /\ d.state = "kConnected" => conns[n].state = "kConnected" /\ connection' = connection
  /\ d.state = "kDisConnecting" => Pending(n)' \/ WasCut'
  /\ WasCut => WasCut'
  /\ \A m \in Attempts \ {n} : Pending(m) => Pending(m)'

LEMMA StateIs ==
  ASSUME NEW k, Open(k) \/ Closed(k)
  PROVE  k.state # "kConnecting" /\ ~(Open(k) /\ Closed(k))
BY DEF Open, Closed

LEMMA OneChanges ==
  ASSUME HInv, NEW n \in Attempts, NEW d, Changes(n, d),
         channel' \in {channel, 0}, UNCHANGED attempts, WasAgain' <=> WasAgain
  PROVE  /\ conns' \in [Attempts -> Connection] /\ connection' \in 0..attempts'
         /\ ConnsInv' /\ NamedInv' /\ ChannelInv'
         /\ \A m \in 1..attempts : conns[m].state # "kConnecting" =>
                                   conns'[m].state # "kConnecting"
<1> USE DEF HInv, HTypes
<1>1. /\ Sound(d) /\ d \in Connection
      /\ Open(conns[n]) \/ Closed(conns[n])
      /\ Open(d) \/ Closed(d)
  BY DEF Changes, Moves, Sound, IsClosed, StaysClosed
<1>2. /\ conns[n].state # "kConnecting" /\ d.state # "kConnecting"
      /\ ~(Open(d) /\ Closed(d))
  BY <1>1, StateIs
<1>3. conns' = [conns EXCEPT ![n] = d]
  BY DEF Changes
<1>4. /\ conns' \in [Attempts -> Connection] /\ conns'[n] = d
      /\ \A m \in Attempts : m # n => conns'[m] = conns[m]
  BY <1>1, <1>3
<1>5. n <= attempts /\ n # 0 /\ 0 \notin Attempts /\ 1..attempts \subseteq Attempts
  <2>1. n \in Nat \ {0} /\ attempts \in Nat /\ attempts <= MaxAttempts
    BY ClientAssumption DEF Attempts
  <2>2. n > attempts => conns[n].state = "kConnecting"
    BY DEF ConnsInv, OneConn
  <2> QED
    BY <1>2, <2>1, <2>2, ClientAssumption DEF Attempts
<1>6. connection' \in 0..attempts'
  BY DEF Changes
<1>7. ASSUME NEW m \in Attempts PROVE OneConn(m)'
  <2>1. OneConn(m)
    BY DEF ConnsInv
  <2>2. CASE m # n
    <3>1. conns'[m] = conns[m] /\ (connection = m => connection' = m)
      BY <1>4, <1>5, <2>2 DEF Changes
    <3>2. Pending(m) => Pending(m)'
      BY <2>2 DEF Changes
    <3> QED
      BY <2>1, <3>1, <3>2 DEF OneConn, Changes
  <2>3. CASE m = n
    <3>1. d.state = "kConnected" /\ ~WasAgain' => connection' = n
      BY <2>1, <2>3 DEF OneConn, Changes
    <3>2. d.state = "kDisConnecting" /\ ~WasCut' => Pending(n)'
      BY DEF Changes
    <3> QED
      BY <1>1, <1>2, <1>4, <1>5, <2>3, <3>1, <3>2 DEF OneConn
  <2> QED
    BY <2>2, <2>3
<1>8. NamedInv'
  <2> SUFFICES ASSUME connection' # 0
               PROVE  Open(conns'[connection']) /\ conns'[connection'].closes = 0
    BY DEF NamedInv
  <2>1. /\ connection' = connection /\ connection \in Attempts
        /\ Open(conns[connection]) /\ conns[connection].closes = 0
    BY <1>5, ClientAssumption DEF Changes, NamedInv, Attempts
  <2>2. CASE connection = n
    <3>1. Open(d) /\ ~Closed(d)
      BY <1>2, <2>1, <2>2 DEF Changes
    <3>2. d.closes = conns[n].closes
      BY <3>1 DEF Changes, Moves, IsClosed, StaysClosed
    <3> QED
      BY <1>4, <2>1, <2>2, <3>1, <3>2
  <2>3. CASE connection # n
    BY <1>4, <2>1, <2>3
  <2> QED
    BY <2>2, <2>3
<1>9. ChannelInv'
  <2>1. CASE channel' = 0
    BY <2>1 DEF ChannelInv
  <2>2. CASE channel' = channel /\ channel # 0
    <3>1. channel \in Attempts /\ channel # n
      BY <1>2, <1>5, <2>2, ClientAssumption DEF ChannelInv, Attempts
    <3>2. conns'[channel'] = conns[channel]
      BY <1>4, <2>2, <3>1
    <3>3. ~WasAgain => connection' = 0
      BY <2>2 DEF ChannelInv, Changes
    <3> QED
      BY <2>2, <3>2, <3>3 DEF ChannelInv
  <2> QED
    BY <2>1, <2>2
<1>10. \A m \in 1..attempts : conns[m].state # "kConnecting" =>
                              conns'[m].state # "kConnecting"
  BY <1>2, <1>4, <1>5
<1> QED
  BY <1>4, <1>6, <1>7, <1>8, <1>9, <1>10 DEF ConnsInv

\* Steps that leave the connections and connection_ alone.
LEMMA NoneChanges ==
  ASSUME HInv, UNCHANGED <<conns, connection>>, WasCut => WasCut',
         \A m \in Attempts : Pending(m) => Pending(m)',
         \/ /\ channel' \in {channel, 0} /\ attempts' = attempts
            /\ WasAgain => WasAgain'
         \/ /\ attempts' = attempts + 1 /\ attempts' \in Attempts
            /\ channel' \in {channel, attempts'}
            /\ WasAgain => WasAgain'
            /\ connection # 0 => WasAgain'
  PROVE  /\ connection' \in 0..attempts' /\ channel' \in 0..attempts'
         /\ ConnsInv' /\ NamedInv' /\ ChannelInv'
<1> USE DEF HInv, HTypes
<1>1. /\ attempts \in Nat /\ attempts' \in {attempts, attempts + 1}
      /\ connection' \in 0..attempts' /\ channel' \in 0..attempts'
  BY ClientAssumption
<1>2. ASSUME NEW m \in Attempts PROVE OneConn(m)'
  <2>1. m \in Nat /\ (m > attempts' => m > attempts)
    BY <1>1 DEF Attempts
  <2>2. WasAgain => WasAgain'
    OBVIOUS
  <2>3. OneConn(m) /\ (Pending(m) => Pending(m)')
    BY DEF ConnsInv
  <2> QED
    BY <2>1, <2>2, <2>3 DEF OneConn
<1>3. NamedInv'
  BY DEF NamedInv
<1>4. ChannelInv'
  <2>1. CASE channel' = 0
    BY <2>1 DEF ChannelInv
  <2>2. CASE channel' = channel
    BY <2>2 DEF ChannelInv
  <2>3. CASE channel' # 0 /\ channel' # channel
    <3>1. attempts' \in Attempts /\ attempts' > attempts /\ channel' = attempts'
      BY <1>1, <2>3
    <3>2. conns[attempts'].state = "kConnecting"
      BY <3>1 DEF ConnsInv, OneConn
    <3> QED
      BY <2>3, <3>1, <3>2 DEF ChannelInv
  <2> QED
    BY <2>1, <2>2, <2>3
<1> QED
  BY <1>1, <1>2, <1>3, <1>4 DEF ConnsInv

-----------------------------------------------------------------------------
(* A new connection *)

\* It is established and named, or was closed by the user's callback at once.
LEMMA NewClientConnectionIs ==
  ASSUME NEW n, NewClientConnection(n)
  PROVE  \E d : /\ conns' = [conns EXCEPT ![n] = d]
                /\ Sound(d)
                /\ \/ Open(d) /\ d.closes = 0 /\ connection' = n
                   \/ Closed(d) /\ connection' = 0
                /\ d.state = "kDisConnecting" => WasCut'
                /\ WasCut => WasCut'
                /\ IsDangling' <=> client = "destroyed"
<1>1. PICK k \in ConnectEstablished(NewConnection) :
        /\ conns' = [conns EXCEPT ![n] = IF k.closes = 0 THEN k ELSE ConnectDestroyed(k)]
        /\ connection' = IF k.closes = 0 THEN n ELSE 0
        /\ dangling' = (client = "destroyed")
        /\ cut' = (cut \/ (k.shut /\ k.unsent))
  BY DEF NewClientConnection
<1>2. PICK e : /\ Sound(e) /\ Open(e) /\ e.closes = 0 /\ e.state = "kConnected"
               /\ Effect(e, k) /\ Stays(e, k)
  BY ConnectEstablishedEffect
<1>3. ~Closed(e) /\ Sound(k)
  BY <1>2, StateIs DEF Effect
<1>4. k.state = "kDisConnecting" => Stuck(k)
  BY <1>2 DEF Stays
<1>5. (WasCut => WasCut') /\ (Stuck(k) => WasCut')
  <2>1. cut' = (cut \/ (k.shut /\ k.unsent))
    BY <1>1
  <2> QED
    BY <2>1, Zenon DEF WasCut, Stuck
<1>6. IsDangling' <=> client = "destroyed"
  <2>1. dangling' = (client = "destroyed")
    BY <1>1
  <2> QED
    BY <2>1, Zenon DEF IsDangling
<1>7. /\ conns' = [conns EXCEPT ![n] = IF k.closes = 0 THEN k ELSE ConnectDestroyed(k)]
      /\ connection' = IF k.closes = 0 THEN n ELSE 0
  BY <1>1
<1>8. CASE GoesOn(e, k)
  <2>1. Open(k) /\ k.closes = 0
    BY <1>2, <1>8 DEF GoesOn
  <2>2. conns' = [conns EXCEPT ![n] = k] /\ connection' = n
    BY <1>7, <2>1
  <2> QED
    BY <1>3, <1>4, <1>5, <1>6, <2>1, <2>2
<1>9. CASE IsClosed(e, k)
  <2>1. Closed(k) /\ k.closes = 1
    BY <1>2, <1>9 DEF IsClosed
  <2>2. PICK d : d = ConnectDestroyed(k)
    OBVIOUS
  <2>3. Sound(d) /\ Closed(d)
    BY <1>3, <2>1, <2>2, ConnectDestroyedEffect
  <2>4. conns' = [conns EXCEPT ![n] = d] /\ connection' = 0
    BY <1>7, <2>1, <2>2
  <2>5. d.state # "kDisConnecting"
    BY <2>3 DEF Closed
  <2> QED
    BY <1>5, <1>6, <2>3, <2>4, <2>5
<1> QED
  BY <1>2, <1>3, <1>8, <1>9 DEF Effect, StaysClosed

\* For an attempt that was not made over a connection.
LEMMA NewConnectionKeeps ==
  ASSUME HInv, NEW n \in Attempts, n \in 1..attempts', NewClientConnection(n),
         conns[n].state = "kConnecting",
         attempts' \in {attempts, attempts + 1}, attempts' \in Attempts,
         channel' # 0 => channel' = channel /\ n > attempts,
         ~WasAgain' => channel' = 0,
         WasAgain => WasAgain', connection # 0 => WasAgain',
         \A m \in Attempts : Pending(m) => Pending(m)'
  PROVE  /\ conns' \in [Attempts -> Connection] /\ connection' \in 0..attempts'
         /\ channel' \in 0..attempts'
         /\ ConnsInv' /\ NamedInv' /\ ChannelInv'
         /\ \A m \in 1..attempts : conns[m].state # "kConnecting" =>
                                   conns'[m].state # "kConnecting"
         /\ IsDangling' <=> client = "destroyed"
<1> USE DEF HInv, HTypes
<1>1. PICK d : /\ conns' = [conns EXCEPT ![n] = d]
               /\ Sound(d)
               /\ \/ Open(d) /\ d.closes = 0 /\ connection' = n
                  \/ Closed(d) /\ connection' = 0
               /\ d.state = "kDisConnecting" => WasCut'
               /\ WasCut => WasCut'
               /\ IsDangling' <=> client = "destroyed"
  BY NewClientConnectionIs
<1>2. d \in Connection /\ d.state # "kConnecting" /\ ~(Open(d) /\ Closed(d))
  BY <1>1, StateIs DEF Sound
<1>3. /\ conns' \in [Attempts -> Connection] /\ conns'[n] = d
      /\ \A m \in Attempts : m # n => conns'[m] = conns[m]
  BY <1>1, <1>2
<1>4. /\ attempts \in Nat /\ attempts' \in Nat /\ n \in Nat /\ n # 0 /\ n <= attempts'
      /\ connection' \in 0..attempts' /\ channel' \in 0..attempts'
      /\ 1..attempts \subseteq Attempts /\ 0 \notin Attempts
  BY <1>1, ClientAssumption DEF Attempts
<1>5. ASSUME NEW m \in Attempts PROVE OneConn(m)'
  <2>1. OneConn(m) /\ (Pending(m) => Pending(m)')
    BY DEF ConnsInv
  <2>2. CASE m # n
    <3>1. conns'[m] = conns[m]
      BY <1>3, <2>2
    <3>2. m \in Nat /\ (m > attempts' => m > attempts)
      BY <1>4 DEF Attempts
    <3>3. ~WasAgain' => conns[m].state # "kConnected"
      BY <1>4, <2>1 DEF OneConn
    <3> QED
      BY <1>1, <2>1, <3>1, <3>2, <3>3 DEF OneConn
  <2>3. CASE m = n
    <3>1. d.state = "kConnected" => connection' = n
      BY <1>1 DEF Closed
    <3> QED
      BY <1>1, <1>2, <1>3, <1>4, <2>3, <3>1 DEF OneConn
  <2> QED
    BY <2>2, <2>3
<1>6. NamedInv'
  BY <1>1, <1>3 DEF NamedInv
<1>7. ChannelInv'
  <2>1. CASE channel' = 0
    BY <2>1 DEF ChannelInv
  <2>2. CASE channel' # 0
    <3>1. channel' = channel /\ n > attempts /\ channel \in Attempts /\ channel # n
      BY <1>4, <2>2 DEF Attempts
    <3>2. conns'[channel'].state = "kConnecting"
      BY <1>3, <2>2, <3>1 DEF ChannelInv
    <3> QED
      BY <2>2, <3>2 DEF ChannelInv
  <2> QED
    BY <2>1, <2>2
<1>8. \A m \in 1..attempts : conns[m].state # "kConnecting" =>
                             conns'[m].state # "kConnecting"
  BY <1>2, <1>3, <1>4
<1> QED
  BY <1>1, <1>3, <1>4, <1>5, <1>6, <1>7, <1>8 DEF ConnsInv

-----------------------------------------------------------------------------
(* The Connector's steps *)

LEMMA Basics ==
  ASSUME HInv
  PROVE  /\ attempts \in Nat /\ 0 \notin Attempts /\ 1..attempts \subseteq Attempts
         /\ connection # 0 => connection \in Attempts
         /\ \A n \in Attempts : conns[n] \in Connection /\ Sound(conns[n]) /\ OneConn(n)
BY ClientAssumption DEF HInv, HTypes, ConnsInv, OneConn, Sound, Attempts

\* Connector::connect(), by a call or by a functor
LEMMA ConnectKeeps ==
  ASSUME HInv, CInv, ~IsDangling, Connect,
         functors' \in Seq(Functors), Elems(functors') \subseteq Elems(functors),
         \A m \in Attempts : Pending(m) => Pending(m)'
  PROVE  HInv'
<1>1. /\ attempts' = attempts + 1 /\ client' = client
      /\ attempts' \in Attempts /\ attempts' \in 0..MaxAttempts
      /\ attempts' > attempts
  BY Basics, ClientAssumption DEF Connect, Attempts
<1>2. /\ WasAgain => WasAgain'
      /\ connection # 0 => WasAgain'
      /\ cstate = "kConnecting" => WasAgain'
  <2>1. again' = (again \/ cstate = "kConnecting" \/ connection # 0)
    BY DEF Connect
  <2> QED
    BY <2>1, Zenon DEF WasAgain
<1>3. ASSUME \A n \in 1..attempts : conns[n].state # "kConnecting" =>
                                    conns'[n].state # "kConnecting"
      PROVE  FunctorInv'
  <2>1. FunctorInv /\ attempts' \in Nat /\ attempts \in Nat /\ attempts' >= attempts
    BY <1>1, Basics DEF HInv
  <2> QED
    BY <1>1, <1>3, <2>1, FunctorStays DEF FunctorInv
<1>4. ASSUME NewClientConnection(attempts + 1), channel' = channel
      PROVE  HInv'
  <2>1. conns[attempts'].state = "kConnecting"
    BY <1>1, Basics DEF OneConn
  <2>2. ~WasAgain' => channel' = 0
    <3>1. ~WasAgain => (channel # 0 <=> cstate = "kConnecting")
      BY DEF CInv, AttemptIsTimed, WasAgain
    <3> QED
      BY <1>2, <1>4, <3>1
  <2>3. NewClientConnection(attempts') /\ attempts' \in 1..attempts'
    BY <1>1, <1>4, Basics
  <2>4. /\ conns' \in [Attempts -> Connection] /\ connection' \in 0..attempts'
        /\ channel' \in 0..attempts'
        /\ ConnsInv' /\ NamedInv' /\ ChannelInv'
        /\ \A m \in 1..attempts : conns[m].state # "kConnecting" =>
                                  conns'[m].state # "kConnecting"
        /\ IsDangling' <=> client = "destroyed"
    BY <1>1, <1>2, <1>4, <2>1, <2>2, <2>3, NewConnectionKeeps
  <2>5. FunctorInv'
    BY <1>3, <2>4
  <2>6. HTypes'
    BY <1>1, <2>4 DEF HInv, HTypes
  <2>7. ClientInv'
    BY <1>1, <2>4 DEF ClientInv
  <2> QED
    BY <2>4, <2>5, <2>6, <2>7 DEF HInv
<1>5. ASSUME NoConnection, channel' \in {channel, attempts'}
      PROVE  HInv'
  <2>1. UNCHANGED <<conns, connection>> /\ (WasCut => WasCut')
    BY <1>5 DEF NoConnection, WasCut
  <2>2. /\ connection' \in 0..attempts' /\ channel' \in 0..attempts'
        /\ ConnsInv' /\ NamedInv' /\ ChannelInv'
    BY <1>1, <1>2, <1>5, <2>1, NoneChanges
  <2>3. FunctorInv'
    BY <1>3, <2>1
  <2>4. HTypes'
    BY <1>1, <2>1, <2>2 DEF HInv, HTypes
  <2>5. ClientInv'
    BY <1>1, <2>1 DEF ClientInv, HInv
  <2> QED
    BY <2>2, <2>3, <2>4, <2>5 DEF HInv
<1> QED
  BY <1>1, <1>4, <1>5 DEF Connect

\* Steps that only end an attempt, or nothing
LEMMA ConnectorKeepsHInv ==
  ASSUME HInv, ~IsDangling, UNCHANGED <<conns, connection, attempts, client, again>>,
         WasCut => WasCut',
         channel' \in {channel, 0},
         functors' \in Seq(Functors), Elems(functors') \subseteq Elems(functors),
         \A m \in Attempts : Pending(m) => Pending(m)'
  PROVE  HInv'
<1>1. (WasCut => WasCut') /\ (WasAgain => WasAgain')
  BY DEF WasAgain
<1>2. /\ connection' \in 0..attempts' /\ channel' \in 0..attempts'
      /\ ConnsInv' /\ NamedInv' /\ ChannelInv'
  BY <1>1, NoneChanges
<1>3. FunctorInv'
  <2>1. FunctorInv /\ attempts' \in Nat /\ attempts \in Nat /\ attempts' >= attempts
    BY Basics DEF HInv
  <2> QED
    BY <2>1, FunctorStays DEF FunctorInv
<1>4. HTypes'
  BY <1>2 DEF HInv, HTypes
<1>5. ClientInv'
  BY DEF ClientInv, HInv
<1> QED
  BY <1>2, <1>3, <1>4, <1>5 DEF HInv

LEMMA SameFunctors ==
  ASSUME HInv, functors' = functors
  PROVE  /\ functors' \in Seq(Functors) /\ Elems(functors') \subseteq Elems(functors)
         /\ \A m \in Attempts : Pending(m) => Pending(m)'
BY PendingIs DEF HInv, HTypes

LEMMA HandleConnectedKeeps ==
  ASSUME HInv, ~IsDangling, HandleConnected
  PROVE  HInv'
<1>1. /\ channel # 0 /\ channel' = 0 /\ NewClientConnection(channel)
      /\ UNCHANGED <<attempts, client, functors>>
      /\ WasAgain' <=> WasAgain
  BY DEF HandleConnected, handling, ConnectorKeeps, WasAgain
<1>2. /\ channel \in Attempts /\ channel \in 1..attempts' /\ attempts' \in Attempts
      /\ conns[channel].state = "kConnecting"
      /\ ~WasAgain => connection = 0
  BY <1>1, ClientAssumption DEF HInv, HTypes, ChannelInv, Attempts
<1>3. /\ functors' \in Seq(Functors) /\ Elems(functors') \subseteq Elems(functors)
      /\ \A m \in Attempts : Pending(m) => Pending(m)'
  BY <1>1, SameFunctors
<1>4. /\ conns' \in [Attempts -> Connection] /\ connection' \in 0..attempts'
      /\ channel' \in 0..attempts'
      /\ ConnsInv' /\ NamedInv' /\ ChannelInv'
      /\ \A m \in 1..attempts : conns[m].state # "kConnecting" =>
                                conns'[m].state # "kConnecting"
      /\ IsDangling' <=> client = "destroyed"
  <2>1. /\ attempts' \in {attempts, attempts + 1}
        /\ channel' # 0 => channel' = channel /\ channel > attempts
        /\ ~WasAgain' => channel' = 0
        /\ WasAgain => WasAgain'
        /\ connection # 0 => WasAgain'
    BY <1>1, <1>2
  <2> QED
    BY <1>1, <1>2, <1>3, <2>1, NewConnectionKeeps
<1>5. FunctorInv'
  <2>1. FunctorInv /\ attempts' \in Nat /\ attempts \in Nat /\ attempts' >= attempts
    BY <1>1, Basics DEF HInv
  <2> QED
    BY <1>1, <1>3, <1>4, <2>1, FunctorStays DEF FunctorInv
<1>6. HTypes'
  BY <1>1, <1>3, <1>4 DEF HInv, HTypes
<1>7. ClientInv'
  BY <1>1, <1>4 DEF ClientInv
<1> QED
  BY <1>4, <1>5, <1>6, <1>7 DEF HInv

LEMMA OutcomeKeeps ==
  ASSUME HInv, ~IsDangling, HandleFailed \/ HandleError \/ HandleTimeout
  PROVE  HInv'
<1>1. /\ UNCHANGED <<conns, connection, attempts, client, again, functors>>
      /\ cut' = cut
      /\ channel' \in {channel, 0}
  <2>1. CASE HandleFailed
    BY <2>1 DEF HandleFailed, ConnectorKeeps, NoConnection, Over
  <2>2. CASE HandleError
    BY <2>2 DEF HandleError, ConnectorKeeps, Over
  <2>3. CASE HandleTimeout
    BY <2>3 DEF HandleTimeout, TimeoutEffect, ConnectorKeeps, NoConnection, Over
  <2> QED
    BY <2>1, <2>2, <2>3
<1>2. /\ functors' \in Seq(Functors) /\ Elems(functors') \subseteq Elems(functors)
      /\ \A m \in Attempts : Pending(m) => Pending(m)'
  BY <1>1, SameFunctors
<1>3. WasCut => WasCut'
  BY <1>1 DEF WasCut
<1> QED
  BY <1>1, <1>2, <1>3, ConnectorKeepsHInv

-----------------------------------------------------------------------------
(* The callbacks of one report *)

CallbackNames == {"error", "read", "write"}

LEMMA CallbacksAre ==
  ASSUME NEW rev
  PROVE  Callbacks(rev) \in Seq(CallbackNames) /\ Len(Callbacks(rev)) <= 3
<1>1. PICK a, b, c, d :
        /\ a = IF "err" \in rev THEN <<"error">> ELSE <<>>
        /\ b = IF "in" \in rev THEN <<"read">> ELSE <<>>
        /\ c = IF "hup" \in rev /\ "in" \notin rev THEN <<"error">> ELSE <<>>
        /\ d = IF "out" \in rev THEN <<"write">> ELSE <<>>
  OBVIOUS
<1>2. /\ <<>> \in Seq(CallbackNames) /\ Len(<<>>) = 0
      /\ <<"error">> \in Seq(CallbackNames) /\ Len(<<"error">>) = 1
      /\ <<"read">> \in Seq(CallbackNames) /\ Len(<<"read">>) = 1
      /\ <<"write">> \in Seq(CallbackNames) /\ Len(<<"write">>) = 1
  BY DEF CallbackNames
<1>3. /\ a \in Seq(CallbackNames) /\ Len(a) \in {0, 1}
      /\ b \in Seq(CallbackNames) /\ Len(b) \in {0, 1}
      /\ c \in Seq(CallbackNames) /\ Len(c) \in {0, 1}
      /\ d \in Seq(CallbackNames) /\ Len(d) \in {0, 1}
      /\ Len(b) = 0 \/ Len(c) = 0
  BY <1>1, <1>2
<1>4. /\ ((a \o b) \o c) \o d \in Seq(CallbackNames)
      /\ Len(((a \o b) \o c) \o d) = Len(a) + Len(b) + Len(c) + Len(d)
  BY <1>3
<1>5. Callbacks(rev) = ((a \o b) \o c) \o d
  BY <1>1 DEF Callbacks
<1>6. Len(a) + Len(b) + Len(c) + Len(d) <= 3
  <2>1. \A p, q, r, s \in {0, 1} : q = 0 \/ r = 0 => p + q + r + s <= 3
    OBVIOUS
  <2> QED
    BY <1>3, <2>1, Zenon
<1> QED
  BY <1>4, <1>5, <1>6

Later(k, d) == Moves(k, d) /\ Stays(k, d)

LEMMA EffectLater ==
  ASSUME NEW b, NEW k, NEW d, Sound(b), Later(b, k), Effect(k, d), Stays(k, d)
  PROVE  Later(b, d)
BY EffectMoves, MovesTwice, StaysTwice DEF Later

LEMMA MovesOpenOrClosed ==
  ASSUME NEW k, NEW d, Moves(k, d)
  PROVE  /\ Sound(d) /\ (Open(k) \/ Closed(k)) /\ (Open(d) \/ Closed(d))
BY DEF Moves, IsClosed, StaysClosed

LEMMA MovesOver ==
  ASSUME NEW k, NEW d, Sound(k), Moves(k, d)
  PROVE  /\ d.closes > k.closes => Closed(d)
         /\ ~(d.closes > k.closes) /\ Open(k) => Open(d) /\ d.closes = k.closes
<1>1. k.closes \in Nat /\ d.closes \in Nat
  BY DEF Moves, Sound, Connection
<1>2. ~(Open(k) /\ Closed(k))
  BY DEF Open, Closed
<1> QED
  BY <1>1, <1>2 DEF Moves, IsClosed, StaysClosed

\* What removeConnection adds, in the same loop.
LEMMA DestroyedLater ==
  ASSUME NEW b, NEW q, Sound(b), Later(b, q), q.closes > b.closes
  PROVE  Later(b, ConnectDestroyed(q))
<1>1. PICK d : d = ConnectDestroyed(q)
  OBVIOUS
<1>2. Sound(q) /\ Closed(q)
  BY MovesOpenOrClosed, MovesOver DEF Later
<1>3. Sound(d) /\ Closed(d) /\ d.closes = q.closes /\ (Stuck(q) <=> Stuck(d))
  BY <1>1, <1>2, ConnectDestroyedEffect
<1>4. ~Open(q)
  BY <1>2 DEF Open, Closed
<1>5. Moves(b, d)
  BY <1>2, <1>3, <1>4 DEF Later, Moves, IsClosed, StaysClosed
<1>6. Stays(b, d)
  BY <1>2, <1>3 DEF Later, Stays, Closed
<1> QED
  BY <1>1, <1>5, <1>6 DEF Later

LEMMA CalledLater ==
  ASSUME NEW n, Sound(conns[n]), NEW cb \in CallbackNames,
         NEW k, Later(conns[n], k), NEW d \in Called(n, cb, k)
  PROVE  Later(conns[n], d)
<1>1. ASSUME NEW q \in Handle(cb, k) PROVE Later(conns[n], q)
  <2>1. Sound(k) /\ (Open(k) \/ Closed(k))
    BY MovesOpenOrClosed DEF Later
  <2> QED
    BY <2>1, HandleEffect, EffectLater DEF CallbackNames
<1>2. \/ d \in Handle(cb, k) \/ d = k
      \/ \E q \in Handle(cb, k) : q.closes > conns[n].closes /\ d = ConnectDestroyed(q)
  BY DEF Called
<1> QED
  BY <1>1, <1>2, DestroyedLater

\* One callback, for whatever the ones before it made of the connection
After(n, cb, S) == UNION {Called(n, cb, k) : k \in S}
AllLater(n, S) == \A k \in S : Later(conns[n], k)

LEMMA AfterLater ==
  ASSUME NEW n, Sound(conns[n]), NEW cb \in CallbackNames, NEW S, AllLater(n, S)
  PROVE  AllLater(n, After(n, cb, S))
<1> SUFFICES ASSUME NEW d \in After(n, cb, S) PROVE Later(conns[n], d)
  BY DEF AllLater
<1>1. PICK k \in S : d \in Called(n, cb, k)
  BY DEF After
<1> QED
  BY <1>1, CalledLater DEF AllLater

\* The function that AllCalled defines by recursion exists: no report has more
\* than three callbacks.
LEMMA AllCalledLater ==
  ASSUME NEW n, Sound(conns[n]), Open(conns[n]) \/ Closed(conns[n]),
         NEW cbs \in Seq(CallbackNames), Len(cbs) <= 3
  PROVE  AllLater(n, AllCalled(n, cbs))
<1>0. Len(cbs) \in Nat /\ Len(cbs) \in {0, 1, 2, 3}
  <2>1. \A m \in Nat : m <= 3 => m \in {0, 1, 2, 3}
    OBVIOUS
  <2>2. Len(cbs) \in Nat
    OBVIOUS
  <2> QED
    BY <2>1, <2>2, Zenon
<1> DEFINE S0 == {conns[n]}
           S1 == After(n, cbs[1], S0)
           S2 == After(n, cbs[2], S1)
           S3 == After(n, cbs[3], S2)
           IsAfter(g) == g = [i \in 0..Len(cbs) |->
                                IF i = 0 THEN S0 ELSE After(n, cbs[i], g[i - 1])]
           after == CHOOSE g : IsAfter(g)
<1>1. \E g : IsAfter(g)
  <2> DEFINE g == [i \in 0..Len(cbs) |->
                     IF i = 0 THEN S0 ELSE IF i = 1 THEN S1
                     ELSE IF i = 2 THEN S2 ELSE S3]
  <2> HIDE DEF S0
  <2>1. ASSUME NEW i \in 0..Len(cbs), i # 0
        PROVE  g[i] = After(n, cbs[i], g[i - 1])
    <3>1. i \in {1, 2, 3} /\ i - 1 \in 0..Len(cbs)
      BY <1>0, <2>1
    <3> QED
      BY <3>1
  <2>2. g = [i \in 0..Len(cbs) |-> IF i = 0 THEN S0 ELSE After(n, cbs[i], g[i - 1])]
    BY <2>1
  <2> QED
    BY <2>2
<1>2. IsAfter(after)
  BY <1>1
<1>3. AllCalled(n, cbs) = after[Len(cbs)]
  BY DEF AllCalled, After
<1> HIDE DEF after, S0
<1>4. AllLater(n, S0)
  BY EffectNothing, EffectMoves DEF AllLater, Later, S0
<1>5. ASSUME NEW i \in 1..Len(cbs), AllLater(n, after[i - 1])
      PROVE  AllLater(n, after[i])
  <2>1. after[i] = After(n, cbs[i], after[i - 1]) /\ cbs[i] \in CallbackNames
    BY <1>2
  <2> QED
    BY <1>5, <2>1, AfterLater
<1>6. after[0] = S0
  BY <1>2
<1>7. /\ AllLater(n, after[0])
      /\ 1 <= Len(cbs) => AllLater(n, after[1])
      /\ 2 <= Len(cbs) => AllLater(n, after[2])
      /\ 3 <= Len(cbs) => AllLater(n, after[3])
  <2>1. AllLater(n, after[0])
    BY <1>4, <1>6
  <2>2. 1 <= Len(cbs) => AllLater(n, after[1])
    BY <1>5, <2>1
  <2>3. 2 <= Len(cbs) => AllLater(n, after[2])
    BY <1>5, <2>2
  <2>4. 3 <= Len(cbs) => AllLater(n, after[3])
    BY <1>5, <2>3
  <2> QED
    BY <2>1, <2>2, <2>3, <2>4
<1> QED
  BY <1>0, <1>3, <1>7

-----------------------------------------------------------------------------
(* Steps of a connection that was made *)

\* What is left to show of a step that changes one connection.
LEMMA ChangeKeeps ==
  ASSUME HInv, NEW n \in Attempts, NEW d, Changes(n, d),
         channel' \in {channel, 0}, UNCHANGED attempts, WasAgain' <=> WasAgain,
         functors' \in Seq(Functors), client' \in {client, "destroyed"},
         \A f \in Elems(functors') : f \in Elems(functors) \/ FunctorOK(f)',
         ClientInv'
  PROVE  HInv'
<1>1. /\ conns' \in [Attempts -> Connection] /\ connection' \in 0..attempts'
      /\ ConnsInv' /\ NamedInv' /\ ChannelInv'
      /\ \A m \in 1..attempts : conns[m].state # "kConnecting" =>
                                conns'[m].state # "kConnecting"
  BY OneChanges
<1>2. FunctorInv'
  <2>1. /\ FunctorInv /\ attempts' \in Nat /\ attempts \in Nat /\ attempts' >= attempts
        /\ client' # client => client' = "destroyed"
    BY Basics DEF HInv
  <2>2. \A f \in Elems(functors) : FunctorOK(f)'
    BY <1>1, <2>1, FunctorStays
  <2> QED
    BY <2>2 DEF FunctorInv
<1>3. HTypes'
  BY <1>1 DEF HInv, HTypes
<1> QED
  BY <1>1, <1>2, <1>3 DEF HInv

\* An established connection, the ones a step may be about
LEMMA EstablishedIs ==
  ASSUME HInv, NEW n \in Attempts, conns[n] # NewConnection
  PROVE  Sound(conns[n]) /\ (Open(conns[n]) \/ Closed(conns[n]))
<1>1. OneConn(n) /\ conns[n] \in Connection
  BY Basics
<1>2. conns[n].state # "kConnecting" /\ conns[n].state \in States
  BY <1>1 DEF OneConn, Connection
<1> QED
  BY <1>1, <1>2 DEF OneConn, Open, Closed, States

LEMMA BecomesChanges ==
  ASSUME HInv, ~IsDangling, NEW n \in Attempts, NEW k, Moves(conns[n], k), Becomes(n, k),
         k.state = "kConnected" => conns[n].state = "kConnected",
         k.state = "kDisConnecting" => Pending(n)' \/ WasCut' \/ Stuck(k),
         \A m \in Attempts \ {n} : Pending(m) => Pending(m)'
  PROVE  /\ \E d : Changes(n, d)
         /\ client' = client /\ ClientInv'
<1> DEFINE over == k.closes > conns[n].closes
<1>1. Sound(conns[n]) /\ Sound(k) /\ n # 0
  BY Basics DEF Moves
<1>2. WasCut' <=> WasCut \/ Stuck(k)
  <2>1. cut' = (cut \/ (k.shut /\ k.unsent))
    BY DEF Becomes
  <2> QED
    BY <2>1, Zenon DEF WasCut, Stuck
<1>3. client' = client
  BY DEF Becomes
<1>4. connection' \in {connection, 0}
  BY DEF Becomes, Forgotten
<1>5. ClientInv'
  BY <1>3, <1>4 DEF ClientInv, HInv
<1>6. CASE over /\ connection = n
  <2>1. PICK d : d = ConnectDestroyed(k)
    OBVIOUS
  <2>2. conns' = [conns EXCEPT ![n] = d] /\ connection' = 0
    BY <1>6, <2>1 DEF Becomes, Forgotten
  <2>3. Closed(k) /\ ~Open(k)
    BY <1>1, <1>6, MovesOver, StateIs
  <2>4. Sound(d) /\ Closed(d) /\ d.closes = k.closes
    BY <1>1, <2>1, <2>3, ConnectDestroyedEffect
  <2>5. Moves(conns[n], d)
    BY <2>3, <2>4 DEF Moves, IsClosed, StaysClosed
  <2>6. d.state # "kConnected" /\ d.state # "kDisConnecting"
    BY <2>4 DEF Closed
  <2>7. Changes(n, d)
    BY <1>1, <1>2, <1>6, <2>2, <2>5, <2>6 DEF Changes
  <2> QED
    BY <1>3, <1>5, <2>7
<1>7. CASE ~(over /\ connection = n)
  <2>1. conns' = [conns EXCEPT ![n] = k] /\ connection' = connection
    BY <1>7 DEF Becomes, Forgotten
  <2>2. connection = n => Open(k)
    <3>1. connection = n => Open(conns[n])
      BY <1>1 DEF HInv, NamedInv
    <3> QED
      BY <1>1, <1>7, <3>1, MovesOver
  <2>3. Changes(n, k)
    BY <1>2, <2>1, <2>2 DEF Changes
  <2> QED
    BY <1>3, <1>5, <2>3
<1> QED
  BY <1>6, <1>7

\* The idle timer of a connection is taken out of the queue.
LEMMA FiredIs ==
  ASSUME NEW k, Sound(k), NEW d, d = [k EXCEPT !.idle = "fired"]
  PROVE  /\ Sound(d) /\ d.state = k.state /\ d.closes = k.closes
         /\ (Open(d) <=> Open(k)) /\ (Closed(d) <=> Closed(k))
<1>1. k \in Connection
  BY DEF Sound
<1>2. d \in Connection
  BY <1>1 DEF Connection
<1>3. /\ d.events = k.events /\ d.index = k.index /\ d.added = k.added
      /\ d.unsent = k.unsent /\ d.shut = k.shut
      /\ d.state = k.state /\ d.closes = k.closes
  BY <1>1 DEF Connection
<1>4. Sound(d)
  BY <1>2, <1>3, SameSound
<1> QED
  BY <1>3, <1>4 DEF Open, Closed

LEMMA ExpireTimersKeeps ==
  ASSUME HInv, ~IsDangling, ExpireTimers
  PROVE  HInv'
<1> USE DEF HTypes
<1>1. /\ UNCHANGED <<channel, attempts, connection, client, functors>>
      /\ (WasAgain' <=> WasAgain) /\ (WasCut' <=> WasCut)
      /\ expiring' \subseteq IdleTimers
      /\ conns' = [n \in Attempts |-> IF n \in expiring'
                                     THEN [conns[n] EXCEPT !.idle = "fired"] ELSE conns[n]]
  BY DEF ExpireTimers, WasAgain, WasCut
<1>2. \A m \in Attempts : Pending(m) => Pending(m)'
  BY <1>1, SameFunctors
<1>3. ASSUME NEW n \in Attempts
      PROVE  /\ conns'[n] \in Connection /\ OneConn(n)'
             /\ conns'[n].state = conns[n].state /\ conns'[n].closes = conns[n].closes
  <2>1. OneConn(n) /\ Sound(conns[n])
    BY Basics
  <2>2. CASE n \in expiring'
    <3>1. conns'[n] = [conns[n] EXCEPT !.idle = "fired"] /\ conns[n].idle = "armed"
      BY <1>1, <2>2 DEF IdleTimers
    <3>2. /\ Sound(conns'[n])
          /\ conns'[n].state = conns[n].state /\ conns'[n].closes = conns[n].closes
      BY <2>1, <3>1, FiredIs
    <3>3. conns[n].state # "kConnecting"
      BY <2>1, <3>1, NewConnectionSound DEF OneConn
    <3> QED
      BY <1>1, <1>2, <2>1, <3>2, <3>3 DEF OneConn, Sound
  <2>3. CASE n \notin expiring'
    <3>1. conns'[n] = conns[n]
      BY <1>1, <2>3
    <3> QED
      BY <1>1, <1>2, <2>1, <3>1 DEF OneConn, Sound
  <2> QED
    BY <2>2, <2>3
<1>4. HTypes' /\ ConnsInv'
  BY <1>1, <1>3 DEF HInv, ConnsInv
<1>5. NamedInv'
  BY <1>1, <1>3, Basics DEF HInv, NamedInv, Open
<1>6. ChannelInv'
  <2>1. channel # 0 => channel \in Attempts
    BY ClientAssumption DEF HInv, Attempts
  <2> QED
    BY <1>1, <1>3, <2>1 DEF HInv, ChannelInv
<1>7. FunctorInv'
  <2>1. \A m \in 1..attempts : conns[m].state # "kConnecting" =>
                               conns'[m].state # "kConnecting"
    BY <1>3, Basics
  <2> QED
    BY <1>1, <2>1, FunctorStays, Basics DEF HInv, FunctorInv
<1>8. ClientInv'
  BY <1>1 DEF HInv, ClientInv
<1> QED
  BY <1>4, <1>5, <1>6, <1>7, <1>8 DEF HInv

\* The idle timeout of a connection that somebody holds, or its last moment
LEMMA IdleTimeoutKeeps ==
  ASSUME HInv, ~IsDangling, IdleTimeout
  PROVE  HInv'
<1>1. PICK n \in Attempts :
        /\ \/ Holds(n) /\ Becomes(n, ForceCloseInLoop(conns[n]))
           \/ ~Holds(n) /\ dangling' = TRUE /\ UNCHANGED <<clivars, cut>>
        /\ UNCHANGED <<convars, functors, again>>
  BY DEF IdleTimeout
<1>2. /\ functors' = functors /\ attempts' = attempts /\ channel' = channel
      /\ again' = again /\ (WasAgain' <=> WasAgain)
  BY <1>1 DEF convars, WasAgain
<1>3. /\ functors' \in Seq(Functors) /\ Elems(functors') \subseteq Elems(functors)
      /\ \A m \in Attempts : Pending(m) => Pending(m)'
  BY <1>2, SameFunctors
<1>4. ASSUME UNCHANGED <<conns, connection, client>>, WasCut => WasCut'
      PROVE  HInv'
  BY <1>2, <1>3, <1>4, ConnectorKeepsHInv
<1>5. CASE ~Holds(n)
  BY <1>1, <1>4, <1>5 DEF clivars, WasCut
<1>6. ASSUME Holds(n), Becomes(n, ForceCloseInLoop(conns[n])) PROVE HInv'
  <2>1. PICK k : k = ForceCloseInLoop(conns[n])
    OBVIOUS
  <2>2. CASE conns[n] # NewConnection
    <3>1. Moves(conns[n], k) /\ Closed(k)
      BY <2>1, <2>2, EstablishedIs, ForceCloseInLoopEffect, EffectMoves
    <3>2. k.state # "kConnected" /\ k.state # "kDisConnecting"
      BY <3>1 DEF Closed
    <3>3. (\E d : Changes(n, d)) /\ client' = client /\ ClientInv'
      BY <1>3, <1>6, <2>1, <3>1, <3>2, BecomesChanges
    <3> QED
      BY <1>2, <1>3, <3>3, ChangeKeeps
  <2>3. CASE conns[n] = NewConnection
    <3>1. k = conns[n] /\ ~(k.closes > conns[n].closes)
      BY <2>1, <2>3 DEF ForceCloseInLoop, NewConnection
    <3>2. UNCHANGED <<connection, client>> /\ conns' = [conns EXCEPT ![n] = conns[n]]
      BY <1>6, <2>1, <3>1 DEF Becomes
    <3>3. conns' = conns
      BY <3>2 DEF HInv, HTypes
    <3>4. WasCut => WasCut'
      <4>1. cut' = (cut \/ (k.shut /\ k.unsent))
        BY <1>6, <2>1 DEF Becomes
      <4> QED
        BY <4>1, Zenon DEF WasCut
    <3> QED
      BY <1>4, <3>2, <3>3, <3>4
  <2> QED
    BY <2>2, <2>3
<1> QED
  BY <1>1, <1>5, <1>6

LEMMA ReportedChanges ==
  ASSUME HInv, ~IsDangling, NEW n \in Attempts, conns[n] # NewConnection,
         NEW cbs \in Reports(conns[n]), Reported(n, cbs),
         functors' = functors
  PROVE  /\ \E d : Changes(n, d)
         /\ connection' \in {connection, 0}
<1>1. PICK k \in AllCalled(n, cbs) :
        /\ conns' = [conns EXCEPT ![n] = k]
        /\ connection' = IF k.closes > conns[n].closes /\ connection = n
                         THEN 0 ELSE connection
        /\ cut' = (cut \/ (k.shut /\ k.unsent))
  BY DEF Reported
<1>2. Sound(conns[n]) /\ (Open(conns[n]) \/ Closed(conns[n])) /\ n # 0
  BY EstablishedIs, Basics
<1>3. cbs \in Seq(CallbackNames) /\ Len(cbs) <= 3
  BY CallbacksAre DEF Reports
<1>4. Moves(conns[n], k) /\ Stays(conns[n], k)
  BY <1>2, <1>3, AllCalledLater DEF AllLater, Later
<1>5. WasCut' <=> WasCut \/ Stuck(k)
  <2>1. cut' = (cut \/ (k.shut /\ k.unsent))
    BY <1>1
  <2> QED
    BY <2>1, Zenon DEF WasCut, Stuck
<1>6. \A m \in Attempts : Pending(m) => Pending(m)'
  BY SameFunctors
<1>7. k.state = "kDisConnecting" => Pending(n)' \/ WasCut'
  <2>1. conns[n].state = "kDisConnecting" /\ ~WasCut => Pending(n)
    BY Basics DEF OneConn
  <2> QED
    BY <1>4, <1>5, <1>6, <2>1 DEF Stays
<1>8. k.state = "kConnected" => conns[n].state = "kConnected" /\ Open(k)
  BY <1>4 DEF Stays, Open
<1>9. /\ conns' = [conns EXCEPT ![n] = k]
      /\ connection' = IF k.closes > conns[n].closes /\ connection = n
                       THEN 0 ELSE connection
  BY <1>1
<1>10. CASE k.closes > conns[n].closes /\ connection = n
  <2>1. Closed(k) /\ connection' = 0
    BY <1>2, <1>4, <1>9, <1>10, MovesOver
  <2> QED
    BY <1>2, <1>4, <1>5, <1>6, <1>7, <1>8, <1>9, <1>10, <2>1 DEF Changes, Closed
<1>11. CASE ~(k.closes > conns[n].closes /\ connection = n)
  <2>1. connection' = connection
    BY <1>9, <1>11
  <2>2. connection = n => Open(k)
    <3>1. connection = n => Open(conns[n])
      BY <1>2 DEF HInv, NamedInv
    <3> QED
      BY <1>2, <1>4, <1>11, <3>1, MovesOver
  <2> QED
    BY <1>4, <1>5, <1>6, <1>7, <1>8, <1>9, <2>1, <2>2 DEF Changes
<1> QED
  BY <1>10, <1>11

LEMMA ConnectionEventKeeps ==
  ASSUME HInv, ~IsDangling, ConnectionEvent
  PROVE  HInv'
<1>1. PICK n \in Attempts :
        /\ Registered(conns[n])
        /\ \E cbs \in Reports(conns[n]) : Reported(n, cbs)
        /\ UNCHANGED <<convars, client, functors, again>>
  BY DEF ConnectionEvent
<1>2. conns[n] # NewConnection
  BY <1>1, NewConnectionSound
<1>3. /\ functors' = functors /\ attempts' = attempts /\ channel' = channel
      /\ client' = client /\ (WasAgain' <=> WasAgain)
  BY <1>1 DEF convars, WasAgain
<1>4. (\E d : Changes(n, d)) /\ connection' \in {connection, 0}
  BY <1>1, <1>2, <1>3, ReportedChanges
<1>5. functors' \in Seq(Functors) /\ Elems(functors') \subseteq Elems(functors)
  BY <1>3, SameFunctors
<1>6. ClientInv'
  BY <1>3, <1>4 DEF ClientInv, HInv
<1> QED
  BY <1>3, <1>4, <1>5, <1>6, ChangeKeeps

-----------------------------------------------------------------------------
(* Functors *)

LEMMA TakeFunctor ==
  ASSUME HInv, functors # <<>>, functors' = Tail(functors)
  PROVE  /\ functors' \in Seq(Functors) /\ Elems(functors') \subseteq Elems(functors)
         /\ FunctorOK(Head(functors))
         /\ \A m \in Attempts : Pending(m) => Pending(m)' \/ Head(functors).conn = m
<1>1. functors \in Seq(Functors) /\ FunctorInv
  BY DEF HInv, HTypes
<1>2. /\ Tail(functors) \in Seq(Functors)
      /\ Elems(functors) = {Head(functors)} \cup Elems(Tail(functors))
  BY <1>1, ElemsTail
<1> QED
  BY <1>1, <1>2, PendingIs DEF FunctorInv

LEMMA RunShutdownKeeps ==
  ASSUME HInv, ~IsDangling, functors # <<>>, functors' = Tail(functors),
         NEW n, n = Head(functors).conn, Head(functors).op = "shutdown",
         Becomes(n, ShutdownInLoop(conns[n])),
         UNCHANGED <<convars, again>>
  PROVE  HInv'
<1>1. /\ functors' \in Seq(Functors) /\ Elems(functors') \subseteq Elems(functors)
      /\ FunctorOK(Head(functors))
      /\ \A m \in Attempts : Pending(m) => Pending(m)' \/ n = m
  BY TakeFunctor
<1>2. n \in Attempts /\ conns[n] # NewConnection
  BY <1>1, Basics, NewConnectionSound DEF FunctorOK
<1>3. PICK k : k = ShutdownInLoop(conns[n])
  OBVIOUS
<1>4. Sound(conns[n]) /\ (Open(conns[n]) \/ Closed(conns[n]))
  BY <1>2, EstablishedIs
<1>5. /\ Effect(conns[n], k) /\ Stays(conns[n], k)
      /\ Closed(k) \/ Stuck(k)
  BY <1>3, <1>4, ShutdownInLoopEffect
<1>6. /\ Moves(conns[n], k)
      /\ k.state = "kConnected" => conns[n].state = "kConnected"
      /\ k.state = "kDisConnecting" => Pending(n)' \/ WasCut' \/ Stuck(k)
  BY <1>5, EffectMoves DEF Stays, Closed
<1>7. (\E d : Changes(n, d)) /\ client' = client /\ ClientInv'
  BY <1>1, <1>2, <1>3, <1>6, BecomesChanges
<1>8. channel' = channel /\ attempts' = attempts /\ (WasAgain' <=> WasAgain)
  BY DEF convars, WasAgain
<1> QED
  BY <1>1, <1>2, <1>7, <1>8, ChangeKeeps

\* ~TcpClient has let go of the connection whose forceClose runs.
LEMMA RunForceCloseKeeps ==
  ASSUME HInv, ~IsDangling, functors # <<>>, functors' = Tail(functors),
         NEW n, n = Head(functors).conn, Head(functors).op = "forceClose",
         conns' = [conns EXCEPT ![n] = ForceCloseInLoop(conns[n])],
         UNCHANGED <<convars, connection, client, again, cut>>
  PROVE  HInv'
<1>1. /\ functors' \in Seq(Functors) /\ Elems(functors') \subseteq Elems(functors)
      /\ FunctorOK(Head(functors))
      /\ \A m \in Attempts : Pending(m) => Pending(m)' \/ n = m
  BY TakeFunctor
<1>2. n \in Attempts /\ conns[n] # NewConnection /\ client = "destroyed"
  BY <1>1, Basics, NewConnectionSound DEF FunctorOK
<1>3. PICK k : k = ForceCloseInLoop(conns[n])
  OBVIOUS
<1>4. Sound(conns[n]) /\ (Open(conns[n]) \/ Closed(conns[n]))
  BY <1>2, EstablishedIs
<1>5. Moves(conns[n], k) /\ Closed(k)
  BY <1>3, <1>4, ForceCloseInLoopEffect, EffectMoves
<1>6. k.state # "kConnected" /\ k.state # "kDisConnecting"
  BY <1>5 DEF Closed
<1>7. connection = 0 /\ connection' = 0 /\ n # 0
  BY <1>2, Basics DEF HInv, ClientInv
<1>8. /\ channel' = channel /\ attempts' = attempts /\ client' = client
      /\ (WasAgain' <=> WasAgain) /\ (WasCut' <=> WasCut)
  BY DEF convars, WasAgain, WasCut
<1>9. Changes(n, k)
  BY <1>1, <1>3, <1>5, <1>6, <1>7, <1>8 DEF Changes
<1>10. ClientInv'
  BY <1>7 DEF ClientInv
<1> QED
  BY <1>1, <1>2, <1>8, <1>9, <1>10, ChangeKeeps

LEMMA RunFunctorKeeps ==
  ASSUME HInv, CInv, ~IsDangling, RunFunctor
  PROVE  HInv'
<1> DEFINE f == Head(functors)
<1>1. functors # <<>> /\ functors' = Tail(functors) /\ Run(f)
  BY DEF RunFunctor
<1>2. /\ functors' \in Seq(Functors) /\ Elems(functors') \subseteq Elems(functors)
      /\ FunctorOK(f)
      /\ \A m \in Attempts : Pending(m) => Pending(m)' \/ f.conn = m
  BY <1>1, TakeFunctor
<1>3. ASSUME f.op \in {"start", "stop"}
      PROVE  \A m \in Attempts : Pending(m) => Pending(m)'
  <2>1. f.conn = 0
    BY <1>2, <1>3 DEF FunctorOK
  <2> QED
    BY <1>2, <2>1, Basics
<1>4. CASE f.op = "start" /\ Connect
  <2>1. \A m \in Attempts : Pending(m) => Pending(m)'
    BY <1>3, <1>4
  <2> QED
    BY <1>2, <1>4, <2>1, ConnectKeeps
<1>5. CASE /\ f.op = "stop"
           /\ Stop /\ UNCHANGED <<attempts, client, muted, exvars, again, stale>>
           /\ NoConnection
  <2>1. \A m \in Attempts : Pending(m) => Pending(m)'
    BY <1>3, <1>5
  <2>2. /\ channel' \in {channel, 0} /\ UNCHANGED <<conns, connection>>
        /\ WasCut => WasCut'
    BY <1>5 DEF Stop, Over, NoConnection, WasCut
  <2> QED
    BY <1>2, <1>5, <2>1, <2>2, ConnectorKeepsHInv
<1>6. CASE /\ f.op = "shutdown"
           /\ Becomes(f.conn, ShutdownInLoop(conns[f.conn]))
           /\ UNCHANGED <<convars, exvars, again, stale>>
  BY <1>1, <1>6, RunShutdownKeeps
<1>7. CASE /\ f.op = "forceClose"
           /\ conns' = [conns EXCEPT ![f.conn] = ForceCloseInLoop(@)]
           /\ UNCHANGED <<convars, connection, client, muted, exvars, again, stale, cut,
                          dangling>>
  <2>1. conns' = [conns EXCEPT ![f.conn] = ForceCloseInLoop(conns[f.conn])]
    BY <1>7
  <2> QED
    BY <1>1, <1>7, <2>1, RunForceCloseKeeps
<1> QED
  BY <1>1, <1>4, <1>5, <1>6, <1>7 DEF Run

-----------------------------------------------------------------------------
(* Calls of the user *)

\* A functor is queued.
LEMMA QueueFunctor ==
  ASSUME HInv, NEW f \in Functors, functors' = Append(functors, f)
  PROVE  /\ functors' \in Seq(Functors)
         /\ \A g \in Elems(functors') : g \in Elems(functors) \/ g = f
         /\ \A m \in Attempts : Pending(m) => Pending(m)'
         /\ Pending(f.conn)'
<1>1. functors \in Seq(Functors)
  BY DEF HInv, HTypes
<1>2. /\ Append(functors, f) \in Seq(Functors)
      /\ Elems(Append(functors, f)) = Elems(functors) \cup {f}
  BY <1>1, ElemsAppend
<1> QED
  BY <1>2, PendingIs

LEMMA ConnectByOtherKeeps ==
  ASSUME HInv, ~IsDangling, ConnectByOther
  PROVE  HInv'
<1>1. PICK f : f = [op |-> "start", conn |-> 0]
  OBVIOUS
<1>2. f \in Functors /\ f.op = "start" /\ f.conn = 0
  BY <1>1 DEF Functors
<1>3. /\ functors' = Append(functors, f)
      /\ UNCHANGED <<conns, connection, client, attempts, channel>>
      /\ (WasAgain' <=> WasAgain) /\ (WasCut' <=> WasCut)
  BY <1>1 DEF ConnectByOther, convars, clivars, WasAgain, WasCut
<1>4. /\ functors' \in Seq(Functors)
      /\ \A g \in Elems(functors') : g \in Elems(functors) \/ g = f
      /\ \A m \in Attempts : Pending(m) => Pending(m)'
  BY <1>2, <1>3, QueueFunctor
<1>5. /\ connection' \in 0..attempts' /\ channel' \in 0..attempts'
      /\ ConnsInv' /\ NamedInv' /\ ChannelInv'
  BY <1>3, <1>4, NoneChanges
<1>6. FunctorInv'
  <2>1. FunctorOK(f)'
    BY <1>2 DEF FunctorOK
  <2>2. FunctorInv /\ attempts' \in Nat /\ attempts \in Nat /\ attempts' >= attempts
    BY <1>3, Basics DEF HInv
  <2>3. \A g \in Elems(functors) : FunctorOK(g)'
    BY <1>3, <2>2, FunctorStays
  <2> QED
    BY <1>4, <2>1, <2>3 DEF FunctorInv
<1>7. HTypes'
  BY <1>3, <1>4, <1>5 DEF HInv, HTypes
<1>8. ClientInv'
  BY <1>3 DEF ClientInv, HInv
<1> QED
  BY <1>5, <1>6, <1>7, <1>8 DEF HInv

\* connection_ is given up, and what it named is left as it is because the call
\* finds it disconnecting already.
LEMMA LetGo ==
  ASSUME HInv, NEW n \in Attempts, n = connection, conns[n].state # "kConnected",
         conns' = conns, connection' = 0, WasCut => WasCut',
         \A m \in Attempts : Pending(m) => Pending(m)'
  PROVE  Changes(n, conns[n])
<1>1. n # 0 /\ OneConn(n) /\ Open(conns[n]) /\ Sound(conns[n])
  BY Basics DEF HInv, NamedInv
<1>2. conns' = [conns EXCEPT ![n] = conns[n]]
  BY DEF HInv, HTypes
<1>3. Moves(conns[n], conns[n])
  BY <1>1 DEF Moves
<1>4. conns[n].state = "kDisConnecting" => Pending(n)' \/ WasCut'
  BY <1>1 DEF OneConn
<1> QED
  BY <1>1, <1>2, <1>3, <1>4 DEF Changes

\* Without a connection, a call concerns the Connector and the queue only.
LEMMA NoConnectionKeeps ==
  ASSUME HInv, connection = 0, UNCHANGED <<conns, connection, attempts>>,
         WasCut => WasCut', WasAgain' <=> WasAgain, channel' \in {channel, 0},
         functors' \in Seq(Functors), client' \in {client, "destroyed"},
         \A f \in Elems(functors') : f \in Elems(functors) \/ FunctorOK(f)',
         \A m \in Attempts : Pending(m) => Pending(m)'
  PROVE  HInv'
<1>1. /\ connection' \in 0..attempts' /\ channel' \in 0..attempts'
      /\ ConnsInv' /\ NamedInv' /\ ChannelInv'
  BY NoneChanges
<1>2. FunctorInv'
  <2>1. /\ FunctorInv /\ attempts' \in Nat /\ attempts \in Nat /\ attempts' >= attempts
        /\ client' # client => client' = "destroyed"
    BY Basics DEF HInv
  <2>2. \A g \in Elems(functors) : FunctorOK(g)'
    BY <2>1, FunctorStays
  <2> QED
    BY <2>2 DEF FunctorInv
<1>3. HTypes'
  BY <1>1 DEF HInv, HTypes
<1>4. ClientInv'
  BY DEF ClientInv
<1> QED
  BY <1>1, <1>2, <1>3, <1>4 DEF HInv

\* ... and with one, the one that connection_ named
LEMMA GivesUp ==
  ASSUME HInv, NEW n \in Attempts, NEW d, Changes(n, d), connection' = 0,
         attempts' = attempts, WasAgain' <=> WasAgain, channel' \in {channel, 0},
         functors' \in Seq(Functors), client' \in {client, "destroyed"},
         \A f \in Elems(functors') : f \in Elems(functors) \/ FunctorOK(f)'
  PROVE  HInv'
<1>1. ClientInv'
  BY DEF ClientInv
<1> QED
  BY <1>1, ChangeKeeps

LEMMA DisconnectInLoopKeeps ==
  ASSUME HInv, ~IsDangling, DisconnectInLoop
  PROVE  HInv'
<1>1. /\ UNCHANGED <<attempts, client, functors>> /\ connection' = 0
      /\ channel' \in {channel, 0} /\ (WasAgain' <=> WasAgain)
  BY DEF DisconnectInLoop, Stop, Over, WasAgain
<1>2. /\ functors' \in Seq(Functors)
      /\ \A f \in Elems(functors') : f \in Elems(functors) \/ FunctorOK(f)'
      /\ \A m \in Attempts : Pending(m) => Pending(m)'
      /\ client' \in {client, "destroyed"}
  BY <1>1, SameFunctors
<1>3. CASE connection # 0 /\ conns[connection].state = "kConnected"
  <2>1. PICK n : n = connection
    OBVIOUS
  <2>2. n \in Attempts /\ Sound(conns[n]) /\ Open(conns[n])
    BY <1>3, <2>1, Basics DEF Open
  <2>3. PICK e : e = [conns[n] EXCEPT !.state = "kDisConnecting"]
    OBVIOUS
  <2>4. PICK k : k = ShutdownInLoop(e)
    OBVIOUS
  <2>5. /\ conns' = [conns EXCEPT ![n] = IF k.closes > conns[n].closes
                                         THEN ConnectDestroyed(k) ELSE k]
        /\ cut' = (cut \/ (k.shut /\ k.unsent))
    BY <1>3, <2>1, <2>3, <2>4 DEF DisconnectInLoop, Passes
  <2>6. WasCut' <=> WasCut \/ Stuck(k)
    <3>1. cut' = (cut \/ (k.shut /\ k.unsent))
      BY <2>5
    <3> QED
      BY <3>1, Zenon DEF WasCut, Stuck
  <2>7. Effect(conns[n], e) /\ e.state = "kDisConnecting" /\ Sound(e) /\ Open(e)
    BY <2>2, <2>3, DisconnectingEffect DEF Effect, Open
  <2>8. /\ Effect(e, k) /\ Stays(e, k)
        /\ Closed(k) \/ Stuck(k)
    BY <2>4, <2>7, ShutdownInLoopEffect
  <2>9. Moves(conns[n], k) /\ Sound(k)
    BY <2>2, <2>7, <2>8, EffectMoves, EffectTwice DEF Effect
  <2>10. k.state # "kConnected" /\ (k.state = "kDisConnecting" => Stuck(k))
    BY <2>7, <2>8 DEF Stays, Closed
  <2>11. PICK d : d = IF k.closes > conns[n].closes THEN ConnectDestroyed(k) ELSE k
    OBVIOUS
  <2>12. /\ Moves(conns[n], d)
         /\ d.state # "kConnected" /\ (d.state = "kDisConnecting" => Stuck(k))
    <3>1. CASE k.closes > conns[n].closes
      <4>1. Closed(k) /\ ~Open(k)
        BY <2>2, <2>9, <3>1, MovesOver, StateIs
      <4>2. Sound(d) /\ Closed(d) /\ d.closes = k.closes
        BY <2>9, <2>11, <3>1, <4>1, ConnectDestroyedEffect
      <4> QED
        BY <2>9, <4>1, <4>2 DEF Moves, IsClosed, StaysClosed, Closed
    <3>2. CASE ~(k.closes > conns[n].closes)
      BY <2>9, <2>10, <2>11, <3>2
    <3> QED
      BY <3>1, <3>2
  <2>13. conns' = [conns EXCEPT ![n] = d] /\ connection' # n
    BY <1>1, <1>3, <2>1, <2>5, <2>11
  <2>14. Changes(n, d)
    BY <1>1, <1>2, <2>1, <2>6, <2>12, <2>13 DEF Changes
  <2> QED
    BY <1>1, <1>2, <2>1, <2>2, <2>14, GivesUp
<1>4. CASE ~(connection # 0 /\ conns[connection].state = "kConnected")
  <2>1. conns' = conns /\ (WasCut' <=> WasCut)
    BY <1>4 DEF DisconnectInLoop, Passes, WasCut
  <2>2. CASE connection = 0
    BY <1>1, <1>2, <2>1, <2>2, NoConnectionKeeps
  <2>3. CASE connection # 0
    <3>1. PICK n : n = connection
      OBVIOUS
    <3>2. n \in Attempts /\ conns[n].state # "kConnected"
      BY <1>4, <2>3, <3>1, Basics
    <3>3. Changes(n, conns[n])
      BY <1>1, <1>2, <2>1, <3>1, <3>2, LetGo
    <3> QED
      BY <1>1, <1>2, <3>2, <3>3, GivesUp
  <2> QED
    BY <2>2, <2>3
<1> QED
  BY <1>3, <1>4

LEMMA DisconnectByOtherKeeps ==
  ASSUME HInv, ~IsDangling, DisconnectByOther
  PROVE  HInv'
<1>1. /\ UNCHANGED <<attempts, client, channel>> /\ connection' = 0
      /\ (WasAgain' <=> WasAgain) /\ (WasCut' <=> WasCut)
  BY DEF DisconnectByOther, convars, WasAgain, WasCut
<1>2. PICK stop : stop = [op |-> "stop", conn |-> 0]
  OBVIOUS
<1>3. stop \in Functors /\ FunctorOK(stop)' /\ functors \in Seq(Functors)
  BY <1>2 DEF Functors, FunctorOK, HInv, HTypes
<1>4. /\ Append(functors, stop) \in Seq(Functors)
      /\ Elems(Append(functors, stop)) = Elems(functors) \cup {stop}
  BY <1>3, ElemsAppend
<1>5. CASE connection # 0 /\ conns[connection].state = "kConnected"
  <2>1. PICK n : n = connection
    OBVIOUS
  <2>2. n \in Attempts /\ n \in 1..attempts /\ n # 0 /\ Sound(conns[n]) /\ Open(conns[n])
    BY <1>5, <2>1, Basics DEF Open, HInv, HTypes
  <2>3. PICK e, f : /\ e = [conns[n] EXCEPT !.state = "kDisConnecting"]
                    /\ f = [op |-> "shutdown", conn |-> n]
    OBVIOUS
  <2>4. f \in Functors /\ f.op = "shutdown" /\ f.conn = n
    BY <2>2, <2>3, Basics DEF Functors
  <2>5. functors' = functors \o <<stop, f>> /\ conns' = [conns EXCEPT ![n] = e]
    BY <1>2, <1>5, <2>1, <2>3 DEF DisconnectByOther, Passes
  <2>6. functors' = Append(Append(functors, stop), f)
    <3>1. <<stop, f>> = <<stop>> \o <<f>> /\ <<stop>> \in Seq(Functors) /\ <<f>> \in Seq(Functors)
      BY <1>3, <2>4
    <3> QED
      BY <1>3, <1>4, <2>4, <2>5, <3>1
  <2>7. /\ functors' \in Seq(Functors)
        /\ Elems(functors') = Elems(functors) \cup {stop, f}
    <3>1. PICK s : s = Append(functors, stop)
      OBVIOUS
    <3>2. s \in Seq(Functors) /\ Elems(s) = Elems(functors) \cup {stop}
      BY <1>4, <3>1
    <3>3. Append(s, f) \in Seq(Functors) /\ Elems(Append(s, f)) = Elems(s) \cup {f}
      BY <2>4, <3>2, ElemsAppend
    <3> QED
      BY <2>6, <3>1, <3>2, <3>3
  <2>8. /\ \A m \in Attempts : Pending(m) => Pending(m)'
        /\ Pending(n)'
    BY <2>4, <2>7, PendingIs
  <2>9. Moves(conns[n], e) /\ e.state = "kDisConnecting"
    BY <2>2, <2>3, DisconnectingEffect, EffectMoves
  <2>10. Changes(n, e)
    BY <1>1, <2>1, <2>2, <2>5, <2>8, <2>9 DEF Changes
  <2>11. FunctorOK(f)'
    <3>1. conns'[n] = e /\ n \in 1..attempts'
      BY <1>1, <2>2, <2>5 DEF HInv, HTypes
    <3> QED
      BY <2>4, <2>9, <3>1 DEF FunctorOK
  <2>12. \A g \in Elems(functors') : g \in Elems(functors) \/ FunctorOK(g)'
    BY <1>3, <2>7, <2>11
  <2> QED
    BY <1>1, <2>2, <2>7, <2>10, <2>12, GivesUp
<1>6. CASE ~(connection # 0 /\ conns[connection].state = "kConnected")
  <2>1. conns' = conns /\ functors' = Append(functors, stop)
    BY <1>2, <1>6 DEF DisconnectByOther, Passes
  <2>2. /\ functors' \in Seq(Functors)
        /\ \A g \in Elems(functors') : g \in Elems(functors) \/ FunctorOK(g)'
        /\ \A m \in Attempts : Pending(m) => Pending(m)'
        /\ client' \in {client, "destroyed"}
    BY <1>1, <1>3, <2>1, QueueFunctor
  <2>3. CASE connection = 0
    BY <1>1, <2>1, <2>2, <2>3, NoConnectionKeeps
  <2>4. CASE connection # 0
    <3>1. PICK n : n = connection
      OBVIOUS
    <3>2. n \in Attempts /\ conns[n].state # "kConnected"
      BY <1>6, <2>4, <3>1, Basics
    <3>3. Changes(n, conns[n])
      BY <1>1, <2>1, <2>2, <3>1, <3>2, LetGo
    <3> QED
      BY <1>1, <2>2, <3>2, <3>3, GivesUp
  <2> QED
    BY <2>3, <2>4
<1> QED
  BY <1>5, <1>6

LEMMA DestroyKeeps ==
  ASSUME HInv, ~IsDangling, NEW inLoop \in BOOLEAN, Destroy(inLoop)
  PROVE  HInv'
<1>1. /\ client' = "destroyed" /\ connection' = 0
      /\ UNCHANGED <<attempts, channel>>
      /\ (WasAgain' <=> WasAgain) /\ (WasCut' <=> WasCut)
  BY DEF Destroy, convars, WasAgain, WasCut
<1>2. CASE connection = 0
  <2>1. conns' = conns /\ functors' = functors
    BY <1>2 DEF Destroy
  <2>2. /\ functors' \in Seq(Functors) /\ Elems(functors') \subseteq Elems(functors)
        /\ \A m \in Attempts : Pending(m) => Pending(m)'
    BY <2>1, SameFunctors
  <2> QED
    BY <1>1, <1>2, <2>1, <2>2, NoConnectionKeeps
<1>3. CASE connection # 0
  <2>1. PICK n : n = connection
    OBVIOUS
  <2>2. n \in Attempts /\ n \in 1..attempts /\ n # 0 /\ Sound(conns[n]) /\ Open(conns[n])
    BY <1>3, <2>1, Basics DEF HInv, HTypes, NamedInv
  <2>3. PICK e, f : /\ e = [conns[n] EXCEPT !.state = "kDisConnecting"]
                    /\ f = [op |-> "forceClose", conn |-> n]
    OBVIOUS
  <2>4. f \in Functors /\ f.op = "forceClose" /\ f.conn = n
    BY <2>2, <2>3, Basics DEF Functors
  <2>5. Effect(conns[n], e) /\ e.state = "kDisConnecting" /\ Sound(e) /\ Open(e)
    BY <2>2, <2>3, DisconnectingEffect DEF Effect, Open
  <2>6. \/ /\ conns' = [conns EXCEPT ![n] = ForceCloseInLoop(e)] /\ functors' = functors
        \/ /\ conns' = [conns EXCEPT ![n] = e] /\ functors' = Append(functors, f)
    BY <1>3, <2>1, <2>2, <2>3, Zenon DEF Destroy, Passes, Open
  <2>7. CASE /\ conns' = [conns EXCEPT ![n] = ForceCloseInLoop(e)]
             /\ functors' = functors
    <3>1. PICK k : k = ForceCloseInLoop(e)
      OBVIOUS
    <3>2. /\ Effect(e, k) /\ Closed(k)
      BY <2>5, <3>1, ForceCloseInLoopEffect
    <3>3. Moves(conns[n], k) /\ k.state # "kConnected" /\ k.state # "kDisConnecting"
      BY <2>5, <3>2, EffectMoves, EffectTwice DEF Closed
    <3>4. /\ functors' \in Seq(Functors) /\ Elems(functors') \subseteq Elems(functors)
          /\ \A m \in Attempts : Pending(m) => Pending(m)'
      BY <2>7, SameFunctors
    <3>5. Changes(n, k)
      BY <1>1, <2>1, <2>2, <2>7, <3>1, <3>3, <3>4 DEF Changes
    <3> QED
      BY <1>1, <2>2, <3>4, <3>5, GivesUp
  <2>8. CASE conns' = [conns EXCEPT ![n] = e] /\ functors' = Append(functors, f)
    <3>1. /\ functors' \in Seq(Functors)
          /\ \A g \in Elems(functors') : g \in Elems(functors) \/ g = f
          /\ \A m \in Attempts : Pending(m) => Pending(m)'
          /\ Pending(n)'
      BY <2>4, <2>8, QueueFunctor
    <3>2. Moves(conns[n], e)
      BY <2>5, EffectMoves
    <3>3. Changes(n, e)
      BY <1>1, <2>1, <2>2, <2>5, <2>8, <3>1, <3>2 DEF Changes
    <3>4. FunctorOK(f)'
      <4>1. conns'[n] = e /\ n \in 1..attempts'
        BY <1>1, <2>2, <2>8 DEF HInv, HTypes
      <4> QED
        BY <1>1, <2>4, <2>5, <4>1 DEF FunctorOK
    <3> QED
      BY <1>1, <2>2, <3>1, <3>3, <3>4, GivesUp
  <2> QED
    BY <2>6, <2>7, <2>8
<1> QED
  BY <1>2, <1>3

-----------------------------------------------------------------------------

LEMMA InitHeld == Init => HInv
<1> SUFFICES ASSUME Init PROVE HInv
  OBVIOUS
<1>1. HTypes
  BY NewConnectionSound, ClientAssumption DEF Init, HTypes, Sound
<1>2. ASSUME NEW n \in Attempts PROVE OneConn(n)
  <2>1. conns[n] = NewConnection
    BY DEF Init
  <2> QED
    BY <2>1, NewConnectionSound DEF OneConn
<1>3. NamedInv /\ ChannelInv /\ ClientInv
  BY DEF Init, NamedInv, ChannelInv, ClientInv
<1>4. FunctorInv
  <2>1. functors = <<>>
    BY DEF Init
  <2> QED
    BY <2>1 DEF FunctorInv, Elems
<1> QED
  BY <1>1, <1>2, <1>3, <1>4 DEF HInv, ConnsInv

LEMMA SameHeld ==
  ASSUME HInv, UNCHANGED vars
  PROVE  HInv'
<1>1. /\ UNCHANGED <<attempts, connection, channel, conns, functors, client>>
      /\ WasCut' <=> WasCut
      /\ WasAgain' <=> WasAgain
      /\ IsDangling' <=> IsDangling
  BY DEF vars, convars, clivars, WasCut, WasAgain, IsDangling
<1>2. /\ functors' \in Seq(Functors) /\ Elems(functors') \subseteq Elems(functors)
      /\ \A m \in Attempts : Pending(m) => Pending(m)'
  BY <1>1, SameFunctors
<1>3. ConnsInv' /\ NamedInv' /\ ChannelInv'
  BY <1>1, <1>2, NoneChanges
<1>4. FunctorInv'
  BY <1>1 DEF HInv, FunctorInv, FunctorOK
<1>5. HTypes' /\ ClientInv'
  BY <1>1 DEF HInv, HTypes, ClientInv
<1> QED
  BY <1>3, <1>4, <1>5 DEF HInv

LEMMA StepHeld ==
  ASSUME HInv, CInv, [Next]_vars
  PROVE  HInv'
<1>1. CASE UNCHANGED vars
  BY <1>1, SameHeld
<1>2. CASE Next
  <2>1. ~IsDangling
    BY <1>2 DEF Next, IsDangling
  <2>2. CASE ConnectInLoop
    <3>1. functors' = functors /\ Connect
      BY <2>2 DEF ConnectInLoop
    <3> QED
      BY <2>1, <3>1, SameFunctors, ConnectKeeps
  <2>3. CASE ConnectByOther
    BY <2>1, <2>3, ConnectByOtherKeeps
  <2>4. CASE DisconnectInLoop
    BY <2>1, <2>4, DisconnectInLoopKeeps
  <2>5. CASE DisconnectByOther
    BY <2>1, <2>5, DisconnectByOtherKeeps
  <2>6. CASE \E inLoop \in BOOLEAN : Destroy(inLoop)
    BY <2>1, <2>6, DestroyKeeps
  <2>7. CASE HandleConnected
    BY <2>1, <2>7, HandleConnectedKeeps
  <2>8. CASE HandleFailed \/ HandleError \/ HandleTimeout
    BY <2>1, <2>8, OutcomeKeeps
  <2>9. CASE RunFunctor
    BY <2>1, <2>9, RunFunctorKeeps
  <2>10. CASE ConnectionEvent
    BY <2>1, <2>10, ConnectionEventKeeps
  <2>11. CASE ExpireTimers
    BY <2>1, <2>11, ExpireTimersKeeps
  <2>12. CASE IdleTimeout
    BY <2>1, <2>12, IdleTimeoutKeeps
  <2> QED
    BY <1>2, <2>2, <2>3, <2>4, <2>5, <2>6, <2>7, <2>8, <2>9, <2>10, <2>11, <2>12 DEF Next
<1> QED
  BY <1>1, <1>2

\* Who holds a connection of the client, for any number of attempts and of calls
\* in any order, by the loop's thread or another: connection_ never names one that
\* was closed, and one that neither it nor a functor holds has been closed, as
\* ~TcpConnection asserts (TcpClient.cc:31, 66, TcpConnection.cc:79), unless an
\* attempt was made over it or its write side was shut over unsent bytes.
THEOREM ConnectionsAreHeld == Spec => []HeldWhileOpen
<1>1. HInv => HeldWhileOpen
  <2> SUFFICES ASSUME HInv PROVE HeldWhileOpen
    OBVIOUS
  <2>1. connection # 0 => conns[connection].closes = 0
    BY DEF HInv, NamedInv
  <2>2. ASSUME ~WasAgain, ~WasCut, NEW n \in 1..attempts, ~Holds(n),
               conns[n] # NewConnection
        PROVE  conns[n].state = "kDisConnected"
    <3>1. n \in Attempts /\ OneConn(n)
      BY Basics
    <3>2. Open(conns[n]) \/ Closed(conns[n])
      BY <2>2, <3>1, EstablishedIs
    <3>3. connection # n /\ ~Pending(n)
      BY <2>2 DEF Holds
    <3> QED
      BY <2>2, <3>1, <3>2, <3>3 DEF OneConn, Open, Closed
  <2> QED
    BY <2>1, <2>2, Zenon DEF HeldWhileOpen, WasAgain, WasCut
<1>2. Init => HInv /\ CInv
  BY InitHeld, InitTimed
<1>3. HInv /\ CInv /\ [Next]_vars => HInv' /\ CInv'
  BY StepHeld, StepTimed
<1> QED
  BY <1>1, <1>2, <1>3, PTL DEF Spec
=============================================================================
