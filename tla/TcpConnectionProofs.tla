------------------------ MODULE TcpConnectionProofs ------------------------
(***************************************************************************)
(* What the functions of TcpConnection do to a connection that has been    *)
(* established: the three things that may have become of it, whatever the  *)
(* kernel answers and the callbacks call.                                  *)
(***************************************************************************)
EXTENDS TcpConnection, TLAPS

Open(k) == k.state \in {"kConnected", "kDisConnecting"}
Closed(k) == k.state = "kDisConnected"

\* in the epoll set and asking for input
Watching(k) == Registered(k) /\ "in" \in k.events

\* neither the poller nor the TimerQueue will name it
Quiet(k) == ~Registered(k) /\ k.idle # "armed"

\* What is registered is also known to be: remove() takes it out; and who asks
\* for EPOLLOUT has bytes to send.
Added(k) == Registered(k) => k.added
Wants(k) == isWriting(k) => k.unsent
Sound(k) == k \in Connection /\ Added(k) /\ Wants(k)

\* the write side was shut over unsent bytes: nothing will send them
Stuck(k) == k.shut /\ k.unsent

\* It goes on, and then as watched as before and with a timer if it had one;
\* it is closed, and closeCallback_ was called; or it was closed already.
GoesOn(k, d) ==
  /\ Open(k) /\ Open(d)
  /\ d.closes = k.closes
  /\ Watching(k) => Watching(d)
  /\ d.idle \in {k.idle, "armed"}
IsClosed(k, d) == Open(k) /\ Closed(d) /\ d.closes = k.closes + 1
StaysClosed(k, d) == Closed(k) /\ Closed(d) /\ d.closes = k.closes

\* A connection that is stuck remains so, only one that is stuck is left in
\* kDisConnecting by what the IO thread does to it, and nothing connects it again.
Stays(k, d) ==
  /\ Stuck(k) => Stuck(d)
  /\ d.state = "kDisConnecting" => k.state = "kDisConnecting" \/ Stuck(d)
  /\ d.state = "kConnected" => k.state = "kConnected"

Effect(k, d) ==
  /\ Sound(d)
  /\ d.destroys = k.destroys
  /\ GoesOn(k, d) \/ IsClosed(k, d) \/ StaysClosed(k, d)

-----------------------------------------------------------------------------
LEMMA EffectNothing ==
  ASSUME NEW k, Sound(k), Open(k) \/ Closed(k)
  PROVE  Effect(k, k) /\ Stays(k, k)
BY DEF Effect, GoesOn, StaysClosed, Stays

LEMMA EffectTwice ==
  ASSUME NEW k, NEW d, NEW e, Effect(k, d), Effect(d, e)
  PROVE  Effect(k, e)
<1>1. Sound(e) /\ e.destroys = k.destroys
  BY DEF Effect
<1>2. d.closes \in Nat /\ ~(Open(d) /\ Closed(d))
  BY DEF Effect, Sound, Connection, Open, Closed
<1>3. CASE GoesOn(k, d)
  <2>1. CASE GoesOn(d, e)
    BY <1>1, <1>3, <2>1 DEF Effect, GoesOn
  <2>2. CASE IsClosed(d, e)
    BY <1>1, <1>3, <2>2 DEF Effect, GoesOn, IsClosed
  <2> QED
    BY <1>2, <1>3, <2>1, <2>2 DEF Effect, GoesOn, StaysClosed
<1>4. CASE ~GoesOn(k, d)
  <2>1. StaysClosed(d, e)
    BY <1>2, <1>4 DEF Effect, GoesOn, IsClosed, StaysClosed
  <2> QED
    BY <1>1, <1>4, <2>1 DEF Effect, IsClosed, StaysClosed
<1> QED
  BY <1>3, <1>4

LEMMA StaysTwice ==
  ASSUME NEW k, NEW d, NEW e, Stays(k, d), Stays(d, e)
  PROVE  Stays(k, e)
BY Zenon DEF Stays

\* What Sound and Stuck say is read off five fields.
LEMMA SameSound ==
  ASSUME NEW k, NEW d \in Connection, Sound(k),
         d.events = k.events, d.index = k.index, d.added = k.added,
         d.unsent = k.unsent, d.shut = k.shut
  PROVE  Sound(d) /\ (Stuck(k) <=> Stuck(d))
<1>1. Added(d)
  BY Zenon DEF Sound, Added, Registered
<1>2. Wants(d)
  BY Zenon DEF Sound, Wants, isWriting
<1>3. Stuck(k) <=> Stuck(d)
  BY Zenon DEF Stuck
<1> QED
  BY <1>1, <1>2, <1>3 DEF Sound

LEMMA Fields ==
  ASSUME NEW k \in Connection
  PROVE  /\ k.events \in SUBSET {"in", "out"} /\ k.added \in BOOLEAN
         /\ k.index \in Indices /\ k.state \in States
         /\ k.unsent \in BOOLEAN /\ k.shut \in BOOLEAN
         /\ k.idle \in {"none", "armed", "fired"}
         /\ k.closes \in Nat /\ k.destroys \in Nat
BY DEF Connection

LEMMA ResetIdleTimerEffect ==
  ASSUME NEW k, Sound(k), Open(k) \/ Closed(k)
  PROVE  /\ Effect(k, ResetIdleTimer(k)) /\ Stays(k, ResetIdleTimer(k))
         /\ ResetIdleTimer(k).shut = k.shut
<1>1. PICK d : d = ResetIdleTimer(k)
  OBVIOUS
<1> k \in Connection
  BY DEF Sound
<1>2. d = [k EXCEPT !.idle = "armed"]
  BY <1>1 DEF ResetIdleTimer
<1>3. d \in Connection
  BY <1>2 DEF Connection
<1>4. /\ d.events = k.events /\ d.index = k.index /\ d.added = k.added /\ d.state = k.state
      /\ d.closes = k.closes /\ d.destroys = k.destroys /\ d.idle = "armed"
      /\ d.unsent = k.unsent /\ d.shut = k.shut
  BY <1>2 DEF Connection
<1>5. Sound(d) /\ (Stuck(k) <=> Stuck(d))
  BY <1>3, <1>4, SameSound
<1>6. Effect(k, d)
  BY <1>4, <1>5 DEF Effect, GoesOn, StaysClosed, Open, Closed, Watching, Registered
<1>7. Stays(k, d)
  BY <1>4, <1>5 DEF Stays
<1> QED
  BY <1>1, <1>4, <1>6, <1>7

LEMMA RemoveClosed ==
  ASSUME NEW k, Sound(k)
  PROVE  /\ Sound(Remove(k)) /\ ~Registered(Remove(k))
         /\ Remove(k).state = k.state /\ Remove(k).idle = k.idle
         /\ Remove(k).closes = k.closes /\ Remove(k).destroys = k.destroys
         /\ Stuck(k) <=> Stuck(Remove(k))
<1>1. PICK d : d = Remove(k)
  OBVIOUS
<1>2. CASE k.added
  <2>1. d = [k EXCEPT !.added = FALSE, !.index = "kDeleted"]
    BY <1>1, <1>2 DEF Remove
  <2>2. d \in Connection
    BY <2>1 DEF Sound, Connection, Indices
  <2>3. /\ d.index = "kDeleted" /\ d.state = k.state /\ d.idle = k.idle
        /\ d.closes = k.closes /\ d.destroys = k.destroys
        /\ d.events = k.events /\ d.unsent = k.unsent /\ d.shut = k.shut
    BY <2>1 DEF Sound, Connection
  <2>4. ~Registered(d) /\ Added(d)
    BY <2>3 DEF Registered, Added
  <2>5. Wants(d) /\ (Stuck(k) <=> Stuck(d))
    BY <2>3, Zenon DEF Sound, Wants, isWriting, Stuck
  <2> QED
    BY <1>1, <2>2, <2>3, <2>4, <2>5 DEF Sound
<1>3. CASE ~k.added
  BY <1>3 DEF Remove, Sound, Added
<1> QED
  BY <1>2, <1>3

LEMMA HandleCloseEffect ==
  ASSUME NEW k, Sound(k), Open(k) \/ Closed(k)
  PROVE  /\ Effect(k, HandleClose(k)) /\ Stays(k, HandleClose(k))
         /\ Closed(HandleClose(k))
         /\ Closed(k) => HandleClose(k) = k
<1>1. CASE Closed(k)
  <2>1. HandleClose(k) = k
    BY <1>1 DEF HandleClose, Closed
  <2> QED
    BY <1>1, <2>1, EffectNothing
<1>2. CASE ~Closed(k)
  <2>1. PICK d : d = [k EXCEPT !.state = "kDisConnected", !.closes = @ + 1]
    OBVIOUS
  <2> k \in Connection
    BY DEF Sound
  <2>2. d \in Connection
    <3>1. k.closes + 1 \in Nat
      BY DEF Connection
    <3> QED
      BY <2>1, <3>1, Zenon DEF Connection, States
  <2>3. /\ d.index = k.index /\ d.added = k.added /\ d.state = "kDisConnected"
        /\ d.closes = k.closes + 1 /\ d.destroys = k.destroys
        /\ d.events = k.events /\ d.unsent = k.unsent /\ d.shut = k.shut
    BY <2>1 DEF Connection
  <2>4. Sound(d) /\ (Stuck(k) <=> Stuck(d))
    BY <2>2, <2>3, SameSound
  <2>5. PICK e : e = Remove(d)
    OBVIOUS
  <2>6. /\ Sound(e) /\ e.state = "kDisConnected"
        /\ e.closes = k.closes + 1 /\ e.destroys = k.destroys
        /\ Stuck(d) <=> Stuck(e)
    BY <2>3, <2>4, <2>5, RemoveClosed
  <2>7. PICK f : f = CancelIdleTimer(e)
    OBVIOUS
  <2>8. f = [e EXCEPT !.idle = "none"]
    BY <2>7 DEF CancelIdleTimer
  <2>9. f \in Connection
    BY <2>6, <2>8 DEF Sound, Connection
  <2>10. /\ f.index = e.index /\ f.added = e.added /\ f.state = "kDisConnected"
         /\ f.closes = k.closes + 1 /\ f.destroys = k.destroys
         /\ f.events = e.events /\ f.unsent = e.unsent /\ f.shut = e.shut
    BY <2>6, <2>8 DEF Sound, Connection
  <2>11. Sound(f) /\ (Stuck(e) <=> Stuck(f))
    BY <2>6, <2>9, <2>10, SameSound
  <2>12. f = HandleClose(k)
    BY <1>2, <2>1, <2>5, <2>7 DEF HandleClose, Closed
  <2>13. Stays(k, f)
    BY <2>4, <2>6, <2>10, <2>11 DEF Stays
  <2> QED
    BY <1>2, <2>10, <2>11, <2>12, <2>13 DEF Effect, IsClosed, Closed, Open
<1> QED
  BY <1>1, <1>2

-----------------------------------------------------------------------------
(* A change of fields that none of the three speaks of. *)
LEMMA OtherFields ==
  ASSUME NEW k, Sound(k), Open(k) \/ Closed(k), NEW d \in Connection,
         d.events = k.events, d.index = k.index, d.added = k.added,
         d.idle = k.idle, d.state = k.state, d.closes = k.closes,
         d.destroys = k.destroys,
         Wants(d), Stuck(k) => Stuck(d)
  PROVE  Effect(k, d) /\ Stays(k, d) /\ (Quiet(k) => Quiet(d))
<1>1. Sound(d)
  <2>1. Added(d)
    BY Zenon DEF Sound, Added, Registered
  <2> QED
    BY <2>1 DEF Sound
<1>2. Open(k) <=> Open(d)
  BY DEF Open
<1>3. Closed(k) <=> Closed(d)
  BY DEF Closed
<1>4. (Watching(k) <=> Watching(d)) /\ (Quiet(k) => Quiet(d))
  BY DEF Watching, Quiet, Registered
<1>5. Stays(k, d)
  BY DEF Stays
<1> QED
  BY <1>1, <1>2, <1>3, <1>4, <1>5 DEF Effect, GoesOn, StaysClosed

\* The store of kDisConnecting over a state that was not kDisConnected.
LEMMA DisconnectingEffect ==
  ASSUME NEW k, Sound(k), Open(k)
  PROVE  LET d == [k EXCEPT !.state = "kDisConnecting"]
         IN /\ Effect(k, d) /\ (Stuck(k) => Stuck(d))
            /\ d.closes = k.closes /\ d.state = "kDisConnecting"
<1>1. PICK d : d = [k EXCEPT !.state = "kDisConnecting"]
  OBVIOUS
<1> k \in Connection
  BY DEF Sound
<1>2. d \in Connection
  BY <1>1 DEF Connection, States
<1>3. /\ d.events = k.events /\ d.index = k.index /\ d.added = k.added
      /\ d.state = "kDisConnecting" /\ d.idle = k.idle
      /\ d.closes = k.closes /\ d.destroys = k.destroys
      /\ d.unsent = k.unsent /\ d.shut = k.shut
  BY <1>1 DEF Connection
<1>4. Sound(d) /\ (Stuck(k) <=> Stuck(d))
  BY <1>2, <1>3, SameSound
<1>5. Open(d)
  BY <1>3 DEF Open
<1> QED
  BY <1>1, <1>3, <1>4, <1>5 DEF Effect, GoesOn, Watching, Registered

\* Another set of events, made known to the poller.
LEMMA UpdateEffect ==
  ASSUME NEW k, Sound(k), Open(k) \/ Closed(k), NEW c \in Connection,
         "in" \in k.events => "in" \in c.events,
         c.index = k.index, c.idle = k.idle, c.state = k.state,
         c.closes = k.closes, c.destroys = k.destroys,
         Wants(c), Stuck(k) => Stuck(c)
  PROVE  Effect(k, Update(c)) /\ Stays(k, Update(c))
<1>1. PICK d : d = Update(c)
  OBVIOUS
<1>3. PICK i \in Indices : /\ d = [c EXCEPT !.index = i, !.added = TRUE]
                           /\ k.index = "kAdded" /\ c.events # {} => i = "kAdded"
  BY <1>1 DEF Update, Registered, Indices
<1>4. d \in Connection
  BY <1>3, Zenon DEF Connection
<1>5. /\ d.events = c.events /\ d.index = i /\ d.added /\ d.state = k.state
      /\ d.idle = k.idle /\ d.closes = k.closes /\ d.destroys = k.destroys
      /\ d.unsent = c.unsent /\ d.shut = c.shut
  BY <1>3 DEF Connection
<1>6. Sound(d) /\ (Stuck(c) <=> Stuck(d))
  <2>1. Added(d)
    BY <1>5 DEF Added
  <2>2. Wants(d)
    BY <1>5, Zenon DEF Wants, isWriting
  <2>3. Stuck(c) <=> Stuck(d)
    BY <1>5, Zenon DEF Stuck
  <2> QED
    BY <1>4, <2>1, <2>2, <2>3 DEF Sound
<1>7. Watching(k) => Watching(d)
  BY <1>3, <1>5 DEF Watching, Registered
<1>8. (Open(d) <=> Open(k)) /\ (Closed(d) <=> Closed(k))
  BY <1>5 DEF Open, Closed
<1>9. Stays(k, d)
  BY <1>5, <1>6 DEF Stays
<1> QED
  BY <1>1, <1>5, <1>6, <1>7, <1>8, <1>9 DEF Effect, GoesOn, StaysClosed

LEMMA EnableWritingEffect ==
  ASSUME NEW k, Sound(k), Open(k) \/ Closed(k), k.unsent
  PROVE  Effect(k, EnableWriting(k)) /\ Stays(k, EnableWriting(k))
<1>1. PICK c : c = [k EXCEPT !.events = @ \cup {"out"}]
  OBVIOUS
<1> k \in Connection
  BY DEF Sound
<1>2. /\ c \in Connection
      /\ "in" \in k.events => "in" \in c.events
      /\ c.index = k.index /\ c.idle = k.idle /\ c.state = k.state
      /\ c.closes = k.closes /\ c.destroys = k.destroys
      /\ c.unsent = k.unsent /\ c.shut = k.shut
  BY <1>1 DEF Connection
<1>3. Wants(c) /\ (Stuck(k) => Stuck(c))
  BY <1>2, Zenon DEF Wants, Stuck
<1>4. Effect(k, Update(c)) /\ Stays(k, Update(c))
  BY <1>2, <1>3, UpdateEffect
<1> QED
  BY <1>1, <1>4 DEF EnableWriting

\* After the last byte of writeBuffer_ of a connection that is not shut.
LEMMA DrainedEffect ==
  ASSUME NEW k, Sound(k), Open(k) \/ Closed(k), ~k.shut
  PROVE  LET d == DisableWriting([k EXCEPT !.unsent = FALSE])
         IN Effect(k, d) /\ Stays(k, d)
<1>1. PICK q, c : q = [k EXCEPT !.unsent = FALSE] /\ c = [q EXCEPT !.events = @ \ {"out"}]
  OBVIOUS
<1> k \in Connection
  BY DEF Sound
<1>2. /\ q \in Connection /\ q.events = k.events
      /\ q.index = k.index /\ q.idle = k.idle /\ q.state = k.state
      /\ q.closes = k.closes /\ q.destroys = k.destroys
  BY <1>1 DEF Connection
<1>3. /\ c \in Connection /\ c.events = k.events \ {"out"}
      /\ c.index = k.index /\ c.idle = k.idle /\ c.state = k.state
      /\ c.closes = k.closes /\ c.destroys = k.destroys
  BY <1>1, <1>2 DEF Connection
<1>4. Wants(c) /\ (Stuck(k) => Stuck(c))
  <2>1. ~isWriting(c)
    BY <1>3 DEF isWriting
  <2>2. ~Stuck(k)
    BY DEF Stuck
  <2> QED
    BY <2>1, <2>2 DEF Wants
<1>5. "in" \in k.events => "in" \in c.events
  BY <1>3
<1>6. Effect(k, Update(c)) /\ Stays(k, Update(c))
  BY <1>3, <1>4, <1>5, UpdateEffect
<1> QED
  BY <1>1, <1>6 DEF DisableWriting

-----------------------------------------------------------------------------
(* Calls that close, and send *)

LEMMA ShutdownInLoopEffect ==
  ASSUME NEW k, Sound(k), Open(k) \/ Closed(k)
  PROVE  LET s == ShutdownInLoop(k)
         IN /\ Effect(k, s) /\ Stays(k, s)
            /\ Closed(s) \/ Stuck(s)
            /\ Closed(k) /\ Quiet(k) => Quiet(s)
<1>1. PICK d : d = [k EXCEPT !.shut = TRUE]
  OBVIOUS
<1> k \in Connection
  BY DEF Sound
<1>2. d \in Connection
  BY <1>1 DEF Connection
<1>3. /\ d.events = k.events /\ d.index = k.index /\ d.added = k.added
      /\ d.state = k.state /\ d.idle = k.idle
      /\ d.closes = k.closes /\ d.destroys = k.destroys
      /\ d.unsent = k.unsent
  BY <1>1 DEF Connection
<1>4. d.shut
  BY <1>1 DEF Connection
<1>5. Wants(d) /\ (Stuck(k) => Stuck(d)) /\ (isWriting(k) => Stuck(d))
  BY <1>3, <1>4, Zenon DEF Sound, Wants, isWriting, Stuck
<1>6. Effect(k, d) /\ Stays(k, d) /\ (Quiet(k) => Quiet(d))
  BY <1>2, <1>3, <1>5, OtherFields
<1>7. Sound(d) /\ (Open(d) \/ Closed(d)) /\ (Closed(k) => Closed(d))
  BY <1>3, <1>6 DEF Effect, Open, Closed
<1>8. /\ Effect(d, HandleClose(d)) /\ Stays(d, HandleClose(d))
      /\ Closed(HandleClose(d)) /\ (Closed(d) => HandleClose(d) = d)
  BY <1>7, HandleCloseEffect
<1>9. Effect(k, HandleClose(d)) /\ Stays(k, HandleClose(d))
  BY <1>6, <1>8, EffectTwice, StaysTwice
<1>10. Closed(k) /\ Quiet(k) => Quiet(HandleClose(d))
  BY <1>6, <1>7, <1>8
<1>11. ShutdownInLoop(k) = IF isWriting(k) THEN d ELSE HandleClose(d)
  BY <1>1 DEF ShutdownInLoop
<1> QED
  BY <1>5, <1>6, <1>8, <1>9, <1>10, <1>11

LEMMA ForceCloseInLoopEffect ==
  ASSUME NEW k, Sound(k), Open(k) \/ Closed(k)
  PROVE  /\ Effect(k, ForceCloseInLoop(k)) /\ Stays(k, ForceCloseInLoop(k))
         /\ Closed(ForceCloseInLoop(k))
         /\ Closed(k) => ForceCloseInLoop(k) = k
<1>1. CASE Open(k)
  BY <1>1, HandleCloseEffect DEF ForceCloseInLoop, Open
<1>2. CASE ~Open(k)
  BY <1>2, EffectNothing DEF ForceCloseInLoop, Open, Closed
<1> QED
  BY <1>1, <1>2

LEMMA ClosingEffect ==
  ASSUME NEW k, Sound(k), Open(k) \/ Closed(k), NEW d \in Closing(k)
  PROVE  Effect(k, d) /\ Stays(k, d) /\ (Closed(k) => d = k)
<1>1. CASE d = k
  BY <1>1, EffectNothing
<1>2. CASE d # k
  <2>1. PICK e : e = [k EXCEPT !.state = "kDisConnecting"]
    OBVIOUS
  <2>2. Open(k) /\ d \in {ShutdownInLoop(e), ForceCloseInLoop(e)}
    BY <1>2, <2>1 DEF Closing, Passes, Open
  <2>3. ~Closed(k)
    BY <2>2 DEF Open, Closed
  <2>4. Effect(k, e) /\ (Stuck(k) => Stuck(e)) /\ e.state = "kDisConnecting"
    BY <2>1, <2>2, DisconnectingEffect
  <2>5. Sound(e) /\ (Open(e) \/ Closed(e))
    BY <2>4 DEF Effect, GoesOn, IsClosed, StaysClosed
  <2>6. /\ Effect(e, d) /\ Stays(e, d)
        /\ Closed(d) \/ Stuck(d)
    BY <2>2, <2>5, ShutdownInLoopEffect, ForceCloseInLoopEffect
  <2>7. Stays(k, d)
    BY <2>4, <2>6 DEF Stays, Closed
  <2> QED
    BY <2>3, <2>4, <2>6, <2>7, EffectTwice
<1> QED
  BY <1>1, <1>2

LEMMA SendInLoopEffect ==
  ASSUME NEW k, Sound(k), Open(k) \/ Closed(k), NEW d \in SendInLoop(k)
  PROVE  Effect(k, d) /\ Stays(k, d) /\ (Closed(k) => d = k)
<1>1. CASE Closed(k)
  BY <1>1, EffectNothing DEF SendInLoop, Closed
<1>2. CASE Open(k)
  <2>1. PICK q : q = [k EXCEPT !.unsent = TRUE]
    OBVIOUS
  <2> k \in Connection
    BY DEF Sound
  <2>2. q \in Connection
    BY <2>1 DEF Connection
  <2>3. /\ q.events = k.events /\ q.index = k.index /\ q.added = k.added
        /\ q.state = k.state /\ q.idle = k.idle
        /\ q.closes = k.closes /\ q.destroys = k.destroys
        /\ q.shut = k.shut
    BY <2>1 DEF Connection
  <2>4. q.unsent
    BY <2>1 DEF Connection
  <2>5. Wants(q) /\ (Stuck(k) => Stuck(q))
    BY <2>3, <2>4, Zenon DEF Wants, Stuck
  <2>6. Effect(k, q) /\ Stays(k, q)
    BY <2>2, <2>3, <2>5, OtherFields
  <2>7. Sound(q) /\ (Open(q) \/ Closed(q))
    BY <1>2, <2>3, <2>6 DEF Effect, Open
  <2>8. Effect(q, EnableWriting(q)) /\ Stays(q, EnableWriting(q))
    BY <2>4, <2>7, EnableWritingEffect
  <2>9. ~Closed(k)
    BY <1>2 DEF Open, Closed
  <2>10. d \in Closing(k) \cup {q, EnableWriting(q)}
    BY <2>1, <2>9 DEF SendInLoop, Closed
  <2>11. Effect(k, EnableWriting(q)) /\ Stays(k, EnableWriting(q))
    BY <2>6, <2>8, EffectTwice, StaysTwice
  <2> QED
    BY <2>6, <2>9, <2>10, <2>11, ClosingEffect
<1> QED
  BY <1>1, <1>2

LEMMA UserCodeEffect ==
  ASSUME NEW k, Sound(k), Open(k) \/ Closed(k), NEW d \in UserCode(k)
  PROVE  Effect(k, d) /\ Stays(k, d)
<1>1. d \in Closing(k) \cup SendInLoop(k)
  BY DEF UserCode
<1> QED
  BY <1>1, ClosingEffect, SendInLoopEffect

LEMMA UserCodeAfter ==
  ASSUME NEW k, NEW r, Effect(k, r), Stays(k, r), NEW d \in UserCode(r)
  PROVE  Effect(k, d) /\ Stays(k, d)
<1>1. Sound(r) /\ (Open(r) \/ Closed(r))
  BY DEF Effect, GoesOn, IsClosed, StaysClosed
<1>2. Effect(r, d) /\ Stays(r, d)
  BY <1>1, UserCodeEffect
<1> QED
  BY <1>2, EffectTwice, StaysTwice

LEMMA CloseAfter ==
  ASSUME NEW k, NEW r, Effect(k, r), Stays(k, r)
  PROVE  Effect(k, HandleClose(r)) /\ Stays(k, HandleClose(r))
<1>1. Sound(r) /\ (Open(r) \/ Closed(r))
  BY DEF Effect, GoesOn, IsClosed, StaysClosed
<1> QED
  BY <1>1, HandleCloseEffect, EffectTwice, StaysTwice

-----------------------------------------------------------------------------
(* The callbacks of the channel *)

LEMMA HandleReadEffect ==
  ASSUME NEW k, Sound(k), Open(k) \/ Closed(k), NEW d \in HandleRead(k)
  PROVE  Effect(k, d) /\ Stays(k, d)
<1>1. d \in UserCode(ResetIdleTimer(k)) \/ d = k \/ d = HandleClose(k)
  BY DEF HandleRead
<1>2. Effect(k, ResetIdleTimer(k)) /\ Stays(k, ResetIdleTimer(k))
  BY ResetIdleTimerEffect
<1> QED
  BY <1>1, <1>2, UserCodeAfter, EffectNothing, HandleCloseEffect

LEMMA HandleWriteEffect ==
  ASSUME NEW k, Sound(k), Open(k) \/ Closed(k), NEW d \in HandleWrite(k)
  PROVE  Effect(k, d) /\ Stays(k, d)
<1>1. PICK r : r = ResetIdleTimer(k)
  OBVIOUS
<1>2. Effect(k, r) /\ Stays(k, r) /\ r.shut = k.shut
  BY <1>1, ResetIdleTimerEffect
<1>3. CASE d \in {k, r, HandleClose(r)} \/ d \in UserCode(r)
  BY <1>2, <1>3, EffectNothing, CloseAfter, UserCodeAfter
<1>4. ASSUME ~k.shut, d \in UserCode(DisableWriting([r EXCEPT !.unsent = FALSE]))
      PROVE  Effect(k, d) /\ Stays(k, d)
  <2>1. PICK q : q = DisableWriting([r EXCEPT !.unsent = FALSE])
    OBVIOUS
  <2>2. Sound(r) /\ (Open(r) \/ Closed(r)) /\ ~r.shut
    BY <1>2, <1>4 DEF Effect, GoesOn, IsClosed, StaysClosed
  <2>3. Effect(r, q) /\ Stays(r, q)
    BY <2>1, <2>2, DrainedEffect
  <2>4. Effect(k, q) /\ Stays(k, q)
    BY <1>2, <2>3, EffectTwice, StaysTwice
  <2> QED
    BY <1>4, <2>1, <2>4, UserCodeAfter
<1> QED
  BY <1>1, <1>3, <1>4 DEF HandleWrite

LEMMA HandleEffect ==
  ASSUME NEW k, Sound(k), Open(k) \/ Closed(k),
         NEW cb \in {"error", "read", "write"}, NEW d \in Handle(cb, k)
  PROVE  Effect(k, d) /\ Stays(k, d)
<1>1. \/ d = HandleClose(k)
      \/ d \in HandleRead(k)
      \/ d \in HandleWrite(k)
  BY DEF Handle
<1> QED
  BY <1>1, HandleCloseEffect, HandleReadEffect, HandleWriteEffect

-----------------------------------------------------------------------------
(* The two ends of its life *)

LEMMA NewConnectionSound ==
  /\ Sound(NewConnection)
  /\ ~Open(NewConnection) /\ ~Closed(NewConnection)
  /\ NewConnection.state = "kConnecting" /\ ~Registered(NewConnection)
  /\ NewConnection.idle = "none"
  /\ NewConnection.closes = 0 /\ NewConnection.destroys = 0
BY DEF NewConnection, Sound, Added, Wants, Connection, Registered, isWriting,
       Open, Closed, Indices, States

\* established, and whatever connectionCallback_ then does
LEMMA ConnectEstablishedEffect ==
  ASSUME NEW d \in ConnectEstablished(NewConnection)
  PROVE  \E k : /\ Sound(k) /\ Open(k) /\ Watching(k) /\ k.idle = "armed"
                /\ k.closes = 0 /\ k.destroys = 0 /\ k.state = "kConnected"
                /\ Effect(k, d) /\ Stays(k, d)
<1>1. PICK n : n = [NewConnection EXCEPT !.events = @ \cup {"in"}]
  OBVIOUS
<1>2. PICK u : u = [n EXCEPT !.index = "kAdded", !.added = TRUE]
  OBVIOUS
<1>3. PICK v : v = [u EXCEPT !.state = "kConnected"]
  OBVIOUS
<1>4. PICK k : k = [v EXCEPT !.idle = "armed"]
  OBVIOUS
<1>5. /\ n \in Connection /\ n.index = "kNew" /\ n.events = {"in"} /\ n.state = "kConnecting"
      /\ n.closes = 0 /\ n.destroys = 0
  BY <1>1 DEF NewConnection, Connection, Indices, States
<1>6. /\ u \in Connection /\ u.index = "kAdded" /\ u.added /\ u.events = {"in"}
      /\ u.closes = 0 /\ u.destroys = 0
  BY <1>2, <1>5 DEF Connection, Indices
<1>7. /\ v \in Connection /\ v.index = "kAdded" /\ v.added /\ v.events = {"in"}
      /\ v.state = "kConnected" /\ v.closes = 0 /\ v.destroys = 0
  BY <1>3, <1>6 DEF Connection, States
<1>8. /\ k \in Connection /\ k.index = "kAdded" /\ k.added /\ k.events = {"in"}
      /\ k.state = "kConnected" /\ k.closes = 0 /\ k.destroys = 0 /\ k.idle = "armed"
  BY <1>4, <1>7 DEF Connection
<1>9. u = EnableReading(NewConnection)
  <2>1. ~Registered(n)
    BY <1>5 DEF Registered
  <2> QED
    BY <1>1, <1>2, <2>1 DEF EnableReading, Update
<1>10. k = ResetIdleTimer([EnableReading(NewConnection) EXCEPT !.state = "kConnected"])
  BY <1>3, <1>4, <1>9 DEF ResetIdleTimer
<1>11. /\ Sound(k) /\ Open(k) /\ Watching(k) /\ k.idle = "armed"
       /\ k.closes = 0 /\ k.destroys = 0 /\ k.state = "kConnected"
  <2>1. Added(k) /\ Wants(k)
    BY <1>8 DEF Added, Wants, isWriting
  <2> QED
    BY <1>8, <2>1 DEF Sound, Registered, Open, Watching
<1>12. Effect(k, d) /\ Stays(k, d)
  BY <1>10, <1>11, UserCodeEffect DEF ConnectEstablished
<1> QED
  BY <1>11, <1>12

LEMMA ConnectDestroyedEffect ==
  ASSUME NEW k, Sound(k), Open(k) \/ Closed(k)
  PROVE  LET d == ConnectDestroyed(k)
         IN /\ Sound(d) /\ Quiet(d) /\ (Open(d) \/ Closed(d))
            /\ Closed(k) => Closed(d)
            /\ d.closes = k.closes /\ d.destroys = k.destroys + 1
            /\ Stuck(k) <=> Stuck(d)
<1>1. PICK c : c = Disconnected(k)
  OBVIOUS
<1> k \in Connection
  BY DEF Sound
<1>2. PICK s : s = IF k.state = "kConnected" THEN "kDisConnected" ELSE k.state
  OBVIOUS
<1>3. /\ k.destroys + 1 \in Nat /\ s \in States
      /\ Open(k) => s \in {"kDisConnecting", "kDisConnected"}
      /\ Closed(k) => s = "kDisConnected"
  BY <1>2 DEF Connection, States, Open, Closed
<1>4. c = [k EXCEPT !.state = s, !.destroys = k.destroys + 1]
  BY <1>1, <1>2 DEF Disconnected
<1>5. c \in Connection
  BY <1>3, <1>4, Zenon DEF Connection
<1>6. /\ c.index = k.index /\ c.added = k.added /\ c.state = s
      /\ c.closes = k.closes /\ c.destroys = k.destroys + 1
      /\ c.events = k.events /\ c.unsent = k.unsent /\ c.shut = k.shut
  BY <1>4 DEF Connection
<1>7. PICK e : e = CancelIdleTimer(c)
  OBVIOUS
<1>8. e = [c EXCEPT !.idle = "none"]
  BY <1>7 DEF CancelIdleTimer
<1>9. e \in Connection
  BY <1>5, <1>8 DEF Connection
<1>10. /\ e.index = k.index /\ e.added = k.added /\ e.state = s /\ e.idle = "none"
       /\ e.closes = k.closes /\ e.destroys = k.destroys + 1
       /\ e.events = k.events /\ e.unsent = k.unsent /\ e.shut = k.shut
  BY <1>5, <1>6, <1>8 DEF Connection
<1>11. Sound(e) /\ (Stuck(k) <=> Stuck(e))
  BY <1>9, <1>10, SameSound
<1>12. PICK d : d = Remove(e)
  OBVIOUS
<1>13. /\ Sound(d) /\ ~Registered(d) /\ d.state = s /\ d.idle = "none"
       /\ d.closes = k.closes /\ d.destroys = k.destroys + 1
       /\ Stuck(e) <=> Stuck(d)
  BY <1>10, <1>11, <1>12, RemoveClosed
<1>14. Quiet(d) /\ (Open(d) \/ Closed(d)) /\ (Closed(k) => Closed(d))
  BY <1>3, <1>13 DEF Quiet, Open, Closed
<1>15. d = ConnectDestroyed(k)
  BY <1>1, <1>7, <1>12 DEF ConnectDestroyed
<1> QED
  BY <1>11, <1>13, <1>14, <1>15
=============================================================================
