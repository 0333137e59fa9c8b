-------------------------- MODULE TcpServerProofs --------------------------
(***************************************************************************)
(* Proofs about TcpServer, for every number of connections, IO loops, user *)
(* threads and calls.  They rest on one account of a connection: where its *)
(* two functors and its removal stand in the queues, what the server's map *)
(* says of it, and what the IO loop may still hold of it.                  *)
(***************************************************************************)
EXTENDS TcpServer, TcpConnectionProofs

Functor(op, c) == [op |-> op, conn |-> c]
In(q, x) == \E i \in 1..Len(q) : q[i] = x
Once(q, x) == \A i, j \in 1..Len(q) : q[i] = x /\ q[j] = x => i = j

\* Every x in q has a y behind it.
Before(q, x, y) ==
  \A i \in 1..Len(q) : q[i] = x => \E j \in 1..Len(q) : i < j /\ q[j] = y

Queued(op, c) == In(ioQ[LoopOf(c)], Functor(op, c))

\* A functor is for an accepted connection of this loop; connectEstablished is
\* queued just while it has not run; the two that run once are queued once.
FunctorOK(l, q, f) ==
  /\ f.conn \in Accepted /\ LoopOf(f.conn) = l
  /\ f.op = "established" <=> conn[f.conn].state = "kConnecting"
  /\ f.op \in {"established", "destroyed"} => Once(q, f)
Placed ==
  \A l \in Loops : \A f \in Functors : In(ioQ[l], f) => FunctorOK(l, ioQ[l], f)

\* An IO loop works on its own established connections, and in the dispatch.
Mine(l, c) == c \in Accepted /\ LoopOf(c) = l /\ conn[c].state # "kConnecting"
Cbs == {"error", "read", "write"}
LoopOK(l) ==
  /\ \A r \in ready[l] : Mine(l, r.conn)
  /\ current[l] # Nothing => Mine(l, current[l].conn)
  /\ \A c \in expiring[l] : Mine(l, c)
  /\ phase[l] # "dispatch" =>
       ready[l] = {} /\ current[l] = Nothing /\ expiring[l] = {}
CurrentType == current \in [Loops -> [conn : Conns \cup {0}, cbs : Seq(Cbs)]]
Dispatching == CurrentType /\ \A l \in Loops : LoopOK(l)

\* A call under way is one of the three, on an established connection.
CallOK(t) ==
  pc[t].step # "none" =>
    /\ pc[t].conn \in Conns
    /\ pc[t].op \in {"shutdown", "forceClose", "send"}
    /\ conn[pc[t].conn].state # "kConnecting"
Calling == \A t \in Threads : CallOK(t)

\* Before connectEstablished nothing has touched a connection.
Fresh(k) == k.state = "kConnecting" => k = NewConnection

\* From the map, where a close posts its removal, to connectDestroyed, which
\* runs once.
Owned(c) ==
  /\ c \notin Accepted => conn[c].state = "kConnecting" /\ c \notin connections
  /\ In(baseQ, c) => conn[c].closes > 0
  /\ c \in connections => /\ conn[c].destroys = 0
                          /\ ~Queued("destroyed", c)
                          /\ conn[c].closes > 0 => In(baseQ, c)
  /\ c \in Accepted /\ c \notin connections =>
       /\ conn[c].closes > 0
       /\ conn[c].destroys = IF Queued("destroyed", c) THEN 0 ELSE 1

\* Unless a store has overwritten it, the state says whether the connection
\* was closed; while it is open it is watched and timed, and once destroyed
\* nothing names it.
Life(c) ==
  c \notin revived =>
    /\ Closed(conn[c]) <=> conn[c].closes > 0
    /\ Open(conn[c]) =>
         /\ Watching(conn[c])
         /\ conn[c].idle = "armed" \/ \E l \in Loops : c \in expiring[l]
    /\ conn[c].destroys > 0 => Quiet(conn[c]) /\ ~InHand(c)

Whole(c) == Sound(conn[c]) /\ Fresh(conn[c]) /\ Owned(c) /\ Life(c)

\* A send posted while the server had the connection runs before connectDestroyed.
SendOK(c) ==
  \/ c \in connections \cup lateSends
  \/ Before(ioQ[LoopOf(c)], Functor("send", c), Functor("destroyed", c))
Sent == \A c \in Conns : SendOK(c)

SInv ==
  /\ TypeOK /\ Placed /\ Dispatching /\ Calling /\ Sent
  /\ \A c \in Conns : Whole(c)

-----------------------------------------------------------------------------
(* Queues *)

LEMMA AppendIn ==
  ASSUME NEW S, NEW q \in Seq(S), NEW x \in S, NEW y
  PROVE  /\ In(Append(q, x), y) <=> In(q, y) \/ y = x
         /\ Once(q, y) /\ (y = x => ~In(q, x)) => Once(Append(q, x), y)
<1>1. PICK a : a = Append(q, x)
  OBVIOUS
<1>2. /\ Len(q) \in Nat /\ Len(a) = Len(q) + 1 /\ a[Len(q) + 1] = x
      /\ Len(q) + 1 \in 1..Len(a)
      /\ \A i \in 1..Len(q) : a[i] = q[i] /\ i \in 1..Len(a)
  BY <1>1
<1>3. \A i \in 1..Len(a) : i \in 1..Len(q) \/ i = Len(q) + 1
  BY <1>2
<1>4. In(a, y) <=> In(q, y) \/ y = x
  <2>1. In(q, y) \/ y = x => In(a, y)
    BY <1>2 DEF In
  <2>2. In(a, y) => In(q, y) \/ y = x
    BY <1>2, <1>3 DEF In
  <2> QED
    BY <2>1, <2>2
<1>5. ASSUME Once(q, y), y = x => ~In(q, x)
      PROVE  Once(a, y)
  <2> SUFFICES ASSUME NEW i \in 1..Len(a), NEW j \in 1..Len(a), a[i] = y, a[j] = y
               PROVE  i = j
    BY DEF Once
  <2>1. i \in 1..Len(q) /\ j \in 1..Len(q) => i = j
    BY <1>2, <1>5 DEF Once
  <2>2. i \in 1..Len(q) /\ j \notin 1..Len(q) => FALSE
    BY <1>2, <1>3, <1>5 DEF In
  <2>3. i \notin 1..Len(q) /\ j \in 1..Len(q) => FALSE
    BY <1>2, <1>3, <1>5 DEF In
  <2> QED
    BY <1>3, <2>1, <2>2, <2>3
<1> QED
  BY <1>1, <1>4, <1>5

LEMMA TailIn ==
  ASSUME NEW S, NEW q \in Seq(S), q # <<>>
  PROVE  /\ Head(q) \in S /\ In(q, Head(q))
         /\ Tail(q) \in Seq(S) /\ Len(Tail(q)) = Len(q) - 1
         /\ \A y : In(Tail(q), y) => In(q, y)
         /\ \A y : In(q, y) => y = Head(q) \/ In(Tail(q), y)
         /\ \A y : Once(q, y) => Once(Tail(q), y)
         /\ Once(q, Head(q)) => ~In(Tail(q), Head(q))
<1>1. PICK t : t = Tail(q)
  OBVIOUS
<1>2. /\ Len(q) \in Nat \ {0} /\ Len(t) = Len(q) - 1 /\ t \in Seq(S)
      /\ Head(q) = q[1] /\ q[1] \in S
      /\ \A i \in 1..Len(t) : t[i] = q[i + 1] /\ i + 1 \in 1..Len(q)
  BY <1>1
<1>3. \A i \in 1..Len(q) : i # 1 => i - 1 \in 1..Len(t) /\ (i - 1) + 1 = i
  BY <1>2
<1>4. \A y : In(t, y) => In(q, y)
  BY <1>2 DEF In
<1>5. \A y : In(q, y) => y = Head(q) \/ In(t, y)
  <2> SUFFICES ASSUME NEW i \in 1..Len(q), i # 1
               PROVE  In(t, q[i])
    BY <1>2 DEF In
  <2>1. i - 1 \in 1..Len(t) /\ t[i - 1] = q[i]
    BY <1>2, <1>3
  <2> QED
    BY <2>1 DEF In
<1>6. \A y : Once(q, y) => Once(t, y)
  <2> SUFFICES ASSUME NEW y, Once(q, y), NEW i \in 1..Len(t), NEW j \in 1..Len(t),
                      t[i] = y, t[j] = y
               PROVE  i = j
    BY DEF Once
  <2>1. i + 1 = j + 1
    BY <1>2 DEF Once
  <2> QED
    BY <1>2, <2>1
<1>7. Once(q, Head(q)) => ~In(t, Head(q))
  <2> SUFFICES ASSUME Once(q, Head(q)), NEW i \in 1..Len(t), t[i] = Head(q)
               PROVE  FALSE
    BY DEF In
  <2>1. 1 \in 1..Len(q) /\ i + 1 \in 1..Len(q) /\ q[i + 1] = q[1] /\ q[1] = Head(q)
    BY <1>2
  <2>2. i + 1 = 1
    BY <2>1 DEF Once
  <2> QED
    BY <1>2, <2>2
<1>8. In(q, Head(q))
  BY <1>2 DEF In
<1> QED
  BY <1>1, <1>2, <1>4, <1>5, <1>6, <1>7, <1>8

LEMMA BeforeKept ==
  ASSUME NEW S, NEW q \in Seq(S), NEW x, NEW y
  PROVE  /\ \A z \in S : z # x /\ Before(q, x, y) => Before(Append(q, z), x, y)
         /\ y \in S /\ y # x => Before(Append(q, y), x, y)
         /\ q # <<>> /\ Before(q, x, y) => Before(Tail(q), x, y)
<1>1. ASSUME NEW z \in S, z # x, Before(q, x, y) \/ z = y
      PROVE  Before(Append(q, z), x, y)
  <2>1. PICK a : a = Append(q, z)
    OBVIOUS
  <2>2. /\ Len(q) \in Nat /\ Len(a) = Len(q) + 1 /\ a[Len(q) + 1] = z
        /\ \A i \in 1..Len(q) : a[i] = q[i] /\ i \in 1..Len(a) /\ i < Len(q) + 1
        /\ Len(q) + 1 \in 1..Len(a)
        /\ \A i \in 1..Len(a) : i \in 1..Len(q) \/ i = Len(q) + 1
    BY <2>1
  <2>3. ASSUME NEW i \in 1..Len(a), a[i] = x
        PROVE  \E j \in 1..Len(a) : i < j /\ a[j] = y
    <3>1. i \in 1..Len(q) /\ q[i] = x
      BY <1>1, <2>2, <2>3
    <3>2. CASE z = y
      BY <2>2, <3>1, <3>2
    <3>3. CASE Before(q, x, y)
      <4>1. PICK j \in 1..Len(q) : i < j /\ q[j] = y
        BY <3>1, <3>3 DEF Before
      <4> QED
        BY <2>2, <4>1
    <3> QED
      BY <1>1, <3>2, <3>3
  <2> QED
    BY <2>1, <2>3 DEF Before
<1>2. ASSUME q # <<>>, Before(q, x, y)
      PROVE  Before(Tail(q), x, y)
  <2>1. PICK t : t = Tail(q)
    OBVIOUS
  <2>2. /\ Len(q) \in Nat \ {0} /\ Len(t) = Len(q) - 1
        /\ \A i \in 1..Len(t) : t[i] = q[i + 1] /\ i + 1 \in 1..Len(q)
    BY <1>2, <2>1
  <2>3. ASSUME NEW i \in 1..Len(t), t[i] = x
        PROVE  \E j \in 1..Len(t) : i < j /\ t[j] = y
    <3>1. PICK j \in 1..Len(q) : i + 1 < j /\ q[j] = y
      BY <1>2, <2>2, <2>3 DEF Before
    <3>2. j - 1 \in 1..Len(t) /\ i < j - 1 /\ (j - 1) + 1 = j
      BY <2>2, <3>1
    <3> QED
      BY <2>2, <3>1, <3>2
  <2> QED
    BY <2>1, <2>3 DEF Before
<1> QED
  BY <1>1, <1>2

-----------------------------------------------------------------------------
(* What a step keeps of the account *)

LEMMA Basics ==
  ASSUME SInv
  PROVE  /\ Accepted \subseteq Conns
         /\ nextConnId \in Nat \ {0}
         /\ \A c \in Conns :
              /\ LoopOf(c) \in Loops /\ Sound(conn[c]) /\ conn[c] \in Connection
              /\ conn[c].closes \in Nat /\ conn[c].destroys \in Nat
              /\ conn[c].state = "kConnecting" <=> ~(Open(conn[c]) \/ Closed(conn[c]))
              /\ conn[c].state # "kConnecting" => c \in Accepted
              /\ conn[c].state = "kConnecting" =>
                   conn[c].closes = 0 /\ conn[c].destroys = 0 /\ ~Registered(conn[c])
                   /\ conn[c].idle = "none"
<1>1. nextConnId \in 1..(MaxConns + 1)
  BY DEF SInv, TypeOK
<1>2. Accepted \subseteq Conns /\ nextConnId \in Nat \ {0}
  BY <1>1, TcpServerAssumption DEF Accepted, Conns
<1>3. ASSUME NEW c \in Conns
      PROVE  /\ Sound(conn[c]) /\ conn[c] \in Connection
             /\ conn[c].closes \in Nat /\ conn[c].destroys \in Nat
             /\ conn[c].state = "kConnecting" <=> ~(Open(conn[c]) \/ Closed(conn[c]))
             /\ conn[c].state # "kConnecting" => c \in Accepted
             /\ conn[c].state = "kConnecting" => conn[c] = NewConnection
  <2>1. Sound(conn[c]) /\ Fresh(conn[c]) /\ Owned(c)
    BY DEF SInv, Whole
  <2>2. conn[c] \in Connection
    BY <2>1 DEF Sound
  <2>3. conn[c].state \in States /\ conn[c].closes \in Nat /\ conn[c].destroys \in Nat
    BY <2>2, Fields
  <2> QED
    BY <2>1, <2>2, <2>3 DEF Fresh, Owned, Open, Closed, States
<1>4. \A c \in Conns : LoopOf(c) \in Loops
  BY TcpServerAssumption DEF Conns, LoopOf, Loops
<1> QED
  BY <1>2, <1>3, <1>4, NewConnectionSound

\* What is fresh stays so.
SameFresh ==
  \A c \in Conns : conn'[c].state = "kConnecting" <=> conn[c].state = "kConnecting"

LEMMA PlacedKept ==
  ASSUME SInv, UNCHANGED <<nextConnId, ioQ>>, SameFresh
  PROVE  Placed'
<1> SUFFICES ASSUME NEW l \in Loops, NEW f \in Functors, In(ioQ[l], f)
             PROVE  FunctorOK(l, ioQ[l], f)'
  BY DEF Placed
<1>1. FunctorOK(l, ioQ[l], f)
  BY DEF SInv, Placed
<1>2. f.conn \in Conns
  BY DEF Functors
<1> QED
  BY <1>1, <1>2 DEF FunctorOK, SameFresh, Accepted

LEMMA MineKept ==
  ASSUME SInv, nextConnId' \in {nextConnId, nextConnId + 1},
         \A c \in Conns : conn[c].state # "kConnecting" => conn'[c].state # "kConnecting"
  PROVE  \A l \in Loops : \A c : Mine(l, c) => Mine(l, c)'
<1>1. Accepted \subseteq Accepted'
  BY Basics DEF Accepted
<1> QED
  BY <1>1, Basics DEF Mine

LEMMA CallingKept ==
  ASSUME SInv, UNCHANGED pc,
         \A c \in Conns : conn[c].state # "kConnecting" => conn'[c].state # "kConnecting"
  PROVE  Calling'
BY DEF SInv, Calling, CallOK

LEMMA SentKept ==
  ASSUME SInv, UNCHANGED <<ioQ, connections, lateSends>>
  PROVE  Sent'
BY DEF SInv, Sent, SendOK

\* A functor is posted: a send of a removed connection is late.
LEMMA SentPosted ==
  ASSUME SInv, NEW op \in Ops, NEW c \in Conns, PostTo(LoopOf(c), op, c),
         lateSends \subseteq lateSends',
         \A b \in Conns : b \in connections \ connections' => b = c /\ op = "destroyed",
         op = "send" => c \in connections' \cup lateSends'
  PROVE  Sent'
<1>1. PICK l \in Loops, f \in Functors : l = LoopOf(c) /\ f = Functor(op, c)
  BY Basics DEF Functor, Functors
<1>2. ioQ \in [Loops -> Seq(Functors)]
  BY DEF SInv, TypeOK
<1>3. ioQ' = [ioQ EXCEPT ![l] = Append(ioQ[l], f)]
  BY <1>1 DEF PostTo, Functor
<1>4. ioQ'[l] = Append(ioQ[l], f) /\ \A m \in Loops : m # l => ioQ'[m] = ioQ[m]
  BY <1>2, <1>3
<1> SUFFICES ASSUME NEW b \in Conns, b \notin connections' \cup lateSends'
             PROVE  Before(ioQ'[LoopOf(b)], Functor("send", b), Functor("destroyed", b))
  BY DEF Sent, SendOK
<1>5. b \in connections \/ Before(ioQ[LoopOf(b)], Functor("send", b), Functor("destroyed", b))
  BY DEF SInv, Sent, SendOK
<1>6. LoopOf(b) \in Loops /\ ioQ[l] \in Seq(Functors)
  BY <1>2, Basics
<1>7. Functor("send", b) # f /\ Functor("destroyed", b) # Functor("send", b)
  BY <1>1 DEF Functor
<1>8. CASE b \in connections
  <2>1. f = Functor("destroyed", b) /\ LoopOf(b) = l
    BY <1>1, <1>8
  <2> QED
    BY <1>4, <1>6, <1>7, <2>1, BeforeKept
<1>9. CASE Before(ioQ[LoopOf(b)], Functor("send", b), Functor("destroyed", b))
  <2>1. CASE LoopOf(b) = l
    BY <1>4, <1>6, <1>7, <1>9, <2>1, BeforeKept
  <2>2. CASE LoopOf(b) # l
    BY <1>4, <1>6, <1>9, <2>2
  <2> QED
    BY <2>1, <2>2
<1> QED
  BY <1>5, <1>8, <1>9

\* A functor has run.
LEMMA SentRun ==
  ASSUME SInv, NEW l \in Loops, ioQ[l] # <<>>, ioQ' = [ioQ EXCEPT ![l] = Tail(@)],
         UNCHANGED <<connections, lateSends>>
  PROVE  Sent'
<1>1. ioQ \in [Loops -> Seq(Functors)]
  BY DEF SInv, TypeOK
<1>2. ioQ'[l] = Tail(ioQ[l]) /\ \A m \in Loops : m # l => ioQ'[m] = ioQ[m]
  BY <1>1
<1> SUFFICES ASSUME NEW b \in Conns,
                    Before(ioQ[LoopOf(b)], Functor("send", b), Functor("destroyed", b))
             PROVE  Before(ioQ'[LoopOf(b)], Functor("send", b), Functor("destroyed", b))
  BY DEF SInv, Sent, SendOK
<1>3. LoopOf(b) \in Loops /\ ioQ[l] \in Seq(Functors)
  BY <1>1, Basics
<1>4. CASE LoopOf(b) = l
  BY <1>2, <1>3, <1>4, BeforeKept
<1>5. CASE LoopOf(b) # l
  BY <1>2, <1>3, <1>5
<1> QED
  BY <1>4, <1>5

LEMMA WholeKept ==
  ASSUME SInv, NEW c \in Conns, conn'[c] = conn[c],
         UNCHANGED <<connections, nextConnId>>, c \in revived => c \in revived',
         In(baseQ, c)' <=> In(baseQ, c),
         Queued("destroyed", c)' <=> Queued("destroyed", c),
         conn[c].destroys > 0 /\ Quiet(conn[c]) /\ ~InHand(c) => ~InHand(c)',
         \A l \in Loops : c \in expiring[l] => c \in expiring'[l]
  PROVE  Whole(c)'
<1>1. Sound(conn[c]) /\ Fresh(conn[c]) /\ Owned(c) /\ Life(c)
  BY DEF SInv, Whole
<1>2. Owned(c)'
  BY <1>1 DEF Owned, Accepted
<1>3. Life(c)'
  BY <1>1 DEF Life
<1> QED
  BY <1>1, <1>2, <1>3 DEF Whole

LEMMA AdvanceWhole ==
  ASSUME SInv, NEW c \in Conns, NEW d, Effect(conn[c], d), Becomes(c, d),
         UNCHANGED <<connections, nextConnId, revived>>,
         \A b \in Conns : Queued("destroyed", b)' <=> Queued("destroyed", b),
         c \notin revived /\ Closed(conn[c]) /\ conn[c].destroys > 0
           /\ Quiet(conn[c]) /\ ~InHand(c) => Quiet(d),
         \A b \in Conns : InHand(b)' => InHand(b),
         \A b \in Conns, l \in Loops :
           b \in expiring[l] => b \in expiring'[l] \/ (b = c /\ Closed(d))
  PROVE  (\A b \in Conns : Whole(b)') /\ SameFresh
<1>1. conn \in [Conns -> Connection] /\ baseQ \in Seq(Conns)
  BY DEF SInv, TypeOK
<1>2. conn' = [conn EXCEPT ![c] = d]
  BY DEF Becomes
<1>3. conn'[c] = d /\ \A b \in Conns : b # c => conn'[b] = conn[b]
  BY <1>1, <1>2
<1>4. /\ \A b \in Conns : In(baseQ, b)' <=> In(baseQ, b) \/ (b = c /\ d.closes > conn[c].closes)
  BY <1>1, AppendIn DEF Becomes
<1>5. /\ Open(conn[c]) \/ Closed(conn[c])
      /\ Open(d) \/ Closed(d)
      /\ ~(Open(d) /\ Closed(d)) /\ ~(Open(conn[c]) /\ Closed(conn[c]))
      /\ Sound(d)
      /\ conn[c].closes \in Nat /\ conn[c].destroys \in Nat /\ d.destroys = conn[c].destroys
      /\ d.closes \in Nat /\ d.closes >= conn[c].closes
      /\ d.closes > conn[c].closes => Closed(d)
  <2>1. conn[c].closes \in Nat /\ conn[c].destroys \in Nat
    BY Basics
  <2> QED
    BY <2>1 DEF Effect, GoesOn, IsClosed, StaysClosed, Open, Closed
<1>6. conn[c].state # "kConnecting" /\ d.state # "kConnecting"
  BY <1>5 DEF Open, Closed
<1>7. SameFresh
  BY <1>3, <1>6 DEF SameFresh
<1>8. ASSUME NEW b \in Conns, b # c
      PROVE  Whole(b)'
  BY <1>3, <1>4, <1>8, WholeKept
<1>9. Whole(c)'
  <2>1. Owned(c) /\ Life(c) /\ c \in Accepted
    BY <1>6, Basics DEF SInv, Whole
  <2>2. Owned(c)'
    <3>1. c \in Accepted'
      BY <2>1 DEF Accepted
    <3>2. In(baseQ, c)' => d.closes > 0
      BY <1>4, <1>5, <2>1 DEF Owned
    <3>3. d.closes > 0 /\ c \in connections => In(baseQ, c)'
      BY <1>4, <1>5, <2>1 DEF Owned
    <3>4. c \in connections => d.destroys = 0 /\ ~Queued("destroyed", c)'
      BY <1>5, <2>1 DEF Owned
    <3>5. c \notin connections =>
            d.closes > 0 /\ d.destroys = IF Queued("destroyed", c)' THEN 0 ELSE 1
      BY <1>5, <2>1 DEF Owned
    <3> QED
      BY <1>3, <3>1, <3>2, <3>3, <3>4, <3>5 DEF Owned
  <2>3. Life(c)'
    <3> SUFFICES ASSUME c \notin revived
                 PROVE  /\ Closed(d) <=> d.closes > 0
                        /\ Open(d) =>
                             /\ Watching(d)
                             /\ d.idle = "armed" \/ \E l \in Loops : c \in expiring'[l]
                        /\ d.destroys > 0 => Quiet(d) /\ ~InHand(c)'
      BY <1>3 DEF Life
    <3>1. /\ Closed(conn[c]) <=> conn[c].closes > 0
          /\ Open(conn[c]) =>
               /\ Watching(conn[c])
               /\ conn[c].idle = "armed" \/ \E l \in Loops : c \in expiring[l]
          /\ conn[c].destroys > 0 => Quiet(conn[c]) /\ ~InHand(c)
      BY <2>1 DEF Life
    <3>2. Closed(d) <=> d.closes > 0
      BY <1>5, <3>1 DEF Effect, GoesOn, IsClosed, StaysClosed
    <3>3. ASSUME Open(d)
          PROVE  /\ Watching(d)
                 /\ d.idle = "armed" \/ \E l \in Loops : c \in expiring'[l]
      <4>1. GoesOn(conn[c], d)
        BY <1>5, <3>3 DEF Effect, IsClosed, StaysClosed
      <4>2. \A l \in Loops : c \in expiring[l] => c \in expiring'[l]
        BY <1>5, <3>3
      <4> QED
        BY <3>1, <4>1, <4>2 DEF GoesOn
    <3>4. d.destroys > 0 => Quiet(d) /\ ~InHand(c)'
      <4>1. conn[c].destroys > 0 => c \notin connections
        BY <1>5, <2>1 DEF Owned
      <4>2. conn[c].destroys > 0 => Closed(conn[c])
        BY <2>1, <3>1, <4>1 DEF Owned
      <4> QED
        BY <1>5, <3>1, <4>2
    <3> QED
      BY <3>2, <3>3, <3>4
  <2>4. Fresh(d)
    BY <1>6 DEF Fresh
  <2> QED
    BY <1>3, <1>5, <2>2, <2>3, <2>4 DEF Whole
<1> QED
  BY <1>7, <1>8, <1>9

-----------------------------------------------------------------------------
(* Types, in the parts that steps change together *)

CoreType ==
  /\ conn \in [Conns -> Connection]
  /\ connections \in SUBSET Conns
  /\ nextConnId \in 1..(MaxConns + 1)
  /\ baseQ \in Seq(Conns)
  /\ ioQ \in [Loops -> Seq(Functors)]
  /\ revived \in SUBSET Conns
StopType ==
  /\ listening \in BOOLEAN /\ spinning \in BOOLEAN
  /\ copy \in SUBSET Conns /\ closing \in SUBSET copy
DueType == due \in [Loops -> Nat] /\ \A l \in Loops : due[l] <= Len(ioQ[l])
PhaseType ==
  /\ phase \in [Loops -> {"poll", "dispatch", "functors"}]
  /\ timersDue \in [Loops -> BOOLEAN]
ListType ==
  /\ ready \in [Loops -> SUBSET [conn : Conns, cbs : CbSeqs]]
  /\ \A l \in Loops : current[l] = Nothing \/ current[l].conn \in Conns
  /\ expiring \in [Loops -> SUBSET Conns]
UserType ==
  /\ pc \in [Threads -> [op : Ops \cup {"none"}, conn : Conns \cup {0},
                         step : {"none", "tested", "stored"}]]
  /\ calls \in [Users -> 0..MaxCalls]
  /\ held \in [Users -> SUBSET Conns]
  /\ lateSends \in SUBSET Conns

LEMMA TypeParts ==
  /\ TypeOK <=> CoreType /\ StopType /\ DueType /\ PhaseType /\ ListType /\ UserType
  /\ CoreType' /\ StopType' /\ DueType' /\ PhaseType' /\ ListType' /\ UserType'
       => TypeOK'
BY DEF TypeOK, CoreType, StopType, DueType, PhaseType, ListType, UserType

LEMMA TypesNow ==
  ASSUME SInv
  PROVE  CoreType /\ StopType /\ DueType /\ PhaseType /\ ListType /\ UserType
BY TypeParts DEF SInv

\* Steps of stop() and of user threads that change nothing but where they are.
LEMMA ThreadStep ==
  ASSUME SInv,
         UNCHANGED <<conn, connections, nextConnId, baseQ, ioQ, loopVars, revived,
                     lateSends>>,
         StopType', UserType', Calling'
  PROVE  SInv'
<1>1. CoreType' /\ DueType' /\ PhaseType' /\ ListType'
  BY TypesNow DEF CoreType, DueType, PhaseType, ListType, loopVars
<1>2. Placed'
  BY PlacedKept DEF SameFresh
<1>3. Dispatching'
  <2>1. CurrentType'
    BY DEF SInv, Dispatching, CurrentType, loopVars
  <2> SUFFICES ASSUME NEW l \in Loops PROVE LoopOK(l)'
    BY <2>1 DEF Dispatching
  <2>2. LoopOK(l)
    BY DEF SInv, Dispatching
  <2> QED
    BY <2>2 DEF LoopOK, Mine, Accepted, loopVars
<1>4. \A c \in Conns : Whole(c)'
  BY WholeKept DEF loopVars, InHand, Queued
<1> QED
  BY <1>1, <1>2, <1>3, <1>4, SentKept, TypeParts DEF SInv

LEMMA StopStep == SInv /\ Stop => SInv'
<1> SUFFICES ASSUME SInv, Stop PROVE SInv'
  OBVIOUS
<1>1. /\ listening' = FALSE /\ copy' = connections /\ closing' = connections
      /\ UNCHANGED <<conn, connections, nextConnId, spinning, baseQ, ioQ, loopVars,
                     userVars, revived>>
  BY DEF Stop, CloseAcceptor, Snapshot
<1>2. StopType' /\ UserType'
  BY <1>1, TypesNow DEF StopType, UserType, CoreType, userVars
<1>3. Calling'
  BY <1>1, CallingKept DEF userVars
<1> QED
  BY <1>1, <1>2, <1>3, ThreadStep DEF userVars

LEMMA StopReturnsStep == SInv /\ StopReturns => SInv'
<1> SUFFICES ASSUME SInv, StopReturns PROVE SInv'
  OBVIOUS
<1>1. /\ closing' = closing /\ closing = {} /\ copy' = {} /\ listening' = listening
      /\ UNCHANGED <<conn, connections, nextConnId, spinning, baseQ, ioQ, loopVars,
                     userVars, revived>>
  BY DEF StopReturns
<1>2. StopType' /\ UserType'
  BY <1>1, TypesNow DEF StopType, UserType, userVars
<1>3. Calling'
  BY <1>1, CallingKept DEF userVars
<1> QED
  BY <1>1, <1>2, <1>3, ThreadStep DEF userVars

LEMMA AcceptStep == SInv /\ (AcceptFails \/ AcceptRecovers) => SInv'
<1> SUFFICES ASSUME SInv, AcceptFails \/ AcceptRecovers PROVE SInv'
  OBVIOUS
<1>1. /\ spinning' \in BOOLEAN /\ UNCHANGED <<listening, copy, closing>>
      /\ UNCHANGED <<conn, connections, nextConnId, baseQ, ioQ, loopVars, userVars, revived>>
  BY DEF AcceptFails, AcceptRecovers
<1>2. StopType' /\ UserType'
  BY <1>1, TypesNow DEF StopType, UserType, userVars
<1>3. Calling'
  BY <1>1, CallingKept DEF userVars
<1> QED
  BY <1>1, <1>2, <1>3, ThreadStep DEF userVars

\* The test at the start of a call: who passes it is established.
LEMMA TestStep ==
  ASSUME SInv, NEW t \in Threads, NEW c \in Conns,
         NEW op \in {"shutdown", "forceClose", "send"}, Passes(op, conn[c]),
         pc' = [pc EXCEPT ![t] = [op |-> op, conn |-> c, step |-> "tested"]],
         UNCHANGED conn
  PROVE  /\ pc' \in [Threads -> [op : Ops \cup {"none"}, conn : Conns \cup {0},
                                 step : {"none", "tested", "stored"}]]
         /\ Calling'
<1>1. pc \in [Threads -> [op : Ops \cup {"none"}, conn : Conns \cup {0},
                         step : {"none", "tested", "stored"}]]
  BY TypesNow DEF UserType
<1>2. conn[c].state # "kConnecting"
  BY DEF Passes
<1>3. Calling
  BY DEF SInv
<1> QED
  BY <1>1, <1>2, <1>3 DEF Calling, CallOK, Ops

LEMMA BaseCallsStep == ASSUME SInv, NEW c \in Conns, BaseCalls(c) PROVE SInv'
<1>1. /\ closing' = closing \ {c} /\ UNCHANGED <<listening, spinning, copy, calls, held>>
      /\ UNCHANGED <<conn, connections, nextConnId, baseQ, ioQ, loopVars, revived, lateSends>>
  BY DEF BaseCalls
<1>2. StopType'
  BY <1>1, TypesNow DEF StopType
<1>3. CASE pc' = pc
  BY <1>1, <1>2, <1>3, TypesNow, CallingKept, ThreadStep DEF UserType
<1>4. CASE pc' # pc
  <2>1. "base" \in Threads
    BY DEF Threads
  <2>2. /\ Passes("forceClose", conn[c])
        /\ pc' = [pc EXCEPT !["base"] = [op |-> "forceClose", conn |-> c, step |-> "tested"]]
    BY <1>4, <2>1, TypesNow DEF BaseCalls, UserType
  <2>3. /\ pc' \in [Threads -> [op : Ops \cup {"none"}, conn : Conns \cup {0},
                                step : {"none", "tested", "stored"}]]
        /\ Calling'
    BY <1>1, <2>1, <2>2, TestStep
  <2>4. UserType'
    BY <1>1, <2>3, TypesNow DEF UserType
  <2> QED
    BY <1>1, <1>2, <2>3, <2>4, ThreadStep
<1> QED
  BY <1>3, <1>4

LEMMA CallStep ==
  ASSUME SInv, NEW u \in Users, NEW c \in Conns,
         NEW op \in {"shutdown", "forceClose", "send"}, Call(u, c, op)
  PROVE  SInv'
<1>1. /\ UNCHANGED <<listening, spinning, copy, closing, held>>
      /\ UNCHANGED <<conn, connections, nextConnId, baseQ, ioQ, loopVars, revived, lateSends>>
      /\ calls[u] < MaxCalls /\ calls' = [calls EXCEPT ![u] = @ + 1]
  BY DEF Call, serverVars
<1>2. StopType'
  BY <1>1, TypesNow DEF StopType
<1>3. calls' \in [Users -> 0..MaxCalls] /\ held' \in [Users -> SUBSET Conns]
  BY <1>1, TypesNow, TcpServerAssumption DEF UserType
<1>4. u \in Threads
  BY DEF Threads
<1>5. CASE pc' = pc
  <2>1. UserType' /\ Calling'
    BY <1>1, <1>3, <1>5, TypesNow, CallingKept DEF UserType
  <2> QED
    BY <1>1, <1>2, <2>1, ThreadStep
<1>6. CASE pc' # pc
  <2>1. /\ Passes(op, conn[c])
        /\ pc' = [pc EXCEPT ![u] = [op |-> op, conn |-> c, step |-> "tested"]]
    BY <1>4, <1>6, TypesNow DEF Call, UserType
  <2>2. /\ pc' \in [Threads -> [op : Ops \cup {"none"}, conn : Conns \cup {0},
                                step : {"none", "tested", "stored"}]]
        /\ Calling'
    BY <1>1, <1>4, <2>1, TestStep
  <2>3. UserType'
    BY <1>1, <1>3, <2>2, TypesNow DEF UserType
  <2> QED
    BY <1>1, <1>2, <2>2, <2>3, ThreadStep
<1> QED
  BY <1>5, <1>6

LEMMA ReleaseStep ==
  ASSUME SInv, NEW u \in Users, NEW c \in Conns, Release(u, c)
  PROVE  SInv'
<1>1. /\ UNCHANGED <<listening, spinning, copy, closing, pc, calls>>
      /\ UNCHANGED <<conn, connections, nextConnId, baseQ, ioQ, loopVars, revived, lateSends>>
      /\ held' = [held EXCEPT ![u] = @ \ {c}]
  BY DEF Release, serverVars
<1>2. StopType' /\ UserType'
  BY <1>1, TypesNow DEF StopType, UserType
<1> QED
  BY <1>1, <1>2, CallingKept, ThreadStep

-----------------------------------------------------------------------------
(* Steps that post a functor *)

LEMMA FunctorFields ==
  \A op, c, o, b : /\ Functor(op, c).op = op /\ Functor(op, c).conn = c
                   /\ Functor(op, c) = Functor(o, b) <=> op = o /\ c = b
BY DEF Functor

LEMMA PostEffect ==
  ASSUME SInv, NEW op \in Ops, NEW c \in Conns, PostTo(LoopOf(c), op, c),
         nextConnId' \in {nextConnId, nextConnId + 1}, c \in Accepted',
         UNCHANGED <<conn, due>>,
         op = "established" <=> conn[c].state = "kConnecting",
         op \in {"established", "destroyed"} => ~Queued(op, c)
  PROVE  /\ Placed' /\ DueType' /\ ioQ' \in [Loops -> Seq(Functors)]
         /\ \A b \in Conns : \A o : Queued(o, b)' <=> Queued(o, b) \/ (o = op /\ b = c)
<1>1. PICK l \in Loops, f \in Functors : /\ l = LoopOf(c) /\ f = Functor(op, c)
                                       /\ f.op = op /\ f.conn = c
  <2>1. LoopOf(c) \in Loops /\ Functor(op, c) \in Functors
    BY Basics DEF Functor, Functors
  <2> QED
    BY <2>1, FunctorFields
<1>2. ioQ \in [Loops -> Seq(Functors)]
  BY TypesNow DEF CoreType
<1>3. ioQ' = [ioQ EXCEPT ![l] = Append(ioQ[l], f)]
  BY <1>1 DEF PostTo, Functor
<1>4. ioQ'[l] = Append(ioQ[l], f) /\ \A m \in Loops : m # l => ioQ'[m] = ioQ[m]
  BY <1>2, <1>3
<1>5. ioQ' \in [Loops -> Seq(Functors)]
  BY <1>2, <1>3
<1>6. DueType'
  <2>1. Len(ioQ'[l]) = Len(ioQ[l]) + 1 /\ Len(ioQ[l]) \in Nat
    BY <1>2, <1>4
  <2>2. due \in [Loops -> Nat] /\ \A m \in Loops : due[m] <= Len(ioQ[m])
    BY TypesNow DEF DueType
  <2>3. \A m \in Loops : due[m] <= Len(ioQ'[m])
    BY <1>4, <2>1, <2>2
  <2> QED
    BY <2>2, <2>3 DEF DueType
<1>7. \A y : In(ioQ'[l], y) <=> In(ioQ[l], y) \/ y = f
  BY <1>2, <1>4, AppendIn
<1>8. Accepted \subseteq Accepted'
  BY Basics DEF Accepted
<1>9. Placed'
  <2> SUFFICES ASSUME NEW m \in Loops, NEW g \in Functors, In(ioQ'[m], g)
               PROVE  FunctorOK(m, ioQ[m], g)'
    BY DEF Placed
  <2>1. CASE m # l
    <3>1. FunctorOK(m, ioQ[m], g)
      BY <1>4, <2>1 DEF SInv, Placed
    <3> QED
      BY <1>4, <1>8, <2>1, <3>1 DEF FunctorOK
  <2>2. CASE m = l /\ In(ioQ[l], g)
    <3>1. FunctorOK(l, ioQ[l], g)
      BY <2>2 DEF SInv, Placed
    <3>2. g.op \in {"established", "destroyed"} => Once(ioQ'[l], g)
      <4>1. g.op \in {"established", "destroyed"} => g # f
        BY <1>1, <2>2 DEF Queued
      <4> QED
        BY <1>2, <1>4, <3>1, <4>1, AppendIn DEF FunctorOK
    <3> QED
      BY <1>8, <2>2, <3>1, <3>2 DEF FunctorOK
  <2>3. CASE m = l /\ ~In(ioQ[l], g)
    <3>1. g = f
      BY <1>7, <2>3
    <3>2. Once(ioQ[l], g)
      BY <2>3 DEF Once, In
    <3>3. Once(ioQ'[l], g)
      BY <1>2, <1>4, <2>3, <3>1, <3>2, AppendIn
    <3> QED
      BY <1>1, <2>3, <3>1, <3>3 DEF FunctorOK
  <2> QED
    BY <2>1, <2>2, <2>3
<1>10. ASSUME NEW b \in Conns, NEW o
       PROVE  Queued(o, b)' <=> Queued(o, b) \/ (o = op /\ b = c)
  <2>1. LoopOf(b) \in Loops
    BY Basics
  <2>2. CASE LoopOf(b) = l
    BY <1>1, <1>7, <2>2, FunctorFields DEF Queued
  <2>3. CASE LoopOf(b) # l
    BY <1>1, <1>4, <2>1, <2>3 DEF Queued
  <2> QED
    BY <2>2, <2>3
<1> QED
  BY <1>5, <1>6, <1>9, <1>10

\* Nothing an IO loop holds is touched by the other threads.
LEMMA LoopsKept ==
  ASSUME SInv, nextConnId' \in {nextConnId, nextConnId + 1},
         UNCHANGED <<phase, ready, timersDue, current, expiring>>,
         \A c \in Conns : conn[c].state # "kConnecting" => conn'[c].state # "kConnecting"
  PROVE  /\ Dispatching' /\ PhaseType' /\ ListType'
         /\ \A c \in Conns : InHand(c)' <=> InHand(c)
         /\ \A l \in Loops : expiring'[l] = expiring[l]
<1>1. Dispatching'
  <2>1. CurrentType'
    BY DEF SInv, Dispatching, CurrentType
  <2> SUFFICES ASSUME NEW l \in Loops PROVE LoopOK(l)'
    BY <2>1 DEF Dispatching
  <2>2. LoopOK(l)
    BY DEF SInv, Dispatching
  <2>3. \A c : Mine(l, c) => Mine(l, c)'
    BY MineKept
  <2> QED
    BY <2>2, <2>3 DEF LoopOK
<1> QED
  BY <1>1, TypesNow DEF PhaseType, ListType, InHand

LEMMA PostStep ==
  ASSUME SInv, NEW t \in Threads, Post(t)
  PROVE  SInv'
<1>1. PICK c, op : c = pc[t].conn /\ op = pc[t].op
  OBVIOUS
<1>2. /\ PostTo(LoopOf(c), op, c) /\ pc[t].step # "none"
      /\ pc' = [pc EXCEPT ![t] = Idle]
      /\ lateSends' = lateSends \cup (IF op = "send" THEN {c} \ connections ELSE {})
      /\ UNCHANGED <<conn, serverVars, baseQ, loopVars, calls, held, revived>>
  BY <1>1 DEF Post
<1>3. /\ c \in Conns /\ op \in {"shutdown", "forceClose", "send"}
      /\ conn[c].state # "kConnecting"
  BY <1>1, <1>2 DEF SInv, Calling, CallOK
<1>4. c \in Accepted /\ c \in Accepted'
  BY <1>2, <1>3, Basics DEF Accepted, serverVars
<1>5. op \in Ops
  BY <1>3 DEF Ops
<1>6. UNCHANGED <<nextConnId, connections, due, expiring, listening, spinning, copy, closing>>
  BY <1>2 DEF loopVars, serverVars
<1>7. /\ Placed' /\ DueType' /\ ioQ' \in [Loops -> Seq(Functors)]
      /\ \A b \in Conns : \A o : Queued(o, b)' <=> Queued(o, b) \/ (o = op /\ b = c)
  BY <1>2, <1>3, <1>4, <1>5, <1>6, PostEffect
<1>8. /\ Dispatching' /\ PhaseType' /\ ListType'
      /\ \A b \in Conns : InHand(b)' <=> InHand(b)
      /\ \A l \in Loops : expiring'[l] = expiring[l]
  BY <1>2, <1>6, LoopsKept DEF loopVars
<1>9. Calling' /\ UserType'
  <2>1. pc \in [Threads -> [op : Ops \cup {"none"}, conn : Conns \cup {0},
                           step : {"none", "tested", "stored"}]]
    BY TypesNow DEF UserType
  <2>2. /\ pc' \in [Threads -> [op : Ops \cup {"none"}, conn : Conns \cup {0},
                               step : {"none", "tested", "stored"}]]
        /\ pc'[t].step = "none" /\ \A u \in Threads : u # t => pc'[u] = pc[u]
    BY <1>2, <2>1 DEF Idle
  <2>3. Calling'
    BY <1>2, <2>2 DEF SInv, Calling, CallOK
  <2> QED
    BY <1>2, <1>3, <2>2, <2>3, TypesNow DEF UserType
<1>10. CoreType' /\ StopType' /\ Sent'
  <2>1. Sent'
    BY <1>2, <1>3, <1>5, <1>6, SentPosted
  <2> QED
    BY <1>2, <1>6, <1>7, <2>1, TypesNow DEF CoreType, StopType
<1>11. \A b \in Conns : Whole(b)'
  <2> SUFFICES ASSUME NEW b \in Conns PROVE Whole(b)'
    OBVIOUS
  <2>1. Queued("destroyed", b)' <=> Queued("destroyed", b)
    BY <1>3, <1>7
  <2> QED
    BY <1>2, <1>6, <1>8, <2>1, WholeKept
<1> QED
  BY <1>7, <1>8, <1>9, <1>10, <1>11, TypeParts DEF SInv

LEMMA NewConnStep == SInv /\ NewConn => SInv'
<1> SUFFICES ASSUME SInv, NewConn PROVE SInv'
  OBVIOUS
<1>1. PICK c : c = nextConnId
  OBVIOUS
<1>2. /\ c \in Conns /\ nextConnId' = nextConnId + 1
      /\ connections' = connections \cup {c} /\ PostTo(LoopOf(c), "established", c)
      /\ UNCHANGED <<conn, listening, spinning, copy, closing, baseQ, loopVars, userVars,
                     revived>>
  BY <1>1 DEF NewConn, Accepts
<1>3. c \notin Accepted /\ Accepted' = Accepted \cup {c}
  BY <1>1, <1>2, Basics DEF Accepted
<1>4. conn[c].state = "kConnecting" /\ conn[c].closes = 0 /\ conn[c].destroys = 0
  BY <1>2, <1>3, Basics DEF SInv, Whole, Owned
<1>5. ASSUME NEW op \in Ops PROVE ~Queued(op, c)
  <2>1. Functor(op, c) \in Functors
    BY <1>2 DEF Functor, Functors
  <2>2. LoopOf(c) \in Loops
    BY <1>2, Basics
  <2> QED
    BY <1>3, <2>1, <2>2, FunctorFields DEF SInv, Placed, FunctorOK, Queued
<1>6. UNCHANGED <<due, expiring>>
  BY <1>2 DEF loopVars
<1>7. /\ Placed' /\ DueType' /\ ioQ' \in [Loops -> Seq(Functors)]
      /\ \A b \in Conns : \A o : Queued(o, b)' <=> Queued(o, b) \/ (o = "established" /\ b = c)
  <2>1. "established" \in Ops
    BY DEF Ops
  <2>2. c \in Accepted' /\ ~Queued("established", c)
    BY <1>3, <1>5, <2>1
  <2> QED
    BY <1>2, <1>4, <1>6, <2>1, <2>2, PostEffect
<1>8. /\ Dispatching' /\ PhaseType' /\ ListType'
      /\ \A b \in Conns : InHand(b)' <=> InHand(b)
      /\ \A l \in Loops : expiring'[l] = expiring[l]
  BY <1>2, LoopsKept DEF loopVars
<1>9. Calling' /\ UserType' /\ StopType' /\ Sent'
  <2>1. "established" \in Ops
    BY DEF Ops
  <2>2. Sent'
    BY <1>2, <2>1, SentPosted DEF userVars
  <2> QED
    BY <1>2, <2>2, CallingKept, TypesNow DEF UserType, StopType, userVars
<1>10. CoreType'
  <2>1. nextConnId' \in 1..(MaxConns + 1)
    BY <1>1, <1>2, TcpServerAssumption DEF Conns
  <2> QED
    BY <1>2, <1>7, <2>1, TypesNow DEF CoreType
<1>11. ASSUME NEW b \in Conns PROVE Whole(b)'
  <2>1. Queued("destroyed", b)' <=> Queued("destroyed", b)
    BY <1>7
  <2>2. Sound(conn[b]) /\ Fresh(conn[b]) /\ Owned(b) /\ Life(b)
    BY DEF SInv, Whole
  <2>3. Life(b)'
    BY <1>2, <1>6, <1>8, <2>2 DEF Life
  <2>4. CASE b # c
    <3>1. /\ (b \in Accepted') <=> (b \in Accepted)
          /\ (b \in connections') <=> (b \in connections)
      BY <1>2, <1>3, <2>4
    <3>2. Owned(b)'
      BY <1>2, <2>1, <2>2, <3>1 DEF Owned
    <3> QED
      BY <1>2, <2>2, <2>3, <3>2 DEF Whole
  <2>5. CASE b = c
    <3>1. ~Queued("destroyed", c)
      BY <1>5 DEF Ops
    <3>2. ~In(baseQ, c)
      BY <1>4, <2>2, <2>5 DEF Owned
    <3>3. c \in connections' /\ c \in Accepted'
      BY <1>2, <1>3
    <3>4. Owned(b)'
      BY <1>2, <1>4, <2>1, <2>5, <3>1, <3>2, <3>3 DEF Owned
    <3> QED
      BY <1>2, <2>2, <2>3, <3>4 DEF Whole
  <2> QED
    BY <2>4, <2>5
<1> QED
  BY <1>7, <1>8, <1>9, <1>10, <1>11, TypeParts DEF SInv

-----------------------------------------------------------------------------
(* removeConnectionInLoop, and the stores of other threads *)

LEMMA RemoveStep == SInv /\ RemoveConnectionInLoop => SInv'
<1> SUFFICES ASSUME SInv, RemoveConnectionInLoop PROVE SInv'
  OBVIOUS
<1>1. PICK c : c = Head(baseQ)
  OBVIOUS
<1>2. /\ baseQ # <<>> /\ baseQ' = Tail(baseQ) /\ connections' = connections \ {c}
      /\ IF c \in connections THEN PostTo(LoopOf(c), "destroyed", c) ELSE UNCHANGED ioQ
      /\ UNCHANGED <<conn, nextConnId, listening, spinning, copy, closing, loopVars,
                     userVars, revived>>
  BY <1>1 DEF RemoveConnectionInLoop, Erased
<1>3. baseQ \in Seq(Conns)
  BY TypesNow DEF CoreType
<1>4. /\ c \in Conns /\ In(baseQ, c) /\ baseQ' \in Seq(Conns)
      /\ \A b : In(baseQ', b) => In(baseQ, b)
      /\ \A b : b # c /\ In(baseQ, b) => In(baseQ', b)
  BY <1>1, <1>2, <1>3, TailIn
<1>5. conn[c].closes > 0 /\ conn[c].state # "kConnecting" /\ c \in Accepted
  BY <1>4, Basics DEF SInv, Whole, Owned
<1>6. Accepted' = Accepted /\ UNCHANGED <<due, expiring>>
  BY <1>2 DEF Accepted, loopVars
<1>7. /\ Placed' /\ DueType' /\ ioQ' \in [Loops -> Seq(Functors)]
      /\ \A b \in Conns : Queued("destroyed", b)' <=>
           Queued("destroyed", b) \/ (b = c /\ c \in connections)
  <2>1. CASE c \in connections
    <3>1. "destroyed" \in Ops /\ ~Queued("destroyed", c)
      BY <1>4, <2>1 DEF Ops, SInv, Whole, Owned
    <3> QED
      BY <1>2, <1>4, <1>5, <1>6, <2>1, <3>1, PostEffect
  <2>2. CASE c \notin connections
    <3>1. ioQ' = ioQ
      BY <1>2, <2>2
    <3>2. Placed'
      BY <1>2, <3>1, PlacedKept DEF SameFresh
    <3> QED
      BY <1>6, <2>2, <3>1, <3>2, TypesNow DEF DueType, CoreType, Queued
  <2> QED
    BY <2>1, <2>2
<1>8. /\ Dispatching' /\ PhaseType' /\ ListType'
      /\ \A b \in Conns : InHand(b)' <=> InHand(b)
      /\ \A l \in Loops : expiring'[l] = expiring[l]
  BY <1>2, LoopsKept DEF loopVars
<1>9. Calling' /\ UserType' /\ StopType' /\ Sent'
  <2>1. CASE c \in connections
    <3>1. "destroyed" \in Ops
      BY DEF Ops
    <3> QED
      BY <1>2, <1>4, <2>1, <3>1, SentPosted, CallingKept, TypesNow
         DEF UserType, StopType, userVars
  <2>2. CASE c \notin connections
    <3>1. connections' = connections
      BY <1>2, <2>2
    <3> QED
      BY <1>2, <2>2, <3>1, SentKept, CallingKept, TypesNow DEF UserType, StopType, userVars
  <2> QED
    BY <2>1, <2>2
<1>10. CoreType'
  BY <1>2, <1>4, <1>7, TypesNow DEF CoreType
<1>11. ASSUME NEW b \in Conns PROVE Whole(b)'
  <2>1. CASE b # c
    <3>1. Sound(conn[b]) /\ Fresh(conn[b]) /\ Owned(b) /\ Life(b)
      BY DEF SInv, Whole
    <3>2. /\ (b \in connections') <=> (b \in connections)
          /\ In(baseQ', b) <=> In(baseQ, b)
          /\ Queued("destroyed", b)' <=> Queued("destroyed", b)
      BY <1>2, <1>4, <1>7, <2>1
    <3>3. Owned(b)'
      BY <1>2, <1>6, <3>1, <3>2 DEF Owned
    <3>4. Life(b)'
      BY <1>2, <1>6, <1>8, <3>1 DEF Life
    <3> QED
      BY <1>2, <3>1, <3>3, <3>4 DEF Whole
  <2>2. CASE b = c
    <3>1. Sound(conn[c]) /\ Fresh(conn[c]) /\ Owned(c) /\ Life(c)
      BY <1>4 DEF SInv, Whole
    <3>2. c \notin connections'
      BY <1>2
    <3>3. conn[c].destroys = IF Queued("destroyed", c)' THEN 0 ELSE 1
      BY <1>4, <1>5, <1>7, <3>1 DEF Owned
    <3>4. Owned(c)'
      BY <1>2, <1>5, <1>6, <3>2, <3>3 DEF Owned
    <3>5. Life(c)'
      BY <1>2, <1>4, <1>6, <1>8, <3>1 DEF Life
    <3> QED
      BY <1>2, <2>2, <3>1, <3>4, <3>5 DEF Whole
  <2> QED
    BY <2>1, <2>2
<1> QED
  BY <1>7, <1>8, <1>9, <1>10, <1>11, TypeParts DEF SInv

LEMMA StoreStep ==
  ASSUME SInv, NEW t \in Threads, Store(t)
  PROVE  SInv'
<1>1. PICK c : c = pc[t].conn
  OBVIOUS
<1>2. /\ conn' = [conn EXCEPT ![c].state = "kDisConnecting"]
      /\ revived' = revived \cup (IF conn[c].state = "kDisConnected" THEN {c} ELSE {})
      /\ pc[t].step # "none" /\ pc' = [pc EXCEPT ![t].step = "stored"]
      /\ UNCHANGED <<serverVars, baseQ, ioQ, loopVars, calls, held, lateSends>>
  BY <1>1 DEF Store
<1>3. /\ c \in Conns /\ conn[c].state # "kConnecting"
  BY <1>1, <1>2 DEF SInv, Calling, CallOK
<1>4. PICK d : d = [conn[c] EXCEPT !.state = "kDisConnecting"]
  OBVIOUS
<1>5. /\ Sound(conn[c]) /\ conn[c] \in Connection
  BY <1>3, Basics
<1>6. conn' = [conn EXCEPT ![c] = d] /\ conn \in [Conns -> Connection]
  BY <1>2, <1>4, TypesNow DEF CoreType
<1>7. conn'[c] = d /\ \A b \in Conns : b # c => conn'[b] = conn[b]
  BY <1>3, <1>6
<1>8. d \in Connection
  BY <1>4, <1>5 DEF Connection, States
<1>9. /\ d.events = conn[c].events /\ d.index = conn[c].index /\ d.added = conn[c].added
      /\ d.idle = conn[c].idle /\ d.closes = conn[c].closes
      /\ d.destroys = conn[c].destroys /\ d.state = "kDisConnecting"
      /\ d.unsent = conn[c].unsent /\ d.shut = conn[c].shut
  BY <1>4, <1>5 DEF Connection
<1>10. Sound(d) /\ Open(d) /\ ~Closed(d) /\ Fresh(d)
  BY <1>5, <1>8, <1>9, SameSound DEF Open, Closed, Fresh
<1>11. SameFresh
  BY <1>3, <1>7, <1>9 DEF SameFresh
<1>12. UNCHANGED <<nextConnId, connections, listening, spinning, copy, closing, due, expiring>>
  BY <1>2 DEF serverVars, loopVars
<1>13. Placed'
  BY <1>2, <1>11, <1>12, PlacedKept
<1>14. /\ Dispatching' /\ PhaseType' /\ ListType'
       /\ \A b \in Conns : InHand(b)' <=> InHand(b)
       /\ \A l \in Loops : expiring'[l] = expiring[l]
  BY <1>2, <1>11, <1>12, LoopsKept DEF SameFresh, loopVars
<1>15. Calling' /\ UserType'
  <2>1. pc \in [Threads -> [op : Ops \cup {"none"}, conn : Conns \cup {0},
                           step : {"none", "tested", "stored"}]]
    BY TypesNow DEF UserType
  <2>2. /\ pc' \in [Threads -> [op : Ops \cup {"none"}, conn : Conns \cup {0},
                               step : {"none", "tested", "stored"}]]
        /\ pc'[t].conn = pc[t].conn /\ pc'[t].op = pc[t].op
        /\ \A u \in Threads : u # t => pc'[u] = pc[u]
    BY <1>2, <2>1
  <2>3. Calling'
    <3> SUFFICES ASSUME NEW u \in Threads PROVE CallOK(u)'
      BY DEF Calling
    <3>1. CallOK(u) /\ CallOK(t)
      BY DEF SInv, Calling
    <3> QED
      BY <1>2, <1>11, <2>2, <3>1 DEF CallOK, SameFresh
  <2> QED
    BY <1>2, <2>2, <2>3, TypesNow DEF UserType
<1>16. CoreType' /\ StopType' /\ DueType'
  <2>1. conn' \in [Conns -> Connection] /\ revived' \in SUBSET Conns
    BY <1>2, <1>3, <1>6, <1>8, TypesNow DEF CoreType
  <2> QED
    BY <1>2, <1>12, <2>1, TypesNow DEF CoreType, StopType, DueType
<1>17. ASSUME NEW b \in Conns PROVE Whole(b)'
  <2>1. CASE b # c
    BY <1>2, <1>7, <1>12, <1>14, <2>1, WholeKept DEF Queued
  <2>2. CASE b = c
    <3>1. Owned(c) /\ Life(c) /\ c \in Accepted
      BY <1>3, Basics DEF SInv, Whole
    <3>2. Owned(c)'
      BY <1>2, <1>7, <1>9, <1>12, <3>1 DEF Owned, Accepted, Queued
    <3>3. Life(c)'
      <4> SUFFICES ASSUME c \notin revived'
                   PROVE  /\ Closed(d) <=> d.closes > 0
                          /\ Open(d) =>
                               /\ Watching(d)
                               /\ d.idle = "armed" \/ \E l \in Loops : c \in expiring'[l]
                          /\ d.destroys > 0 => Quiet(d) /\ ~InHand(c)'
        BY <1>7 DEF Life
      <4>1. c \notin revived /\ Open(conn[c]) /\ ~Closed(conn[c])
        BY <1>2, <1>3, Basics DEF Open, Closed
      <4>2. /\ conn[c].closes = 0 /\ Watching(conn[c])
            /\ conn[c].idle = "armed" \/ \E l \in Loops : c \in expiring[l]
        BY <1>3, <3>1, <4>1, Basics DEF Life
      <4>3. conn[c].destroys = 0
        BY <3>1, <4>2 DEF Owned
      <4> QED
        BY <1>9, <1>10, <1>14, <4>2, <4>3 DEF Watching, Registered
    <3> QED
      BY <1>7, <1>10, <2>2, <3>2, <3>3 DEF Whole
  <2> QED
    BY <2>1, <2>2
<1> QED
  BY <1>2, <1>12, <1>13, <1>14, <1>15, <1>16, <1>17, SentKept, TypeParts DEF SInv

-----------------------------------------------------------------------------
(* An IO loop between its callbacks *)

LEMMA CallbackNames ==
  /\ CbSeqs \subseteq Seq(Cbs)
  /\ \A ch \in Connection : Reports(ch) \subseteq CbSeqs
<1>1. ASSUME NEW rev \in SUBSET {"in", "out", "err", "hup"}
      PROVE  Callbacks(rev) \in Seq(Cbs)
  <2>1. PICK a, b, c, d :
          /\ a = IF "err" \in rev THEN <<"error">> ELSE <<>>
          /\ b = IF "in" \in rev THEN <<"read">> ELSE <<>>
          /\ c = IF "hup" \in rev /\ "in" \notin rev THEN <<"error">> ELSE <<>>
          /\ d = IF "out" \in rev THEN <<"write">> ELSE <<>>
    OBVIOUS
  <2>2. /\ <<>> \in Seq(Cbs) /\ <<"error">> \in Seq(Cbs) /\ <<"read">> \in Seq(Cbs)
        /\ <<"write">> \in Seq(Cbs)
    BY DEF Cbs
  <2>3. a \in Seq(Cbs) /\ b \in Seq(Cbs) /\ c \in Seq(Cbs) /\ d \in Seq(Cbs)
    BY <2>1, <2>2, Zenon
  <2>4. Callbacks(rev) = a \o b \o c \o d
    BY <2>1, Zenon DEF Callbacks
  <2> QED
    BY <2>3, <2>4
<1>2. CbSeqs \subseteq Seq(Cbs)
  BY <1>1 DEF CbSeqs
<1>3. ASSUME NEW ch \in Connection
      PROVE  Reports(ch) \subseteq CbSeqs
  <2>1. ch.events \in SUBSET {"in", "out"}
    BY Fields
  <2>2. \A rev \in SUBSET (ch.events \cup {"err", "hup"}) :
          rev \in SUBSET {"in", "out", "err", "hup"}
    BY <2>1
  <2> QED
    BY <2>2, Zenon DEF Reports, CbSeqs
<1> QED
  BY <1>2, <1>3

\* What one loop does between callbacks is no matter of the other loops.
LEMMA LoopStep ==
  ASSUME SInv, NEW l \in Loops,
         UNCHANGED <<conn, serverVars, baseQ, ioQ, userVars, revived, expiring>>,
         DueType', PhaseType', ready' \in [Loops -> SUBSET [conn : Conns, cbs : CbSeqs]],
         CurrentType', LoopOK(l)',
         \A m \in Loops : m # l => ready'[m] = ready[m] /\ current'[m] = current[m]
                                /\ phase'[m] = phase[m],
         \A c \in Conns : Quiet(conn[c]) /\ ~InHand(c) => ~InHand(c)'
  PROVE  SInv'
<1>1. UNCHANGED <<nextConnId, connections, listening, spinning, copy, closing, pc, calls, held, lateSends>>
  BY DEF serverVars, userVars
<1>2. CoreType' /\ StopType' /\ UserType'
  BY <1>1, TypesNow DEF CoreType, StopType, UserType
<1>3. Dispatching'
  <2> SUFFICES ASSUME NEW m \in Loops, m # l PROVE LoopOK(m)'
    BY DEF Dispatching
  <2>1. LoopOK(m)
    BY DEF SInv, Dispatching
  <2> QED
    BY <1>1, <2>1 DEF LoopOK, Mine, Accepted
<1>4. ListType'
  <2>1. ASSUME NEW m \in Loops
        PROVE  (current[m] = Nothing \/ current[m].conn \in Conns)'
    <3>1. LoopOK(m)'
      BY <1>3 DEF Dispatching
    <3>2. current'[m] = Nothing \/ current'[m].conn \in Accepted
      BY <1>1, <3>1 DEF LoopOK, Mine, Accepted
    <3> QED
      BY <3>2, Basics
  <2> QED
    BY <2>1, TypesNow DEF ListType
<1>5. Placed' /\ Calling'
  BY <1>1, PlacedKept, CallingKept DEF SameFresh
<1>6. \A c \in Conns : Whole(c)'
  BY <1>1, WholeKept DEF Queued
<1> QED
  BY <1>1, <1>2, <1>3, <1>4, <1>5, <1>6, SentKept, TypeParts DEF SInv

LEMMA PollStep ==
  ASSUME SInv, NEW l \in Loops, Poll(l)
  PROVE  SInv'
<1>a. PICK S \in SUBSET Watched(l) :
        \E report \in [S -> UNION {Reports(conn[c]) : c \in S}] :
          /\ \A c \in S : report[c] \in Reports(conn[c])
          /\ ready' = [ready EXCEPT ![l] = {[conn |-> c, cbs |-> report[c]] : c \in S}]
  BY Zenon DEF Poll
<1>1. PICK report \in [S -> UNION {Reports(conn[c]) : c \in S}] :
        /\ \A c \in S : report[c] \in Reports(conn[c])
        /\ ready' = [ready EXCEPT ![l] = {[conn |-> c, cbs |-> report[c]] : c \in S}]
  BY <1>a
<1>2. /\ phase[l] = "poll" /\ phase' = [phase EXCEPT ![l] = "dispatch"]
      /\ UNCHANGED <<conn, serverVars, baseQ, ioQ, due, current, expiring, userVars, revived>>
  BY DEF Poll
<1>3. ready \in [Loops -> SUBSET [conn : Conns, cbs : CbSeqs]]
  BY TypesNow DEF ListType
<1>4. /\ ready'[l] = {[conn |-> c, cbs |-> report[c]] : c \in S}
      /\ \A m \in Loops : m # l => ready'[m] = ready[m]
  BY <1>1, <1>3
<1>5. \A c \in S : /\ c \in Conns /\ Mine(l, c) /\ Registered(conn[c])
                   /\ report[c] \in CbSeqs
  BY <1>1, Basics, CallbackNames DEF Watched, Mine
<1>6. PhaseType'
  <2>1. phase' \in [Loops -> {"poll", "dispatch", "functors"}]
    BY <1>2, TypesNow DEF PhaseType
  <2>2. PICK due2 \in BOOLEAN : timersDue' = [timersDue EXCEPT ![l] = due2]
    BY Zenon DEF Poll
  <2>3. timersDue \in [Loops -> BOOLEAN]
    BY TypesNow DEF PhaseType
  <2>4. timersDue' \in [Loops -> BOOLEAN]
    BY <2>2, <2>3, Zenon
  <2> QED
    BY <2>1, <2>4 DEF PhaseType
<1>7. DueType' /\ ready' \in [Loops -> SUBSET [conn : Conns, cbs : CbSeqs]]
  <2>1. {[conn |-> c, cbs |-> report[c]] : c \in S} \in SUBSET [conn : Conns, cbs : CbSeqs]
    BY <1>5
  <2> QED
    BY <1>1, <1>2, <1>3, <2>1, TypesNow DEF DueType
<1>8. nextConnId' = nextConnId
  BY <1>2 DEF serverVars
<1>9. LoopOK(l)'
  <2>1. LoopOK(l)
    BY DEF SInv, Dispatching
  <2>2. \A r \in ready'[l] : Mine(l, r.conn)'
    BY <1>2, <1>4, <1>5, <1>8 DEF Mine, Accepted
  <2>3. phase'[l] = "dispatch"
    BY <1>2, TypesNow DEF PhaseType
  <2> QED
    BY <1>2, <1>8, <2>1, <2>2, <2>3 DEF LoopOK, Mine, Accepted
<1>10. \A m \in Loops : m # l => phase'[m] = phase[m]
  BY <1>2, TypesNow DEF PhaseType
<1>11. ASSUME NEW c \in Conns, Quiet(conn[c]), ~InHand(c)
       PROVE  ~InHand(c)'
  BY <1>2, <1>4, <1>5, <1>11 DEF InHand, Quiet
<1>12. CurrentType'
  BY <1>2 DEF SInv, Dispatching, CurrentType
<1> QED
  BY <1>2, <1>4, <1>6, <1>7, <1>9, <1>10, <1>11, <1>12, LoopStep

LEMMA TakeChannelStep ==
  ASSUME SInv, NEW l \in Loops, TakeChannel(l)
  PROVE  SInv'
<1>1. PICK r \in ready[l] : /\ ready' = [ready EXCEPT ![l] = @ \ {r}]
                           /\ current' = [current EXCEPT ![l] = r]
  BY DEF TakeChannel
<1>2. /\ phase[l] = "dispatch"
      /\ UNCHANGED <<conn, serverVars, baseQ, ioQ, due, phase, timersDue, expiring,
                     userVars, revived>>
  BY DEF TakeChannel, between
<1>3. ready \in [Loops -> SUBSET [conn : Conns, cbs : CbSeqs]]
  BY TypesNow DEF ListType
<1>4. LoopOK(l) /\ current \in [Loops -> [conn : Conns \cup {0}, cbs : Seq(Cbs)]]
  BY DEF SInv, Dispatching, CurrentType
<1>5. r \in [conn : Conns, cbs : CbSeqs]
  BY <1>3
<1>6. r \in [conn : Conns \cup {0}, cbs : Seq(Cbs)]
  BY <1>5, CallbackNames
<1>7. /\ ready'[l] = ready[l] \ {r} /\ current'[l] = r
      /\ \A m \in Loops : m # l => ready'[m] = ready[m] /\ current'[m] = current[m]
      /\ ready' \in [Loops -> SUBSET [conn : Conns, cbs : CbSeqs]]
  BY <1>1, <1>3, <1>4
<1>8. CurrentType'
  BY <1>1, <1>4, <1>6 DEF CurrentType
<1>9. nextConnId' = nextConnId /\ DueType' /\ PhaseType'
  BY <1>2, TypesNow DEF serverVars, DueType, PhaseType
<1>10. LoopOK(l)'
  BY <1>2, <1>4, <1>7, <1>9 DEF LoopOK, Mine, Accepted
<1>11. \A c \in Conns : ~InHand(c) => ~InHand(c)'
  BY <1>2, <1>7 DEF InHand
<1> QED
  BY <1>2, <1>7, <1>8, <1>9, <1>10, <1>11, LoopStep

LEMMA DispatchDoneStep ==
  ASSUME SInv, NEW l \in Loops, DispatchDone(l)
  PROVE  SInv'
<1>1. /\ ready[l] = {} /\ current[l] = Nothing /\ expiring[l] = {}
      /\ phase' = [phase EXCEPT ![l] = "functors"]
      /\ due' = [due EXCEPT ![l] = Len(ioQ[l])]
      /\ UNCHANGED <<conn, serverVars, baseQ, ioQ, ready, timersDue, current,
                     expiring, userVars, revived>>
  BY DEF DispatchDone, between
<1>2. DueType'
  <2>1. Len(ioQ[l]) \in Nat
    BY TypesNow DEF CoreType
  <2> QED
    BY <1>1, <2>1, TypesNow DEF DueType
<1>3. PhaseType' /\ \A m \in Loops : m # l => phase'[m] = phase[m]
  BY <1>1, TypesNow DEF PhaseType
<1>4. CurrentType' /\ ready' \in [Loops -> SUBSET [conn : Conns, cbs : CbSeqs]]
  BY <1>1, TypesNow DEF SInv, Dispatching, CurrentType, ListType
<1>5. LoopOK(l)'
  BY <1>1 DEF LoopOK
<1>6. \A c \in Conns : ~InHand(c) => ~InHand(c)'
  BY <1>1 DEF InHand
<1> QED
  BY <1>1, <1>2, <1>3, <1>4, <1>5, <1>6, LoopStep

LEMMA FunctorsDoneStep ==
  ASSUME SInv, NEW l \in Loops, FunctorsDone(l)
  PROVE  SInv'
<1>1. /\ phase[l] = "functors" /\ phase' = [phase EXCEPT ![l] = "poll"]
      /\ UNCHANGED <<conn, serverVars, baseQ, ioQ, due, ready, timersDue, current,
                     expiring, userVars, revived>>
  BY DEF FunctorsDone
<1>2. DueType'
  BY <1>1, TypesNow DEF DueType
<1>3. PhaseType' /\ \A m \in Loops : m # l => phase'[m] = phase[m]
  BY <1>1, TypesNow DEF PhaseType
<1>4. CurrentType' /\ ready' \in [Loops -> SUBSET [conn : Conns, cbs : CbSeqs]]
  BY <1>1, TypesNow DEF SInv, Dispatching, CurrentType, ListType
<1>5. LoopOK(l)'
  <2>1. LoopOK(l)
    BY DEF SInv, Dispatching
  <2> QED
    BY <1>1, <2>1 DEF LoopOK
<1>6. \A c \in Conns : ~InHand(c) => ~InHand(c)'
  BY <1>1 DEF InHand
<1> QED
  BY <1>1, <1>2, <1>3, <1>4, <1>5, <1>6, LoopStep

-----------------------------------------------------------------------------
(* Callbacks of the poller and of the timers *)

LEMMA RunHandlerStep ==
  ASSUME SInv, NEW l \in Loops, RunHandler(l)
  PROVE  SInv'
<1>1. PICK c, cb, rest : /\ c = current[l].conn /\ cb = Head(current[l].cbs)
                         /\ rest = Tail(current[l].cbs)
  OBVIOUS
<1>2. PICK d \in Handle(cb, conn[c]) : Becomes(c, d)
  BY <1>1 DEF RunHandler
<1>3. /\ current[l].cbs # <<>>
      /\ current' = [current EXCEPT ![l] =
                       IF rest = <<>> THEN Nothing ELSE [@ EXCEPT !.cbs = rest]]
      /\ UNCHANGED <<serverVars, ioQ, due, phase, ready, timersDue, expiring,
                     userVars, revived>>
  BY <1>1 DEF RunHandler
<1>4. /\ LoopOK(l) /\ current \in [Loops -> [conn : Conns \cup {0}, cbs : Seq(Cbs)]]
      /\ \A m \in Loops : LoopOK(m)
  BY DEF SInv, Dispatching, CurrentType
<1>5. /\ current[l] # Nothing /\ Mine(l, c)
  BY <1>1, <1>3, <1>4 DEF LoopOK, Nothing
<1>6. /\ c \in Conns /\ conn[c].state # "kConnecting" /\ InHand(c)
  BY <1>1, <1>5, Basics DEF Mine, InHand
<1>7. cb \in {"error", "read", "write"} /\ rest \in Seq(Cbs)
  <2>1. current[l].cbs \in Seq(Cbs)
    BY <1>4
  <2> QED
    BY <1>1, <1>3, <2>1 DEF Cbs
<1>8. Effect(conn[c], d)
  BY <1>2, <1>6, <1>7, Basics, HandleEffect
<1>9. /\ current'[l] = Nothing \/ current'[l].conn = c
      /\ \A m \in Loops : m # l => current'[m] = current[m]
      /\ CurrentType'
  <2>1. PICK e : e = [current[l] EXCEPT !.cbs = rest]
    OBVIOUS
  <2>2. e \in [conn : Conns \cup {0}, cbs : Seq(Cbs)] /\ e.conn = c
    BY <1>1, <1>4, <1>7, <2>1
  <2>3. Nothing \in [conn : Conns \cup {0}, cbs : Seq(Cbs)]
    BY DEF Nothing
  <2>4. PICK f \in [conn : Conns \cup {0}, cbs : Seq(Cbs)] :
          current' = [current EXCEPT ![l] = f] /\ (f = Nothing \/ f.conn = c)
    BY <1>3, <2>1, <2>2, <2>3
  <2> QED
    BY <1>4, <2>4 DEF CurrentType
<1>10. UNCHANGED <<nextConnId, connections, listening, spinning, copy, closing, pc, calls, held, lateSends>>
  BY <1>3 DEF serverVars, userVars
<1>11. \A b \in Conns : InHand(b)' => InHand(b)
  <2>1. Nothing.conn = 0 /\ 0 \notin Conns
    BY DEF Nothing, Conns
  <2> QED
    BY <1>1, <1>3, <1>9, <2>1 DEF InHand
<1>12. (\A b \in Conns : Whole(b)') /\ SameFresh
  BY <1>2, <1>3, <1>6, <1>8, <1>10, <1>11, AdvanceWhole DEF Queued
<1>13. CoreType'
  BY <1>2, <1>3, <1>6, <1>8, <1>10, TypesNow DEF CoreType, Becomes, Effect, Sound
<1>14. StopType' /\ UserType' /\ DueType' /\ PhaseType'
  BY <1>3, <1>10, TypesNow DEF StopType, UserType, DueType, PhaseType
<1>15. Placed' /\ Calling'
  BY <1>3, <1>10, <1>12, PlacedKept, CallingKept DEF SameFresh
<1>16. Dispatching'
  <2> SUFFICES ASSUME NEW m \in Loops PROVE LoopOK(m)'
    BY <1>9 DEF Dispatching
  <2>1. \A b : Mine(m, b) => Mine(m, b)'
    BY <1>10, <1>12, MineKept DEF SameFresh
  <2>2. \A b : Mine(l, b) => Mine(l, b)'
    BY <1>10, <1>12, MineKept DEF SameFresh
  <2>3. CASE m # l
    BY <1>3, <1>4, <1>9, <2>1, <2>3 DEF LoopOK
  <2>4. CASE m = l
    BY <1>3, <1>4, <1>5, <1>9, <2>2, <2>4 DEF LoopOK
  <2> QED
    BY <2>3, <2>4
<1>17. ListType'
  <2>1. \A m \in Loops : (current[m] = Nothing \/ current[m].conn \in Conns)'
    BY <1>6, <1>9, TypesNow DEF ListType
  <2> QED
    BY <1>3, <2>1, TypesNow DEF ListType
<1> QED
  BY <1>3, <1>10, <1>12, <1>13, <1>14, <1>15, <1>16, <1>17, SentKept, TypeParts DEF SInv

LEMMA OnIdleTimeoutStep ==
  ASSUME SInv, NEW l \in Loops, OnIdleTimeout(l)
  PROVE  SInv'
<1>1. PICK c \in expiring[l] : /\ expiring' = [expiring EXCEPT ![l] = @ \ {c}]
                              /\ Becomes(c, ForceCloseInLoop(conn[c]))
  BY DEF OnIdleTimeout
<1>2. UNCHANGED <<serverVars, ioQ, due, phase, ready, timersDue, current, userVars, revived>>
  BY DEF OnIdleTimeout
<1>3. PICK d : d = ForceCloseInLoop(conn[c])
  OBVIOUS
<1>4. \A m \in Loops : LoopOK(m)
  BY DEF SInv, Dispatching
<1>5. /\ c \in Conns /\ conn[c].state # "kConnecting" /\ InHand(c)
  BY <1>1, <1>4, Basics DEF LoopOK, Mine, InHand
<1>6. Effect(conn[c], d) /\ Closed(d)
  BY <1>3, <1>5, Basics, ForceCloseInLoopEffect
<1>7. expiring \in [Loops -> SUBSET Conns]
  BY TypesNow DEF ListType
<1>8. /\ \A m \in Loops : expiring'[m] \subseteq expiring[m]
      /\ \A b \in Conns, m \in Loops : b \in expiring[m] => b \in expiring'[m] \/ b = c
      /\ expiring' \in [Loops -> SUBSET Conns]
  BY <1>1, <1>7
<1>9. UNCHANGED <<nextConnId, connections, listening, spinning, copy, closing, pc, calls, held, lateSends>>
  BY <1>2 DEF serverVars, userVars
<1>10. \A b \in Conns : InHand(b)' => InHand(b)
  BY <1>2, <1>8 DEF InHand
<1>11. (\A b \in Conns : Whole(b)') /\ SameFresh
  BY <1>1, <1>2, <1>3, <1>5, <1>6, <1>8, <1>9, <1>10, AdvanceWhole DEF Queued
<1>12. CoreType'
  BY <1>1, <1>2, <1>3, <1>5, <1>6, <1>9, TypesNow DEF CoreType, Becomes, Effect, Sound
<1>13. StopType' /\ UserType' /\ DueType' /\ PhaseType' /\ ListType'
  BY <1>2, <1>8, <1>9, TypesNow DEF StopType, UserType, DueType, PhaseType, ListType
<1>14. Placed' /\ Calling'
  BY <1>2, <1>9, <1>11, PlacedKept, CallingKept DEF SameFresh
<1>15. Dispatching'
  <2>1. CurrentType'
    BY <1>2 DEF SInv, Dispatching, CurrentType
  <2> SUFFICES ASSUME NEW m \in Loops PROVE LoopOK(m)'
    BY <2>1 DEF Dispatching
  <2>2. \A b : Mine(m, b) => Mine(m, b)'
    BY <1>9, <1>11, MineKept DEF SameFresh
  <2>3. LoopOK(m) /\ expiring'[m] \subseteq expiring[m]
    BY <1>4, <1>8
  <2> QED
    BY <1>2, <2>2, <2>3 DEF LoopOK
<1> QED
  BY <1>2, <1>9, <1>11, <1>12, <1>13, <1>14, <1>15, SentKept, TypeParts DEF SInv

LEMMA ExpireTimersStep ==
  ASSUME SInv, NEW l \in Loops, ExpireTimers(l)
  PROVE  SInv'
<1>1. PICK S \in SUBSET IdleTimers(l) :
        /\ expiring' = [expiring EXCEPT ![l] = S]
        /\ conn' = [c \in Conns |-> IF c \in S THEN [conn[c] EXCEPT !.idle = "fired"]
                                    ELSE conn[c]]
  BY DEF ExpireTimers
<1>2. /\ phase[l] = "dispatch" /\ expiring[l] = {}
      /\ timersDue' = [timersDue EXCEPT ![l] = FALSE]
      /\ UNCHANGED <<serverVars, baseQ, ioQ, due, phase, ready, current, userVars, revived>>
  BY DEF ExpireTimers, between
<1>3. \A m \in Loops : LoopOK(m)
  BY DEF SInv, Dispatching
<1>4. \A c \in S : /\ c \in Conns /\ c \in Accepted /\ LoopOf(c) = l
                   /\ conn[c].idle = "armed" /\ conn[c].state # "kConnecting"
  BY Basics DEF IdleTimers
<1>5. ASSUME NEW c \in Conns
      PROVE  /\ Sound(conn'[c]) /\ conn'[c].state = conn[c].state
             /\ conn'[c].events = conn[c].events /\ conn'[c].index = conn[c].index
             /\ conn'[c].closes = conn[c].closes /\ conn'[c].destroys = conn[c].destroys
             /\ c \notin S => conn'[c] = conn[c]
             /\ c \in S => conn'[c].idle = "fired"
  <2>1. Sound(conn[c]) /\ conn[c] \in Connection
    BY Basics
  <2>2. CASE c \notin S
    BY <1>1, <2>1, <2>2
  <2>3. CASE c \in S
    <3>1. PICK d : d = [conn[c] EXCEPT !.idle = "fired"]
      OBVIOUS
    <3>2. /\ d \in Connection /\ d.state = conn[c].state /\ d.added = conn[c].added
          /\ d.events = conn[c].events /\ d.index = conn[c].index
          /\ d.closes = conn[c].closes /\ d.destroys = conn[c].destroys /\ d.idle = "fired"
          /\ d.unsent = conn[c].unsent /\ d.shut = conn[c].shut
      BY <2>1, <3>1 DEF Connection
    <3>3. Sound(d)
      BY <2>1, <3>2, SameSound
    <3>4. conn'[c] = d
      BY <1>1, <2>3, <3>1
    <3> QED
      BY <2>3, <3>2, <3>3, <3>4
  <2> QED
    BY <2>2, <2>3
<1>6. SameFresh
  BY <1>5 DEF SameFresh
<1>7. expiring \in [Loops -> SUBSET Conns]
  BY TypesNow DEF ListType
<1>8. /\ expiring'[l] = S /\ \A m \in Loops : m # l => expiring'[m] = expiring[m]
      /\ expiring' \in [Loops -> SUBSET Conns]
      /\ \A m \in Loops : expiring[m] \subseteq expiring'[m]
  BY <1>1, <1>2, <1>4, <1>7
<1>9. UNCHANGED <<nextConnId, connections, listening, spinning, copy, closing, pc, calls, held, lateSends>>
  BY <1>2 DEF serverVars, userVars
<1>10. CoreType'
  <2>1. conn' \in [Conns -> Connection]
    BY <1>1, <1>5 DEF Sound
  <2> QED
    BY <1>2, <1>9, <2>1, TypesNow DEF CoreType
<1>11. StopType' /\ UserType' /\ DueType' /\ ListType'
  BY <1>2, <1>8, <1>9, TypesNow DEF StopType, UserType, DueType, ListType
<1>12. PhaseType'
  <2>1. timersDue \in [Loops -> BOOLEAN]
    BY TypesNow DEF PhaseType
  <2>2. timersDue' \in [Loops -> BOOLEAN]
    BY <1>2, <2>1, Zenon
  <2> QED
    BY <1>2, <2>2, TypesNow DEF PhaseType
<1>13. Placed' /\ Calling'
  BY <1>2, <1>6, <1>9, PlacedKept, CallingKept DEF SameFresh
<1>14. Dispatching'
  <2>1. CurrentType'
    BY <1>2 DEF SInv, Dispatching, CurrentType
  <2> SUFFICES ASSUME NEW m \in Loops PROVE LoopOK(m)'
    BY <2>1 DEF Dispatching
  <2>2. \A b : Mine(m, b) => Mine(m, b)'
    BY <1>6, <1>9, MineKept DEF SameFresh
  <2>3. CASE m # l
    BY <1>2, <1>3, <1>8, <2>2, <2>3 DEF LoopOK
  <2>4. CASE m = l
    <3>1. \A c \in S : Mine(l, c)
      BY <1>4 DEF Mine
    <3> QED
      BY <1>2, <1>3, <1>8, <2>2, <2>4, <3>1 DEF LoopOK
  <2> QED
    BY <2>3, <2>4
<1>15. ASSUME NEW c \in Conns PROVE Whole(c)'
  <2>1. Fresh(conn[c]) /\ Owned(c) /\ Life(c)
    BY DEF SInv, Whole
  <2>2. Owned(c)'
    BY <1>2, <1>5, <1>9, <2>1 DEF Owned, Accepted, Queued
  <2>3. Fresh(conn'[c])
    BY <1>4, <1>5, <2>1 DEF Fresh
  <2>4. Life(c)'
    <3> SUFFICES ASSUME c \notin revived
                 PROVE  /\ Closed(conn'[c]) <=> conn'[c].closes > 0
                        /\ Open(conn'[c]) =>
                             /\ Watching(conn'[c])
                             /\ \/ conn'[c].idle = "armed"
                                \/ \E m \in Loops : c \in expiring'[m]
                        /\ conn'[c].destroys > 0 => Quiet(conn'[c]) /\ ~InHand(c)'
      BY <1>2 DEF Life
    <3>1. (Closed(conn'[c]) <=> Closed(conn[c])) /\ (Open(conn'[c]) <=> Open(conn[c]))
      BY <1>5 DEF Open, Closed
    <3>2. (Watching(conn'[c]) <=> Watching(conn[c]))
          /\ (Registered(conn'[c]) <=> Registered(conn[c]))
      BY <1>5 DEF Watching, Registered
    <3>3. \/ conn'[c].idle = conn[c].idle /\ c \notin S
          \/ c \in expiring'[l] /\ conn'[c].idle # "armed" /\ conn[c].idle = "armed"
      BY <1>4, <1>5, <1>8
    <3>4. c \notin S /\ ~InHand(c) => ~InHand(c)'
      BY <1>2, <1>8 DEF InHand
    <3> QED
      BY <1>5, <1>8, <2>1, <3>1, <3>2, <3>3, <3>4 DEF Life, Quiet
  <2> QED
    BY <1>5, <2>2, <2>3, <2>4 DEF Whole
<1> QED
  BY <1>2, <1>9, <1>10, <1>11, <1>12, <1>13, <1>14, <1>15, SentKept, TypeParts DEF SInv

-----------------------------------------------------------------------------
(* Functors *)

LEMMA FunctorEffect ==
  ASSUME NEW k, Sound(k), Open(k) \/ Closed(k),
         NEW op \in {"shutdown", "forceClose", "send"}, NEW d \in Run(op, k)
  PROVE  Effect(k, d) /\ (Closed(k) /\ Quiet(k) => Quiet(d))
<1>1. CASE op = "shutdown"
  <2>1. d = ShutdownInLoop(k)
    BY <1>1 DEF Run
  <2> QED
    BY <2>1, ShutdownInLoopEffect
<1>2. CASE op = "forceClose"
  <2>1. d = ForceCloseInLoop(k)
    BY <1>2 DEF Run
  <2> QED
    BY <2>1, ForceCloseInLoopEffect
<1>3. CASE op = "send"
  <2>1. d \in SendInLoop(k)
    BY <1>3 DEF Run
  <2> QED
    BY <2>1, SendInLoopEffect
<1> QED
  BY <1>1, <1>2, <1>3

\* What RunFunctor does to the queue and to who may be freshly accepted.
LEMMA TailPlaced ==
  ASSUME SInv, NEW l \in Loops, ioQ[l] # <<>>, NEW f, f = Head(ioQ[l]),
         ioQ' = [ioQ EXCEPT ![l] = Tail(@)], nextConnId' = nextConnId,
         \A b \in Conns : b # f.conn => conn'[b] = conn[b],
         conn'[f.conn].state # "kConnecting"
  PROVE  /\ Placed' /\ ioQ' \in [Loops -> Seq(Functors)]
         /\ f \in Functors /\ In(ioQ[l], f) /\ Len(ioQ'[l]) = Len(ioQ[l]) - 1
         /\ \A m \in Loops : m # l => ioQ'[m] = ioQ[m]
         /\ \A g : In(ioQ'[l], g) => In(ioQ[l], g)
         /\ \A g : g # f /\ In(ioQ[l], g) => In(ioQ'[l], g)
         /\ f.op \in {"established", "destroyed"} => ~In(ioQ'[l], f)
<1>1. ioQ \in [Loops -> Seq(Functors)]
  BY TypesNow DEF CoreType
<1>2. ioQ'[l] = Tail(ioQ[l]) /\ \A m \in Loops : m # l => ioQ'[m] = ioQ[m]
  BY <1>1
<1>3. ioQ[l] \in Seq(Functors)
  BY <1>1
<1>4. /\ f \in Functors /\ In(ioQ[l], f) /\ ioQ'[l] \in Seq(Functors)
      /\ Len(ioQ'[l]) = Len(ioQ[l]) - 1
      /\ \A g : In(ioQ'[l], g) => In(ioQ[l], g)
      /\ \A g : g # f /\ In(ioQ[l], g) => In(ioQ'[l], g)
      /\ \A g : Once(ioQ[l], g) => Once(ioQ'[l], g)
      /\ Once(ioQ[l], f) => ~In(ioQ'[l], f)
  <2>1. PICK q : q = ioQ[l]
    OBVIOUS
  <2>2. q \in Seq(Functors) /\ q # <<>> /\ f = Head(q) /\ ioQ'[l] = Tail(q)
    BY <1>2, <1>3, <2>1
  <2>3. /\ f \in Functors /\ In(q, f) /\ Tail(q) \in Seq(Functors)
        /\ Len(Tail(q)) = Len(q) - 1
        /\ \A g : In(Tail(q), g) => In(q, g)
        /\ \A g : g # f /\ In(q, g) => In(Tail(q), g)
        /\ \A g : Once(q, g) => Once(Tail(q), g)
        /\ Once(q, f) => ~In(Tail(q), f)
    BY <2>2, TailIn
  <2> QED
    BY <2>1, <2>2, <2>3, Zenon
<1>5. FunctorOK(l, ioQ[l], f)
  BY <1>4 DEF SInv, Placed
<1>6. f.op \in {"established", "destroyed"} => ~In(ioQ'[l], f)
  BY <1>4, <1>5 DEF FunctorOK
<1>7. Placed'
  <2> SUFFICES ASSUME NEW m \in Loops, NEW g \in Functors, In(ioQ'[m], g)
               PROVE  FunctorOK(m, ioQ[m], g)'
    BY DEF Placed
  <2>1. In(ioQ[m], g)
    BY <1>2, <1>4
  <2>2. FunctorOK(m, ioQ[m], g)
    BY <2>1 DEF SInv, Placed
  <2>3. Once(ioQ[m], g) => Once(ioQ'[m], g)
    BY <1>2, <1>4
  <2>4. CASE g.conn # f.conn
    <3>1. g.conn \in Conns
      BY DEF Functors
    <3> QED
      BY <2>2, <2>3, <2>4, <3>1 DEF FunctorOK, Accepted
  <2>5. CASE g.conn = f.conn
    <3>1. m = l
      BY <1>5, <2>2, <2>5 DEF FunctorOK
    <3>2. g.op # "established"
      <4>1. SUFFICES ASSUME g.op = "established" PROVE FALSE
        OBVIOUS
      <4>2. f.op = "established"
        BY <1>5, <2>2, <2>5, <4>1 DEF FunctorOK
      <4>3. g = f
        BY <1>4, <2>5, <4>1, <4>2 DEF Functors
      <4> QED
        BY <1>6, <3>1, <4>2, <4>3
    <3> QED
      BY <2>2, <2>3, <2>5, <3>2 DEF FunctorOK, Accepted
  <2> QED
    BY <2>4, <2>5
<1>8. ioQ' \in [Loops -> Seq(Functors)]
  BY <1>1, <1>4
<1> QED
  BY <1>2, <1>4, <1>6, <1>7, <1>8

LEMMA RunFunctorStep ==
  ASSUME SInv, NEW l \in Loops, RunFunctor(l)
  PROVE  SInv'
<1>1. PICK f : f = Head(ioQ[l])
  OBVIOUS
<1>2. PICK c : c = f.conn
  OBVIOUS
<1>3. PICK d \in Run(f.op, conn[c]) : Becomes(c, d)
  BY <1>1, <1>2 DEF RunFunctor
<1>4. /\ phase[l] = "functors" /\ due[l] > 0
      /\ ioQ' = [ioQ EXCEPT ![l] = Tail(@)] /\ due' = [due EXCEPT ![l] = @ - 1]
      /\ UNCHANGED <<serverVars, phase, ready, timersDue, current, expiring, pc, calls,
                     revived, lateSends>>
  BY DEF RunFunctor
<1>5. ioQ \in [Loops -> Seq(Functors)] /\ conn \in [Conns -> Connection]
  BY TypesNow DEF CoreType
<1>6. ioQ[l] # <<>> /\ ioQ[l] \in Seq(Functors)
  <2>1. due[l] <= Len(ioQ[l]) /\ due[l] \in Nat
    BY TypesNow DEF DueType
  <2> QED
    BY <1>4, <1>5, <2>1
<1>7. f \in Functors /\ In(ioQ[l], f)
  BY <1>1, <1>6, TailIn
<1>8. c \in Conns /\ f.op \in Ops /\ f = Functor(f.op, c)
  BY <1>2, <1>7 DEF Functors, Functor
<1>9. /\ c \in Accepted /\ LoopOf(c) = l /\ Queued(f.op, c)
      /\ f.op = "established" <=> conn[c].state = "kConnecting"
  <2>1. FunctorOK(l, ioQ[l], f)
    BY <1>7 DEF SInv, Placed
  <2> QED
    BY <1>2, <1>7, <1>8, <2>1 DEF FunctorOK, Queued
<1>10. Sound(conn[c]) /\ Fresh(conn[c]) /\ Owned(c) /\ Life(c)
  BY <1>8 DEF SInv, Whole
<1>11. UNCHANGED <<nextConnId, connections, listening, spinning, copy, closing>>
  BY <1>4 DEF serverVars
<1>12. ~InHand(c)
  <2>1. \A m \in Loops : LoopOK(m)
    BY DEF SInv, Dispatching
  <2>2. Nothing.conn = 0 /\ c # 0
    BY <1>8 DEF Nothing, Conns
  <2> QED
    BY <1>4, <1>9, <2>1, <2>2 DEF InHand, LoopOK, Mine
<1>13. \A b \in Conns : InHand(b)' => InHand(b)
  BY <1>4 DEF InHand
<1>14. \A b \in Conns : b # c => conn'[b] = conn[b]
  BY <1>3, <1>5, <1>8 DEF Becomes
<1>15. conn'[c] = d /\ baseQ \in Seq(Conns)
  BY <1>3, <1>5, <1>8, TypesNow DEF Becomes, CoreType
<1>16. \A b \in Conns : In(baseQ, b)' <=> In(baseQ, b) \/ (b = c /\ d.closes > conn[c].closes)
  BY <1>3, <1>8, <1>15, AppendIn DEF Becomes

\* the connection afterwards, for each functor
<1>17. Sound(d) /\ (Open(d) \/ Closed(d)) /\ Whole(c)'
       /\ \A b \in Conns : b # c => Whole(b)'
  <2>0. ASSUME conn'[c].state # "kConnecting"
        PROVE  /\ \A b \in Conns : \A o : Functor(o, b) # f => (Queued(o, b)' <=> Queued(o, b))
               /\ f.op \in {"established", "destroyed"} => ~Queued(f.op, c)'
    <3>0. /\ ioQ[l] # <<>> /\ ioQ' = [ioQ EXCEPT ![l] = Tail(@)] /\ nextConnId' = nextConnId
          /\ \A b \in Conns : b # f.conn => conn'[b] = conn[b]
          /\ conn'[f.conn].state # "kConnecting"
      BY <1>2, <1>4, <1>6, <1>11, <1>14, <2>0
    <3>1. /\ \A m \in Loops : m # l => ioQ'[m] = ioQ[m]
          /\ \A g : In(ioQ'[l], g) => In(ioQ[l], g)
          /\ \A g : g # f /\ In(ioQ[l], g) => In(ioQ'[l], g)
          /\ f.op \in {"established", "destroyed"} => ~In(ioQ'[l], f)
      BY <1>1, <3>0, TailPlaced, Zenon
    <3>2. \A b \in Conns : LoopOf(b) \in Loops
      BY Basics
    <3> QED
      BY <1>8, <1>9, <3>1, <3>2 DEF Queued
  <2>1. CASE f.op = "established"
    <3>1. conn[c] = NewConnection
      BY <1>9, <1>10, <2>1 DEF Fresh
    <3>2. PICK k : /\ Sound(k) /\ Open(k) /\ Watching(k) /\ k.idle = "armed"
                   /\ k.closes = 0 /\ k.destroys = 0 /\ Effect(k, d)
      <4>1. d \in ConnectEstablished(NewConnection)
        BY <1>3, <2>1, <3>1 DEF Run
      <4> QED
        BY <4>1, ConnectEstablishedEffect
    <3>3. /\ Sound(d) /\ d.destroys = 0 /\ d.closes \in Nat
          /\ \/ /\ Open(d) /\ ~Closed(d) /\ d.closes = 0 /\ Watching(d) /\ d.idle = "armed"
             \/ Closed(d) /\ ~Open(d) /\ d.closes = 1
      BY <3>2 DEF Effect, GoesOn, IsClosed, StaysClosed, Open, Closed
    <3>4. conn[c].closes = 0 /\ conn[c].destroys = 0
      BY <3>1, NewConnectionSound
    <3>5. c \in connections /\ ~In(baseQ, c) /\ ~Queued("destroyed", c)
      BY <1>9, <1>10, <3>4 DEF Owned
    <3>6. d.state # "kConnecting"
      BY <3>3 DEF Open, Closed
    <3>7. Functor("destroyed", c) # f
      BY <1>8, <2>1, FunctorFields
    <3>8. ~Queued("destroyed", c)'
      BY <1>8, <1>15, <2>0, <3>5, <3>6, <3>7
    <3>9. Owned(c)'
      <4>1. c \in Accepted' /\ c \in connections' /\ (In(baseQ, c)' <=> d.closes > 0)
        BY <1>8, <1>9, <1>11, <1>16, <3>4, <3>5 DEF Accepted
      <4> QED
        BY <1>15, <3>3, <3>8, <4>1 DEF Owned
    <3>10. Life(c)'
      BY <1>15, <3>3 DEF Life
    <3>11. Fresh(d)
      BY <3>6 DEF Fresh
    <3>12. ASSUME NEW b \in Conns, b # c PROVE Whole(b)'
      <4>1. Functor("destroyed", b) # f
        BY <1>8, <3>12, FunctorFields
      <4>2. /\ Queued("destroyed", b)' <=> Queued("destroyed", b)
            /\ In(baseQ, b)' <=> In(baseQ, b)
        BY <1>15, <1>16, <2>0, <3>6, <3>12, <4>1
      <4> QED
        BY <1>4, <1>11, <1>13, <1>14, <3>12, <4>2, WholeKept
    <3> QED
      BY <1>15, <3>3, <3>9, <3>10, <3>11, <3>12 DEF Whole
  <2>2. CASE f.op = "destroyed"
    <3>1. Open(conn[c]) \/ Closed(conn[c])
      BY <1>8, <1>9, <2>2, Basics
    <3>2. d = ConnectDestroyed(conn[c])
      BY <1>3, <2>2 DEF Run
    <3>3. /\ Sound(d) /\ Quiet(d) /\ (Open(d) \/ Closed(d))
          /\ Closed(conn[c]) => Closed(d)
          /\ d.closes = conn[c].closes /\ d.destroys = conn[c].destroys + 1
      BY <1>10, <3>1, <3>2, ConnectDestroyedEffect
    <3>4. /\ c \notin connections /\ conn[c].closes > 0 /\ conn[c].destroys = 0
          /\ conn[c].closes \in Nat
      BY <1>8, <1>9, <1>10, <2>2, Basics DEF Owned
    <3>5. d.state # "kConnecting"
      BY <3>3 DEF Open, Closed
    <3>6. ~Queued("destroyed", c)'
      BY <1>15, <2>0, <2>2, <3>5
    <3>7. Owned(c)'
      <4>1. c \in Accepted' /\ c \notin connections'
        BY <1>9, <1>11, <3>4 DEF Accepted
      <4> QED
        BY <1>15, <3>3, <3>4, <3>6, <4>1 DEF Owned
    <3>8. Life(c)'
      <4>1. c \notin revived => Closed(conn[c])
        BY <1>10, <3>4 DEF Life
      <4>2. ~(Closed(d) /\ Open(d))
        BY DEF Open, Closed
      <4> QED
        BY <1>4, <1>8, <1>12, <1>13, <1>15, <3>3, <3>4, <4>1, <4>2 DEF Life
    <3>9. Fresh(d)
      BY <3>5 DEF Fresh
    <3>10. ASSUME NEW b \in Conns, b # c PROVE Whole(b)'
      <4>1. Functor("destroyed", b) # f
        BY <1>8, <3>10, FunctorFields
      <4>2. /\ Queued("destroyed", b)' <=> Queued("destroyed", b)
            /\ In(baseQ, b)' <=> In(baseQ, b)
        BY <1>15, <1>16, <2>0, <3>5, <3>10, <4>1
      <4> QED
        BY <1>4, <1>11, <1>13, <1>14, <3>10, <4>2, WholeKept
    <3> QED
      BY <1>15, <3>3, <3>7, <3>8, <3>9, <3>10 DEF Whole
  <2>3. CASE f.op \in {"shutdown", "forceClose", "send"}
    <3>1. Open(conn[c]) \/ Closed(conn[c])
      BY <1>8, <1>9, <2>3, Basics
    <3>2. Effect(conn[c], d) /\ (Closed(conn[c]) /\ Quiet(conn[c]) => Quiet(d))
      BY <1>3, <1>10, <2>3, <3>1, FunctorEffect
    <3>3. Sound(d) /\ (Open(d) \/ Closed(d))
      BY <3>2 DEF Effect, GoesOn, IsClosed, StaysClosed
    <3>4. d.state # "kConnecting"
      BY <3>3 DEF Open, Closed
    <3>5. \A b \in Conns : Queued("destroyed", b)' <=> Queued("destroyed", b)
      <4>1. \A b : Functor("destroyed", b) # f
        BY <1>8, <2>3, FunctorFields
      <4> QED
        BY <1>15, <2>0, <3>4, <4>1
    <3>6. \A b \in Conns : Whole(b)'
      BY <1>3, <1>4, <1>8, <1>11, <1>13, <3>2, <3>5, AdvanceWhole
    <3> QED
      BY <1>8, <3>3, <3>6
  <2> QED
    BY <1>8, <2>1, <2>2, <2>3 DEF Ops

<1>18. conn'[c].state # "kConnecting"
  BY <1>15, <1>17 DEF Open, Closed
<1>19. /\ Placed' /\ ioQ' \in [Loops -> Seq(Functors)] /\ Len(ioQ'[l]) = Len(ioQ[l]) - 1
       /\ \A m \in Loops : m # l => ioQ'[m] = ioQ[m]
  BY <1>1, <1>2, <1>4, <1>6, <1>11, <1>14, <1>18, TailPlaced
<1>20. CoreType'
  <2>1. conn' \in [Conns -> Connection]
    BY <1>3, <1>5, <1>8, <1>17 DEF Becomes, Sound
  <2>2. baseQ' \in Seq(Conns)
    BY <1>3, <1>8, <1>15 DEF Becomes
  <2> QED
    BY <1>4, <1>11, <1>19, <2>1, <2>2, TypesNow DEF CoreType
<1>21. DueType'
  <2>1. due \in [Loops -> Nat] /\ \A m \in Loops : due[m] <= Len(ioQ[m])
    BY TypesNow DEF DueType
  <2>2. Len(ioQ[l]) \in Nat
    BY <1>6
  <2> QED
    BY <1>4, <1>19, <2>1, <2>2 DEF DueType
<1>22. UserType' /\ StopType'
  <2>1. PICK S \in SUBSET Users :
          held' = [u \in Users |-> IF u \in S THEN held[u] \cup {c} ELSE held[u]]
    BY <1>1, <1>2 DEF RunFunctor
  <2> QED
    BY <1>4, <1>8, <1>11, <2>1, TypesNow DEF UserType, StopType
<1>23. Dispatching' /\ PhaseType' /\ ListType'
  BY <1>4, <1>11, <1>14, <1>18, LoopsKept
<1>24. Calling'
  BY <1>4, <1>14, <1>18, CallingKept
<1>25. Sent'
  BY <1>4, <1>6, <1>11, SentRun
<1> QED
  BY <1>17, <1>19, <1>20, <1>21, <1>22, <1>23, <1>24, <1>25, TypeParts DEF SInv

-----------------------------------------------------------------------------
(* The theorems *)

LEMMA InitHolds == Init => SInv
<1> SUFFICES ASSUME Init PROVE SInv
  OBVIOUS
<1>1. Accepted = {}
  BY DEF Init, Accepted
<1>2. \A c \in Conns : conn[c] = NewConnection /\ LoopOf(c) \in Loops
  BY TcpServerAssumption DEF Init, Conns, LoopOf, Loops
<1>3. CoreType
  <2>1. NewConnection \in Connection
    BY NewConnectionSound DEF Sound
  <2>2. nextConnId \in 1..(MaxConns + 1)
    BY TcpServerAssumption DEF Init
  <2> QED
    BY <2>1, <2>2 DEF Init, CoreType
<1>4. StopType /\ DueType /\ ListType /\ UserType
  <2>1. StopType
    BY DEF Init, StopType
  <2>2. DueType
    BY DEF Init, DueType
  <2>3. ListType
    BY DEF Init, ListType
  <2>4. UserType
    BY TcpServerAssumption DEF Init, UserType, Idle
  <2> QED
    BY <2>1, <2>2, <2>3, <2>4
<1>5. PhaseType
  BY Zenon DEF Init, PhaseType
<1>6. Placed
  BY DEF Init, Placed, In
<1>7. Dispatching
  <2>1. CurrentType
    BY DEF Init, CurrentType, Nothing
  <2> QED
    BY <2>1 DEF Init, Dispatching, LoopOK
<1>8. Calling
  BY DEF Init, Calling, CallOK, Idle
<1>9. ASSUME NEW c \in Conns PROVE Whole(c)
  <2>1. ~In(baseQ, c) /\ c \notin connections
    BY DEF Init, In
  <2>2. Sound(conn[c]) /\ Fresh(conn[c])
    BY <1>2, NewConnectionSound DEF Fresh
  <2>3. Owned(c)
    BY <1>1, <1>2, <2>1, NewConnectionSound DEF Owned
  <2>4. Life(c)
    BY <1>2, NewConnectionSound DEF Life
  <2> QED
    BY <2>2, <2>3, <2>4 DEF Whole
<1>10. Sent
  BY <1>2 DEF Init, Sent, SendOK, Before
<1> QED
  BY <1>3, <1>4, <1>5, <1>6, <1>7, <1>8, <1>9, <1>10, TypeParts DEF SInv

LEMMA StutterStep == SInv /\ UNCHANGED svars => SInv'
<1> SUFFICES ASSUME SInv, UNCHANGED svars PROVE SInv'
  OBVIOUS
<1>1. UNCHANGED <<conn, connections, nextConnId, baseQ, ioQ, loopVars, revived, lateSends>>
  BY DEF svars, serverVars, userVars
<1>2. StopType' /\ UserType' /\ Calling'
  BY <1>1, TypesNow, CallingKept DEF svars, serverVars, userVars, StopType, UserType
<1> QED
  BY <1>1, <1>2, ThreadStep

LEMMA IoStepHolds == ASSUME SInv, NEW l \in Loops, IoStep(l) PROVE SInv'
BY PollStep, TakeChannelStep, RunHandlerStep, ExpireTimersStep, OnIdleTimeoutStep,
   DispatchDoneStep, RunFunctorStep, FunctorsDoneStep DEF IoStep

LEMMA NextHolds == SInv /\ [Next]_svars => SInv'
<1> SUFFICES ASSUME SInv, [Next]_svars PROVE SInv'
  OBVIOUS
<1>1. CASE BaseStep
  BY <1>1, NewConnStep, AcceptStep, RemoveStep, StopStep, StopReturnsStep, BaseCallsStep
     DEF BaseStep
<1>2. CASE \E u \in Users : UserStep(u)
  BY <1>2, CallStep, ReleaseStep DEF UserStep
<1>3. CASE \E t \in Threads : Store(t) \/ Post(t)
  BY <1>3, StoreStep, PostStep
<1>4. CASE \E l \in Loops : IoStep(l)
  BY <1>4, IoStepHolds
<1>5. CASE UNCHANGED svars
  BY <1>5, StutterStep
<1> QED
  BY <1>1, <1>2, <1>3, <1>4, <1>5 DEF Next

\* The account of every connection holds in every state of the server.
THEOREM AccountIsKept == Spec => []SInv
<1>1. Init => SInv
  BY InitHolds
<1>2. SInv /\ [Next]_svars => SInv'
  BY NextHolds
<1> QED
  BY <1>1, <1>2, PTL DEF Spec

\* connectDestroyed (TcpConnection.cc:117) runs at most once for a connection,
\* however often handleClose called closeCallback_: removeConnectionInLoop
\* (TcpServer.cc:95) posts it only where erase() found the name.
THEOREM CleanupRunsOnce == Spec => []DestroyedOnce
<1>1. SInv => DestroyedOnce
  <2> SUFFICES ASSUME SInv, NEW c \in Conns PROVE conn[c].destroys <= 1
    BY DEF SInv, DestroyedOnce
  <2>1. Owned(c) /\ conn[c].destroys \in Nat
    BY Basics DEF SInv, Whole
  <2>2. CASE c \in Accepted
    BY <2>1, <2>2 DEF Owned
  <2>3. CASE c \notin Accepted
    BY <2>1, <2>3, Basics DEF Owned
  <2> QED
    BY <2>2, <2>3
<1> QED
  BY <1>1, AccountIsKept, PTL

\* A closed connection that is still, or again, in the epoll set or has its idle
\* timer armed has its removal queued in the base loop or its connectDestroyed in
\* its own: nothing has to remember it but those queues.
THEOREM CleanupAlwaysComes == Spec => []CleanupIsComing
<1>1. SInv => CleanupIsComing
  <2> SUFFICES ASSUME SInv, NEW c \in Accepted \ revived, Closed(conn[c]),
                      Registered(conn[c]) \/ conn[c].idle = "armed"
               PROVE  InBaseQ(c) \/ InQueue("destroyed", c)
    BY DEF CleanupIsComing, Closed
  <2>1. c \in Conns
    BY Basics
  <2>2. Owned(c) /\ Life(c)
    BY <2>1 DEF SInv, Whole
  <2>3. conn[c].destroys = 0
    <3>1. ~Quiet(conn[c])
      BY DEF Quiet
    <3>2. ~(conn[c].destroys > 0)
      BY <2>2, <3>1 DEF Life
    <3> QED
      BY <2>1, <3>2, Basics
  <2>4. In(baseQ, c) \/ Queued("destroyed", c)
    BY <2>2, <2>3 DEF Owned, Life
  <2> QED
    BY <2>4 DEF In, Queued, Functor, InBaseQ, InQueue
<1> QED
  BY <1>1, AccountIsKept, PTL

\* Channels and timers hold raw pointers (Channel.h, TcpConnection.cc:71, 597): a
\* connection that no TcpConnectionPtr keeps any more is in no epoll set, has no
\* timer armed, and no loop holds a report or an expired timer of it.  Its loop's
\* queue names it only by a functor of send() (TcpConnection.cc:188) that another
\* thread posted after removeConnectionInLoop had taken the connection out.
THEOREM DestroyedStaysQuiet == Spec => []DestroyedIsQuiet
<1>1. SInv => DestroyedIsQuiet
  <2> SUFFICES ASSUME SInv, NEW c \in Conns, Destroyed(c)
               PROVE  /\ InQueue("send", c) => c \in lateSends
                      /\ c \notin revived =>
                           /\ ~Registered(conn[c]) /\ conn[c].idle # "armed"
                           /\ ~InHand(c) /\ conn[c].state = "kDisConnected"
    BY DEF DestroyedIsQuiet
  <2>1. Owned(c) /\ Life(c)
    BY DEF SInv, Whole
  <2>2. c \in Accepted /\ c \notin connections /\ ~Queued("destroyed", c)
    <3>1. "destroyed" \in Ops \ {"send"}
      BY DEF Ops
    <3> QED
      BY <3>1 DEF Destroyed, Kept, InQueue, Queued, In, Functor
  <2>3. conn[c].closes > 0 /\ conn[c].destroys = 1
    BY <2>1, <2>2 DEF Owned
  <2>4. InQueue("send", c) => c \in lateSends
    <3>1. SendOK(c)
      BY DEF SInv, Sent
    <3> QED
      BY <2>2, <3>1 DEF SendOK, Before, InQueue, Queued, In, Functor
  <2> QED
    BY <2>1, <2>3, <2>4 DEF Life, Quiet, Closed
<1> QED
  BY <1>1, AccountIsKept, PTL

\* An open connection is in the server's map, its channel is watched for input,
\* and its idle timer runs or has just expired, whatever user threads call.
THEOREM OpenStaysWatched == Spec => []OpenIsWatched
<1>1. SInv => OpenIsWatched
  <2> SUFFICES ASSUME SInv, NEW c \in Accepted \ revived, Open(conn[c])
               PROVE  /\ c \in connections
                      /\ Registered(conn[c]) /\ "in" \in conn[c].events
                      /\ conn[c].idle = "armed" \/ \E l \in Loops : c \in expiring[l]
    BY DEF OpenIsWatched, Open
  <2>1. c \in Conns
    BY Basics
  <2>2. Owned(c) /\ Life(c) /\ ~Closed(conn[c])
    BY <2>1, Basics DEF SInv, Whole, Open, Closed
  <2> QED
    BY <2>2 DEF Owned, Life, Watching
<1> QED
  BY <1>1, AccountIsKept, PTL
-----------------------------------------------------------------------------
(* The stages of a connection *)

\* Stage without the queues: in this account they say what the counters say.
Seen(c) ==
  IF c \notin Accepted THEN "none"
  ELSE IF c \in connections
       THEN IF conn[c].closes > 0 THEN "closed"
            ELSE IF conn[c].state = "kConnecting" THEN "accepted" ELSE "open"
       ELSE IF conn[c].destroys = 0 THEN "removed" ELSE "destroyed"
Staged == \A c \in Conns : Stage(c) = Seen(c)

LEMMA StagesSeen == SInv => Staged
<1> SUFFICES ASSUME SInv, NEW c \in Conns PROVE Stage(c) = Seen(c)
  BY DEF Staged
<1>1. Owned(c) /\ conn[c].closes \in Nat
  BY Basics DEF SInv, Whole
<1>2. InQueue("destroyed", c) <=> Queued("destroyed", c)
  BY DEF InQueue, Queued, In, Functor
<1>3. CASE c \notin Accepted
  BY <1>1, <1>3 DEF Stage, Seen, Owned
<1>4. CASE c \in Accepted /\ c \in connections
  <2>1. CASE conn[c].closes > 0
    BY <1>4, <2>1 DEF Stage, Seen
  <2>2. CASE conn[c].closes = 0
    BY <1>4, <2>2 DEF Stage, Seen
  <2> QED
    BY <1>1, <2>1, <2>2
<1>5. CASE c \in Accepted /\ c \notin connections
  BY <1>1, <1>2, <1>5 DEF Stage, Seen, Owned
<1> QED
  BY <1>3, <1>4, <1>5

\* The abstract step, from what a step changes of what is seen
LEMMA OneGoes ==
  ASSUME Staged, Staged', NEW c \in Conns, NEW s, NEW t, Seen(c) = s, Seen(c)' = t,
         \A b \in Conns : b # c => Seen(b)' = Seen(b), listening' = listening
  PROVE  Lives!Goes(c, s, t)
<1> DEFINE now == [b \in Conns |-> Stage(b)]
           next == [b \in Conns |-> Stage(b)']
<1>1. now[c] = s /\ next[c] = t /\ \A b \in Conns : b # c => next[b] = now[b]
  BY DEF Staged
<1>2. next = [now EXCEPT ![c] = t]
  BY <1>1
<1> QED
  BY <1>1, <1>2 DEF Lives!Goes

LEMMA NoneGoes ==
  ASSUME Staged, Staged', \A b \in Conns : Seen(b)' = Seen(b)
  PROVE  [b \in Conns |-> Stage(b)]' = [b \in Conns |-> Stage(b)]
BY DEF Staged

LEMMA SeenKept ==
  ASSUME UNCHANGED <<conn, connections, nextConnId>>
  PROVE  \A b \in Conns : Seen(b)' = Seen(b)
BY DEF Seen, Accepted

Abstract == [Lives!Next]_(Lives!lvars)

\* A function of an established connection closes it or leaves its stage alone.
LEMMA AdvanceGoes ==
  ASSUME SInv, Staged, Staged', NEW c \in Conns, NEW d, conn[c].state # "kConnecting",
         Effect(conn[c], d), Becomes(c, d),
         UNCHANGED <<connections, nextConnId, listening>>
  PROVE  Abstract
<1>1. conn'[c] = d /\ \A b \in Conns : b # c => conn'[b] = conn[b]
  BY TypesNow DEF CoreType, Becomes
<1>2. \A b \in Conns : b # c => Seen(b)' = Seen(b)
  BY <1>1 DEF Seen, Accepted
<1>3. /\ c \in Accepted /\ conn[c].closes \in Nat
      /\ d.state # "kConnecting" /\ d.destroys = conn[c].destroys
      /\ d.closes \in {conn[c].closes, conn[c].closes + 1}
  BY Basics DEF Effect, GoesOn, IsClosed, StaysClosed, Open, Closed
<1>4. Seen(c)' = Seen(c) \/ (Seen(c) = "open" /\ Seen(c)' = "closed")
  BY <1>1, <1>3 DEF Seen, Accepted
<1>5. CASE Seen(c)' = Seen(c)
  <2>1. \A b \in Conns : Seen(b)' = Seen(b)
    BY <1>2, <1>5
  <2> QED
    BY <2>1, NoneGoes DEF Abstract, Lives!lvars
<1>6. CASE Seen(c) = "open" /\ Seen(c)' = "closed"
  <2>1. Lives!Goes(c, "open", "closed")
    BY <1>2, <1>6, OneGoes
  <2> QED
    BY <2>1 DEF Abstract, Lives!Next, Lives!Close
<1> QED
  BY <1>4, <1>5, <1>6

LEMMA NewConnGoes ==
  ASSUME SInv, Staged, Staged', NewConn
  PROVE  Abstract
<1>1. PICK c \in Conns : c = nextConnId
  BY DEF NewConn, Accepts
<1>2. /\ nextConnId' = nextConnId + 1 /\ connections' = connections \cup {c}
      /\ listening /\ UNCHANGED <<conn, listening>>
  BY <1>1 DEF NewConn, Accepts
<1>3. c \notin Accepted /\ c \in Accepted' /\ nextConnId \in Nat \ {0}
      /\ \A b \in Conns : b # c => (b \in Accepted' <=> b \in Accepted)
  BY <1>1, <1>2, Basics DEF Accepted, Conns
<1>4. conn[c].state = "kConnecting" /\ conn[c].closes = 0
  BY <1>3, Basics
<1>5. Seen(c) = "none" /\ Seen(c)' = "accepted"
  BY <1>2, <1>3, <1>4 DEF Seen
<1>6. \A b \in Conns : b # c => Seen(b)' = Seen(b)
  BY <1>2, <1>3 DEF Seen
<1>7. Lives!Goes(c, "none", "accepted")
  BY <1>2, <1>5, <1>6, OneGoes
<1> QED
  BY <1>2, <1>7 DEF Abstract, Lives!Next, Lives!Accept

LEMMA RemoveGoes ==
  ASSUME SInv, Staged, Staged', RemoveConnectionInLoop
  PROVE  Abstract
<1>1. PICK c : c = Head(baseQ)
  OBVIOUS
<1>2. /\ baseQ # <<>> /\ connections' = connections \ {c}
      /\ UNCHANGED <<conn, nextConnId, listening>>
  BY <1>1 DEF RemoveConnectionInLoop
<1>3. c \in Conns /\ In(baseQ, c)
  BY <1>1, <1>2, TailIn, TypesNow DEF CoreType
<1>4. Owned(c)
  BY <1>3 DEF SInv, Whole
<1>5. \A b \in Conns : b # c => Seen(b)' = Seen(b)
  BY <1>2 DEF Seen, Accepted
<1>6. CASE c \in connections
  <2>1. Seen(c) = "closed" /\ Seen(c)' = "removed"
    BY <1>2, <1>3, <1>4, <1>6 DEF Seen, Accepted, Owned
  <2>2. Lives!Goes(c, "closed", "removed")
    BY <1>2, <1>3, <1>5, <2>1, OneGoes
  <2> QED
    BY <1>3, <2>2 DEF Abstract, Lives!Next, Lives!Remove
<1>7. CASE c \notin connections
  <2>1. connections' = connections
    BY <1>2, <1>7
  <2> QED
    BY <1>2, <2>1, SeenKept, NoneGoes DEF Abstract, Lives!lvars
<1> QED
  BY <1>6, <1>7

\* A store may overwrite the state of a closed connection, not its stage.
LEMMA StoreGoes ==
  ASSUME SInv, Staged, Staged', NEW t \in Threads, Store(t)
  PROVE  Abstract
<1>1. PICK c : c = pc[t].conn
  OBVIOUS
<1>2. /\ conn' = [conn EXCEPT ![c].state = "kDisConnecting"] /\ pc[t].step # "none"
      /\ UNCHANGED <<connections, nextConnId, listening>>
  BY <1>1 DEF Store, serverVars
<1>3. c \in Conns /\ conn[c].state # "kConnecting"
  BY <1>1, <1>2 DEF SInv, Calling, CallOK
<1>4. PICK d : d = [conn[c] EXCEPT !.state = "kDisConnecting"]
  OBVIOUS
<1>5. conn \in [Conns -> Connection] /\ conn[c] \in Connection
  BY <1>3, TypesNow DEF CoreType
<1>6. conn'[c] = d /\ \A b \in Conns : b # c => conn'[b] = conn[b]
  BY <1>2, <1>3, <1>4, <1>5
<1>7. d.state = "kDisConnecting" /\ d.closes = conn[c].closes /\ d.destroys = conn[c].destroys
  BY <1>4, <1>5 DEF Connection
<1>8. Seen(c)' = Seen(c)
  BY <1>2, <1>3, <1>6, <1>7 DEF Seen, Accepted
<1>9. \A b \in Conns : Seen(b)' = Seen(b)
  BY <1>2, <1>6, <1>8 DEF Seen, Accepted
<1> QED
  BY <1>2, <1>9, NoneGoes DEF Abstract, Lives!lvars

LEMMA RunHandlerGoes ==
  ASSUME SInv, Staged, Staged', NEW l \in Loops, RunHandler(l)
  PROVE  Abstract
<1>1. PICK c, cb : c = current[l].conn /\ cb = Head(current[l].cbs)
  OBVIOUS
<1>2. PICK d \in Handle(cb, conn[c]) : Becomes(c, d)
  BY <1>1 DEF RunHandler
<1>3. current[l].cbs # <<>> /\ UNCHANGED <<connections, nextConnId, listening>>
  BY DEF RunHandler, serverVars
<1>4. LoopOK(l) /\ current[l] \in [conn : Conns \cup {0}, cbs : Seq(Cbs)]
  BY DEF SInv, Dispatching, CurrentType
<1>5. current[l] # Nothing
  BY <1>3 DEF Nothing
<1>6. c \in Conns /\ conn[c].state # "kConnecting"
  BY <1>1, <1>4, <1>5, Basics DEF LoopOK, Mine
<1>7. cb \in {"error", "read", "write"}
  <2>1. current[l].cbs \in Seq(Cbs)
    BY <1>4
  <2> QED
    BY <1>1, <1>3, <2>1 DEF Cbs
<1>8. Effect(conn[c], d)
  BY <1>2, <1>6, <1>7, Basics, HandleEffect
<1> QED
  BY <1>2, <1>3, <1>6, <1>8, AdvanceGoes

LEMMA OnIdleTimeoutGoes ==
  ASSUME SInv, Staged, Staged', NEW l \in Loops, OnIdleTimeout(l)
  PROVE  Abstract
<1>1. PICK c \in expiring[l] : Becomes(c, ForceCloseInLoop(conn[c]))
  BY DEF OnIdleTimeout
<1>2. UNCHANGED <<connections, nextConnId, listening>>
  BY DEF OnIdleTimeout, serverVars
<1>3. PICK d : d = ForceCloseInLoop(conn[c])
  OBVIOUS
<1>4. LoopOK(l)
  BY DEF SInv, Dispatching
<1>5. c \in Conns /\ conn[c].state # "kConnecting"
  BY <1>1, <1>4, Basics DEF LoopOK, Mine
<1>6. Effect(conn[c], d)
  BY <1>3, <1>5, Basics, ForceCloseInLoopEffect
<1> QED
  BY <1>1, <1>2, <1>3, <1>5, <1>6, AdvanceGoes

LEMMA ExpireTimersGoes ==
  ASSUME SInv, Staged, Staged', NEW l \in Loops, ExpireTimers(l)
  PROVE  Abstract
<1>1. PICK S \in SUBSET IdleTimers(l) :
        conn' = [c \in Conns |-> IF c \in S THEN [conn[c] EXCEPT !.idle = "fired"]
                                 ELSE conn[c]]
  BY DEF ExpireTimers
<1>2. UNCHANGED <<connections, nextConnId, listening>>
  BY DEF ExpireTimers, serverVars
<1>3. ASSUME NEW c \in Conns
      PROVE  /\ conn'[c].state = conn[c].state
             /\ conn'[c].closes = conn[c].closes /\ conn'[c].destroys = conn[c].destroys
  <2>1. PICK k \in Connection : k = conn[c]
    BY TypesNow DEF CoreType
  <2>2. PICK d : d = [k EXCEPT !.idle = "fired"]
    OBVIOUS
  <2>3. d.state = k.state /\ d.closes = k.closes /\ d.destroys = k.destroys
    BY <2>1, <2>2 DEF Connection
  <2> QED
    BY <1>1, <2>1, <2>2, <2>3
<1>4. \A b \in Conns : Seen(b)' = Seen(b)
  BY <1>2, <1>3 DEF Seen, Accepted
<1> QED
  BY <1>2, <1>4, NoneGoes DEF Abstract, Lives!lvars

LEMMA RunFunctorGoes ==
  ASSUME SInv, Staged, Staged', NEW l \in Loops, RunFunctor(l)
  PROVE  Abstract
<1>1. PICK f, c : f = Head(ioQ[l]) /\ c = f.conn
  OBVIOUS
<1>2. PICK d \in Run(f.op, conn[c]) : Becomes(c, d)
  BY <1>1 DEF RunFunctor
<1>3. due[l] > 0 /\ UNCHANGED <<connections, nextConnId, listening>>
  BY DEF RunFunctor, serverVars
<1>4. ioQ[l] \in Seq(Functors) /\ ioQ[l] # <<>>
  <2>1. due[l] <= Len(ioQ[l]) /\ due[l] \in Nat
    BY TypesNow DEF DueType
  <2> QED
    BY <1>3, <2>1, TypesNow DEF CoreType
<1>5. f \in Functors /\ In(ioQ[l], f)
  BY <1>1, <1>4, TailIn
<1>6. c \in Conns /\ f.op \in Ops /\ f = Functor(f.op, c)
  BY <1>1, <1>5 DEF Functors, Functor
<1>7. /\ c \in Accepted /\ Queued(f.op, c)
      /\ f.op = "established" <=> conn[c].state = "kConnecting"
  <2>1. FunctorOK(l, ioQ[l], f)
    BY <1>5 DEF SInv, Placed
  <2> QED
    BY <1>1, <1>5, <1>6, <2>1 DEF FunctorOK, Queued
<1>8. Sound(conn[c]) /\ Fresh(conn[c]) /\ Owned(c)
  BY <1>6 DEF SInv, Whole
<1>9. conn'[c] = d /\ \A b \in Conns : b # c => conn'[b] = conn[b]
  BY <1>2, <1>6, TypesNow DEF CoreType, Becomes
<1>10. \A b \in Conns : b # c => Seen(b)' = Seen(b)
  BY <1>3, <1>9 DEF Seen, Accepted
<1>11. CASE f.op = "established"
  <2>1. conn[c] = NewConnection
    BY <1>7, <1>8, <1>11 DEF Fresh
  <2>2. PICK k : Open(k) /\ k.closes = 0 /\ Effect(k, d)
    <3>1. d \in ConnectEstablished(NewConnection)
      BY <1>2, <1>11, <2>1 DEF Run
    <3> QED
      BY <3>1, ConnectEstablishedEffect
  <2>3. d.closes \in {0, 1} /\ d.state # "kConnecting"
    BY <2>2 DEF Effect, GoesOn, IsClosed, StaysClosed, Open, Closed
  <2>4. conn[c].closes = 0 /\ conn[c].state = "kConnecting"
    BY <1>7, <1>11, <2>1, NewConnectionSound
  <2>5. c \in connections
    BY <1>7, <1>8, <2>4 DEF Owned
  <2>6. Seen(c) = "accepted" /\ Seen(c)' \in {"open", "closed"}
    BY <1>3, <1>7, <1>9, <2>3, <2>4, <2>5 DEF Seen, Accepted
  <2>7. PICK t \in {"open", "closed"} : Seen(c)' = t
    BY <2>6
  <2>8. Lives!Goes(c, "accepted", t)
    BY <1>3, <1>6, <1>10, <2>6, <2>7, OneGoes
  <2> QED
    BY <1>6, <2>7, <2>8 DEF Abstract, Lives!Next, Lives!Establish
<1>12. CASE f.op = "destroyed"
  <2>1. c \notin connections /\ conn[c].destroys = 0
    BY <1>7, <1>8, <1>12 DEF Owned
  <2>2. d = ConnectDestroyed(conn[c])
    BY <1>2, <1>12 DEF Run
  <2>3. d.destroys = 1
    BY <1>7, <1>8, <1>12, <2>1, <2>2, ConnectDestroyedEffect, Basics, <1>6
  <2>4. Seen(c) = "removed" /\ Seen(c)' = "destroyed"
    BY <1>3, <1>7, <1>9, <2>1, <2>3 DEF Seen, Accepted
  <2>5. Lives!Goes(c, "removed", "destroyed")
    BY <1>3, <1>6, <1>10, <2>4, OneGoes
  <2> QED
    BY <1>6, <2>5 DEF Abstract, Lives!Next, Lives!Destroy
<1>13. CASE f.op \in {"shutdown", "forceClose", "send"}
  <2>1. conn[c].state # "kConnecting"
    BY <1>7, <1>13
  <2>2. Effect(conn[c], d)
    BY <1>2, <1>6, <1>8, <1>13, <2>1, Basics, FunctorEffect
  <2> QED
    BY <1>2, <1>3, <1>6, <2>1, <2>2, AdvanceGoes
<1> QED
  BY <1>6, <1>11, <1>12, <1>13 DEF Ops

LEMMA StopGoes ==
  ASSUME Staged, Staged', Stop
  PROVE  Abstract
<1>1. /\ listening /\ listening' = FALSE /\ UNCHANGED <<conn, connections, nextConnId>>
  BY DEF Stop, CloseAcceptor
<1>2. [b \in Conns |-> Stage(b)]' = [b \in Conns |-> Stage(b)]
  BY <1>1, SeenKept, NoneGoes
<1> QED
  BY <1>1, <1>2 DEF Abstract, Lives!Next, Lives!Stop

\* Every step of the server is one of the abstract life, or none.
LEMMA LifeStep ==
  ASSUME SInv, Staged, Staged', [Next]_svars
  PROVE  Abstract
<1>1. CASE UNCHANGED <<conn, connections, nextConnId, listening>>
  BY <1>1, SeenKept, NoneGoes DEF Abstract, Lives!lvars
<1>2. CASE BaseStep
  BY <1>1, <1>2, NewConnGoes, RemoveGoes, StopGoes
     DEF BaseStep, StopReturns, BaseCalls, AcceptFails, AcceptRecovers
<1>3. CASE \E u \in Users : UserStep(u)
  BY <1>1, <1>3 DEF UserStep, Call, Release, serverVars
<1>4. CASE \E t \in Threads : Store(t) \/ Post(t)
  BY <1>1, <1>4, StoreGoes DEF Post, serverVars
<1>5. ASSUME NEW l \in Loops, IoStep(l) PROVE Abstract
  <2>1. CASE Poll(l) \/ TakeChannel(l) \/ DispatchDone(l) \/ FunctorsDone(l)
    BY <1>1, <2>1 DEF Poll, TakeChannel, DispatchDone, FunctorsDone, serverVars
  <2> QED
    BY <1>5, <2>1, RunHandlerGoes, ExpireTimersGoes, OnIdleTimeoutGoes, RunFunctorGoes
       DEF IoStep
<1>6. CASE UNCHANGED svars
  BY <1>1, <1>6 DEF svars, serverVars
<1> QED
  BY <1>2, <1>3, <1>4, <1>5, <1>6 DEF Next

\* Each connection is accepted, established, closed, removed and destroyed once
\* and in this order, even if a store overwrites its state after its close, and none
\* is accepted after stop() (newConnection, closeCallback_, removeConnectionInLoop,
\* connectDestroyed).
THEOREM LifeRefinement == Spec => ImplementsConnectionLife
<1>1. Init => Lives!Init
  <2> SUFFICES ASSUME Init PROVE Lives!Init
    OBVIOUS
  <2>1. Staged
    BY InitHolds, StagesSeen
  <2>2. Accepted = {} /\ listening = TRUE
    BY DEF Init, Accepted
  <2>3. \A c \in Conns : Stage(c) = "none"
    BY <2>1, <2>2 DEF Staged, Seen
  <2> QED
    BY <2>2, <2>3 DEF Lives!Init
<1>2. SInv /\ Staged /\ Staged' /\ [Next]_svars => [Lives!Next]_(Lives!lvars)
  BY LifeStep DEF Abstract
<1>3. SInv => Staged
  BY StagesSeen
<1> QED
  BY <1>1, <1>2, <1>3, AccountIsKept, PTL
     DEF Spec, ImplementsConnectionLife, Lives!Spec
=============================================================================
