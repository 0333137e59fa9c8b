-------------------------- MODULE TimerQueueProofs --------------------------
(***************************************************************************)
(* The invariants of TimerQueue for every number of addresses, timers and  *)
(* intervals and every bound on the time: who holds a Timer*, that the two *)
(* sets agree, that the timerfd is armed, that an id ends its own timer    *)
(* only and that a cancelled timer is not scheduled again.                 *)
(***************************************************************************)
EXTENDS TimerQueue, SequenceTheorems, WellFoundedInduction, TLAPS

Ops == [op : {"add", "cancel"}, id : Ids]

\* The variables that callbacks and functors change, and the others.
UserTyped ==
  /\ heap \in [Addrs -> TimerRecords]
  /\ timers \in SUBSET Entries
  /\ active \in SUBSET Keys
  /\ cancelling \in SUBSET Keys
  /\ fdAt \in Nat \cup {Never}
  /\ nextSeq \in Nat
  /\ births \in 0..MaxBirths
  /\ ids \in SUBSET Ids
  /\ asked \in SUBSET Births
  /\ stopped \in SUBSET Births

LoopTyped ==
  /\ phase \in {"poll", "dispatch", "callbacks", "functors"}
  /\ reported \in BOOLEAN
  /\ io \in BOOLEAN
  /\ clock \in Nat
  /\ expired \in SUBSET Entries
  /\ todo \in SUBSET expired
  /\ readNow \in Nat
  /\ posted \in Seq(Ops)
  /\ due \in 0..Len(posted)
  /\ due > 0 => phase = "functors"
  /\ creating \in {Idle} \cup Keys
  /\ fired \in SUBSET Births
  /\ raced \in BOOLEAN
  /\ reported => phase = "dispatch"

\* Outside the callbacks nothing is expired or being cancelled.
BatchOver == phase # "callbacks" => expired = {} /\ cancelling = {}

\* The sets hold each timer under what it is now.
Filed ==
  /\ \A e \in timers : e = Entry(e.addr)
  /\ \A k \in active : k = Key(k.addr)
  /\ \A a \in Addrs : a \in Queued <=> Key(a) \in active

\* No two functors add the same timer.
Differ(q) ==
  \A i, j \in 1..Len(q) :
    q[i].op = "add" /\ q[j].op = "add" /\ q[i].id.addr = q[j].id.addr => i = j
AddsOf(q) == {q[i].id.addr : i \in {j \in 1..Len(q) : q[j].op = "add"}}

\* What another thread got from operator new is not in use.
NewIsFree == creating.addr \notin Live

\* A timer's expiration stays as it is while its callback waits to run.
ExpiredInv ==
  /\ \A e \in expired : e = Entry(e.addr) /\ e.exp <= readNow
  /\ readNow <= clock

QInv ==
  /\ UserTyped /\ LoopTyped /\ BatchOver
  /\ OneOwner
  /\ Filed
  /\ Differ(posted)
  /\ NewIsFree
  /\ ExpiredInv

-----------------------------------------------------------------------------
LEMMA LeastOf ==
  ASSUME NEW S, S \subseteq Nat, S # {}
  PROVE  \E m \in S : \A n \in S : m <= n
<1> DEFINE R == {ss \in Nat \X Nat : ss[1] < ss[2]}
<1>1. IsWellFoundedOn(R, Nat)
  <2>1. R = OpToRel(<, Nat)
    BY Zenon DEF OpToRel
  <2> QED
    BY <2>1, NatLessThanWellFounded, Zenon
<1>2. PICK m \in S : \A n \in S : ~(<<n, m>> \in R)
  <2> HIDE DEF R
  <2> QED
    BY <1>1, WFMin
<1>3. ASSUME NEW n \in S PROVE m <= n
  <2>1. SUFFICES ASSUME n < m PROVE FALSE
    OBVIOUS
  <2>2. PICK p : p = <<n, m>>
    OBVIOUS
  <2>3. p \in Nat \X Nat /\ p[1] = n /\ p[2] = m
    BY <2>2
  <2>4. p \in R
    BY <2>1, <2>3
  <2> QED
    BY <1>2, <2>2, <2>4
<1> QED
  BY <1>3

LEMMA EarliestIs ==
  ASSUME NEW S, S \in SUBSET Entries, S # {}
  PROVE  /\ Earliest(S) \in Nat
         /\ \A e \in S : Earliest(S) <= e.exp
         /\ \E e \in S : Earliest(S) = e.exp
<1> DEFINE T == {e.exp : e \in S}
<1>1. T \subseteq Nat /\ T # {}
  BY DEF Entries
<1>2. PICK m \in T : \A n \in T : m <= n
  <2> HIDE DEF T
  <2> QED
    BY <1>1, LeastOf
<1>3. Earliest(S) \in T /\ \A e \in S : Earliest(S) <= e.exp
  <2>1. \A e \in S : m <= e.exp
    BY <1>2
  <2> QED
    BY <1>2, <2>1 DEF Earliest
<1> QED
  BY <1>1, <1>3

LEMMA OwnersOf ==
  ASSUME QInv
  PROVE  /\ Live \subseteq Addrs /\ Queued \subseteq Live
         /\ Expiring \subseteq Live /\ Adding \subseteq Live
         /\ \A a \in Live : heap[a].birth \in Births
         /\ \A a \in Addrs : a \notin Live => heap[a].birth = 0
<1>1. Live \subseteq Addrs
  BY DEF Live
<1>2. Queued \subseteq Live /\ Expiring \subseteq Live /\ Adding \subseteq Live
  BY DEF QInv, OneOwner
<1>3. ASSUME NEW a \in Live PROVE heap[a].birth \in Births
  <2>1. a \in Addrs /\ heap[a].birth # 0
    BY DEF Live
  <2>2. heap[a].birth \in 0..MaxBirths
    BY <2>1 DEF QInv, UserTyped, TimerRecords
  <2> QED
    BY <2>1, <2>2, TimerQueueAssumption DEF Births
<1>4. \A a \in Addrs : a \notin Live => heap[a].birth = 0
  BY DEF Live
<1> QED
  BY <1>1, <1>2, <1>3, <1>4

-----------------------------------------------------------------------------
(* The functors on their way *)

LEMMA AppendOp ==
  ASSUME NEW q \in Seq(Ops), NEW f \in Ops, Differ(q),
         f.op = "add" => f.id.addr \notin AddsOf(q)
  PROVE  /\ Append(q, f) \in Seq(Ops)
         /\ Len(Append(q, f)) = Len(q) + 1
         /\ Differ(Append(q, f))
         /\ AddsOf(Append(q, f)) =
              AddsOf(q) \cup (IF f.op = "add" THEN {f.id.addr} ELSE {})
<1>1. PICK n \in Nat, r \in Seq(Ops) : r = Append(q, f) /\ n = Len(q)
  <2>1. Append(q, f) \in Seq(Ops) /\ Len(q) \in Nat
    OBVIOUS
  <2> QED
    BY <2>1
<1>2. /\ r \in Seq(Ops) /\ Len(r) = n + 1 /\ r[n + 1] = f
      /\ \A i \in 1..n : r[i] = q[i]
  BY <1>1
<1>3. \A i \in 1 .. n + 1 : i \in 1..n \/ i = n + 1
  OBVIOUS
<1>4. Differ(r)
  <2>1. SUFFICES ASSUME NEW i \in 1 .. n + 1, NEW j \in 1 .. n + 1,
                        r[i].op = "add", r[j].op = "add",
                        r[i].id.addr = r[j].id.addr
                 PROVE  i = j
    BY <1>2 DEF Differ
  <2>2. CASE i \in 1..n /\ j \in 1..n
    BY <1>1, <1>2, <2>1, <2>2 DEF Differ
  <2>3. CASE i \in 1..n /\ j = n + 1
    BY <1>1, <1>2, <2>1, <2>3 DEF AddsOf
  <2>4. CASE i = n + 1 /\ j \in 1..n
    BY <1>1, <1>2, <2>1, <2>4 DEF AddsOf
  <2> QED
    BY <1>3, <2>2, <2>3, <2>4
<1>5. ASSUME NEW x
      PROVE  x \in AddsOf(r) <=>
               x \in AddsOf(q) \/ (f.op = "add" /\ x = f.id.addr)
  <2>1. x \in AddsOf(r) <=> \E i \in 1 .. n + 1 : r[i].op = "add" /\ x = r[i].id.addr
    BY <1>2 DEF AddsOf
  <2>2. x \in AddsOf(q) <=> \E i \in 1..n : q[i].op = "add" /\ x = q[i].id.addr
    BY <1>1 DEF AddsOf
  <2>3. n + 1 \in 1 .. n + 1 /\ 1..n \subseteq 1 .. n + 1
    OBVIOUS
  <2> QED
    BY <1>2, <1>3, <2>1, <2>2, <2>3
<1> QED
  BY <1>1, <1>2, <1>4, <1>5

LEMMA TailOp ==
  ASSUME NEW q \in Seq(Ops), q # <<>>, Differ(q)
  PROVE  /\ Head(q) \in Ops
         /\ Tail(q) \in Seq(Ops)
         /\ Len(Tail(q)) = Len(q) - 1
         /\ Differ(Tail(q))
         /\ Head(q).op = "add" => Head(q).id.addr \in AddsOf(q)
         /\ AddsOf(Tail(q)) =
              AddsOf(q) \ (IF Head(q).op = "add" THEN {Head(q).id.addr} ELSE {})
<1>1. PICK n \in Nat, r \in Seq(Ops), f \in Ops :
        r = Tail(q) /\ f = Head(q) /\ Len(q) = n + 1
  <2>1. Len(q) - 1 \in Nat /\ Len(q) = (Len(q) - 1) + 1
    BY EmptySeq
  <2> QED
    BY <2>1, HeadTailProperties
<1>2. /\ r \in Seq(Ops) /\ Len(r) = n /\ q[1] = f /\ f \in Ops
      /\ \A i \in 1..n : r[i] = q[i + 1]
  BY <1>1
<1>3. \A i \in 1 .. n + 1 : i = 1 \/ \E j \in 1..n : i = j + 1
  <2>1. \A i \in 1 .. n + 1 : i # 1 => i - 1 \in 1..n /\ i = (i - 1) + 1
    OBVIOUS
  <2> QED
    BY <2>1
<1>4. \A j \in 1..n : j + 1 \in 1 .. n + 1 /\ j + 1 # 1
  OBVIOUS
<1>5. Differ(r)
  <2>1. SUFFICES ASSUME NEW i \in 1..n, NEW j \in 1..n,
                        r[i].op = "add", r[j].op = "add",
                        r[i].id.addr = r[j].id.addr
                 PROVE  i = j
    BY <1>2 DEF Differ
  <2>2. i + 1 = j + 1
    BY <1>1, <1>2, <1>4, <2>1 DEF Differ
  <2> QED
    BY <2>2
<1>6. ASSUME NEW x
      PROVE  x \in AddsOf(q) <=>
               x \in AddsOf(r) \/ (f.op = "add" /\ x = f.id.addr)
  <2>1. x \in AddsOf(q) <=> \E i \in 1 .. n + 1 : q[i].op = "add" /\ x = q[i].id.addr
    BY <1>1 DEF AddsOf
  <2>2. x \in AddsOf(r) <=> \E i \in 1..n : r[i].op = "add" /\ x = r[i].id.addr
    BY <1>2 DEF AddsOf
  <2>3. 1 \in 1 .. n + 1
    OBVIOUS
  <2>4. ASSUME NEW i \in 1 .. n + 1, q[i].op = "add", x = q[i].id.addr
        PROVE  x \in AddsOf(r) \/ (f.op = "add" /\ x = f.id.addr)
    <3>1. CASE i = 1
      BY <1>2, <2>4, <3>1
    <3>2. CASE i # 1
      <4>1. PICK j \in 1..n : i = j + 1
        BY <1>3, <3>2
      <4>2. r[j] = q[i]
        BY <1>2, <4>1
      <4> QED
        BY <2>2, <2>4, <4>2
    <3> QED
      BY <3>1, <3>2
  <2>5. ASSUME NEW i \in 1..n, r[i].op = "add", x = r[i].id.addr
        PROVE  x \in AddsOf(q)
    <3>1. r[i] = q[i + 1] /\ i + 1 \in 1 .. n + 1
      BY <1>2, <1>4
    <3> QED
      BY <2>1, <2>5, <3>1
  <2>6. f.op = "add" /\ x = f.id.addr => x \in AddsOf(q)
    BY <1>2, <2>1, <2>3
  <2> QED
    BY <2>1, <2>2, <2>4, <2>5, <2>6
<1>7. f.op = "add" => f.id.addr \notin AddsOf(r)
  <2>1. SUFFICES ASSUME f.op = "add", NEW i \in 1..n, r[i].op = "add",
                        r[i].id.addr = f.id.addr
                 PROVE  FALSE
    BY <1>2 DEF AddsOf
  <2>2. 1 \in 1 .. n + 1 /\ i + 1 \in 1 .. n + 1 /\ i + 1 # 1
    OBVIOUS
  <2> QED
    BY <1>1, <1>2, <2>1, <2>2 DEF Differ
<1> QED
  BY <1>1, <1>2, <1>5, <1>6, <1>7

-----------------------------------------------------------------------------
(* What callbacks and functors do to the sets *)

\* One timer is filed, is taken out and freed, or nothing changes.
Filing(a) ==
  /\ a \in Addrs
  /\ Live' = Live \cup {a} /\ Queued' = Queued \cup {a}
  /\ \A b \in Addrs : b # a => heap'[b] = heap[b]
Freeing(a) ==
  /\ a \in Queued
  /\ Live' = Live \ {a} /\ Queued' = Queued \ {a}
  /\ \A b \in Addrs : b # a => heap'[b] = heap[b]
Same == Live' = Live /\ Queued' = Queued /\ heap' = heap

LEMMA EntryOf ==
  ASSUME UserTyped
  PROVE  /\ \A a \in Addrs : Entry(a) \in Entries /\ Entry(a).addr = a
         /\ \A a \in Addrs : Key(a) \in Keys /\ Key(a).addr = a
         /\ \A e \in timers : e.addr \in Addrs
         /\ \A k \in active : k.addr \in Addrs
BY DEF UserTyped, Entry, Key, Entries, Keys, TimerRecords

LEMMA AddFiles ==
  ASSUME UserTyped, Filed, NEW a \in Addrs, a \notin Queued,
         NEW timer \in TimerRecords, timer.birth # 0,
         heap' = [heap EXCEPT ![a] = timer],
         timers' = timers \cup {[exp |-> timer.exp, addr |-> a]},
         active' = active \cup {[seq |-> timer.seq, addr |-> a]}
  PROVE  Filed' /\ Filing(a)
<1>1. heap'[a] = timer /\ \A b \in Addrs : b # a => heap'[b] = heap[b]
  BY DEF UserTyped
<1>2. Live' = Live \cup {a}
  BY <1>1 DEF Live
<1>3. Queued' = Queued \cup {a}
  <2>1. PICK n : n = [exp |-> timer.exp, addr |-> a]
    OBVIOUS
  <2>2. timers' = timers \cup {n} /\ n.addr = a
    BY <2>1
  <2> QED
    BY <2>2 DEF Queued
<1>4. \A e \in timers : e.addr # a
  BY DEF Queued
<1>5. \A k \in active : k.addr # a
  <2>1. \A k \in active : k = Key(k.addr) /\ k.addr \in Addrs
    BY EntryOf DEF Filed
  <2> QED
    BY <2>1 DEF Filed
<1>6. ASSUME NEW e \in timers' PROVE e = Entry(e.addr)'
  <2>1. CASE e \in timers
    BY <1>1, <1>4, <2>1, EntryOf DEF Filed, Entry
  <2>2. CASE e = [exp |-> timer.exp, addr |-> a]
    BY <1>1, <2>2 DEF Entry
  <2> QED
    BY <2>1, <2>2
<1>7. ASSUME NEW k \in active' PROVE k = Key(k.addr)'
  <2>1. CASE k \in active
    BY <1>1, <1>5, <2>1, EntryOf DEF Filed, Key
  <2>2. CASE k = [seq |-> timer.seq, addr |-> a]
    BY <1>1, <2>2 DEF Key
  <2> QED
    BY <2>1, <2>2
<1>8. ASSUME NEW b \in Addrs PROVE b \in Queued' <=> Key(b)' \in active'
  <2>1. CASE b = a
    BY <1>1, <1>3, <2>1 DEF Key
  <2>2. CASE b # a
    <3>1. Key(b)' = Key(b) /\ Key(b).addr = b
      BY <1>1, <2>2 DEF Key
    <3>2. Key(b)' \in active' <=> Key(b) \in active
      BY <2>2, <3>1
    <3> QED
      BY <1>3, <2>2, <3>2 DEF Filed
  <2> QED
    BY <2>1, <2>2
<1> QED
  BY <1>1, <1>2, <1>3, <1>6, <1>7, <1>8 DEF Filed, Filing

LEMMA CancelFrees ==
  ASSUME UserTyped, Filed, NEW a \in Queued,
         heap' = [heap EXCEPT ![a] = NoTimer],
         timers' = timers \ {Entry(a)},
         active' = active \ {Key(a)}
  PROVE  Filed' /\ Freeing(a)
<1>0. a \in Addrs
  BY EntryOf DEF Queued
<1>1. heap'[a] = NoTimer /\ \A b \in Addrs : b # a => heap'[b] = heap[b]
  BY <1>0 DEF UserTyped
<1>2. Live' = Live \ {a}
  BY <1>0, <1>1 DEF Live, NoTimer
<1>3. Queued' = Queued \ {a}
  <2>1. \A e \in timers : e # Entry(a) <=> e.addr # a
    BY <1>0, EntryOf DEF Filed
  <2> QED
    BY <2>1 DEF Queued
<1>4. ASSUME NEW e \in timers' PROVE e = Entry(e.addr)'
  <2>1. e \in timers /\ e.addr # a
    BY <1>0, EntryOf DEF Filed
  <2> QED
    BY <1>1, <2>1, EntryOf DEF Filed, Entry
<1>5. ASSUME NEW k \in active' PROVE k = Key(k.addr)'
  <2>1. k \in active /\ k.addr # a
    BY <1>0, EntryOf DEF Filed
  <2> QED
    BY <1>1, <2>1, EntryOf DEF Filed, Key
<1>6. ASSUME NEW b \in Addrs PROVE b \in Queued' <=> Key(b)' \in active'
  <2>1. CASE b = a
    <3>1. \A k \in active' : k.addr # a
      BY <1>0, EntryOf DEF Filed
    <3>2. Key(b)'.addr = a
      BY <2>1 DEF Key
    <3> QED
      BY <1>3, <2>1, <3>1, <3>2
  <2>2. CASE b # a
    <3>1. Key(b)' = Key(b) /\ Key(b).addr = b /\ Key(a).addr = a
      BY <1>1, <2>2 DEF Key
    <3>2. Key(b)' \in active' <=> Key(b) \in active
      BY <2>2, <3>1
    <3> QED
      BY <1>3, <2>2, <3>2 DEF Filed
  <2> QED
    BY <2>1, <2>2
<1> QED
  BY <1>1, <1>2, <1>3, <1>4, <1>5, <1>6 DEF Filed, Freeing

LEMMA SameFiled ==
  ASSUME Filed, UNCHANGED <<heap, timers, active>>
  PROVE  Filed' /\ Same
BY DEF Filed, Same, Live, Queued, Entry, Key

\* cancelInLoop: the timer that lives at the id's address has the id's number.
LEMMA CancelEffect ==
  ASSUME QInv, NEW id \in Ids, CancelInLoop(id)
  PROVE  /\ Filed'
         /\ Freeing(id.addr) \/ Same
         /\ heap' \in [Addrs -> TimerRecords]
         /\ timers' \subseteq timers /\ active' \subseteq active
         /\ cancelling' \in SUBSET Keys
         /\ asked' \in SUBSET Births /\ stopped' \in SUBSET Births
<1> DEFINE key == [seq |-> id.seq, addr |-> id.addr]
<1>0. id.addr \in Addrs /\ key \in Keys /\ id.birth \in Births /\ key.addr = id.addr
  BY DEF Ids, Keys
<1>1. UserTyped /\ Filed /\ LoopTyped
  BY DEF QInv
<1>2. asked' \in SUBSET Births
  BY <1>0, <1>1 DEF CancelInLoop, UserTyped
<1>3. CASE FindActive(key)
  <2>1. /\ timers' = timers \ {Entry(id.addr)}
        /\ active' = active \ {Key(id.addr)}
        /\ heap' = [heap EXCEPT ![id.addr] = NoTimer]
        /\ stopped' = stopped \cup {heap[id.addr].birth}
        /\ cancelling' = cancelling
    BY <1>3 DEF CancelInLoop
  <2>2. id.addr \in Queued
    <3>1. key \in active
      BY <1>3 DEF FindActive
    <3>2. key = Key(id.addr)
      BY <1>0, <1>1, <3>1 DEF Filed
    <3> QED
      BY <1>0, <1>1, <3>1, <3>2 DEF Filed
  <2>3. heap[id.addr].birth \in Births
    BY <2>2, OwnersOf
  <2>4. NoTimer \in TimerRecords
    BY TimerQueueAssumption DEF NoTimer, TimerRecords
  <2>5. heap' \in [Addrs -> TimerRecords]
    BY <1>1, <2>1, <2>4 DEF UserTyped
  <2>6. Filed' /\ Freeing(id.addr)
    BY <1>1, <2>1, <2>2, CancelFrees
  <2> QED
    BY <1>1, <1>2, <2>1, <2>3, <2>5, <2>6 DEF UserTyped
<1>4. CASE ~FindActive(key)
  <2>1. /\ UNCHANGED <<timers, active, heap>>
        /\ \/ /\ cancelling' = cancelling \cup {key}
              /\ stopped' = stopped \cup
                   {heap[e.addr].birth : e \in {f \in expired : Key(f.addr) = key}}
           \/ cancelling' = cancelling /\ stopped' = stopped
    BY <1>4 DEF CancelInLoop, sets
  <2>2. \A e \in expired : heap[e.addr].birth \in Births
    BY OwnersOf DEF Expiring
  <2>3. cancelling' \in SUBSET Keys /\ stopped' \in SUBSET Births
    <3> HIDE DEF key
    <3> QED
      BY <1>0, <1>1, <2>1, <2>2 DEF UserTyped
  <2> QED
    BY <1>1, <1>2, <2>1, <2>3, SameFiled DEF UserTyped
<1> QED
  BY <1>3, <1>4

\* what the variables of a callback keep when it adds a timer
LEMMA CreateEffect ==
  ASSUME QInv, NEW a \in Addrs, a \notin Live, NEW seq \in Nat, NEW exp \in Nat,
         NEW interval \in Intervals, Create(a, seq, exp, interval)
  PROVE  /\ heap' \in [Addrs -> TimerRecords]
         /\ births' \in 0..MaxBirths
         /\ ids' \in SUBSET Ids
         /\ heap'[a].birth # 0
         /\ heap' = [heap EXCEPT ![a] = heap'[a]] /\ heap'[a] \in TimerRecords
         /\ heap'[a].exp = exp /\ heap'[a].seq = seq
<1> DEFINE timer == [birth |-> births + 1, seq |-> seq, exp |-> exp,
                     interval |-> interval]
           id == [seq |-> seq, addr |-> a, birth |-> births + 1]
<1>1. UserTyped
  BY DEF QInv
<1>2. /\ births' = births + 1 /\ births + 1 \in 0..MaxBirths /\ births + 1 # 0
      /\ births + 1 \in Births
      /\ heap' = [heap EXCEPT ![a] = timer] /\ ids' = ids \cup {id}
  BY <1>1, TimerQueueAssumption DEF UserTyped, Create, Births
<1>3. timer \in TimerRecords /\ id \in Ids
  BY <1>2, TimerQueueAssumption DEF TimerRecords, Ids
<1>4. timer.birth # 0 /\ timer.exp = exp /\ timer.seq = seq
  BY <1>2
<1> HIDE DEF timer, id
<1>5. heap'[a] = timer
  BY <1>1, <1>2 DEF UserTyped
<1> QED
  BY <1>1, <1>2, <1>3, <1>4, <1>5 DEF UserTyped

LEMMA ArmForNewType ==
  ASSUME fdAt \in Nat \cup {Never}, clock \in Nat, NEW exp \in Nat
  PROVE  ArmForNew(exp) \in Nat \cup {Never}
BY DEF ArmForNew, ArmAt, Later

\* What a callback does with timers keeps the sets in order.
LEMMA UserCodeEffect ==
  ASSUME QInv, UserCode
  PROVE  /\ UserTyped' /\ Filed'
         /\ \/ \E a \in Addrs : a \notin Live /\ creating.addr # a /\ Filing(a)
            \/ \E a \in Addrs : Freeing(a)
            \/ Same
         /\ phase # "callbacks" => cancelling' = cancelling
<1>0. UserTyped /\ Filed /\ clock \in Nat /\ MaxTime \in Nat /\ Intervals \subseteq Nat
  BY TimerQueueAssumption DEF QInv, LoopTyped
<1>1. CASE \E a \in Addrs, exp \in clock..MaxTime, interval \in Intervals :
             LoopAdds(a, exp, interval)
  <2>1. PICK a \in Addrs, exp \in clock..MaxTime, interval \in Intervals :
               LoopAdds(a, exp, interval)
    BY <1>1
  <2>2. exp \in Nat
    BY <1>0
  <2>3. /\ a \notin Live /\ creating.addr # a
        /\ Create(a, nextSeq, exp, interval)
        /\ nextSeq' = nextSeq + 1
        /\ AddTimerInLoop(a, heap'[a])
        /\ UNCHANGED <<cancelling, asked, stopped>>
    BY <2>1 DEF LoopAdds
  <2>4. nextSeq \in Nat /\ nextSeq' \in Nat
    BY <1>0, <2>3 DEF UserTyped
  <2>5. /\ heap' \in [Addrs -> TimerRecords]
        /\ births' \in 0..MaxBirths
        /\ ids' \in SUBSET Ids
        /\ heap'[a].birth # 0
        /\ heap' = [heap EXCEPT ![a] = heap'[a]] /\ heap'[a] \in TimerRecords
        /\ heap'[a].exp = exp /\ heap'[a].seq = nextSeq
    BY <2>2, <2>3, <2>4, CreateEffect
  <2>6. PICK timer \in TimerRecords : timer = heap'[a]
    BY <2>5
  <2>7. /\ timers' = timers \cup {[exp |-> timer.exp, addr |-> a]}
        /\ active' = active \cup {[seq |-> timer.seq, addr |-> a]}
        /\ fdAt' = ArmForNew(timer.exp)
    BY <2>3, <2>6 DEF AddTimerInLoop
  <2>8. a \notin Queued
    BY <2>3, OwnersOf
  <2>9. Filed' /\ Filing(a)
    BY <1>0, <2>5, <2>6, <2>7, <2>8, AddFiles
  <2>10. timers' \in SUBSET Entries /\ active' \in SUBSET Keys
    BY <1>0, <2>7 DEF UserTyped, Entries, Keys, TimerRecords
  <2>11. fdAt' \in Nat \cup {Never}
    <3>1. timer.exp \in Nat
      BY DEF TimerRecords
    <3> QED
      BY <1>0, <2>7, <3>1, ArmForNewType DEF UserTyped
  <2> QED
    BY <1>0, <2>3, <2>4, <2>5, <2>9, <2>10, <2>11 DEF UserTyped
<1>2. CASE \E id \in ids : LoopCancels(id)
  <2>1. PICK id \in ids : LoopCancels(id)
    BY <1>2
  <2>2. /\ id \in Ids /\ CancelInLoop(id)
        /\ UNCHANGED <<fdAt, nextSeq, births, ids>>
    BY <1>0, <2>1 DEF LoopCancels, UserTyped
  <2>3. /\ Filed'
        /\ Freeing(id.addr) \/ Same
        /\ heap' \in [Addrs -> TimerRecords]
        /\ timers' \subseteq timers /\ active' \subseteq active
        /\ cancelling' \in SUBSET Keys
        /\ asked' \in SUBSET Births /\ stopped' \in SUBSET Births
    BY <2>2, CancelEffect
  <2>4. id.addr \in Addrs
    BY <2>2 DEF Ids
  <2>5. phase # "callbacks" => cancelling' = cancelling
    BY <2>2 DEF CancelInLoop, handleTimer, sets
  <2> QED
    BY <1>0, <2>2, <2>3, <2>4, <2>5 DEF UserTyped
<1>3. CASE UNCHANGED <<fdAt, heap, sets, nextSeq, births, ids, asked, stopped>>
  BY <1>0, <1>3, SameFiled DEF UserTyped, sets
<1> QED
  BY <1>1, <1>2, <1>3 DEF UserCode

-----------------------------------------------------------------------------
(* Each step keeps the sets in order *)

LEMMA EffectKeeps ==
  ASSUME QInv, UNCHANGED <<creating, expired, readNow, clock>>, Adding' = Adding,
         \/ \E a \in Addrs : a \notin Live /\ creating.addr # a /\ Filing(a)
         \/ \E a \in Addrs : Freeing(a)
         \/ Same
  PROVE  OneOwner' /\ NewIsFree' /\ ExpiredInv'
<1>1. Expiring' = Expiring
  BY DEF Expiring
<1>2. OneOwner /\ NewIsFree /\ ExpiredInv
  BY DEF QInv
<1>3. \A e \in expired : e.addr \in Expiring /\ e.addr \in Addrs
  BY OwnersOf DEF Expiring
<1>4. CASE \E a \in Addrs : a \notin Live /\ creating.addr # a /\ Filing(a)
  <2>1. PICK a \in Addrs : a \notin Live /\ creating.addr # a /\ Filing(a)
    BY <1>4
  <2>2. OneOwner' /\ NewIsFree'
    BY <1>1, <1>2, <2>1 DEF OneOwner, NewIsFree, Filing
  <2>3. ASSUME NEW e \in expired PROVE heap'[e.addr] = heap[e.addr]
    BY <1>2, <1>3, <2>1 DEF OneOwner, Filing
  <2> QED
    BY <1>2, <2>2, <2>3 DEF ExpiredInv, Entry
<1>5. CASE \E a \in Addrs : Freeing(a)
  <2>1. PICK a \in Addrs : Freeing(a)
    BY <1>5
  <2>2. OneOwner' /\ NewIsFree'
    BY <1>1, <1>2, <2>1 DEF OneOwner, NewIsFree, Freeing
  <2>3. ASSUME NEW e \in expired PROVE heap'[e.addr] = heap[e.addr]
    BY <1>2, <1>3, <2>1 DEF OneOwner, Freeing
  <2> QED
    BY <1>2, <2>2, <2>3 DEF ExpiredInv, Entry
<1>6. CASE Same
  BY <1>1, <1>2, <1>6 DEF Same, OneOwner, NewIsFree, ExpiredInv, Entry
<1> QED
  BY <1>4, <1>5, <1>6

\* A step that leaves the timers and those who hold them alone.
Quiet == UNCHANGED <<heap, timers, active, cancelling, fdAt, nextSeq, births, ids,
                     asked, stopped, expired, posted, creating, readNow>>

LEMMA QuietKeeps ==
  ASSUME QInv, Quiet, clock' \in Nat, clock <= clock'
  PROVE  UserTyped' /\ OneOwner' /\ Filed' /\ Differ(posted)' /\ NewIsFree' /\ ExpiredInv'
<1>1. Same /\ Filed'
  BY SameFiled DEF QInv, Quiet
<1>2. UserTyped' /\ Differ(posted)'
  BY DEF QInv, Quiet, UserTyped, Differ
<1>3. Adding' = Adding /\ Expiring' = Expiring
  BY DEF Quiet, Adding, Expiring
<1>4. OneOwner' /\ NewIsFree'
  BY <1>1, <1>3 DEF QInv, Quiet, OneOwner, NewIsFree, Same
<1>5. ExpiredInv'
  <2>1. readNow' = readNow /\ readNow \in Nat /\ clock \in Nat /\ readNow <= clock
    BY DEF QInv, LoopTyped, Quiet, ExpiredInv
  <2>2. readNow' <= clock'
    BY <2>1
  <2> QED
    BY <2>2 DEF QInv, Quiet, ExpiredInv, Entry
<1> QED
  BY <1>1, <1>2, <1>4, <1>5

LEMMA InitQInv == Init => QInv
<1> SUFFICES ASSUME Init PROVE QInv
  OBVIOUS
<1>1. UserTyped
  BY TimerQueueAssumption DEF Init, UserTyped, TimerRecords, NoTimer, Never
<1>2. LoopTyped
  <2>1. posted \in Seq(Ops) /\ Len(posted) = 0
    BY EmptySeq DEF Init
  <2>2. due \in 0..Len(posted) /\ ~(due > 0)
    BY <2>1 DEF Init
  <2>3. creating \in {Idle} \cup Keys
    BY Zenon DEF Init
  <2>4. phase = "poll" /\ reported = FALSE /\ io = FALSE /\ raced = FALSE
    BY DEF Init
  <2>5. clock = 0 /\ readNow = 0 /\ expired = {} /\ todo = {} /\ fired = {}
    BY DEF Init
  <2>6. reported \in BOOLEAN /\ io \in BOOLEAN /\ raced \in BOOLEAN /\ ~reported
    BY <2>4, Zenon
  <2> QED
    BY <2>1, <2>2, <2>3, <2>4, <2>5, <2>6 DEF LoopTyped
<1>3. Live = {} /\ Queued = {} /\ Expiring = {} /\ Adding = {}
  BY DEF Init, Live, Queued, Expiring, Adding, NoTimer
<1>4. OneOwner /\ BatchOver /\ NewIsFree /\ ExpiredInv
  BY <1>3 DEF Init, OneOwner, BatchOver, NewIsFree, ExpiredInv
<1>5. Filed
  BY <1>3 DEF Init, Filed
<1>6. Differ(posted)
  BY DEF Init, Differ
<1> QED
  BY <1>1, <1>2, <1>4, <1>5, <1>6 DEF QInv

LEMMA QuietActions ==
  ASSUME QInv,
         \/ \E other \in BOOLEAN : Poll(other)
         \/ DispatchDone \/ FunctorsDone \/ Tick \/ UNCHANGED tqvars
  PROVE  QInv'
<1>1. Quiet /\ clock' \in Nat /\ clock <= clock'
  BY DEF QInv, LoopTyped, Poll, DispatchDone, FunctorsDone, Tick, tqvars, sets,
         batch, history, Quiet
<1>2. LoopTyped' /\ BatchOver'
  <2>1. LoopTyped /\ BatchOver
    BY DEF QInv
  <2>2. CASE \E other \in BOOLEAN : Poll(other)
    BY <2>1, <2>2 DEF Poll, LoopTyped, BatchOver, fdReadable, sets, batch, history
  <2>3. CASE DispatchDone
    BY <2>1, <2>3 DEF DispatchDone, LoopTyped, BatchOver, sets, batch, history
  <2>4. CASE FunctorsDone
    BY <2>1, <2>4 DEF FunctorsDone, LoopTyped, BatchOver, sets, batch, history
  <2>5. CASE Tick
    BY <2>1, <2>5 DEF Tick, LoopTyped, BatchOver, sets, batch, history
  <2>6. CASE UNCHANGED tqvars
    BY <2>1, <2>6 DEF tqvars, LoopTyped, BatchOver, sets, batch, history
  <2> QED
    BY <2>2, <2>3, <2>4, <2>5, <2>6
<1> QED
  BY <1>1, <1>2, QuietKeeps DEF QInv

LEMMA HandleIoKeeps ==
  ASSUME QInv, HandleIo
  PROVE  QInv'
<1>1. /\ phase = "dispatch" /\ io' = FALSE /\ UserCode
      /\ UNCHANGED <<phase, reported, clock, expired, todo, readNow, posted, due,
                     creating, fired, raced>>
  BY DEF HandleIo, batch
<1>2. LoopTyped' /\ Adding' = Adding /\ Differ(posted)'
  BY <1>1 DEF QInv, LoopTyped, Adding, Differ
<1>3. BatchOver'
  BY <1>1, UserCodeEffect DEF QInv, BatchOver
<1> QED
  BY <1>1, <1>2, <1>3, UserCodeEffect, EffectKeeps DEF QInv

LEMMA RunCallbackKeeps ==
  ASSUME QInv, RunCallback
  PROVE  QInv'
<1>1. PICK e \in todo : todo' = todo \ {e} /\ fired' = fired \cup {heap[e.addr].birth}
  BY DEF RunCallback
<1>2. /\ phase = "callbacks" /\ UserCode
      /\ UNCHANGED <<phase, reported, io, clock, expired, readNow, posted, due,
                     creating, raced>>
  BY DEF RunCallback
<1>3. heap[e.addr].birth \in Births
  <2>1. e \in expired
    BY DEF QInv, LoopTyped
  <2> QED
    BY <2>1, OwnersOf DEF Expiring
<1>4. LoopTyped' /\ Adding' = Adding /\ Differ(posted)' /\ BatchOver'
  BY <1>1, <1>2, <1>3 DEF QInv, LoopTyped, Adding, Differ, BatchOver
<1> QED
  BY <1>2, <1>4, UserCodeEffect, EffectKeeps DEF QInv

LEMMA OtherReadsSeqKeeps ==
  ASSUME QInv, NEW a \in Addrs, OtherReadsSeq(a)
  PROVE  QInv'
<1>1. /\ creating' = [addr |-> a, seq |-> nextSeq] /\ a \notin Live
      /\ UNCHANGED <<phase, reported, io, clock, heap, timers, active, cancelling, fdAt,
                     expired, todo, readNow, posted, due, nextSeq, births, ids,
                     fired, asked, stopped, raced>>
  BY DEF OtherReadsSeq, sets, batch, history
<1>2. UserTyped' /\ LoopTyped' /\ BatchOver'
  BY <1>1 DEF QInv, UserTyped, LoopTyped, BatchOver, Keys
<1>3. Same /\ Filed' /\ Adding' = Adding /\ Expiring' = Expiring /\ Differ(posted)'
  BY <1>1, SameFiled DEF QInv, Adding, Expiring, Differ
<1>4. OneOwner' /\ ExpiredInv'
  BY <1>1, <1>3 DEF QInv, OneOwner, ExpiredInv, Entry, Same
<1>5. NewIsFree'
  BY <1>1, <1>3 DEF NewIsFree, Same
<1> QED
  BY <1>2, <1>3, <1>4, <1>5 DEF QInv

LEMMA OtherCancelsKeeps ==
  ASSUME QInv, NEW id \in ids, OtherCancels(id)
  PROVE  QInv'
<1>1. PICK f \in Ops : f = [op |-> "cancel", id |-> id]
  <2>1. id \in Ids
    BY DEF QInv, UserTyped
  <2> QED
    BY <2>1 DEF Ops
<1>2. /\ posted' = Append(posted, f)
      /\ UNCHANGED <<phase, reported, io, clock, heap, timers, active, cancelling, fdAt,
                     expired, todo, readNow, creating, due, nextSeq, births, ids,
                     fired, asked, stopped, raced>>
  BY <1>1 DEF OtherCancels, sets, batch, history
<1>3. /\ posted' \in Seq(Ops) /\ Len(posted') = Len(posted) + 1
      /\ Differ(posted') /\ AddsOf(posted') = AddsOf(posted)
  BY <1>1, <1>2, AppendOp DEF QInv, LoopTyped
<1>4. UserTyped' /\ BatchOver'
  BY <1>2 DEF QInv, UserTyped, BatchOver
<1>5. LoopTyped'
  BY <1>2, <1>3 DEF QInv, LoopTyped
<1>6. Adding' = Adding
  BY <1>3 DEF Adding, AddsOf
<1>7. Filed' /\ Same
  BY <1>2, SameFiled DEF QInv
<1>8. OneOwner' /\ NewIsFree' /\ ExpiredInv'
  BY <1>2, <1>6, <1>7, EffectKeeps
<1> QED
  BY <1>3, <1>4, <1>5, <1>7, <1>8 DEF QInv, Differ

LEMMA OtherAddsKeeps ==
  ASSUME QInv, NEW exp \in clock..MaxTime, NEW interval \in Intervals,
         OtherAdds(exp, interval)
  PROVE  QInv'
<1>0. UserTyped /\ LoopTyped /\ BatchOver /\ Filed /\ exp \in Nat
  BY TimerQueueAssumption DEF QInv, LoopTyped
<1>1. PICK a \in Addrs, seq \in Nat : creating = [addr |-> a, seq |-> seq]
  <2>1. creating \in Keys
    BY <1>0 DEF OtherAdds, LoopTyped
  <2> QED
    BY <2>1 DEF Keys
<1>2. creating.addr = a /\ creating.seq = seq
  BY <1>1
<1>3. a \notin Live
  BY <1>2 DEF QInv, NewIsFree
<1>4. PICK f : f = [op |-> "add", id |-> [seq |-> creating.seq, addr |-> creating.addr,
                                          birth |-> births + 1]]
  OBVIOUS
<1>5. /\ Create(a, seq, exp, interval)
      /\ nextSeq' = seq + 1 /\ creating' = Idle /\ raced' \in BOOLEAN
      /\ posted' = Append(posted, f)
      /\ UNCHANGED <<phase, reported, io, clock, fdAt, timers, active, cancelling,
                     expired, todo, readNow, due, fired, asked, stopped>>
  BY <1>2, <1>4 DEF OtherAdds, sets, batch
<1>6. /\ heap' \in [Addrs -> TimerRecords]
      /\ births' \in 0..MaxBirths
      /\ ids' \in SUBSET Ids
      /\ heap'[a].birth # 0
      /\ heap' = [heap EXCEPT ![a] = heap'[a]] /\ heap'[a] \in TimerRecords
  BY <1>0, <1>3, <1>5, CreateEffect
<1>7. f \in Ops /\ f.op = "add" /\ f.id.addr = a
  <2>1. births + 1 \in Births
    BY <1>0, <1>5, TimerQueueAssumption DEF Create, UserTyped, Births
  <2>2. PICK id \in Ids : id = [seq |-> seq, addr |-> a, birth |-> births + 1]
    BY <2>1 DEF Ids
  <2>3. f = [op |-> "add", id |-> id] /\ id.addr = a
    BY <1>2, <1>4, <2>2
  <2> QED
    BY <2>3 DEF Ops
<1>8. /\ posted' \in Seq(Ops) /\ Len(posted') = Len(posted) + 1
      /\ Differ(posted') /\ AddsOf(posted') = AddsOf(posted) \cup {a}
  <2>1. a \notin AddsOf(posted)
    BY <1>3, OwnersOf DEF Adding, AddsOf
  <2> QED
    BY <1>0, <1>5, <1>7, <2>1, AppendOp DEF QInv, LoopTyped
<1>9. UserTyped' /\ BatchOver'
  BY <1>0, <1>5, <1>6 DEF UserTyped, BatchOver
<1>10. LoopTyped'
  BY <1>0, <1>5, <1>8 DEF LoopTyped
<1>11. heap'[a] # heap[a] /\ \A b \in Addrs : b # a => heap'[b] = heap[b]
  BY <1>0, <1>3, <1>6 DEF UserTyped, Live
<1>12. Live' = Live \cup {a}
  BY <1>6, <1>11 DEF Live
<1>13. Queued' = Queued /\ Expiring' = Expiring /\ Adding' = Adding \cup {a}
  BY <1>5, <1>8 DEF Queued, Expiring, Adding, AddsOf
<1>14. OneOwner'
  BY <1>3, <1>12, <1>13 DEF QInv, OneOwner
<1>15. a \notin Queued /\ a \notin Expiring
  BY <1>3, OwnersOf
<1>16. Filed'
  <2>1. ASSUME NEW e \in timers PROVE e = Entry(e.addr)'
    BY <1>0, <1>11, <1>15, EntryOf DEF Filed, Entry, Queued
  <2>2. ASSUME NEW k \in active PROVE k = Key(k.addr)'
    <3>1. k.addr \in Queued /\ k.addr \in Addrs /\ k = Key(k.addr)
      BY <1>0, EntryOf DEF Filed
    <3> QED
      BY <1>11, <1>15, <3>1 DEF Key
  <2>3. ASSUME NEW b \in Addrs PROVE b \in Queued <=> Key(b)' \in active
    <3>1. CASE b = a
      <4>1. Key(b)'.addr = a
        BY <3>1 DEF Key
      <4>2. Key(b)' \notin active
        BY <1>0, <1>15, <4>1 DEF Filed
      <4> QED
        BY <1>15, <3>1, <4>2
    <3>2. CASE b # a
      BY <1>0, <1>11, <3>2 DEF Filed, Key
    <3> QED
      BY <3>1, <3>2
  <2> QED
    BY <1>5, <1>13, <2>1, <2>2, <2>3 DEF Filed
<1>17. NewIsFree'
  <2>1. creating'.addr = -1
    BY <1>5 DEF Idle
  <2>2. Live' \subseteq Nat
    BY <1>12, OwnersOf, TimerQueueAssumption
  <2> QED
    BY <2>1, <2>2 DEF NewIsFree
<1>18. ExpiredInv'
  <2>1. ASSUME NEW e \in expired PROVE Entry(e.addr)' = Entry(e.addr)
    <3>1. e.addr \in Expiring /\ e.addr \in Addrs
      BY OwnersOf DEF Expiring
    <3> QED
      BY <1>11, <1>15, <3>1 DEF Entry
  <2> QED
    BY <1>5, <2>1 DEF QInv, ExpiredInv
<1> QED
  BY <1>8, <1>9, <1>10, <1>14, <1>16, <1>17, <1>18 DEF QInv, Differ

LEMMA RunFunctorKeeps ==
  ASSUME QInv, RunFunctor
  PROVE  QInv'
<1>0. UserTyped /\ LoopTyped /\ BatchOver /\ Filed /\ due > 0 /\ phase = "functors"
  BY DEF QInv, RunFunctor
<1>1. posted \in Seq(Ops) /\ posted # <<>> /\ Len(posted) \in Nat
  BY <1>0 DEF LoopTyped
<1>2. PICK f \in Ops : f = Head(posted)
  BY <1>1, HeadTailProperties
<1>3. /\ posted' \in Seq(Ops) /\ Len(posted') = Len(posted) - 1
      /\ Differ(posted')
      /\ f.op = "add" => f.id.addr \in AddsOf(posted)
      /\ AddsOf(posted') =
           AddsOf(posted) \ (IF f.op = "add" THEN {f.id.addr} ELSE {})
  BY <1>1, <1>2, TailOp DEF QInv, RunFunctor
<1>4. /\ due' = due - 1
      /\ UNCHANGED <<phase, reported, io, clock, expired, todo, readNow, creating,
                     nextSeq, births, ids, fired, raced>>
  BY DEF RunFunctor, batch
<1>5. LoopTyped'
  BY <1>0, <1>1, <1>3, <1>4 DEF LoopTyped
<1>6. Expiring' = Expiring
  BY <1>4 DEF Expiring
<1>7. CASE f.op = "add"
  <2>1. PICK a : a = f.id.addr
    OBVIOUS
  <2>2. a \in Adding /\ a \in Live /\ a \in Addrs /\ a \notin Queued
    <3>1. a \in Adding
      BY <1>3, <1>7, <2>1 DEF Adding, AddsOf
    <3> QED
      BY <3>1, OwnersOf DEF QInv, OneOwner
  <2>3. PICK timer \in TimerRecords : timer = heap[a]
    BY <1>0, <2>2 DEF UserTyped
  <2>4. /\ timers' = timers \cup {[exp |-> timer.exp, addr |-> a]}
        /\ active' = active \cup {[seq |-> timer.seq, addr |-> a]}
        /\ fdAt' = ArmForNew(timer.exp)
        /\ UNCHANGED <<heap, cancelling, asked, stopped>>
    BY <1>2, <1>7, <2>1, <2>3 DEF RunFunctor, AddTimerInLoop
  <2>5. timer.birth # 0
    BY <2>2, <2>3 DEF Live
  <2>6. Filed' /\ Filing(a)
    <3>1. heap' = [heap EXCEPT ![a] = timer]
      BY <1>0, <2>3, <2>4 DEF UserTyped
    <3> QED
      BY <1>0, <2>2, <2>4, <2>5, <3>1, AddFiles
  <2>7. Live' = Live /\ Queued' = Queued \cup {a} /\ Adding' = Adding \ {a}
    BY <1>3, <1>7, <2>1, <2>2, <2>6 DEF Filing, Adding, AddsOf
  <2>8. OneOwner'
    BY <1>6, <2>2, <2>7 DEF QInv, OneOwner
  <2>9. NewIsFree' /\ ExpiredInv' /\ BatchOver'
    BY <1>4, <2>4, <2>7 DEF QInv, NewIsFree, ExpiredInv, Entry, BatchOver
  <2>10. UserTyped'
    <3>1. timers' \in SUBSET Entries /\ active' \in SUBSET Keys
      BY <1>0, <2>2, <2>4 DEF UserTyped, Entries, Keys, TimerRecords
    <3>2. fdAt' \in Nat \cup {Never}
      <4>1. timer.exp \in Nat
        BY DEF TimerRecords
      <4> QED
        BY <1>0, <2>4, <4>1, ArmForNewType DEF UserTyped, LoopTyped
    <3> QED
      BY <1>0, <1>4, <2>4, <3>1, <3>2 DEF UserTyped
  <2> QED
    BY <1>3, <1>5, <2>6, <2>8, <2>9, <2>10 DEF QInv, Differ
<1>8. CASE f.op # "add"
  <2>1. PICK id \in Ids : id = f.id
    BY DEF Ops
  <2>2. CancelInLoop(id) /\ fdAt' = fdAt
    BY <1>2, <1>8, <2>1 DEF RunFunctor
  <2>3. /\ Filed'
        /\ Freeing(id.addr) \/ Same
        /\ heap' \in [Addrs -> TimerRecords]
        /\ timers' \subseteq timers /\ active' \subseteq active
        /\ cancelling' \in SUBSET Keys
        /\ asked' \in SUBSET Births /\ stopped' \in SUBSET Births
    BY <2>2, CancelEffect
  <2>4. UserTyped'
    BY <1>0, <1>4, <2>2, <2>3 DEF UserTyped
  <2>5. BatchOver'
    BY <1>0, <1>4, <2>2 DEF BatchOver, CancelInLoop, handleTimer, sets
  <2>6. Adding' = Adding
    BY <1>3, <1>8 DEF Adding, AddsOf
  <2>7. id.addr \in Addrs
    BY DEF Ids
  <2>8. OneOwner' /\ NewIsFree' /\ ExpiredInv'
    BY <1>4, <2>3, <2>6, <2>7, EffectKeeps
  <2> QED
    BY <1>3, <1>5, <2>3, <2>4, <2>5, <2>8 DEF QInv, Differ
<1> QED
  BY <1>7, <1>8

LEMMA HandleReadKeeps ==
  ASSUME QInv, HandleRead
  PROVE  QInv'
<1>0. UserTyped /\ LoopTyped /\ BatchOver /\ Filed /\ OneOwner /\ NewIsFree
  BY DEF QInv
<1>1. /\ phase = "dispatch" /\ phase' = "callbacks" /\ reported' = FALSE
      /\ fdAt' = (IF fdReadable THEN Never ELSE fdAt)
      /\ readNow' = clock /\ expired' = Due(clock) /\ todo' = expired'
      /\ timers' = timers \ expired'
      /\ active' = active \ {Key(e.addr) : e \in expired'}
      /\ UNCHANGED <<io, clock, heap, cancelling, posted, due, creating, nextSeq,
                     births, ids, fired, asked, stopped, raced>>
  BY DEF HandleRead, history
<1>2. expired = {}
  BY <1>0, <1>1 DEF BatchOver
<1>3. /\ expired' \subseteq timers
      /\ \A e \in expired' : e.exp <= clock
  BY <1>1 DEF Due
<1>4. \A e, f \in timers : e.addr = f.addr => e = f
  BY <1>0 DEF Filed
<1>5. Expiring' \subseteq Queued /\ Expiring = {}
  BY <1>2, <1>3 DEF Expiring, Queued
<1>6. Queued' = Queued \ Expiring'
  <2>1. ASSUME NEW a PROVE a \in Queued' <=> a \in Queued /\ a \notin Expiring'
    BY <1>1, <1>3, <1>4 DEF Queued, Expiring
  <2> QED
    BY <2>1
<1>7. Live' = Live /\ Adding' = Adding /\ Differ(posted)' /\ NewIsFree'
  BY <1>0, <1>1 DEF QInv, Live, Adding, Differ, NewIsFree
<1>8. OneOwner'
  BY <1>0, <1>5, <1>6, <1>7 DEF OneOwner
<1>9. UserTyped'
  <2>1. fdAt' \in Nat \cup {Never}
    BY <1>0, <1>1 DEF UserTyped
  <2>2. timers' \in SUBSET Entries /\ active' \in SUBSET Keys
    BY <1>0, <1>1 DEF UserTyped
  <2> QED
    BY <1>0, <1>1, <2>1, <2>2 DEF UserTyped
<1>10. LoopTyped'
  <2>1. expired' \in SUBSET Entries /\ todo' \in SUBSET expired'
    BY <1>0, <1>1, <1>3 DEF UserTyped
  <2> QED
    BY <1>0, <1>1, <2>1 DEF LoopTyped
<1>11. BatchOver' /\ ExpiredInv'
  <2>1. \A e \in expired' : e = Entry(e.addr)'
    BY <1>0, <1>1, <1>3 DEF Filed, Entry
  <2>2. clock <= clock
    BY <1>0 DEF LoopTyped
  <2> QED
    BY <1>1, <1>3, <2>1, <2>2 DEF BatchOver, ExpiredInv
<1>12. \A a \in Addrs : Key(a)' = Key(a) /\ Key(a).addr = a
  BY <1>1 DEF Key
<1>13. Filed'
  <2>1. \A e \in timers' : e = Entry(e.addr)'
    BY <1>0, <1>1 DEF Filed, Entry
  <2>2. \A k \in active' : k = Key(k.addr)'
    BY <1>0, <1>1 DEF Filed, Key
  <2>3. ASSUME NEW a \in Addrs PROVE a \in Queued' <=> Key(a)' \in active'
    <3>1. Key(a) \in {Key(e.addr) : e \in expired'} <=> a \in Expiring'
      <4>1. \A e \in expired' : e.addr \in Addrs
        BY <1>0, <1>3, EntryOf
      <4> QED
        BY <1>12, <4>1 DEF Expiring
    <3>2. a \in Queued <=> Key(a) \in active
      BY <1>0 DEF Filed
    <3> QED
      BY <1>1, <1>6, <1>12, <3>1, <3>2
  <2> QED
    BY <2>1, <2>2, <2>3 DEF Filed
<1> QED
  BY <1>7, <1>8, <1>9, <1>10, <1>11, <1>13 DEF QInv

\* reset(): what repeats goes back to the sets, the rest is freed.
LEMMA ResetKeeps ==
  ASSUME QInv, Reset
  PROVE  QInv'
<1>0. UserTyped /\ LoopTyped /\ BatchOver /\ Filed /\ OneOwner /\ NewIsFree
  BY DEF QInv
<1>1. /\ phase = "callbacks" /\ phase' = "dispatch" /\ todo = {}
      /\ heap' = [a \in Addrs |-> IF a \in Repeats THEN Restarted(a)
                                  ELSE IF a \in Deletes THEN NoTimer
                                  ELSE heap[a]]
      /\ timers' = timers \cup FiledAgain
      /\ active' = active \cup {Key(a) : a \in Repeats}
      /\ cancelling' = {} /\ expired' = {}
      /\ fdAt' = Rearm(timers')
      /\ UNCHANGED <<reported, io, clock, todo, readNow, posted, due, creating,
                     nextSeq, births, ids, fired, asked, stopped, raced>>
  BY DEF Reset, CancellingCleared, history
<1>2. Repeats \subseteq Expiring /\ Deletes = Expiring \ Repeats
  BY DEF Repeats, Deletes, Expiring
<1>3. /\ Expiring \subseteq Live /\ Live \subseteq Addrs /\ Repeats \subseteq Addrs
      /\ Expiring \cap Queued = {}
  BY <1>0, <1>2, OwnersOf DEF OneOwner
<1>4. ASSUME NEW a \in Repeats
      PROVE  /\ heap'[a] = Restarted(a) /\ Restarted(a) \in TimerRecords
             /\ Restarted(a).birth = heap[a].birth /\ Restarted(a).seq = heap[a].seq
             /\ Restarted(a).exp \in Nat
  <2>1. a \in Addrs
    BY <1>3
  <2>2. PICK r \in TimerRecords : r = heap[a]
    BY <1>0, <2>1 DEF UserTyped
  <2>3. r.interval \in Nat /\ readNow \in Nat /\ readNow + r.interval \in Nat
    BY <1>0 DEF LoopTyped, TimerRecords
  <2>4. PICK t \in Nat : t = readNow + r.interval
    BY <2>3
  <2>5. Restarted(a) = [r EXCEPT !.exp = t]
    BY <2>2, <2>4 DEF Restarted
  <2> QED
    BY <1>1, <2>1, <2>2, <2>5 DEF TimerRecords
<1>5. \A a \in Expiring \ Repeats : heap'[a] = NoTimer
  BY <1>1, <1>2, <1>3
<1>6. \A a \in Addrs \ Expiring : heap'[a] = heap[a]
  BY <1>1, <1>2
<1>7. heap' \in [Addrs -> TimerRecords]
  <2>1. NoTimer \in TimerRecords
    BY TimerQueueAssumption DEF NoTimer, TimerRecords
  <2>2. \A a \in Addrs : heap'[a] \in TimerRecords
    BY <1>0, <1>4, <1>5, <1>6, <2>1 DEF UserTyped
  <2>3. DOMAIN heap' = Addrs /\ heap' = [a \in Addrs |-> heap'[a]]
    BY <1>1
  <2> QED
    BY <2>2, <2>3
<1>8. ASSUME NEW a \in Addrs
      PROVE  a \in Live' <=> a \in Live /\ (a \in Expiring => a \in Repeats)
  <2>1. a \in Live' <=> heap'[a].birth # 0
    BY DEF Live
  <2>2. a \in Live <=> heap[a].birth # 0
    BY DEF Live
  <2>3. CASE a \in Repeats
    BY <1>4, <2>1, <2>2, <2>3
  <2>4. CASE a \in Expiring \ Repeats
    BY <1>5, <2>1, <2>4 DEF NoTimer
  <2>5. CASE a \notin Expiring
    BY <1>6, <2>1, <2>2, <2>5
  <2> QED
    BY <2>3, <2>4, <2>5
<1>9. /\ FiledAgain \in SUBSET Entries
      /\ \A e \in FiledAgain : e.addr \in Repeats /\ e = Entry(e.addr)'
      /\ \A a \in Repeats : \E e \in FiledAgain : e.addr = a
  <2>1. ASSUME NEW a \in Repeats
        PROVE  /\ [exp |-> Restarted(a).exp, addr |-> a] \in Entries
               /\ [exp |-> Restarted(a).exp, addr |-> a] = Entry(a)'
               /\ [exp |-> Restarted(a).exp, addr |-> a].addr = a
    BY <1>3, <1>4 DEF Entries, Entry
  <2> QED
    BY <2>1 DEF FiledAgain
<1>10. Queued' = Queued \cup Repeats /\ Expiring' = {} /\ Adding' = Adding
  BY <1>1, <1>9 DEF Queued, Expiring, Adding
<1>11. Live' = Queued' \cup Adding
  <2>1. Live' \subseteq Addrs
    BY DEF Live
  <2>2. \A a \in Addrs : a \in Live' <=> a \in Queued \cup Repeats \cup Adding
    BY <1>0, <1>2, <1>8 DEF OneOwner
  <2>3. Queued \cup Repeats \cup Adding \subseteq Addrs
    BY <1>3, OwnersOf
  <2> QED
    BY <1>10, <2>1, <2>2, <2>3
<1>12. OneOwner' /\ NewIsFree'
  <2>1. Queued' \cap Adding' = {}
    BY <1>0, <1>2, <1>10 DEF OneOwner
  <2>2. Live' \subseteq Live
    BY <1>0, <1>2, <1>10, <1>11 DEF OneOwner
  <2> QED
    BY <1>0, <1>1, <1>10, <1>11, <2>1, <2>2 DEF OneOwner, NewIsFree
<1>13. ASSUME NEW a \in Queued
       PROVE  a \in Addrs /\ a \notin Expiring /\ heap'[a] = heap[a]
  BY <1>3, <1>6, OwnersOf
<1>14. ASSUME NEW a \in Repeats
       PROVE  Key(a)' = Key(a) /\ Key(a) \in Keys /\ Key(a).addr = a
  BY <1>0, <1>3, <1>4, EntryOf DEF Key
<1>15. Filed'
  <2>1. ASSUME NEW e \in timers' PROVE e = Entry(e.addr)'
    <3>1. CASE e \in timers
      <4>1. e.addr \in Queued
        BY <3>1 DEF Queued
      <4> QED
        BY <1>0, <1>13, <3>1, <4>1 DEF Filed, Entry
    <3> QED
      BY <1>1, <1>9, <3>1
  <2>2. ASSUME NEW k \in active' PROVE k = Key(k.addr)'
    <3>1. CASE k \in active
      <4>1. k = Key(k.addr) /\ k.addr \in Addrs
        BY <1>0, <3>1, EntryOf DEF Filed
      <4>2. k.addr \in Queued
        BY <1>0, <3>1, <4>1 DEF Filed
      <4> QED
        BY <1>13, <4>1, <4>2 DEF Key
    <3>2. CASE \E a \in Repeats : k = Key(a)
      BY <1>14, <3>2
    <3> QED
      BY <1>1, <3>1, <3>2
  <2>3. ASSUME NEW a \in Addrs PROVE a \in Queued' <=> Key(a)' \in active'
    <3>1. CASE a \in Repeats
      BY <1>1, <1>10, <1>14, <3>1
    <3>2. CASE a \in Queued
      <4>1. Key(a)' = Key(a) /\ Key(a) \in active
        BY <1>0, <1>13, <3>2 DEF Filed, Key
      <4> QED
        BY <1>1, <1>10, <3>2, <4>1
    <3>3. CASE a \notin Repeats /\ a \notin Queued
      <4>1. \A k \in active' : k.addr \in Queued \cup Repeats
        <5>1. \A k \in active : k.addr \in Queued
          BY <1>0, EntryOf DEF Filed
        <5> QED
          BY <1>1, <1>14, <5>1
      <4>2. Key(a)'.addr = a
        BY DEF Key
      <4> QED
        BY <1>10, <3>3, <4>1, <4>2
    <3> QED
      BY <3>1, <3>2, <3>3
  <2> QED
    BY <2>1, <2>2, <2>3 DEF Filed
<1>16. timers' \in SUBSET Entries /\ active' \in SUBSET Keys
  BY <1>0, <1>1, <1>9, <1>14 DEF UserTyped
<1>17. fdAt' \in Nat \cup {Never}
  <2>1. CASE timers' = {}
    BY <1>0, <1>1, <2>1 DEF Rearm, UserTyped
  <2>2. CASE timers' # {}
    <3>1. Earliest(timers') \in Nat
      BY <1>16, <2>2, EarliestIs
    <3> QED
      BY <1>0, <1>1, <2>2, <3>1 DEF Rearm, ArmAt, Later, LoopTyped
  <2> QED
    BY <2>1, <2>2
<1>18. UserTyped' /\ LoopTyped' /\ BatchOver' /\ ExpiredInv' /\ Differ(posted)'
  <2>1. UserTyped'
    BY <1>0, <1>1, <1>7, <1>16, <1>17 DEF UserTyped
  <2>2. LoopTyped'
    BY <1>0, <1>1 DEF LoopTyped
  <2>3. BatchOver' /\ ExpiredInv' /\ Differ(posted)'
    BY <1>1 DEF QInv, BatchOver, ExpiredInv, Differ
  <2> QED
    BY <2>1, <2>2, <2>3
<1> QED
  BY <1>12, <1>15, <1>18 DEF QInv

LEMMA NextKeepsQInv == QInv /\ [Next]_tqvars => QInv'
<1> SUFFICES ASSUME QInv, [Next]_tqvars PROVE QInv'
  OBVIOUS
<1>1. CASE \/ \E other \in BOOLEAN : Poll(other)
           \/ DispatchDone \/ FunctorsDone \/ Tick \/ UNCHANGED tqvars
  BY <1>1, QuietActions
<1>2. CASE HandleIo
  BY <1>2, HandleIoKeeps
<1>3. CASE HandleRead
  BY <1>3, HandleReadKeeps
<1>4. CASE RunCallback
  BY <1>4, RunCallbackKeeps
<1>5. CASE Reset
  BY <1>5, ResetKeeps
<1>6. CASE RunFunctor
  BY <1>6, RunFunctorKeeps
<1>7. CASE \E a \in Addrs : OtherReadsSeq(a)
  BY <1>7, OtherReadsSeqKeeps
<1>8. CASE \E exp \in clock..MaxTime, interval \in Intervals : OtherAdds(exp, interval)
  BY <1>8, OtherAddsKeeps
<1>9. CASE \E id \in ids : OtherCancels(id)
  BY <1>9, OtherCancelsKeeps
<1> QED
  BY <1>1, <1>2, <1>3, <1>4, <1>5, <1>6, <1>7, <1>8, <1>9 DEF Next

LEMMA QInvHolds == Spec => []QInv
BY InitQInv, NextKeepsQInv, PTL DEF Spec

\* A Timer that lives is held in one place, and nothing freed is held: timers_,
\* handleRead()'s list and the functors on their way, through addTimerInLoop,
\* cancelInLoop and reset (TimerQueue.cc:92, 125, 218).
THEOREM TimersHaveOneOwner == Spec => []OneOwner
<1>1. QInv => OneOwner
  BY DEF QInv
<1> QED
  BY <1>1, QInvHolds, PTL

LEMMA SetsOfQInv == QInv => SetsAgree
<1> SUFFICES ASSUME QInv PROVE SetsAgree
  OBVIOUS
<1>1. UserTyped /\ LoopTyped /\ BatchOver /\ Filed
  BY DEF QInv
<1>2. TypeOK
  BY <1>1 DEF UserTyped, LoopTyped, BatchOver, TypeOK, Ops
<1>3. timers = {Entry(a) : a \in Queued}
  <2>1. ASSUME NEW e \in timers PROVE e.addr \in Queued /\ e = Entry(e.addr)
    BY <1>1 DEF Filed, Queued
  <2>2. ASSUME NEW a \in Queued PROVE Entry(a) \in timers
    <3>1. PICK e \in timers : e.addr = a
      BY DEF Queued
    <3> QED
      BY <1>1, <3>1 DEF Filed
  <2> QED
    BY <2>1, <2>2
<1>4. active = {Key(a) : a \in Queued}
  <2>1. ASSUME NEW k \in active PROVE k.addr \in Queued /\ k = Key(k.addr)
    BY <1>1, EntryOf DEF Filed
  <2>2. ASSUME NEW a \in Queued PROVE Key(a) \in active
    BY <1>1, OwnersOf DEF Filed
  <2> QED
    BY <2>1, <2>2
<1> QED
  BY <1>2, <1>3, <1>4 DEF SetsAgree

\* timers_ and activeTimers_ hold the same timers, each under the expiration
\* and number it has, so that each erase finds what it looks for
\* (TimerQueue.cc:137, 204, 212).
THEOREM SetsStayAlike == Spec => []SetsAgree
BY SetsOfQInv, QInvHolds, PTL

\* No callback runs before its timer's expiration: getExpired takes what is due
\* and nothing moves an expiration until reset() (TimerQueue.cc:191, 218).
THEOREM NoneRunsEarly == Spec => NeverEarly
<1>1. ASSUME QInv, NEW e \in todo \ todo' PROVE heap[e.addr].exp <= clock
  <2>1. e \in expired
    BY <1>1 DEF QInv, LoopTyped
  <2>2. e.exp \in Nat /\ e.exp <= readNow /\ readNow <= clock /\ e = Entry(e.addr)
    BY <1>1, <2>1 DEF QInv, LoopTyped, ExpiredInv, Entries
  <2>3. heap[e.addr].exp = e.exp
    BY <2>2 DEF Entry
  <2>4. readNow \in Nat /\ clock \in Nat
    BY <1>1 DEF QInv, LoopTyped
  <2> QED
    BY <2>2, <2>3, <2>4
<1>2. QInv /\ [Next]_tqvars
      => [\A e \in todo \ todo' : heap[e.addr].exp <= clock]_tqvars
  BY <1>1
<1> QED
  BY <1>2, QInvHolds, PTL DEF Spec, NeverEarly

-----------------------------------------------------------------------------
(* The timerfd *)

\* DeadlineArmed, of each timer alone.
Armed ==
  ~handleTimer =>
    \A e \in timers : fdAt # Never /\ (fdAt <= e.exp \/ fdAt <= clock + 1)

LEMMA ArmForNewArms ==
  ASSUME UserTyped, clock \in Nat, NEW exp \in Nat,
         \A e \in timers : fdAt # Never /\ (fdAt <= e.exp \/ fdAt <= clock + 1),
         fdAt' = ArmForNew(exp), NEW f \in Entries, f.exp = exp,
         timers' = timers \cup {f}
  PROVE  \A e \in timers' : fdAt' # Never /\ (fdAt' <= e.exp \/ fdAt' <= clock + 1)
<1>1. \A e \in timers : e.exp \in Nat
  BY DEF UserTyped, Entries
<1>2. CASE \A e \in timers : exp < e.exp
  <2>1. (fdAt' = exp /\ fdAt' >= clock + 1) \/ fdAt' = clock + 1
    <3>1. fdAt' = ArmAt(exp)
      BY <1>2, Zenon DEF ArmForNew
    <3> QED
      BY <3>1 DEF ArmAt, Later
  <2>2. fdAt' \in Nat /\ fdAt' # Never
    BY <2>1 DEF Never
  <2> QED
    BY <1>1, <1>2, <2>1, <2>2
<1>3. CASE \E e \in timers : ~(exp < e.exp)
  <2>1. PICK d \in timers : ~(exp < d.exp)
    BY <1>3
  <2>2. fdAt' = fdAt /\ fdAt # Never /\ fdAt \in Nat
    BY <1>3 DEF ArmForNew, UserTyped
  <2>3. fdAt <= exp \/ fdAt <= clock + 1
    BY <1>1, <2>1, <2>2
  <2> QED
    BY <2>2, <2>3
<1> QED
  BY <1>2, <1>3

LEMMA UserCodeArms ==
  ASSUME QInv, UserCode,
         \A e \in timers : fdAt # Never /\ (fdAt <= e.exp \/ fdAt <= clock + 1)
  PROVE  \A e \in timers' : fdAt' # Never /\ (fdAt' <= e.exp \/ fdAt' <= clock + 1)
<1>1. ASSUME NEW a \in Addrs, NEW exp \in clock..MaxTime, NEW interval \in Intervals,
             LoopAdds(a, exp, interval)
      PROVE  \A e \in timers' : fdAt' # Never /\ (fdAt' <= e.exp \/ fdAt' <= clock + 1)
  <2>1. UserTyped /\ clock \in Nat /\ exp \in Nat /\ nextSeq \in Nat
    BY TimerQueueAssumption DEF QInv, LoopTyped, UserTyped
  <2>2. Create(a, nextSeq, exp, interval) /\ a \notin Live
        /\ AddTimerInLoop(a, heap'[a])
    BY <1>1 DEF LoopAdds
  <2>3. heap'[a].exp = exp
    BY <2>1, <2>2, CreateEffect
  <2>4. PICK f \in Entries : f = [exp |-> exp, addr |-> a]
    BY <2>1 DEF Entries
  <2>5. f.exp = exp /\ timers' = timers \cup {f} /\ fdAt' = ArmForNew(exp)
    BY <2>2, <2>3, <2>4 DEF AddTimerInLoop
  <2> QED
    BY <2>1, <2>5, ArmForNewArms
<1>2. ASSUME NEW id \in ids, LoopCancels(id)
      PROVE  timers' \subseteq timers /\ fdAt' = fdAt
  <2>1. id \in Ids
    BY DEF QInv, UserTyped
  <2> QED
    BY <1>2, <2>1, CancelEffect DEF LoopCancels
<1> QED
  BY <1>1, <1>2 DEF UserCode, sets

LEMMA NextArms == QInv /\ Armed /\ [Next]_tqvars => Armed'
<1> SUFFICES ASSUME QInv, Armed, [Next]_tqvars PROVE Armed'
  OBVIOUS
<1> DEFINE Safe == \A e \in timers : fdAt # Never /\ (fdAt <= e.exp \/ fdAt <= clock + 1)
<1>0. /\ UserTyped /\ LoopTyped /\ clock \in Nat
      /\ phase # "callbacks" => Safe
  BY DEF QInv, LoopTyped, Armed, handleTimer
<1>1. CASE \/ \E other \in BOOLEAN : Poll(other)
           \/ DispatchDone \/ FunctorsDone \/ Tick \/ UNCHANGED tqvars
           \/ \E a \in Addrs : OtherReadsSeq(a)
           \/ \E exp \in clock..MaxTime, interval \in Intervals : OtherAdds(exp, interval)
           \/ \E id \in ids : OtherCancels(id)
  <2>1. /\ UNCHANGED <<fdAt, timers>>
        /\ phase' # "callbacks" => phase # "callbacks"
        /\ clock' = clock \/ clock' = clock + 1
    BY <1>1 DEF Poll, DispatchDone, FunctorsDone, Tick, tqvars, sets, OtherReadsSeq,
                OtherAdds, OtherCancels
  <2>2. \A e \in timers : e.exp \in Nat
    BY <1>0 DEF UserTyped, Entries
  <2>3. Safe => Safe'
    BY <1>0, <2>1, <2>2 DEF UserTyped
  <2> QED
    BY <1>0, <2>1, <2>3 DEF Armed, handleTimer
<1>2. CASE HandleIo
  <2>1. phase = "dispatch" /\ UserCode /\ clock' = clock
    BY <1>2 DEF HandleIo
  <2>2. Safe'
    BY <1>0, <2>1, UserCodeArms
  <2> QED
    BY <2>2 DEF Armed
<1>3. CASE HandleRead
  BY <1>3 DEF HandleRead, Armed, handleTimer
<1>4. CASE RunCallback
  BY <1>4 DEF RunCallback, Armed, handleTimer
<1>5. CASE Reset
  <2>1. timers' \in SUBSET Entries
    BY <1>5, ResetKeeps DEF QInv, UserTyped
  <2>2. fdAt' = Rearm(timers') /\ clock' = clock
    BY <1>5 DEF Reset
  <2>3. CASE timers' # {}
    <3>1. Earliest(timers') \in Nat /\ \A e \in timers' : Earliest(timers') <= e.exp
      BY <2>1, <2>3, EarliestIs
    <3>2. fdAt' = Earliest(timers') \/ fdAt' = clock + 1
      BY <1>0, <2>2, <2>3, <3>1 DEF Rearm, ArmAt, Later
    <3> QED
      BY <1>0, <2>2, <3>1, <3>2 DEF Armed, Never
  <2> QED
    BY <2>3 DEF Armed
<1>6. CASE RunFunctor
  <2>1. phase = "functors" /\ clock' = clock /\ Safe /\ posted # <<>>
        /\ posted \in Seq(Ops)
    BY <1>0, <1>6 DEF RunFunctor, LoopTyped
  <2>2. PICK f \in Ops : f = Head(posted)
    BY <2>1, HeadTailProperties
  <2>3. CASE f.op = "add"
    <3>1. PICK a : a = f.id.addr
      OBVIOUS
    <3>2. a \in Addrs
      BY <3>1 DEF Ops, Ids
    <3>3. PICK exp \in Nat : exp = heap[a].exp
      BY <1>0, <3>2 DEF UserTyped, TimerRecords
    <3>4. PICK e \in Entries : e = [exp |-> exp, addr |-> a]
      BY <3>2 DEF Entries
    <3>5. e.exp = exp /\ timers' = timers \cup {e} /\ fdAt' = ArmForNew(exp)
      BY <1>6, <2>2, <2>3, <3>1, <3>3, <3>4 DEF RunFunctor, AddTimerInLoop
    <3>6. Safe'
      BY <1>0, <2>1, <3>5, ArmForNewArms
    <3> QED
      BY <3>6 DEF Armed
  <2>4. CASE f.op # "add"
    <3>1. PICK id \in Ids : id = f.id
      BY DEF Ops
    <3>2. CancelInLoop(id) /\ fdAt' = fdAt
      BY <1>6, <2>2, <2>4, <3>1 DEF RunFunctor
    <3>3. timers' \subseteq timers
      BY <3>2, CancelEffect
    <3> QED
      BY <2>1, <3>2, <3>3 DEF Armed
  <2> QED
    BY <2>3, <2>4
<1> QED
  BY <1>1, <1>2, <1>3, <1>4, <1>5, <1>6 DEF Next

\* While the loop may sleep, the timerfd is armed for the earliest timer, or for
\* the least delay from now, after addTimer, cancel and reset
\* (TimerQueue.cc:92, 125, 218).
THEOREM TimerfdIsArmed == Spec => []DeadlineArmed
<1>1. Init => Armed
  BY DEF Init, Armed
<1>2. QInv /\ Armed => DeadlineArmed
  <2> SUFFICES ASSUME QInv, Armed, ~handleTimer, timers # {}
               PROVE  fdAt # Never /\ fdAt <= Later(Earliest(timers), clock + 1)
    BY DEF DeadlineArmed
  <2>1. timers \in SUBSET Entries /\ clock \in Nat /\ fdAt \in Nat \cup {Never}
    BY DEF QInv, UserTyped, LoopTyped
  <2>2. Earliest(timers) \in Nat /\ \E e \in timers : Earliest(timers) = e.exp
    BY <2>1, EarliestIs
  <2>3. fdAt # Never /\ (fdAt <= Earliest(timers) \/ fdAt <= clock + 1)
    BY <2>2 DEF Armed
  <2> QED
    BY <2>1, <2>2, <2>3 DEF Later
<1> QED
  BY <1>1, <1>2, NextArms, QInvHolds, PTL DEF Spec

-----------------------------------------------------------------------------
(* Births: what cancel ended, and whose it was *)

\* A timer is made,
Created(a) ==
  /\ a \in Addrs /\ a \notin Live
  /\ births' = births + 1 /\ births + 1 \in Births
  /\ heap'[a].birth = births + 1 /\ heap'[a].seq \in Nat
  /\ \A b \in Addrs : b # a => heap'[b] = heap[b]
  /\ ids' = ids \cup {[seq |-> heap'[a].seq, addr |-> a, birth |-> births + 1]}
  /\ nextSeq' = heap'[a].seq + 1
  /\ ~raced' => ~raced /\ heap'[a].seq = nextSeq
  /\ UNCHANGED <<cancelling, asked, stopped>>
\* is cancelled,
Cancelled(id) ==
  /\ id \in ids /\ CancelInLoop(id)
  /\ UNCHANGED <<nextSeq, births, ids, raced>>
\* or none is.
Untouched == UNCHANGED <<heap, cancelling, nextSeq, births, ids, asked, stopped, raced>>

Touched == (\E a \in Addrs : Created(a)) \/ (\E id \in ids : Cancelled(id)) \/ Untouched

PostedIds == {posted[i].id : i \in 1..Len(posted)}

\* No two timers have one birth, and one that was stopped and lives waits in
\* the list of handleRead() to be freed by reset().
StopInv ==
  /\ \A a \in Addrs : heap[a].birth <= births
  /\ \A a, b \in Live : heap[a].birth = heap[b].birth => a = b
  /\ \A s \in stopped : s <= births
  /\ \A a \in Live : heap[a].birth \in stopped
                     => a \in Expiring /\ Key(a) \in cancelling
  /\ \A e \in expired : e \notin todo => heap[e.addr].birth \in fired

\* Unless two threads raced for one number, an id names one timer, and a timer
\* that lives has its id.
Numbered ==
  ~raced => /\ \A id \in ids : id.seq < nextSeq
            /\ \A i, j \in ids : i.seq = j.seq => i = j
            /\ \A a \in Live :
                 [seq |-> heap[a].seq, addr |-> a, birth |-> heap[a].birth] \in ids

IdInv == Numbered /\ PostedIds \subseteq ids /\ OwnIdOnly

LEMMA CreateIs ==
  ASSUME QInv, NEW a \in Addrs, a \notin Live, NEW seq \in Nat, NEW exp \in Nat,
         NEW interval \in Intervals, Create(a, seq, exp, interval),
         nextSeq' = seq + 1, ~raced' => ~raced /\ seq = nextSeq,
         UNCHANGED <<cancelling, asked, stopped>>
  PROVE  Created(a)
<1>1. UserTyped /\ births \in Nat
  BY TimerQueueAssumption DEF QInv, UserTyped
<1>2. PICK t : t = [birth |-> births + 1, seq |-> seq, exp |-> exp, interval |-> interval]
  OBVIOUS
<1>3. t.birth = births + 1 /\ t.seq = seq
  BY <1>2
<1>4. /\ births < MaxBirths /\ births' = births + 1
      /\ heap' = [heap EXCEPT ![a] = t]
      /\ ids' = ids \cup {[seq |-> seq, addr |-> a, birth |-> births + 1]}
  BY <1>2 DEF Create
<1>5. births + 1 \in Births
  BY <1>1, <1>4, TimerQueueAssumption DEF Births
<1>6. heap'[a] = t /\ \A b \in Addrs : b # a => heap'[b] = heap[b]
  BY <1>1, <1>4 DEF UserTyped
<1> QED
  BY <1>3, <1>4, <1>5, <1>6 DEF Created

LEMMA UserCodeTouches ==
  ASSUME QInv, UserCode, UNCHANGED raced
  PROVE  Touched
<1>1. ASSUME NEW a \in Addrs, NEW exp \in clock..MaxTime, NEW interval \in Intervals,
             LoopAdds(a, exp, interval)
      PROVE  Created(a)
  <2>1. exp \in Nat /\ nextSeq \in Nat
    BY TimerQueueAssumption DEF QInv, LoopTyped, UserTyped
  <2>2. /\ a \notin Live /\ Create(a, nextSeq, exp, interval)
        /\ nextSeq' = nextSeq + 1 /\ UNCHANGED <<cancelling, asked, stopped>>
    BY <1>1 DEF LoopAdds
  <2> QED
    BY <2>1, <2>2, CreateIs
<1>2. ASSUME NEW id \in ids, LoopCancels(id)
      PROVE  Cancelled(id)
  BY <1>2 DEF LoopCancels, Cancelled
<1>3. CASE UNCHANGED <<fdAt, heap, sets, nextSeq, births, ids, asked, stopped>>
  BY <1>3 DEF Touched, Untouched, sets
<1> QED
  BY <1>1, <1>2, <1>3 DEF UserCode, Touched

LEMMA CancelTakes ==
  ASSUME QInv, NEW id \in Ids, CancelInLoop(id)
  PROVE  /\ asked' = asked \cup {id.birth}
         /\ \/ /\ Freeing(id.addr)
               /\ heap[id.addr].seq = id.seq
               /\ stopped' = stopped \cup {heap[id.addr].birth}
               /\ cancelling' = cancelling
            \/ /\ Same
               /\ cancelling \subseteq cancelling'
               /\ \A s \in stopped' :
                    \/ s \in stopped
                    \/ \E e \in expired : /\ s = heap[e.addr].birth
                                          /\ Key(e.addr) \in cancelling'
<1>1. PICK key : key = [seq |-> id.seq, addr |-> id.addr]
  OBVIOUS
<1>2. UserTyped /\ Filed /\ id.addr \in Addrs /\ key.seq = id.seq /\ key.addr = id.addr
  BY <1>1 DEF QInv, Ids
<1>3. asked' = asked \cup {id.birth}
  BY DEF CancelInLoop
<1>4. CASE key \in active
  <2>1. /\ timers' = timers \ {Entry(id.addr)}
        /\ active' = active \ {Key(id.addr)}
        /\ heap' = [heap EXCEPT ![id.addr] = NoTimer]
        /\ stopped' = stopped \cup {heap[id.addr].birth}
        /\ cancelling' = cancelling
    BY <1>1, <1>4 DEF CancelInLoop, FindActive
  <2>2. key = Key(id.addr) /\ id.addr \in Queued
    BY <1>2, <1>4 DEF Filed
  <2>3. heap[id.addr].seq = id.seq
    BY <1>2, <2>2 DEF Key
  <2>4. Freeing(id.addr)
    BY <1>2, <2>1, <2>2, CancelFrees
  <2> QED
    BY <1>3, <2>1, <2>3, <2>4
<1>5. CASE key \notin active
  <2>1. /\ UNCHANGED <<timers, active, heap>>
        /\ \/ /\ cancelling' = cancelling \cup {key}
              /\ stopped' = stopped \cup
                   {heap[e.addr].birth : e \in {f \in expired : Key(f.addr) = key}}
           \/ cancelling' = cancelling /\ stopped' = stopped
    BY <1>1, <1>5 DEF CancelInLoop, FindActive, sets
  <2>2. Same
    BY <1>2, <2>1, SameFiled
  <2> QED
    BY <1>3, <2>1, <2>2
<1> QED
  BY <1>4, <1>5

\* Every step but those of handleRead() itself.
LEMMA StepTouches ==
  ASSUME QInv, PostedIds \subseteq ids, [Next]_tqvars
  PROVE  \/ Reset
         \/ HandleRead
         \/ /\ expired' = expired /\ Touched
            /\ \/ todo' = todo /\ fired' = fired
               \/ \E e \in todo : /\ todo' = todo \ {e}
                                  /\ fired' = fired \cup {heap[e.addr].birth}
<1>1. CASE \/ \E other \in BOOLEAN : Poll(other)
           \/ DispatchDone \/ FunctorsDone \/ Tick \/ UNCHANGED tqvars
           \/ \E a \in Addrs : OtherReadsSeq(a)
           \/ \E id \in ids : OtherCancels(id)
  BY <1>1 DEF Poll, DispatchDone, FunctorsDone, Tick, tqvars, sets, batch, history,
              OtherReadsSeq, OtherCancels, Untouched, Touched
<1>2. CASE \E exp \in clock..MaxTime, interval \in Intervals : OtherAdds(exp, interval)
  <2>1. PICK exp \in clock..MaxTime, interval \in Intervals : OtherAdds(exp, interval)
    BY <1>2
  <2>2. exp \in Nat /\ UserTyped /\ LoopTyped /\ NewIsFree
    BY TimerQueueAssumption DEF QInv, LoopTyped
  <2>3. creating \in Keys
    BY <2>1, <2>2 DEF OtherAdds, LoopTyped
  <2>4. PICK a \in Addrs, seq \in Nat : a = creating.addr /\ seq = creating.seq
    BY <2>3 DEF Keys
  <2>5. /\ a \notin Live /\ Create(a, seq, exp, interval) /\ nextSeq' = seq + 1
        /\ ~raced' => ~raced /\ seq = nextSeq
        /\ UNCHANGED <<cancelling, asked, stopped, expired, todo, fired>>
    BY <2>1, <2>2, <2>4 DEF OtherAdds, NewIsFree, sets, batch
  <2> QED
    BY <2>2, <2>5, CreateIs DEF Touched
<1>3. CASE HandleIo
  BY <1>3, UserCodeTouches DEF HandleIo, batch
<1>4. CASE RunCallback
  <2>1. UNCHANGED <<raced, expired>> /\ UserCode
    BY <1>4 DEF RunCallback
  <2>2. \E e \in todo : todo' = todo \ {e} /\ fired' = fired \cup {heap[e.addr].birth}
    BY <1>4 DEF RunCallback
  <2> QED
    BY <2>1, <2>2, UserCodeTouches
<1>5. CASE RunFunctor
  <2>1. /\ posted \in Seq(Ops) /\ posted # <<>>
        /\ UNCHANGED <<expired, todo, fired, nextSeq, births, ids, raced>>
    BY <1>5 DEF RunFunctor, QInv, LoopTyped, batch
  <2>2. PICK f \in Ops : f = Head(posted)
    BY <2>1, HeadTailProperties
  <2>3. f.id \in ids
    <3>1. f = posted[1] /\ 1 \in 1..Len(posted)
      BY <2>1, <2>2
    <3> QED
      BY <3>1 DEF PostedIds
  <2>4. f.op = "add" => UNCHANGED <<heap, cancelling, asked, stopped>>
    BY <1>5, <2>2 DEF RunFunctor
  <2>5. f.op # "add" => CancelInLoop(f.id)
    BY <1>5, <2>2 DEF RunFunctor
  <2> QED
    BY <2>1, <2>3, <2>4, <2>5 DEF Touched, Untouched, Cancelled
<1> QED
  BY <1>1, <1>2, <1>3, <1>4, <1>5 DEF Next

\* What a step does to one Timer that lives on.
LEMMA LivesOn ==
  ASSUME QInv, Touched
  PROVE  /\ \A a \in Live' : \/ a \in Live /\ heap'[a] = heap[a]
                             \/ Created(a)
         /\ \A a \in Expiring : heap'[a] = heap[a]
         /\ cancelling \subseteq cancelling'
         /\ births' \in Nat /\ births \in Nat /\ births <= births'
<1>1. Live' \subseteq Addrs /\ Expiring \subseteq Live /\ Live \subseteq Addrs
      /\ births \in Nat /\ Expiring \cap Queued = {}
  BY OwnersOf, TimerQueueAssumption DEF Live, QInv, UserTyped, OneOwner
<1>2. CASE \E a \in Addrs : Created(a)
  <2>1. PICK a \in Addrs : Created(a)
    BY <1>2
  <2>2. \A b \in Addrs : b # a => (b \in Live' <=> b \in Live)
    BY <2>1 DEF Created, Live
  <2> QED
    BY <1>1, <2>1, <2>2 DEF Created
<1>3. CASE \E id \in ids : Cancelled(id)
  <2>1. PICK id \in ids : Cancelled(id)
    BY <1>3
  <2>2. id \in Ids /\ CancelInLoop(id) /\ births' = births
    BY <2>1 DEF Cancelled, QInv, UserTyped
  <2>3. (Freeing(id.addr) \/ Same) /\ cancelling \subseteq cancelling'
    BY <2>2, CancelTakes
  <2> QED
    BY <1>1, <2>2, <2>3 DEF Freeing, Same
<1>4. CASE Untouched
  <2>1. Live' = Live
    BY <1>4 DEF Untouched, Live
  <2> QED
    BY <1>1, <1>4, <2>1 DEF Untouched
<1> QED
  BY <1>2, <1>3, <1>4 DEF Touched

LEMMA TouchKeepsStop ==
  ASSUME QInv, StopInv, Touched, expired' = expired,
         \/ todo' = todo /\ fired' = fired
         \/ \E e \in todo : /\ todo' = todo \ {e}
                            /\ fired' = fired \cup {heap[e.addr].birth}
  PROVE  StopInv'
<1>0. Live \subseteq Addrs /\ UserTyped /\ births \in Nat /\ Expiring' = Expiring
      /\ \A e \in expired : e.addr \in Expiring
  BY OwnersOf, TimerQueueAssumption DEF QInv, UserTyped, Expiring
<1>1. /\ \A a \in Live' : (a \in Live /\ heap'[a] = heap[a]) \/ Created(a)
      /\ \A a \in Expiring : heap'[a] = heap[a]
      /\ cancelling \subseteq cancelling'
      /\ births' \in Nat /\ births <= births'
  BY LivesOn
<1>2. \A a \in Live : heap[a].birth \in Nat /\ heap[a].birth <= births
  BY <1>0, TimerQueueAssumption DEF StopInv, UserTyped, TimerRecords
<1>3. \A a \in Addrs : Created(a) => heap'[a].birth = births + 1
  BY DEF Created
<1>4. ASSUME NEW a \in Addrs PROVE heap'[a].birth <= births'
  <2>1. CASE a \in Live'
    BY <1>0, <1>1, <1>2, <2>1 DEF Created
  <2>2. CASE a \notin Live'
    <3>1. heap'[a].birth = 0
      BY <2>2 DEF Live
    <3> QED
      BY <1>1, <3>1
  <2> QED
    BY <2>1, <2>2
<1>5. ASSUME NEW a \in Live', NEW b \in Live', heap'[a].birth = heap'[b].birth
      PROVE  a = b
  <2>0. a \in Addrs /\ b \in Addrs
    BY DEF Live
  <2>1. CASE Created(a) /\ b \in Live /\ heap'[b] = heap[b]
    <3>1. heap[b].birth = births + 1
      BY <1>3, <1>5, <2>0, <2>1
    <3> QED
      BY <1>0, <1>2, <2>1, <3>1
  <2>2. CASE Created(b) /\ a \in Live /\ heap'[a] = heap[a]
    <3>1. heap[a].birth = births + 1
      BY <1>3, <1>5, <2>0, <2>2
    <3> QED
      BY <1>0, <1>2, <2>2, <3>1
  <2>3. CASE Created(a) /\ Created(b)
    <3>1. a # b => heap'[b] = heap[b] /\ b \notin Live /\ b \in Addrs
      BY <2>3 DEF Created
    <3>2. b \notin Live /\ b \in Addrs => heap[b].birth = 0
      BY DEF Live
    <3>3. heap'[b].birth = births + 1
      BY <2>3 DEF Created
    <3> QED
      BY <1>0, <3>1, <3>2, <3>3
  <2>4. CASE a \in Live /\ heap'[a] = heap[a] /\ b \in Live /\ heap'[b] = heap[b]
    BY <1>5, <2>4 DEF StopInv
  <2> QED
    BY <1>1, <2>1, <2>2, <2>3, <2>4
<1>6. /\ \A s \in stopped' : s <= births'
      /\ \A a \in Live' : heap'[a].birth \in stopped'
                          => a \in Expiring' /\ Key(a)' \in cancelling'
  <2>1. CASE \E a \in Addrs : Created(a)
    <3>1. stopped' = stopped /\ births' = births + 1
      BY <2>1 DEF Created
    <3>2. stopped \subseteq Nat
      BY <1>0 DEF UserTyped, Births
    <3>3. \A s \in stopped : s <= births' /\ s # births + 1
      BY <1>0, <3>1, <3>2 DEF StopInv
    <3>4. ASSUME NEW a \in Live', heap'[a].birth \in stopped'
          PROVE  a \in Expiring' /\ Key(a)' \in cancelling'
      <4>1. ~Created(a)
        BY <3>1, <3>3, <3>4 DEF Created
      <4>2. a \in Live /\ heap'[a] = heap[a]
        BY <1>1, <4>1
      <4> QED
        BY <1>0, <1>1, <3>1, <3>4, <4>2 DEF StopInv, Key
    <3> QED
      BY <3>1, <3>3, <3>4
  <2>2. CASE \E id \in ids : Cancelled(id)
    <3>1. PICK id \in ids : Cancelled(id)
      BY <2>2
    <3>2. id \in Ids /\ CancelInLoop(id) /\ births' = births
      BY <1>0, <3>1 DEF Cancelled, UserTyped
    <3>3. CASE /\ Freeing(id.addr)
               /\ stopped' = stopped \cup {heap[id.addr].birth}
               /\ cancelling' = cancelling
      <4>1. /\ id.addr \in Live /\ Live' = Live \ {id.addr}
            /\ \A b \in Addrs : b # id.addr => heap'[b] = heap[b]
        BY <3>3, OwnersOf DEF Freeing
      <4>2. \A s \in stopped' : s <= births'
        BY <1>2, <3>2, <3>3, <4>1 DEF StopInv
      <4>3. ASSUME NEW a \in Live', heap'[a].birth \in stopped'
            PROVE  a \in Expiring' /\ Key(a)' \in cancelling'
        <5>1. a \in Live /\ a # id.addr /\ heap'[a] = heap[a]
          BY <1>0, <4>1
        <5>2. heap[a].birth # heap[id.addr].birth
          BY <4>1, <5>1 DEF StopInv
        <5> QED
          BY <1>0, <3>3, <4>3, <5>1, <5>2 DEF StopInv, Key
      <4> QED
        BY <4>2, <4>3
    <3>4. CASE /\ Same
               /\ \A s \in stopped' :
                    \/ s \in stopped
                    \/ \E e \in expired : /\ s = heap[e.addr].birth
                                          /\ Key(e.addr) \in cancelling'
      <4>1. heap' = heap /\ Live' = Live
        BY <3>4 DEF Same
      <4>2. \A e \in expired : e.addr \in Expiring /\ e.addr \in Live
        BY <1>0, OwnersOf
      <4>3. \A s \in stopped' : s <= births'
        BY <1>2, <3>2, <3>4, <4>2 DEF StopInv
      <4>4. ASSUME NEW a \in Live, heap[a].birth \in stopped'
            PROVE  a \in Expiring /\ Key(a) \in cancelling'
        <5>1. CASE heap[a].birth \in stopped
          BY <1>1, <5>1 DEF StopInv
        <5>2. CASE \E e \in expired : /\ heap[a].birth = heap[e.addr].birth
                                      /\ Key(e.addr) \in cancelling'
          BY <4>2, <5>2 DEF StopInv
        <5> QED
          BY <3>4, <4>4, <5>1, <5>2
      <4> QED
        BY <1>0, <4>1, <4>3, <4>4 DEF Key
    <3> QED
      BY <3>2, <3>3, <3>4, CancelTakes
  <2>3. CASE Untouched
    BY <1>0, <2>3 DEF Untouched, StopInv, Key, Live
  <2> QED
    BY <2>1, <2>2, <2>3 DEF Touched
<1>7. \A e \in expired' : e \notin todo' => heap'[e.addr].birth \in fired'
  BY <1>0, <1>1 DEF StopInv
<1> QED
  BY <1>4, <1>5, <1>6, <1>7 DEF StopInv

LEMMA HandleReadKeepsStop ==
  ASSUME QInv, StopInv, HandleRead
  PROVE  StopInv'
<1>1. /\ UNCHANGED <<heap, births, stopped, fired, cancelling>>
      /\ phase = "dispatch" /\ todo' = expired'
  BY DEF HandleRead, history
<1>2. Live' = Live /\ Expiring = {}
  BY <1>1 DEF Live, QInv, BatchOver, Expiring
<1>3. \A a \in Live : heap[a].birth \notin stopped
  BY <1>2 DEF StopInv
<1> QED
  BY <1>1, <1>2, <1>3 DEF StopInv

\* what reset() leaves and what it frees
LEMMA ResetLeaves ==
  ASSUME QInv, Reset
  PROVE  /\ Live' \subseteq Live
         /\ \A a \in Live' : /\ heap'[a].birth = heap[a].birth
                             /\ heap'[a].seq = heap[a].seq
                             /\ a \in Expiring => Key(a) \notin cancelling
         /\ \A a \in Live : a \notin Live' => a \in Expiring
<1>1. heap' = [a \in Addrs |-> IF a \in Repeats THEN Restarted(a)
                               ELSE IF a \in Deletes THEN NoTimer
                               ELSE heap[a]]
  BY DEF Reset
<1>2. UserTyped /\ Expiring \subseteq Addrs /\ Live \subseteq Addrs /\ Expiring \subseteq Live
  BY OwnersOf DEF QInv
<1>3. Repeats \subseteq Expiring /\ Deletes = Expiring \ Repeats
      /\ \A a \in Repeats : Key(a) \notin cancelling
  BY DEF Repeats, Deletes, Expiring
<1>4. ASSUME NEW a \in Addrs
      PROVE  /\ a \in Live' => /\ a \in Live
                               /\ heap'[a].birth = heap[a].birth
                               /\ heap'[a].seq = heap[a].seq
                               /\ a \in Expiring => Key(a) \notin cancelling
             /\ a \in Live => a \in Live' \/ a \in Expiring
  <2>1. (a \in Live' <=> heap'[a].birth # 0) /\ (a \in Live <=> heap[a].birth # 0)
    BY DEF Live
  <2>2. CASE a \in Repeats
    <3>1. heap'[a] = Restarted(a) /\ a \in Live
      BY <1>1, <1>2, <1>3, <2>2
    <3>2. Restarted(a).birth = heap[a].birth /\ Restarted(a).seq = heap[a].seq
      <4>1. PICK r \in TimerRecords : r = heap[a]
        BY <1>2 DEF UserTyped
      <4> QED
        BY <4>1 DEF Restarted, TimerRecords
    <3> QED
      BY <1>3, <2>2, <3>1, <3>2
  <2>3. CASE a \in Expiring \ Repeats
    BY <1>1, <1>3, <2>1, <2>3 DEF NoTimer
  <2>4. CASE a \notin Expiring
    BY <1>1, <1>3, <2>1, <2>4
  <2> QED
    BY <2>2, <2>3, <2>4
<1>5. Live' \subseteq Addrs
  BY DEF Live
<1> QED
  BY <1>2, <1>4, <1>5

LEMMA ResetKeepsStop ==
  ASSUME QInv, StopInv, Reset
  PROVE  StopInv'
<1>1. UNCHANGED <<births, stopped, fired>> /\ expired' = {}
  BY DEF Reset, history
<1>2. /\ Live' \subseteq Live
      /\ \A a \in Live' : /\ heap'[a].birth = heap[a].birth
                          /\ a \in Expiring => Key(a) \notin cancelling
  BY ResetLeaves
<1>3. ASSUME NEW a \in Addrs PROVE heap'[a].birth <= births'
  <2>1. CASE a \in Live'
    BY <1>1, <1>2, <2>1, OwnersOf DEF StopInv
  <2>2. CASE a \notin Live'
    <3>1. heap'[a].birth = 0 /\ births \in Nat
      BY <2>2, TimerQueueAssumption DEF Live, QInv, UserTyped
    <3> QED
      BY <1>1, <3>1
  <2> QED
    BY <2>1, <2>2
<1>4. \A a, b \in Live' : heap'[a].birth = heap'[b].birth => a = b
  BY <1>2 DEF StopInv
<1>5. \A a \in Live' : heap'[a].birth \notin stopped'
  BY <1>1, <1>2 DEF StopInv
<1> QED
  BY <1>1, <1>3, <1>4, <1>5 DEF StopInv

LEMMA InitStopId == Init => StopInv /\ IdInv
<1> SUFFICES ASSUME Init PROVE StopInv /\ IdInv
  OBVIOUS
<1>1. Live = {} /\ \A a \in Addrs : heap[a].birth = 0
  BY DEF Init, Live, NoTimer
<1>2. StopInv
  BY <1>1 DEF Init, StopInv
<1>3. Numbered
  BY <1>1 DEF Init, Numbered
<1>4. OwnIdOnly
  BY DEF Init, OwnIdOnly
<1>5. PostedIds \subseteq ids
  BY DEF Init, PostedIds
<1> QED
  BY <1>2, <1>3, <1>4, <1>5 DEF IdInv

LEMMA TouchKeepsNumbered ==
  ASSUME QInv, Numbered, Touched
  PROVE  Numbered'
<1>0. ids \subseteq Ids /\ nextSeq \in Nat
  BY DEF QInv, UserTyped
<1>1. CASE \E a \in Addrs : Created(a)
  <2>1. PICK a \in Addrs : Created(a)
    BY <1>1
  <2>2. SUFFICES ASSUME ~raced'
                 PROVE  /\ \A id \in ids' : id.seq < nextSeq'
                        /\ \A i, j \in ids' : i.seq = j.seq => i = j
                        /\ \A b \in Live' : [seq |-> heap'[b].seq, addr |-> b,
                                             birth |-> heap'[b].birth] \in ids'
    BY DEF Numbered
  <2>3. ~raced /\ heap'[a].seq = nextSeq
    BY <2>1, <2>2 DEF Created
  <2>4. PICK n : n = [seq |-> nextSeq, addr |-> a, birth |-> births + 1]
    OBVIOUS
  <2>5. n.seq = nextSeq /\ ids' = ids \cup {n} /\ nextSeq' = nextSeq + 1
        /\ heap'[a].birth = births + 1
    BY <2>1, <2>3, <2>4 DEF Created
  <2>6. \A id \in ids : id.seq \in Nat /\ id.seq < nextSeq
    BY <1>0, <2>3 DEF Numbered, Ids
  <2>7. \A id \in ids' : id.seq < nextSeq'
    BY <1>0, <2>5, <2>6
  <2>8. \A id \in ids : id.seq # n.seq
    BY <1>0, <2>5, <2>6
  <2>9. \A i, j \in ids' : i.seq = j.seq => i = j
    BY <2>3, <2>5, <2>8 DEF Numbered
  <2>10. ASSUME NEW b \in Live'
         PROVE  [seq |-> heap'[b].seq, addr |-> b, birth |-> heap'[b].birth] \in ids'
    <3>1. CASE b = a
      BY <2>3, <2>4, <2>5, <3>1
    <3>2. CASE b # a
      <4>1. heap'[b] = heap[b] /\ b \in Live
        BY <2>1, <3>2 DEF Created, Live
      <4> QED
        BY <2>3, <2>5, <4>1 DEF Numbered
    <3> QED
      BY <3>1, <3>2
  <2> QED
    BY <2>7, <2>9, <2>10
<1>2. ASSUME UNCHANGED <<ids, nextSeq, raced>>, Live' \subseteq Live,
             \A b \in Live' : heap'[b] = heap[b]
      PROVE  Numbered'
  BY <1>2 DEF Numbered
<1>3. CASE \E id \in ids : Cancelled(id)
  <2>1. PICK id \in ids : Cancelled(id)
    BY <1>3
  <2>2. id \in Ids /\ CancelInLoop(id) /\ UNCHANGED <<ids, nextSeq, raced>>
    BY <1>0, <2>1 DEF Cancelled
  <2>3. Freeing(id.addr) \/ Same
    BY <2>2, CancelTakes
  <2>4. Live \subseteq Addrs
    BY OwnersOf
  <2> QED
    BY <1>2, <2>2, <2>3, <2>4 DEF Freeing, Same
<1>4. CASE Untouched
  BY <1>2, <1>4 DEF Untouched, Live
<1> QED
  BY <1>1, <1>3, <1>4 DEF Touched

LEMMA TouchKeepsOwn ==
  ASSUME QInv, Numbered, OwnIdOnly, Touched, fired \subseteq fired'
  PROVE  OwnIdOnly'
<1> SUFFICES ASSUME ~raced', NEW b \in 1..births'
             PROVE  (\E a \in Live' : b = heap'[a].birth) \/ b \in fired' \/ b \in asked'
  BY DEF OwnIdOnly
<1>0. Live \subseteq Addrs /\ births \in Nat /\ ids \subseteq Ids
  BY OwnersOf, TimerQueueAssumption DEF QInv, UserTyped
<1>1. ~raced
  BY DEF Touched, Created, Cancelled, Untouched
<1>2. b \in 1..births => (\E a \in Live : b = heap[a].birth) \/ b \in fired \/ b \in asked
  BY <1>1 DEF OwnIdOnly
<1>3. CASE \E a \in Addrs : Created(a)
  <2>1. PICK a \in Addrs : Created(a)
    BY <1>3
  <2>2. /\ a \notin Live /\ births' = births + 1 /\ heap'[a].birth = births + 1
        /\ asked' = asked
        /\ \A c \in Addrs : c # a => heap'[c] = heap[c]
    BY <2>1 DEF Created
  <2>3. a \in Live' /\ Live \subseteq Live'
    BY <1>0, <2>2 DEF Live
  <2>4. b \in 1..births \/ b = births + 1
    BY <1>0, <2>2
  <2>5. CASE b \in 1..births
    BY <1>0, <1>2, <2>2, <2>3, <2>5
  <2> QED
    BY <2>2, <2>3, <2>4, <2>5
<1>4. CASE \E id \in ids : Cancelled(id)
  <2>1. PICK id \in ids : Cancelled(id)
    BY <1>4
  <2>2. id \in Ids /\ CancelInLoop(id) /\ b \in 1..births
    BY <1>0, <2>1 DEF Cancelled
  <2>3. asked' = asked \cup {id.birth}
    BY <2>2, CancelTakes
  <2>4. CASE Freeing(id.addr) /\ heap[id.addr].seq = id.seq
    <3>1. /\ id.addr \in Live /\ Live' = Live \ {id.addr}
          /\ \A c \in Addrs : c # id.addr => heap'[c] = heap[c]
      BY <2>4, OwnersOf DEF Freeing
    <3>2. PICK own : own = [seq |-> heap[id.addr].seq, addr |-> id.addr,
                            birth |-> heap[id.addr].birth]
      OBVIOUS
    <3>3. own \in ids /\ own.seq = id.seq /\ own.birth = heap[id.addr].birth
      BY <1>1, <2>4, <3>1, <3>2 DEF Numbered
    <3>4. own = id
      BY <1>1, <3>3 DEF Numbered
    <3>5. heap[id.addr].birth \in asked'
      BY <2>3, <3>3, <3>4
    <3> QED
      BY <1>0, <1>2, <2>2, <2>3, <3>1, <3>5
  <2>5. CASE Same
    BY <1>2, <2>2, <2>3, <2>5 DEF Same
  <2> QED
    BY <2>2, <2>4, <2>5, CancelTakes
<1>5. CASE Untouched
  <2>1. Live' = Live /\ heap' = heap /\ births' = births /\ asked' = asked
    BY <1>5 DEF Untouched, Live
  <2> QED
    BY <1>2, <2>1
<1> QED
  BY <1>3, <1>4, <1>5 DEF Touched

LEMMA NextPosted ==
  ASSUME QInv, PostedIds \subseteq ids, [Next]_tqvars
  PROVE  PostedIds' \subseteq ids'
<1>0. posted \in Seq(Ops) /\ Len(posted) \in Nat
  BY DEF QInv, LoopTyped
<1>1. \A i \in 1..Len(posted) : posted[i].id \in ids
  BY DEF PostedIds
<1>2. ASSUME NEW f, posted' = Append(posted, f), f.id \in ids', ids \subseteq ids'
      PROVE  PostedIds' \subseteq ids'
  <2>1. /\ Len(posted') = Len(posted) + 1 /\ posted'[Len(posted) + 1] = f
        /\ \A i \in 1..Len(posted) : posted'[i] = posted[i]
    BY <1>0, <1>2
  <2>2. \A i \in 1..Len(posted') : i \in 1..Len(posted) \/ i = Len(posted) + 1
    BY <1>0, <2>1
  <2>3. \A i \in 1..Len(posted') : posted'[i].id \in ids'
    BY <1>1, <1>2, <2>1, <2>2
  <2> QED
    BY <2>3 DEF PostedIds
<1>3. CASE \E id \in ids : OtherCancels(id)
  <2>1. PICK id \in ids : OtherCancels(id)
    BY <1>3
  <2>2. PICK f : f = [op |-> "cancel", id |-> id]
    OBVIOUS
  <2>3. f.id = id /\ posted' = Append(posted, f) /\ ids' = ids
    BY <2>1, <2>2 DEF OtherCancels
  <2> QED
    BY <1>2, <2>3
<1>4. CASE \E exp \in clock..MaxTime, interval \in Intervals : OtherAdds(exp, interval)
  <2>1. PICK exp \in clock..MaxTime, interval \in Intervals : OtherAdds(exp, interval)
    BY <1>4
  <2>2. PICK n : n = [seq |-> creating.seq, addr |-> creating.addr, birth |-> births + 1]
    OBVIOUS
  <2>3. PICK f : f = [op |-> "add", id |-> n]
    OBVIOUS
  <2>4. f.id = n /\ posted' = Append(posted, f) /\ ids' = ids \cup {n}
    BY <2>1, <2>2, <2>3 DEF OtherAdds, Create
  <2> QED
    BY <1>2, <2>4
<1>5. CASE RunFunctor
  <2>1. posted # <<>> /\ posted' = Tail(posted) /\ ids' = ids
    BY <1>0, <1>5 DEF RunFunctor, QInv, LoopTyped
  <2>2. /\ Len(posted') = Len(posted) - 1
        /\ \A i \in 1..Len(posted') : posted'[i] = posted[i + 1]
    BY <1>0, <2>1
  <2>3. \A i \in 1..Len(posted') : i + 1 \in 1..Len(posted)
    BY <1>0, <2>2
  <2>4. \A i \in 1..Len(posted') : posted'[i].id \in ids'
    BY <1>1, <2>1, <2>2, <2>3
  <2> QED
    BY <2>4 DEF PostedIds
<1>6. CASE posted' = posted
  <2>1. ids \subseteq ids'
    BY <1>6, <1>3, <1>4, <1>5
       DEF Next, Poll, HandleIo, HandleRead, RunCallback, Reset, DispatchDone,
           FunctorsDone, OtherReadsSeq, Tick, tqvars, UserCode, LoopAdds, LoopCancels,
           Create, RunFunctor, OtherAdds, OtherCancels
  <2> QED
    BY <1>6, <2>1 DEF PostedIds
<1> QED
  BY <1>3, <1>4, <1>5, <1>6
     DEF Next, Poll, HandleIo, HandleRead, RunCallback, Reset, DispatchDone,
         FunctorsDone, OtherReadsSeq, Tick, tqvars

LEMMA ResetKeepsId ==
  ASSUME QInv, StopInv, Numbered, OwnIdOnly, Reset
  PROVE  Numbered' /\ OwnIdOnly'
<1>1. UNCHANGED <<births, nextSeq, ids, fired, asked, raced>> /\ todo = {}
  BY DEF Reset, history
<1>2. /\ Live' \subseteq Live
      /\ \A a \in Live' : heap'[a].birth = heap[a].birth /\ heap'[a].seq = heap[a].seq
      /\ \A a \in Live : a \notin Live' => a \in Expiring
  BY ResetLeaves
<1>3. \A a \in Expiring : heap[a].birth \in fired
  BY <1>1 DEF StopInv, Expiring
<1>4. Numbered'
  BY <1>1, <1>2 DEF Numbered
<1>5. OwnIdOnly'
  <2> SUFFICES ASSUME ~raced, NEW b \in 1..births
               PROVE  (\E a \in Live' : b = heap'[a].birth) \/ b \in fired \/ b \in asked
    BY <1>1 DEF OwnIdOnly
  <2>1. (\E a \in Live : b = heap[a].birth) \/ b \in fired \/ b \in asked
    BY DEF OwnIdOnly
  <2> QED
    BY <1>2, <1>3, <2>1
<1> QED
  BY <1>4, <1>5

LEMMA NextKeepsStopId == QInv /\ StopInv /\ IdInv /\ [Next]_tqvars => StopInv' /\ IdInv'
<1> SUFFICES ASSUME QInv, StopInv, IdInv, [Next]_tqvars PROVE StopInv' /\ IdInv'
  OBVIOUS
<1>1. Numbered /\ OwnIdOnly /\ PostedIds \subseteq ids
  BY DEF IdInv
<1>2. PostedIds' \subseteq ids'
  BY <1>1, NextPosted
<1>3. CASE Reset
  BY <1>1, <1>2, <1>3, ResetKeepsStop, ResetKeepsId DEF IdInv
<1>4. CASE HandleRead
  <2>1. Touched /\ fired' = fired
    BY <1>4 DEF HandleRead, Touched, Untouched, history
  <2> QED
    BY <1>1, <1>2, <1>4, <2>1, HandleReadKeepsStop, TouchKeepsNumbered, TouchKeepsOwn
       DEF IdInv
<1>5. ASSUME expired' = expired, Touched,
             \/ todo' = todo /\ fired' = fired
             \/ \E e \in todo : /\ todo' = todo \ {e}
                                /\ fired' = fired \cup {heap[e.addr].birth}
      PROVE  StopInv' /\ IdInv'
  <2>1. StopInv'
    BY <1>5, TouchKeepsStop
  <2>2. fired \subseteq fired'
    BY <1>5
  <2>3. Numbered' /\ OwnIdOnly'
    BY <1>1, <1>5, <2>2, TouchKeepsNumbered, TouchKeepsOwn
  <2> QED
    BY <1>2, <2>1, <2>3 DEF IdInv
<1> QED
  BY <1>1, <1>3, <1>4, <1>5, StepTouches

LEMMA StopIdHold == Spec => [](QInv /\ StopInv /\ IdInv)
BY InitQInv, InitStopId, NextKeepsQInv, NextKeepsStopId, PTL DEF Spec

\* A timer that cancelInLoop found is not scheduled again: reset() finds it in
\* cancelligTimer_ under the number and address it has (TimerQueue.cc:143, 227).
THEOREM CancelledStayOut == Spec => []CancelledStaysOut
<1>1. QInv /\ StopInv => CancelledStaysOut
  BY OwnersOf DEF QInv, OneOwner, StopInv, CancelledStaysOut
<1> QED
  BY <1>1, StopIdHold, PTL

\* A timer ends because it ran or because its own TimerId was given to cancel,
\* unless two constructors raced for one number (TimerQueue.cc:129, Timer.h:28).
THEOREM IdsEndTheirOwn == Spec => []OwnIdOnly
<1>1. IdInv => OwnIdOnly
  BY DEF IdInv
<1> QED
  BY <1>1, StopIdHold, PTL
=============================================================================
