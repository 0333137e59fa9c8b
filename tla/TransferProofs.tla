--------------------------- MODULE TransferProofs ---------------------------
(***************************************************************************)
(* What Buffer's operations do to the bytes a reader sees, for every size  *)
(* of the vector, of the space in front and of what is written: append,    *)
(* prepend and readFd add the given bytes at their end and nothing else    *)
(* changes, whether the vector grows or its bytes move to the front;       *)
(* retrieve takes them off in order.  And with it what the operators of    *)
(* Transfer keep true of a connection, for bytes of any kind, any amounts  *)
(* and any size of a chunk of sendfile: all that was accepted is on the    *)
(* wire, in writeBuffer_ or in the rest of the file, in this order, and    *)
(* EPOLLOUT is asked for exactly while some of it waits.                   *)
(***************************************************************************)
EXTENDS Transfer, SequencesExt, SequenceTheorems, WellFoundedInduction, TLAPS

\* The vector and its indices, for bytes of the set S, which has Junk.
IsBuffer(b, S) ==
  /\ b \in [store : Seq(S), readIndex : Nat, writeIndex : Nat]
  /\ b.readIndex <= b.writeIndex /\ b.writeIndex <= Len(b.store)
  /\ kCheapPrepend <= Len(b.store)

OfBytes(data, S) == data \in Seq(S)

-----------------------------------------------------------------------------
(* The vector's cells *)

LEMMA SameInterval ==
  ASSUME NEW m \in Nat, NEW n \in Nat, 1..m = 1..n
  PROVE  m = n
<1>1. ASSUME NEW i \in Int
      PROVE  (1 <= i /\ i <= m) <=> (1 <= i /\ i <= n)
  OBVIOUS
<1> QED
  BY <1>1

LEMMA FunctionIsSeq ==
  ASSUME NEW S, NEW n \in Nat, NEW f \in [1..n -> S]
  PROVE  f \in Seq(S) /\ Len(f) = n
<1>1. f \in Seq(S) /\ DOMAIN f = 1..n
  BY SeqDef
<1>2. Len(f) \in Nat /\ DOMAIN f = 1..Len(f)
  BY <1>1, LenProperties
<1> QED
  BY <1>1, <1>2, SameInterval

LEMMA JunkCells ==
  ASSUME NEW S, Junk \in S, NEW n \in Nat
  PROVE  Junks(n) \in Seq(S) /\ Len(Junks(n)) = n
<1>1. Junks(n) \in [1..n -> S]
  BY DEF Junks
<1>2. Junks(n) \in Seq(S)
  BY <1>1, SeqDef
<1> DEFINE j == Junks(n)
           l == Len(j)
<1>3. DOMAIN j = 1..l /\ l \in Nat
  BY <1>2, LenProperties
<1>4. DOMAIN j = 1..n
  BY <1>1
<1> HIDE DEF j, l
<1>5. l = n
  BY <1>3, <1>4, SameInterval
<1> QED
  BY <1>2, <1>5 DEF j, l

\* x is s, t and u in a row, all of elements of S
Row(x, s, t, u, S) ==
  s \in Seq(S) /\ t \in Seq(S) /\ u \in Seq(S) /\ x = s \o t \o u

LEMMA Joined ==
  ASSUME NEW S, NEW s, NEW t, NEW u, NEW x, Row(x, s, t, u, S)
  PROVE  /\ x \in Seq(S)
         /\ Len(x) = Len(s) + Len(t) + Len(u)
         /\ \A i \in 1..Len(s) : x[i] = s[i]
         /\ \A i \in 1..Len(t) : x[Len(s) + i] = t[i]
         /\ \A i \in 1..Len(u) : x[Len(s) + Len(t) + i] = u[i]
<1>0. s \in Seq(S) /\ t \in Seq(S) /\ u \in Seq(S)
  BY DEF Row
<1>1. PICK h : h = s \o t
  OBVIOUS
<1>2. /\ h \in Seq(S) /\ Len(h) = Len(s) + Len(t)
      /\ \A i \in 1..Len(s) : h[i] = s[i]
      /\ \A i \in 1..Len(t) : h[Len(s) + i] = t[i]
  BY <1>0, <1>1
<1>3. h \in Seq(S) /\ x = h \o u
  BY <1>1, <1>2 DEF Row
<1>4. /\ x \in Seq(S) /\ Len(x) = Len(h) + Len(u)
      /\ \A i \in 1..Len(h) : x[i] = h[i]
      /\ \A i \in 1..Len(u) : x[Len(h) + i] = u[i]
  BY <1>0, <1>3
<1>5. PICK m \in Nat, n \in Nat : m = Len(s) /\ n = Len(t)
  BY <1>0
<1>6. ASSUME NEW i \in 1..n
      PROVE  x[m + i] = t[i]
  <2>1. m + i \in 1 .. m + n
    OBVIOUS
  <2> QED
    BY <1>2, <1>4, <1>5, <2>1
<1>7. \A i \in 1..m : x[i] = s[i]
  <2>1. \A i \in 1..m : i \in 1 .. m + n
    OBVIOUS
  <2> QED
    BY <1>2, <1>4, <1>5, <2>1
<1> QED
  BY <1>2, <1>4, <1>5, <1>6, <1>7

Pair(x, s, t, S) == s \in Seq(S) /\ t \in Seq(S) /\ x = s \o t

LEMMA Paired ==
  ASSUME NEW S, NEW s, NEW t, NEW x, Pair(x, s, t, S)
  PROVE  /\ x \in Seq(S)
         /\ Len(x) = Len(s) + Len(t)
         /\ \A i \in 1..Len(s) : x[i] = s[i]
         /\ \A i \in 1..Len(t) : x[Len(s) + i] = t[i]
BY DEF Pair

LEMMA Part ==
  ASSUME NEW S, NEW s \in Seq(S), NEW m \in Nat, NEW n \in Nat,
         m <= n, n <= Len(s)
  PROVE  /\ SubSeq(s, m + 1, n) \in Seq(S)
         /\ Len(SubSeq(s, m + 1, n)) = n - m
         /\ \A i \in 1 .. n - m : SubSeq(s, m + 1, n)[i] = s[m + i]
OBVIOUS

LEMMA CopiedCells ==
  ASSUME NEW S, NEW store, OfBytes(store, S), NEW data, OfBytes(data, S),
         NEW at \in Nat, at + Len(data) <= Len(store),
         NEW x, x = Copied(store, at, data)
  PROVE  /\ x \in Seq(S)
         /\ Len(x) = Len(store)
         /\ \A i \in 1..at : x[i] = store[i]
         /\ \A i \in 1..Len(data) : x[at + i] = data[i]
         /\ \A i \in 1 .. Len(store) - (at + Len(data)) :
              x[at + Len(data) + i] = store[at + Len(data) + i]
<1>0. store \in Seq(S) /\ data \in Seq(S)
  BY DEF OfBytes
<1>1. PICK m \in Nat, l \in Nat : m = at + Len(data) /\ l = Len(store)
  BY <1>0
<1>2. m <= l /\ at <= l
  BY <1>1
<1>3. PICK front : front = SubSeq(store, 1, at)
  OBVIOUS
<1>4. PICK back : back = SubSeq(store, m + 1, l)
  OBVIOUS
<1>5. /\ front \in Seq(S) /\ Len(front) = at
      /\ \A i \in 1..at : front[i] = store[i]
  <2>1. at <= Len(store)
    BY <1>1, <1>2
  <2> QED
    BY <1>0, <1>3, <2>1
<1>6. /\ back \in Seq(S) /\ Len(back) = l - m
      /\ \A i \in 1 .. l - m : back[i] = store[m + i]
  <2>1. l <= Len(store)
    BY <1>1
  <2> QED
    BY <1>0, <1>2, <1>4, <2>1, Part
<1>7. Row(x, front, data, back, S)
  BY <1>0, <1>1, <1>3, <1>4, <1>5, <1>6 DEF Copied, Row
<1>8. /\ x \in Seq(S)
      /\ Len(x) = Len(front) + Len(data) + Len(back)
      /\ \A i \in 1..Len(front) : x[i] = front[i]
      /\ \A i \in 1..Len(data) : x[Len(front) + i] = data[i]
      /\ \A i \in 1..Len(back) : x[Len(front) + Len(data) + i] = back[i]
  BY <1>7, Joined
<1>9. Len(x) = Len(store)
  BY <1>1, <1>5, <1>6, <1>8
<1>10. \A i \in 1 .. l - m : x[m + i] = store[m + i]
  <2>1. Len(front) + Len(data) = m /\ Len(back) = l - m
    BY <1>1, <1>5, <1>6
  <2>2. \A i \in 1 .. l - m : x[m + i] = back[i]
    BY <1>8, <2>1
  <2> QED
    BY <1>6, <2>2
<1> QED
  BY <1>1, <1>5, <1>8, <1>9, <1>10

LEMMA OnlyCells ==
  ASSUME NEW S, Junk \in S, NEW store, OfBytes(store, S),
         NEW from \in Nat, NEW to \in Nat, from <= to, to <= Len(store),
         NEW x, x = Only(store, from, to)
  PROVE  /\ x \in Seq(S)
         /\ Len(x) = Len(store)
         /\ \A i \in 1 .. to - from : x[from + i] = store[from + i]
<1>0. store \in Seq(S)
  BY DEF OfBytes
<1>1. PICK k \in Nat : k = Len(store) - to
  BY <1>0
<1>2. PICK front : front = Junks(from)
  OBVIOUS
<1>3. PICK kept : kept = SubSeq(store, from + 1, to)
  OBVIOUS
<1>4. PICK back : back = Junks(k)
  OBVIOUS
<1>5. front \in Seq(S) /\ Len(front) = from
  BY <1>2, JunkCells
<1>6. /\ kept \in Seq(S) /\ Len(kept) = to - from
      /\ \A i \in 1 .. to - from : kept[i] = store[from + i]
  BY <1>0, <1>3, Part
<1>7. back \in Seq(S) /\ Len(back) = k
  BY <1>4, JunkCells
<1>8. Row(x, front, kept, back, S)
  BY <1>1, <1>2, <1>3, <1>4, <1>5, <1>6, <1>7 DEF Only, Row
<1>9. /\ x \in Seq(S)
      /\ Len(x) = Len(front) + Len(kept) + Len(back)
      /\ \A i \in 1..Len(kept) : x[Len(front) + i] = kept[i]
  BY <1>8, Joined
<1>10. Len(x) = Len(store)
  BY <1>1, <1>5, <1>6, <1>7, <1>9
<1> QED
  BY <1>5, <1>6, <1>9, <1>10

-----------------------------------------------------------------------------
(* The bytes between the indices *)

LEMMA Fields ==
  ASSUME NEW S, NEW b, IsBuffer(b, S)
  PROVE  /\ b.store \in Seq(S) /\ b.readIndex \in Nat /\ b.writeIndex \in Nat
         /\ Len(b.store) \in Nat
         /\ b.readIndex <= b.writeIndex /\ b.writeIndex <= Len(b.store)
         /\ kCheapPrepend \in Nat /\ kCheapPrepend <= Len(b.store)
BY BufferAssumption DEF IsBuffer

LEMMA PeekCells ==
  ASSUME NEW S, NEW b, IsBuffer(b, S)
  PROVE  /\ OfBytes(Peek(b), S)
         /\ ReadableBytes(b) \in Nat /\ Len(Peek(b)) = ReadableBytes(b)
         /\ \A i \in 1..ReadableBytes(b) : Peek(b)[i] = b.store[b.readIndex + i]
<1>1. PICK store, m, n : store = b.store /\ m = b.readIndex /\ n = b.writeIndex
  OBVIOUS
<1>2. store \in Seq(S) /\ m \in Nat /\ n \in Nat /\ m <= n /\ n <= Len(store)
  BY <1>1, Fields
<1>3. /\ SubSeq(store, m + 1, n) \in Seq(S)
      /\ Len(SubSeq(store, m + 1, n)) = n - m
      /\ \A i \in 1 .. n - m : SubSeq(store, m + 1, n)[i] = store[m + i]
  BY <1>2
<1> QED
  BY <1>1, <1>2, <1>3 DEF OfBytes, Peek, ReadableBytes

\* A sequence that agrees with the cells between the indices is what is read.
LEMMA PeekIs ==
  ASSUME NEW S, NEW b, IsBuffer(b, S), NEW data, OfBytes(data, S),
         Len(data) = ReadableBytes(b),
         \A i \in 1..Len(data) : data[i] = b.store[b.readIndex + i]
  PROVE  Peek(b) = data
<1>1. PICK p : p = Peek(b)
  OBVIOUS
<1>2. /\ p \in Seq(S) /\ data \in Seq(S) /\ Len(p) = Len(data)
      /\ \A i \in 1..Len(data) : p[i] = data[i]
  BY <1>1, PeekCells DEF OfBytes
<1>3. p = data
  BY <1>2
<1> QED
  BY <1>1, <1>3

\* ensureWriteable keeps what is read and makes the room, by growing the vector
\* or by moving the bytes to the front.
LEMMA EnsureWriteableKeeps ==
  ASSUME NEW S, Junk \in S, NEW b, IsBuffer(b, S), NEW len \in Nat
  PROVE  /\ IsBuffer(EnsureWriteable(b, len), S)
         /\ Peek(EnsureWriteable(b, len)) = Peek(b)
         /\ WriteableBytes(EnsureWriteable(b, len)) >= len
<1>1. PICK e : e = EnsureWriteable(b, len)
  OBVIOUS
<1>2. CASE len <= WriteableBytes(b)
  BY <1>1, <1>2, Fields DEF EnsureWriteable, WriteableBytes
<1>3. CASE /\ len > WriteableBytes(b)
           /\ WriteableBytes(b) + PrependBytes(b) < len + kCheapPrepend
  <2>1. PICK n \in Nat : n = len - WriteableBytes(b)
    BY <1>3, Fields DEF WriteableBytes
  <2>2. PICK more : more = Junks(n)
    OBVIOUS
  <2>3. PICK x : x = b.store \o more
    OBVIOUS
  <2>4. more \in Seq(S) /\ Len(more) = n
    BY <2>2, JunkCells
  <2>5. /\ x \in Seq(S) /\ Len(x) = Len(b.store) + n
        /\ \A i \in 1..Len(b.store) : x[i] = b.store[i]
    <3>1. PICK store \in Seq(S) : store = b.store
      BY Fields
    <3>2. Pair(x, store, more, S)
      BY <2>3, <2>4, <3>1 DEF Pair
    <3>3. /\ x \in Seq(S) /\ Len(x) = Len(store) + n
          /\ \A i \in 1..Len(store) : x[i] = store[i]
      BY <2>4, <3>2, Paired
    <3> QED
      BY <3>1, <3>3
  <2>6. e = [b EXCEPT !.store = x]
    BY <1>1, <1>3, <2>1, <2>2, <2>3, Fields DEF EnsureWriteable, WriteableBytes
  <2>7. e.store = x /\ e.readIndex = b.readIndex /\ e.writeIndex = b.writeIndex
    BY <2>6 DEF IsBuffer
  <2>8. IsBuffer(e, S) /\ WriteableBytes(e) >= len
    BY <1>3, <2>1, <2>5, <2>6, <2>7, Fields DEF IsBuffer, WriteableBytes
  <2>9. ReadableBytes(e) = ReadableBytes(b)
    BY <2>7 DEF ReadableBytes
  <2>10. ASSUME NEW i \in 1..ReadableBytes(b)
         PROVE  Peek(b)[i] = e.store[e.readIndex + i]
    <3>1. b.readIndex + i \in 1..Len(b.store)
      BY Fields DEF ReadableBytes
    <3> QED
      BY <2>5, <2>7, <3>1, PeekCells
  <2> QED
    BY <1>1, <2>8, <2>9, <2>10, PeekCells, PeekIs
<1>4. CASE /\ len > WriteableBytes(b)
           /\ ~(WriteableBytes(b) + PrependBytes(b) < len + kCheapPrepend)
  <2>1. PICK end \in Nat : end = kCheapPrepend + ReadableBytes(b)
    BY PeekCells, Fields
  <2>2. PICK x : x = Copied(b.store, kCheapPrepend, Peek(b))
    OBVIOUS
  <2>3. PICK y : y = Only(x, kCheapPrepend, end)
    OBVIOUS
  <2>4. end + len <= Len(b.store)
    BY <1>4, <2>1, Fields DEF ReadableBytes, WriteableBytes, PrependBytes
  <2>5. /\ x \in Seq(S) /\ Len(x) = Len(b.store)
        /\ \A i \in 1..ReadableBytes(b) : x[kCheapPrepend + i] = Peek(b)[i]
    <3>1. OfBytes(Peek(b), S) /\ OfBytes(b.store, S) /\ kCheapPrepend \in Nat
      BY Fields, PeekCells DEF OfBytes
    <3>2. kCheapPrepend + Len(Peek(b)) <= Len(b.store)
      BY <2>1, <2>4, Fields, PeekCells
    <3> QED
      BY <2>2, <3>1, <3>2, CopiedCells, PeekCells
  <2>6. /\ y \in Seq(S) /\ Len(y) = Len(b.store)
        /\ \A i \in 1..ReadableBytes(b) : y[kCheapPrepend + i] = x[kCheapPrepend + i]
    <3>0. PICK k \in Nat : k = kCheapPrepend
      BY Fields
    <3>1. OfBytes(x, S) /\ k <= end /\ end <= Len(x)
      BY <2>1, <2>4, <2>5, <3>0, Fields, PeekCells DEF OfBytes
    <3>2. y = Only(x, k, end)
      BY <2>3, <3>0
    <3>3. /\ y \in Seq(S) /\ Len(y) = Len(x)
          /\ \A i \in 1 .. end - k : y[k + i] = x[k + i]
      BY <3>1, <3>2, OnlyCells
    <3>4. end - k = ReadableBytes(b)
      BY <2>1, <3>0, PeekCells
    <3> QED
      BY <2>5, <3>0, <3>3, <3>4
  <2>7. e = [store |-> y, readIndex |-> kCheapPrepend, writeIndex |-> end]
    BY <1>1, <1>4, <2>1, <2>2, <2>3, Fields
    DEF EnsureWriteable, WriteableBytes, PrependBytes
  <2>8. IsBuffer(e, S) /\ WriteableBytes(e) >= len
    <3>1. e \in [store : Seq(S), readIndex : Nat, writeIndex : Nat]
      BY <2>6, <2>7, BufferAssumption
    <3>2. kCheapPrepend <= end /\ end <= Len(y)
      BY <2>1, <2>4, <2>6, Fields, PeekCells
    <3>3. e.store = y /\ e.readIndex = kCheapPrepend /\ e.writeIndex = end
      BY <2>7
    <3>4. Len(y) \in Nat /\ kCheapPrepend \in Nat /\ end + len <= Len(y)
      BY <2>4, <2>6, Fields
    <3>5. IsBuffer(e, S)
      BY <3>1, <3>2, <3>3, <3>4 DEF IsBuffer
    <3> QED
      BY <3>3, <3>4, <3>5 DEF WriteableBytes
  <2>9. ReadableBytes(e) = ReadableBytes(b)
    BY <2>1, <2>7, Fields, PeekCells DEF ReadableBytes
  <2>10. \A i \in 1..ReadableBytes(b) : Peek(b)[i] = e.store[e.readIndex + i]
    BY <2>5, <2>6, <2>7
  <2> QED
    BY <1>1, <2>8, <2>9, <2>10, PeekCells, PeekIs
<1> QED
  BY <1>2, <1>3, <1>4, Fields DEF WriteableBytes, PrependBytes

-----------------------------------------------------------------------------
(* append, readFd, prepend and retrieve *)

\* data copied behind writeIndex_, when it fits there
Filled(b, data) == [b EXCEPT !.store = Copied(@, b.writeIndex, data),
                             !.writeIndex = @ + Len(data)]

LEMMA FilledAdds ==
  ASSUME NEW S, NEW b, IsBuffer(b, S), NEW data, OfBytes(data, S),
         Len(data) <= WriteableBytes(b)
  PROVE  IsBuffer(Filled(b, data), S) /\ Peek(Filled(b, data)) = Peek(b) \o data
<1>1. PICK f : f = Filled(b, data)
  OBVIOUS
<1>2. PICK r \in Nat, w \in Nat, n \in Nat :
        r = b.readIndex /\ w = b.writeIndex /\ n = Len(data)
  BY Fields DEF OfBytes
<1>3. PICK x : x = Copied(b.store, w, data)
  OBVIOUS
<1>4. r <= w /\ w + n <= Len(b.store)
  BY <1>2, Fields DEF WriteableBytes
<1>5. /\ x \in Seq(S) /\ Len(x) = Len(b.store)
      /\ \A i \in 1..w : x[i] = b.store[i]
      /\ \A i \in 1..n : x[w + i] = data[i]
  <2>1. OfBytes(b.store, S)
    BY Fields DEF OfBytes
  <2> QED
    <3>1. w + Len(data) <= Len(b.store)
      BY <1>2, <1>4
    <3>2. /\ x \in Seq(S) /\ Len(x) = Len(b.store)
          /\ \A i \in 1..w : x[i] = b.store[i]
          /\ \A i \in 1..Len(data) : x[w + i] = data[i]
      BY <1>3, <2>1, <3>1, CopiedCells
    <3> QED
      BY <1>2, <3>2
<1>6. f.store = x /\ f.readIndex = r /\ f.writeIndex = w + n
  BY <1>1, <1>2, <1>3 DEF Filled, IsBuffer
<1>7. IsBuffer(f, S)
  <2>1. f = [store |-> x, readIndex |-> r, writeIndex |-> w + n]
    BY <1>1, <1>2, <1>3 DEF Filled, IsBuffer
  <2> QED
    BY <1>4, <1>5, <2>1, Fields DEF IsBuffer
<1>m. PICK m \in Nat : m = w - r
  BY <1>4
<1>8. PICK p, q : p = Peek(b) /\ q = p \o data
  OBVIOUS
<1>9. Pair(q, p, data, S)
  BY <1>8, PeekCells DEF Pair, OfBytes
<1>10. /\ q \in Seq(S) /\ Len(q) = m + n
       /\ \A i \in 1 .. m : q[i] = p[i]
       /\ \A i \in 1..n : q[m + i] = data[i]
  <2>1. /\ q \in Seq(S) /\ Len(q) = Len(p) + Len(data)
        /\ \A i \in 1..Len(p) : q[i] = p[i]
        /\ \A i \in 1..Len(data) : q[Len(p) + i] = data[i]
    BY <1>9, Paired
  <2>2. Len(p) = m /\ Len(data) = n
    BY <1>2, <1>m, <1>8, PeekCells DEF ReadableBytes
  <2> QED
    BY <2>1, <2>2
<1>11. ReadableBytes(f) = Len(q)
  BY <1>6, <1>m, <1>10 DEF ReadableBytes
<1>12. ASSUME NEW i \in 1..Len(q)
       PROVE  q[i] = f.store[f.readIndex + i]
  <2>1. CASE i <= m
    <3>1. i \in 1 .. m /\ r + i \in 1..w
      BY <1>m, <1>10, <2>1
    <3>2. p[i] = b.store[r + i]
      BY <1>2, <1>m, <1>8, <3>1, PeekCells DEF ReadableBytes
    <3> QED
      BY <1>5, <1>6, <1>10, <3>1, <3>2
  <2>2. CASE i > m
    <3>1. PICK j \in 1..n : i = m + j
      <4>1. i - m \in 1..n /\ i = m + (i - m)
        BY <1>4, <1>10, <2>2
      <4> QED
        BY <4>1
    <3>2. r + i = w + j
      BY <1>m, <3>1
    <3> QED
      BY <1>5, <1>6, <1>10, <3>1, <3>2
  <2> QED
    BY <1>10, <2>1, <2>2
<1>13. Peek(f) = q
  BY <1>7, <1>10, <1>11, <1>12, PeekIs DEF OfBytes
<1> QED
  BY <1>1, <1>7, <1>8, <1>13

\* append() puts the data behind what is there to be read and loses nothing of
\* it, whether there was room, the vector grew or the bytes moved to the front.
THEOREM AppendAdds ==
  ASSUME NEW S, Junk \in S, NEW b, IsBuffer(b, S), NEW data, OfBytes(data, S)
  PROVE  /\ IsBuffer(BufferAppend(b, data), S)
         /\ Peek(BufferAppend(b, data)) = Peek(b) \o data
<1>1. PICK e : e = EnsureWriteable(b, Len(data))
  OBVIOUS
<1>2. Len(data) \in Nat
  BY DEF OfBytes
<1>3. IsBuffer(e, S) /\ Peek(e) = Peek(b) /\ Len(data) <= WriteableBytes(e)
  <2>1. WriteableBytes(e) >= Len(data)
    BY <1>1, <1>2, EnsureWriteableKeeps
  <2>2. WriteableBytes(e) \in Int
    BY <1>1, <1>2, EnsureWriteableKeeps, Fields DEF WriteableBytes
  <2> QED
    BY <1>1, <1>2, <2>1, <2>2, EnsureWriteableKeeps
<1>4. BufferAppend(b, data) = Filled(e, data)
  BY <1>1 DEF BufferAppend, Filled
<1> QED
  BY <1>3, <1>4, FilledAdds

\* retrieve(len) takes the first len of the bytes off, all of them when there
\* are no more than len, and leaves the others in their order.
THEOREM RetrieveTakes ==
  ASSUME NEW S, Junk \in S, NEW b, IsBuffer(b, S), NEW len \in Nat
  PROVE  /\ IsBuffer(Retrieve(b, len), S)
         /\ Peek(Retrieve(b, len)) = SubSeq(Peek(b), len + 1, Len(Peek(b)))
<1>1. PICK c, p : c = Retrieve(b, len) /\ p = Peek(b)
  OBVIOUS
<1>2. PICK r \in Nat, w \in Nat : r = b.readIndex /\ w = b.writeIndex
  BY Fields
<1>3. r <= w /\ ReadableBytes(b) = w - r /\ w - r \in Nat
  BY <1>2, Fields DEF ReadableBytes
<1>4. /\ p \in Seq(S) /\ Len(p) = w - r
      /\ \A i \in 1 .. w - r : p[i] = b.store[r + i]
  BY <1>1, <1>2, <1>3, PeekCells DEF OfBytes
<1>5. CASE len < w - r
  <2>1. PICK x : x = Only(b.store, r + len, w)
    OBVIOUS
  <2>2. /\ x \in Seq(S) /\ Len(x) = Len(b.store)
        /\ \A i \in 1 .. w - (r + len) : x[r + len + i] = b.store[r + len + i]
    <3>1. PICK from \in Nat : from = r + len
      OBVIOUS
    <3>2. from <= w /\ w <= Len(b.store) /\ OfBytes(b.store, S)
      BY <1>2, <1>5, <3>1, Fields DEF OfBytes
    <3>3. x = Only(b.store, from, w)
      BY <2>1, <3>1
    <3>4. /\ x \in Seq(S) /\ Len(x) = Len(b.store)
          /\ \A i \in 1 .. w - from : x[from + i] = b.store[from + i]
      BY <3>2, <3>3, OnlyCells
    <3> QED
      BY <3>1, <3>4
  <2>3. c = [store |-> x, readIndex |-> r + len, writeIndex |-> w]
    BY <1>1, <1>2, <1>3, <1>5, <2>1 DEF Retrieve, IsBuffer
  <2>4. IsBuffer(c, S)
    BY <1>2, <1>5, <2>2, <2>3, Fields DEF IsBuffer
  <2>5. PICK q : q = SubSeq(p, len + 1, w - r)
    OBVIOUS
  <2>6. /\ q \in Seq(S) /\ Len(q) = (w - r) - len
        /\ \A i \in 1 .. (w - r) - len : q[i] = p[len + i]
    <3>1. PICK m \in Nat : m = w - r
      BY <1>3
    <3>2. p \in Seq(S) /\ len <= m /\ m <= Len(p) /\ q = SubSeq(p, len + 1, m)
      BY <1>4, <1>5, <2>5, <3>1
    <3>3. /\ q \in Seq(S) /\ Len(q) = m - len
          /\ \A i \in 1 .. m - len : q[i] = p[len + i]
      BY <3>2
    <3> QED
      BY <3>1, <3>3
  <2>7. ASSUME NEW i \in 1..Len(q)
        PROVE  q[i] = c.store[c.readIndex + i]
    <3>1. /\ i \in 1 .. (w - r) - len /\ i \in 1 .. w - (r + len)
          /\ len + i \in 1 .. w - r /\ r + (len + i) = r + len + i
      BY <2>6, <1>5
    <3> QED
      BY <1>4, <2>2, <2>3, <2>6, <3>1
  <2>8. ReadableBytes(c) = Len(q)
    BY <2>3, <2>6 DEF ReadableBytes
  <2>9. Peek(c) = q
    BY <2>4, <2>6, <2>7, <2>8, PeekIs DEF OfBytes
  <2> QED
    BY <1>1, <1>4, <2>4, <2>5, <2>9
<1>6. CASE ~(len < w - r)
  <2>1. PICK x : x = Junks(Len(b.store))
    OBVIOUS
  <2>2. x \in Seq(S) /\ Len(x) = Len(b.store)
    BY <2>1, Fields, JunkCells
  <2>3. c = [store |-> x, readIndex |-> kCheapPrepend, writeIndex |-> kCheapPrepend]
    BY <1>1, <1>3, <1>6, <2>1 DEF Retrieve, RetrieveAll
  <2>4. IsBuffer(c, S) /\ ReadableBytes(c) = 0
    BY <2>2, <2>3, Fields DEF IsBuffer, ReadableBytes
  <2>5. SubSeq(p, len + 1, w - r) = << >>
    BY <1>3, <1>4, <1>6
  <2>6. Peek(c) = << >>
    <3>1. OfBytes(<< >>, S) /\ Len(<< >>) = 0
      BY DEF OfBytes
    <3> QED
      BY <2>4, <3>1, PeekIs
  <2> QED
    BY <1>1, <1>4, <2>4, <2>5, <2>6
<1> QED
  BY <1>3, <1>5, <1>6

LEMMA SplitData ==
  ASSUME NEW S, NEW p \in Seq(S), NEW data \in Seq(S), NEW n \in Nat, n <= Len(data)
  PROVE  (p \o SubSeq(data, 1, n)) \o SubSeq(data, n + 1, Len(data)) = p \o data
<1>1. PICK f, g, h : /\ f = SubSeq(data, 1, n)
                     /\ g = SubSeq(data, n + 1, Len(data))
                     /\ h = f \o g
  OBVIOUS
<1>2. f \in Seq(S) /\ Len(f) = n /\ \A i \in 1..n : f[i] = data[i]
  BY <1>1
<1>3. PICK m \in Nat : n + m = Len(data)
  <2>1. Len(data) - n \in Nat /\ n + (Len(data) - n) = Len(data)
    OBVIOUS
  <2> QED
    BY <2>1
<1>4. g \in Seq(S) /\ Len(g) = m /\ \A i \in 1..m : g[i] = data[n + i]
  <2>1. PICK l \in Nat : l = Len(data)
    OBVIOUS
  <2>2. /\ g \in Seq(S) /\ Len(g) = l - n
        /\ \A i \in 1 .. l - n : g[i] = data[n + i]
    <3>1. g = SubSeq(data, n + 1, l) /\ n <= l /\ l <= Len(data)
      BY <1>1, <2>1
    <3> QED
      BY <3>1, Part
  <2> QED
    BY <1>3, <2>1, <2>2
<1>5. Pair(h, f, g, S)
  BY <1>1, <1>2, <1>4 DEF Pair
<1>6. /\ h \in Seq(S) /\ Len(h) = Len(data)
      /\ \A i \in 1..n : h[i] = data[i]
      /\ \A i \in 1..m : h[n + i] = data[n + i]
  <2>1. /\ h \in Seq(S) /\ Len(h) = Len(f) + Len(g)
        /\ \A i \in 1..Len(f) : h[i] = f[i]
        /\ \A i \in 1..Len(g) : h[Len(f) + i] = g[i]
    BY <1>5, Paired
  <2> QED
    BY <1>2, <1>3, <1>4, <2>1
<1>7. ASSUME NEW i \in 1..Len(data)
      PROVE  h[i] = data[i]
  <2>1. CASE i <= n
    BY <1>6, <2>1
  <2>2. CASE i > n
    <3>1. PICK j \in 1..m : i = n + j
      <4>1. i - n \in 1..m /\ i = n + (i - n)
        BY <1>3, <2>2
      <4> QED
        BY <4>1
    <3> QED
      BY <1>6, <3>1
  <2> QED
    BY <2>1, <2>2
<1>8. h = data
  BY <1>6, <1>7
<1>9. (p \o f) \o g = p \o h
  <2>1. f \in Seq(S) /\ g \in Seq(S) /\ h = f \o g
    BY <1>1, <1>2, <1>4
  <2> QED
    BY <2>1
<1> QED
  BY <1>1, <1>8, <1>9

\* readFd puts all the bytes that were read behind what is there to be read,
\* those that fit into the vector and those that came by the extra buffer.
THEOREM ReadFdAdds ==
  ASSUME NEW S, Junk \in S, NEW b, IsBuffer(b, S), NEW data, OfBytes(data, S)
  PROVE  /\ IsBuffer(ReadFd(b, data), S)
         /\ Peek(ReadFd(b, data)) = Peek(b) \o data
<1>1. PICK room \in Nat : room = WriteableBytes(b)
  BY Fields DEF WriteableBytes
<1>2. data \in Seq(S) /\ Len(data) \in Nat
  BY DEF OfBytes
<1>3. CASE Len(data) < room
  <2>1. SubSeq(data, 1, Len(data)) = data
    BY <1>2
  <2>2. ReadFd(b, data) = Filled(b, data)
    BY <1>1, <1>3, <2>1 DEF ReadFd, Filled
  <2> QED
    BY <1>1, <1>3, <2>2, FilledAdds
<1>4. CASE ~(Len(data) < room)
  <2>1. PICK here, more : /\ here = SubSeq(data, 1, room)
                          /\ more = SubSeq(data, room + 1, Len(data))
    OBVIOUS
  <2>2. OfBytes(here, S) /\ Len(here) = room /\ room <= Len(data)
    BY <1>2, <1>4, <2>1 DEF OfBytes
  <2>3. OfBytes(more, S)
    BY <1>2, <1>4, <2>1 DEF OfBytes
  <2>4. ReadFd(b, data) = BufferAppend(Filled(b, here), more)
    BY <1>1, <1>4, <2>1 DEF ReadFd, Filled
  <2>5. IsBuffer(Filled(b, here), S) /\ Peek(Filled(b, here)) = Peek(b) \o here
    BY <1>1, <2>2, FilledAdds
  <2>6. /\ IsBuffer(ReadFd(b, data), S)
        /\ Peek(ReadFd(b, data)) = (Peek(b) \o here) \o more
    BY <2>3, <2>4, <2>5, AppendAdds
  <2>7. (Peek(b) \o here) \o more = Peek(b) \o data
    <3>1. PICK p \in Seq(S) : p = Peek(b)
      BY PeekCells DEF OfBytes
    <3> QED
      BY <1>2, <2>1, <2>2, <3>1, SplitData
  <2> QED
    BY <2>6, <2>7
<1> QED
  BY <1>3, <1>4

\* prepend() puts the data in front of what is there to be read and leaves that
\* as it is, when the space in front has the room the code asserts.
THEOREM PrependAdds ==
  ASSUME NEW S, NEW b, IsBuffer(b, S), NEW data, OfBytes(data, S),
         Len(data) <= PrependBytes(b)
  PROVE  IsBuffer(Prepend(b, data), S) /\ Peek(Prepend(b, data)) = data \o Peek(b)
<1>1. PICK f : f = Prepend(b, data)
  OBVIOUS
<1>0. PICK r \in Nat, w \in Nat, n \in Nat :
        r = b.readIndex /\ w = b.writeIndex /\ n = Len(data)
  BY Fields DEF OfBytes
<1>2. PICK at \in Nat : at = r - n
  BY <1>0 DEF PrependBytes
<1>3. PICK x : x = Copied(b.store, at, data)
  OBVIOUS
<1>4. at + n = r /\ r <= w /\ w <= Len(b.store) /\ Len(b.store) \in Nat
  BY <1>0, <1>2, Fields
<1>5. /\ x \in Seq(S) /\ Len(x) = Len(b.store)
      /\ \A i \in 1..n : x[at + i] = data[i]
      /\ \A i \in 1 .. Len(b.store) - (at + n) : x[at + n + i] = b.store[at + n + i]
  <2>1. OfBytes(b.store, S) /\ at + Len(data) <= Len(b.store)
    BY <1>0, <1>4, Fields DEF OfBytes
  <2> QED
    <3>1. PICK store : store = b.store
      OBVIOUS
    <3>2. OfBytes(store, S) /\ at + Len(data) <= Len(store) /\ x = Copied(store, at, data)
      BY <1>3, <2>1, <3>1
    <3>3. /\ x \in Seq(S) /\ Len(x) = Len(store)
          /\ \A i \in 1..Len(data) : x[at + i] = data[i]
      BY <3>2, CopiedCells
    <3>4. \A i \in 1 .. Len(store) - (at + Len(data)) :
               x[at + Len(data) + i] = store[at + Len(data) + i]
      BY <3>2, CopiedCells
    <3> QED
      BY <1>0, <3>1, <3>3, <3>4
<1>6. f = [store |-> x, readIndex |-> at, writeIndex |-> w]
  <2>1. b.readIndex - Len(data) = at
    BY <1>0, <1>2
  <2> QED
    BY <1>0, <1>1, <1>3, <2>1 DEF Prepend, IsBuffer
<1>7. IsBuffer(f, S)
  BY <1>4, <1>5, <1>6, Fields DEF IsBuffer
<1>m. PICK m \in Nat : m = w - (at + n)
  BY <1>4
<1>8. PICK p, q : p = Peek(b) /\ q = data \o p
  OBVIOUS
<1>9. /\ p \in Seq(S) /\ Len(p) = m
      /\ \A i \in 1..m : p[i] = b.store[at + n + i]
  <2>1. ReadableBytes(b) = m /\ b.readIndex = at + n
    BY <1>0, <1>4, <1>m DEF ReadableBytes
  <2>2. /\ OfBytes(p, S) /\ Len(p) = ReadableBytes(b)
        /\ \A i \in 1..ReadableBytes(b) : p[i] = b.store[b.readIndex + i]
    BY <1>8, PeekCells
  <2> QED
    BY <2>1, <2>2 DEF OfBytes
<1>10. Pair(q, data, p, S)
  BY <1>8, <1>9 DEF Pair, OfBytes
<1>11. /\ q \in Seq(S) /\ Len(q) = n + m
       /\ \A i \in 1..n : q[i] = data[i]
       /\ \A i \in 1..m : q[n + i] = p[i]
  <2>1. /\ q \in Seq(S) /\ Len(q) = Len(data) + Len(p)
        /\ \A i \in 1..Len(data) : q[i] = data[i]
        /\ \A i \in 1..Len(p) : q[Len(data) + i] = p[i]
    BY <1>10, Paired
  <2> QED
    BY <1>0, <1>9, <2>1
<1>12. ReadableBytes(f) = Len(q)
  BY <1>6, <1>m, <1>11 DEF ReadableBytes
<1>13. ASSUME NEW i \in 1..Len(q)
       PROVE  q[i] = f.store[f.readIndex + i]
  <2>1. CASE i <= n
    BY <1>5, <1>6, <1>11, <2>1
  <2>2. CASE i > n
    <3>1. PICK j \in 1..m : i = n + j
      <4>1. i - n \in 1..m /\ i = n + (i - n)
        BY <1>11, <2>2
      <4> QED
        BY <4>1
    <3>2. at + i = at + n + j /\ j \in 1 .. Len(b.store) - (at + n)
      BY <1>4, <1>m, <3>1
    <3>3. q[i] = p[j] /\ p[j] = b.store[at + n + j]
      BY <1>9, <1>11, <3>1
    <3>4. x[at + n + j] = b.store[at + n + j]
      BY <1>5, <3>2
    <3> QED
      BY <1>6, <3>2, <3>3, <3>4
  <2> QED
    BY <2>1, <2>2
<1>14. Peek(f) = q
  BY <1>7, <1>11, <1>12, <1>13, PeekIs DEF OfBytes
<1> QED
  BY <1>1, <1>7, <1>8, <1>14

-----------------------------------------------------------------------------
(* Transfer: what is accepted, and what is on its way *)

Buffers(S) ==
  {b \in [store : Seq(S), readIndex : Nat, writeIndex : Nat] : IsBuffer(b, S)}

Transfers(S) ==
  [state : {"kConnected", "kDisConnecting", "kDisConnected"}, writing : BOOLEAN,
   writeBuffer : Buffers(S), sendingFile : BOOLEAN, fileOpen : BOOLEAN,
   rest : Seq(S), size : Nat, fds : Int, wire : Seq(S), promised : Seq(S),
   overtaken : BOOLEAN]

\* The open files are the one that is being sent.
FdsInv(c) == ~c.overtaken => c.fds = IF c.fileOpen THEN 1 ELSE 0

\* The file: it is open while it is being sent, and then nothing else is.
FileInv(c) ==
  /\ c.sendingFile <=> c.fileOpen
  /\ ~c.sendingFile => c.rest = <<>>
  /\ c.sendingFile => c.rest # <<>> \/ c.size = 0
  /\ c.state = "kDisConnected" => ~c.sendingFile
  /\ FdsInv(c)

\* Whoever has something to write is told when it can.
WritingInv(c) ==
  c.state # "kDisConnected" => (c.writing <=> Unsent(c) \/ c.sendingFile)

\* What was accepted is where it should be.
OrderInv(c, S) ==
  ~c.overtaken =>
    IF c.state # "kDisConnected"
    THEN c.promised = (c.wire \o Peek(c.writeBuffer)) \o c.rest
    ELSE \E q \in Seq(S) : c.promised = (c.wire \o Peek(c.writeBuffer)) \o q

Good(c, S) == c \in Transfers(S) /\ FileInv(c) /\ WritingInv(c) /\ OrderInv(c, S)

-----------------------------------------------------------------------------
LEMMA WriteBuffer ==
  ASSUME NEW S, NEW c \in Transfers(S)
  PROVE  /\ IsBuffer(c.writeBuffer, S)
         /\ OfBytes(Peek(c.writeBuffer), S)
         /\ Peek(c.writeBuffer) \in Seq(S)
         /\ ReadableBytes(c.writeBuffer) \in Nat
         /\ Len(Peek(c.writeBuffer)) = ReadableBytes(c.writeBuffer)
         /\ ~Unsent(c) => Peek(c.writeBuffer) = <<>>
<1>1. IsBuffer(c.writeBuffer, S)
  BY DEF Transfers, Buffers
<1>2. PICK p : p = Peek(c.writeBuffer)
  OBVIOUS
<1>3. /\ p \in Seq(S) /\ ReadableBytes(c.writeBuffer) \in Nat
      /\ Len(p) = ReadableBytes(c.writeBuffer)
  BY <1>1, <1>2, PeekCells DEF OfBytes
<1>4. ~Unsent(c) => p = <<>>
  BY <1>3 DEF Unsent
<1> QED
  BY <1>1, <1>2, <1>3, <1>4 DEF OfBytes

LEMMA IsBufferInBuffers ==
  ASSUME NEW S, NEW b, IsBuffer(b, S)
  PROVE  b \in Buffers(S)
BY DEF IsBuffer, Buffers

LEMMA NewBufferEmpty ==
  ASSUME NEW S, Junk \in S
  PROVE  IsBuffer(NewBuffer, S) /\ Peek(NewBuffer) = <<>>
<1>1. kCheapPrepend \in Nat
  BY BufferAssumption
<1>2. Junks(kCheapPrepend) \in Seq(S) /\ Len(Junks(kCheapPrepend)) = kCheapPrepend
  BY <1>1, JunkCells
<1>3. IsBuffer(NewBuffer, S) /\ ReadableBytes(NewBuffer) = 0
  BY <1>1, <1>2 DEF NewBuffer, IsBuffer, ReadableBytes
<1>4. Len(Peek(NewBuffer)) = 0 /\ Peek(NewBuffer) \in Seq(S)
  BY <1>3, PeekCells DEF OfBytes
<1> QED
  BY <1>3, <1>4

LEMMA NewTransferGood ==
  ASSUME NEW S, Junk \in S
  PROVE  Good(NewTransfer, S)
<1>1. PICK b : b = NewBuffer
  OBVIOUS
<1>2. IsBuffer(b, S) /\ ReadableBytes(b) = 0
  BY <1>1, BufferAssumption, JunkCells DEF NewBuffer, IsBuffer, ReadableBytes
<1>3. b \in Buffers(S)
  BY <1>2, IsBufferInBuffers
<1>4. PICK c : c = NewTransfer
  OBVIOUS
<1>5. /\ c.state = "kConnected" /\ c.writing = FALSE /\ c.writeBuffer = b
      /\ c.sendingFile = FALSE /\ c.fileOpen = FALSE /\ c.rest = <<>>
      /\ c.fds = 0 /\ c.wire = <<>> /\ c.promised = <<>> /\ c.overtaken = FALSE
  BY <1>1, <1>4 DEF NewTransfer
<1>6. c \in Transfers(S)
  BY <1>1, <1>3, <1>4 DEF NewTransfer, Transfers
<1>7. ~Unsent(c) /\ Peek(c.writeBuffer) = <<>>
  BY <1>2, <1>5, <1>6, WriteBuffer DEF Unsent
<1>8. FileInv(c) /\ WritingInv(c)
  BY <1>5, <1>7 DEF FileInv, FdsInv, WritingInv
<1>9. OrderInv(c, S)
  BY <1>5, <1>7 DEF OrderInv
<1> QED
  BY <1>4, <1>6, <1>8, <1>9 DEF Good

-----------------------------------------------------------------------------
(* closing *)

LEMMA FileOverFields ==
  ASSUME NEW S, NEW c \in Transfers(S), FdsInv(c),
         NEW d, d = FileOver(c)
  PROVE  /\ d \in Transfers(S)
         /\ ~d.sendingFile /\ ~d.fileOpen
         /\ ~d.overtaken => d.fds = 0
         /\ d.state = c.state /\ d.writing = c.writing /\ d.rest = c.rest
         /\ d.writeBuffer = c.writeBuffer /\ d.wire = c.wire
         /\ d.promised = c.promised /\ d.overtaken = c.overtaken
<1>1. PICK n \in Int : n = IF c.fileOpen THEN c.fds - 1 ELSE c.fds
  BY DEF Transfers
<1>2. d = [c EXCEPT !.fileOpen = FALSE, !.sendingFile = FALSE, !.fds = n]
  BY <1>1 DEF FileOver, Transfers
<1>3. d \in Transfers(S)
  BY <1>1, <1>2 DEF Transfers
<1>4. /\ d.sendingFile = FALSE /\ d.fileOpen = FALSE /\ d.fds = n
      /\ d.state = c.state /\ d.writing = c.writing /\ d.rest = c.rest
      /\ d.writeBuffer = c.writeBuffer /\ d.wire = c.wire
      /\ d.promised = c.promised /\ d.overtaken = c.overtaken
  BY <1>2 DEF Transfers
<1> QED
  BY <1>1, <1>3, <1>4 DEF FdsInv

\* handleClose() of a connection whose file may be just over
LEMMA CloseKeeps ==
  ASSUME NEW S, NEW c, c \in Transfers(S), FdsInv(c), OrderInv(c, S)
  PROVE  Good(HandleClose(c), S) \/ (c.state = "kDisConnected" /\ HandleClose(c) = c)
<1>1. CASE c.state = "kDisConnected"
  BY <1>1 DEF HandleClose
<1>2. CASE c.state # "kDisConnected"
  <2>1. PICK f : f = FileOver(c)
    OBVIOUS
  <2>2. /\ f \in Transfers(S)
        /\ ~f.sendingFile /\ ~f.fileOpen
        /\ ~f.overtaken => f.fds = 0
        /\ f.writeBuffer = c.writeBuffer /\ f.wire = c.wire
        /\ f.promised = c.promised /\ f.overtaken = c.overtaken
    BY <2>1, FileOverFields
  <2>3. PICK d : d = HandleClose(c)
    OBVIOUS
  <2>4. d = [f EXCEPT !.state = "kDisConnected", !.rest = <<>>, !.size = 0]
    BY <1>2, <2>1, <2>3 DEF HandleClose
  <2>5. d \in Transfers(S)
    <3>1. PICK e \in Seq(S) : e = <<>>
      BY EmptySeq
    <3>2. d = [f EXCEPT !.state = "kDisConnected", !.rest = e, !.size = 0]
      BY <2>4, <3>1
    <3> QED
      BY <2>2, <3>2 DEF Transfers
  <2>6. /\ d.state = "kDisConnected" /\ d.rest = <<>>
        /\ d.sendingFile = f.sendingFile /\ d.fileOpen = f.fileOpen
        /\ d.fds = f.fds /\ d.wire = f.wire /\ d.writeBuffer = f.writeBuffer
        /\ d.promised = f.promised /\ d.overtaken = f.overtaken
    BY <2>2, <2>4 DEF Transfers
  <2>7. FileInv(d) /\ WritingInv(d)
    BY <2>2, <2>6 DEF FileInv, FdsInv, WritingInv
  <2>8. OrderInv(d, S)
    <3>1. c.rest \in Seq(S)
      BY DEF Transfers
    <3> QED
      BY <1>2, <2>2, <2>6, <3>1 DEF OrderInv
  <2> QED
    BY <2>3, <2>5, <2>7, <2>8 DEF Good
<1> QED
  BY <1>1, <1>2

LEMMA HandleCloseGood ==
  ASSUME NEW S, NEW c, Good(c, S)
  PROVE  Good(HandleClose(c), S)
BY CloseKeeps DEF Good, FileInv, FdsInv

LEMMA ForceCloseInLoopGood ==
  ASSUME NEW S, NEW c, Good(c, S)
  PROVE  Good(ForceCloseInLoop(c), S)
BY HandleCloseGood DEF ForceCloseInLoop

\* another thread's forceClose(), or the loop's own, begins
LEMMA DisconnectingGood ==
  ASSUME NEW S, NEW c, Good(c, S), c.state # "kDisConnected"
  PROVE  Good([c EXCEPT !.state = "kDisConnecting"], S)
<1>1. PICK d : d = [c EXCEPT !.state = "kDisConnecting"]
  OBVIOUS
<1>2. d \in Transfers(S)
  BY <1>1 DEF Good, Transfers
<1>3. /\ d.state = "kDisConnecting" /\ d.writing = c.writing
      /\ d.writeBuffer = c.writeBuffer /\ d.sendingFile = c.sendingFile
      /\ d.fileOpen = c.fileOpen /\ d.rest = c.rest /\ d.size = c.size
      /\ d.fds = c.fds /\ d.wire = c.wire
      /\ d.promised = c.promised /\ d.overtaken = c.overtaken
  BY <1>1 DEF Good, Transfers
<1>4. FileInv(d)
  BY <1>3 DEF Good, FileInv, FdsInv
<1>5. WritingInv(d)
  BY <1>3 DEF Good, WritingInv, Unsent
<1>6. OrderInv(d, S)
  BY <1>3 DEF Good, OrderInv
<1> QED
  BY <1>1, <1>2, <1>4, <1>5, <1>6 DEF Good

-----------------------------------------------------------------------------
(* send and sendFile *)

LEMMA AcceptedFields ==
  ASSUME NEW S, NEW c \in Transfers(S), NEW data, OfBytes(data, S),
         NEW a, a = Accepted(c, data)
  PROVE  /\ a \in Transfers(S)
         /\ a.promised = c.promised \o data
         /\ a.overtaken <=> c.overtaken \/ c.sendingFile
         /\ a.state = c.state /\ a.writing = c.writing
         /\ a.writeBuffer = c.writeBuffer /\ a.sendingFile = c.sendingFile
         /\ a.fileOpen = c.fileOpen /\ a.rest = c.rest /\ a.size = c.size
         /\ a.fds = c.fds /\ a.wire = c.wire
<1>1. PICK p \in Seq(S), o \in BOOLEAN :
        p = c.promised \o data /\ o = (c.overtaken \/ c.sendingFile)
  <2>1. c.promised \in Seq(S) /\ data \in Seq(S)
    BY DEF Transfers, OfBytes
  <2> QED
    BY <2>1, ConcatProperties
<1>2. a = [c EXCEPT !.promised = p, !.overtaken = o]
  BY <1>1 DEF Accepted, Transfers
<1>3. a \in Transfers(S)
  BY <1>1, <1>2 DEF Transfers
<1>4. /\ a.promised = p /\ a.overtaken = o
      /\ a.state = c.state /\ a.writing = c.writing
      /\ a.writeBuffer = c.writeBuffer /\ a.sendingFile = c.sendingFile
      /\ a.fileOpen = c.fileOpen /\ a.rest = c.rest /\ a.size = c.size
      /\ a.fds = c.fds /\ a.wire = c.wire
  BY <1>2 DEF Transfers
<1> QED
  BY <1>1, <1>3, <1>4

\* a is c after the socket took data
Took(a, c, data, S) ==
  /\ a \in Transfers(S)
  /\ a.wire = c.wire \o data
  /\ a.promised = c.promised /\ a.overtaken = c.overtaken
  /\ a.state = c.state /\ a.writing = c.writing
  /\ a.writeBuffer = c.writeBuffer /\ a.sendingFile = c.sendingFile
  /\ a.fileOpen = c.fileOpen /\ a.rest = c.rest /\ a.size = c.size
  /\ a.fds = c.fds

LEMMA TakenFields ==
  ASSUME NEW S, NEW c, c \in Transfers(S), NEW data, OfBytes(data, S)
  PROVE  Took(Taken(c, data), c, data, S)
<1> DEFINE a == Taken(c, data)
<1>1. PICK w \in Seq(S) : w = c.wire \o data
  <2>1. c.wire \in Seq(S) /\ data \in Seq(S)
    BY DEF Transfers, OfBytes
  <2> QED
    BY <2>1, ConcatProperties
<1>2. a = [c EXCEPT !.wire = w]
  BY <1>1 DEF Taken, Transfers
<1> HIDE DEF a
<1>3. Took(a, c, data, S)
  BY <1>1, <1>2 DEF Transfers, Took
<1> QED
  BY <1>3 DEF a

\* SendInLoop gives the bytes to the socket only when none wait, and what the
\* socket does not take waits.
LEMMA SendInLoopGood ==
  ASSUME NEW S, Junk \in S, NEW c, Good(c, S), NEW data, OfBytes(data, S),
         NEW d \in SendInLoop(c, data)
  PROVE  Good(d, S)
<1>1. CASE c.state = "kDisConnected"
  BY <1>1 DEF SendInLoop
<1>2. CASE c.state # "kDisConnected"
  <2>1. PICK a : a = Accepted(c, data)
    OBVIOUS
  <2>2. PICK n :
          /\ n \in IF ~c.writing /\ ~Unsent(c) THEN 0..Len(data) ELSE {0}
          /\ d = IF n = Len(data) THEN Taken(a, data)
                 ELSE [Taken(a, SubSeq(data, 1, n)) EXCEPT
                         !.writeBuffer = BufferAppend(@, SubSeq(data, n + 1, Len(data))),
                         !.writing = TRUE]
    BY <1>2, <2>1 DEF SendInLoop
  <2>3. c \in Transfers(S) /\ data \in Seq(S) /\ Len(data) \in Nat
    BY DEF Good, OfBytes
  <2>4. n \in Nat /\ n <= Len(data)
    <3>1. n \in 0..Len(data)
      BY <2>2, <2>3
    <3> QED
      BY <2>3, <3>1
  <2>5. /\ a \in Transfers(S)
        /\ a.promised = c.promised \o data
        /\ a.overtaken <=> c.overtaken \/ c.sendingFile
        /\ a.state = c.state /\ a.writing = c.writing
        /\ a.writeBuffer = c.writeBuffer /\ a.sendingFile = c.sendingFile
        /\ a.fileOpen = c.fileOpen /\ a.rest = c.rest /\ a.size = c.size
        /\ a.fds = c.fds /\ a.wire = c.wire
    BY <2>1, <2>3, AcceptedFields
  <2>t. a \in Transfers(S)
    BY <2>5
  <2>6. PICK w \in Seq(S), p \in Seq(S) :
          w = c.wire /\ p = Peek(c.writeBuffer)
    BY <2>3, WriteBuffer DEF Transfers
  \* Unless a file is being sent what was accepted is on the wire or waits.
  <2>7. ~a.overtaken =>
          /\ ~c.overtaken /\ ~c.sendingFile /\ c.rest = <<>>
          /\ c.promised = w \o p
    <3>1. SUFFICES ASSUME ~a.overtaken
                   PROVE  /\ ~c.overtaken /\ ~c.sendingFile /\ c.rest = <<>>
                          /\ c.promised = w \o p
      OBVIOUS
    <3>2. ~c.overtaken /\ ~c.sendingFile
      BY <2>5, <3>1
    <3>3. c.rest = <<>>
      BY <3>2 DEF Good, FileInv, FdsInv
    <3>4. c.promised = (w \o p) \o <<>>
      BY <1>2, <2>6, <3>2, <3>3 DEF Good, OrderInv
    <3>5. (w \o p) \o <<>> = w \o p
      BY <2>6, ConcatProperties, ConcatEmptySeq
    <3> QED
      BY <3>2, <3>3, <3>4, <3>5
  <2>8. CASE n = Len(data)
    <3>1. /\ d \in Transfers(S)
          /\ d.wire = w \o data
          /\ d.promised = a.promised /\ d.overtaken = a.overtaken
          /\ d.state = a.state /\ d.writing = a.writing
          /\ d.writeBuffer = a.writeBuffer /\ d.sendingFile = a.sendingFile
          /\ d.fileOpen = a.fileOpen /\ d.rest = a.rest /\ d.size = a.size
          /\ d.fds = a.fds
      <4>1. d = Taken(a, data)
        BY <2>2, <2>8
      <4>2. Took(d, a, data, S)
        BY <2>t, <4>1, TakenFields
      <4> QED
        BY <2>5, <2>6, <4>2 DEF Took
    <3>2. FileInv(d)
      BY <2>5, <3>1 DEF Good, FileInv, FdsInv
    <3>3. WritingInv(d)
      BY <2>5, <3>1 DEF Good, WritingInv, Unsent
    <3>4. OrderInv(d, S)
      <4>1. SUFFICES ASSUME ~d.overtaken
                     PROVE  d.promised = (d.wire \o Peek(d.writeBuffer)) \o d.rest
        BY <1>2, <2>5, <3>1 DEF OrderInv
      <4>2. d.promised = (w \o p) \o data /\ d.rest = <<>>
            /\ Peek(d.writeBuffer) = p /\ d.wire = w \o data
        BY <2>5, <2>6, <2>7, <3>1, <4>1
      <4>3. p = <<>> \/ data = <<>>
        <5>1. CASE ~c.writing /\ ~Unsent(c)
          BY <2>3, <2>6, <5>1, WriteBuffer
        <5>2. CASE ~(~c.writing /\ ~Unsent(c))
          <6>1. Len(data) = 0
            BY <2>2, <2>8, <5>2
          <6> QED
            BY <2>3, <6>1, EmptySeq
        <5> QED
          BY <5>1, <5>2
      <4>4. (w \o p) \o data = ((w \o data) \o p) \o <<>>
        <5>1. PICK z \in Seq(S) : z = data
          BY <2>3
        <5>2. CASE p = <<>>
          <6>1. (w \o p) \o z = w \o z /\ ((w \o z) \o p) \o <<>> = w \o z
            BY <5>2, ConcatProperties, ConcatEmptySeq
          <6> QED
            BY <5>1, <6>1
        <5>3. CASE data = <<>>
          <6>1. (w \o p) \o z = w \o p /\ ((w \o z) \o p) \o <<>> = w \o p
            BY <5>1, <5>3, ConcatProperties, ConcatEmptySeq
          <6> QED
            BY <5>1, <6>1
        <5> QED
          BY <4>3, <5>2, <5>3
      <4> QED
        BY <4>2, <4>4
    <3> QED
      BY <3>1, <3>2, <3>3, <3>4 DEF Good
  <2>9. CASE n # Len(data)
    <3>1. PICK f, g, b : /\ f = SubSeq(data, 1, n)
                         /\ g = SubSeq(data, n + 1, Len(data))
                         /\ b = BufferAppend(c.writeBuffer, g)
      OBVIOUS
    <3>2. OfBytes(f, S) /\ OfBytes(g, S) /\ Len(g) > 0 /\ g \in Seq(S) /\ f \in Seq(S)
      <4>1. PICK l \in Nat : l = Len(data)
        BY <2>3
      <4>2. n \in Nat /\ n < l /\ data \in Seq(S)
        BY <2>3, <2>4, <2>9, <4>1
      <4>3. g \in Seq(S) /\ Len(g) = l - n
        BY <3>1, <4>1, <4>2, Part
      <4>4. f \in Seq(S)
        BY <3>1, <4>1, <4>2
      <4> QED
        BY <4>2, <4>3, <4>4 DEF OfBytes
    <3>o. OfBytes(f, S)
      BY <3>2
    <3>3. PICK t : t = Taken(a, f)
      OBVIOUS
    <3>4. /\ t \in Transfers(S)
          /\ t.wire = w \o f
          /\ t.promised = a.promised /\ t.overtaken = a.overtaken
          /\ t.state = a.state
          /\ t.writeBuffer = a.writeBuffer /\ t.sendingFile = a.sendingFile
          /\ t.fileOpen = a.fileOpen /\ t.rest = a.rest /\ t.size = a.size
          /\ t.fds = a.fds
      <4>1. Took(t, a, f, S)
        BY <2>t, <3>o, <3>3, TakenFields
      <4>2. a.wire = w
        BY <2>5, <2>6
      <4> QED
        BY <4>1, <4>2 DEF Took
    <3>5. d = [t EXCEPT !.writeBuffer = b, !.writing = TRUE]
      BY <2>2, <2>5, <2>9, <3>1, <3>3, <3>4 DEF Transfers
    <3>6. IsBuffer(b, S) /\ b \in Buffers(S) /\ Peek(b) = p \o g
      <4>1. IsBuffer(b, S) /\ Peek(b) = Peek(c.writeBuffer) \o g
        BY <2>3, <3>1, <3>2, WriteBuffer, AppendAdds
      <4> QED
        BY <2>6, <4>1, IsBufferInBuffers
    <3>7. /\ d \in Transfers(S)
          /\ d.writing = TRUE /\ d.writeBuffer = b
          /\ d.wire = t.wire
          /\ d.promised = t.promised /\ d.overtaken = t.overtaken
          /\ d.state = t.state /\ d.sendingFile = t.sendingFile
          /\ d.fileOpen = t.fileOpen /\ d.rest = t.rest /\ d.size = t.size
          /\ d.fds = t.fds
      BY <3>4, <3>5, <3>6 DEF Transfers
    <3>8. FileInv(d)
      BY <2>5, <3>4, <3>7 DEF Good, FileInv, FdsInv
    <3>9. WritingInv(d)
      <4>1. Len(p \o g) > 0
        BY <2>6, <3>2
      <4>2. ReadableBytes(b) > 0
        BY <3>6, <4>1, PeekCells
      <4> QED
        BY <3>7, <4>2 DEF WritingInv, Unsent
    <3>10. OrderInv(d, S)
      <4>1. SUFFICES ASSUME ~d.overtaken
                     PROVE  d.promised = (d.wire \o Peek(d.writeBuffer)) \o d.rest
        BY <1>2, <2>5, <3>4, <3>7 DEF OrderInv
      <4>2. d.promised = (w \o p) \o data /\ d.rest = <<>>
            /\ Peek(d.writeBuffer) = p \o g /\ d.wire = w \o f
        BY <2>5, <2>7, <3>4, <3>6, <3>7, <4>1
      <4>3. p = <<>> \/ n = 0
        <5>1. CASE ~c.writing /\ ~Unsent(c)
          BY <2>3, <2>6, <5>1, WriteBuffer
        <5>2. CASE ~(~c.writing /\ ~Unsent(c))
          BY <2>2, <5>2
        <5> QED
          BY <5>1, <5>2
      <4>4. (w \o p) \o data = ((w \o f) \o (p \o g)) \o <<>>
        <5>1. (w \o f) \o g = w \o data
          BY <2>3, <2>4, <2>6, <3>1, SplitData
        <5>2. PICK z \in Seq(S) : z = data
          BY <2>3
        <5>3. CASE p = <<>>
          <6>1. /\ (w \o p) \o z = w \o z
                /\ ((w \o f) \o (p \o g)) \o <<>> = (w \o f) \o g
            BY <3>2, <5>3, ConcatProperties, ConcatEmptySeq
          <6> QED
            BY <5>1, <5>2, <6>1
        <5>4. CASE n = 0
          <6>1. f = <<>>
            BY <2>3, <3>1, <5>4
          <6>2. g = data
            <7>1. g = SubSeq(z, 1, Len(z))
              BY <3>1, <5>2, <5>4
            <7> QED
              BY <5>2, <7>1, SubSeqFull
          <6>3. w \o f = w
            BY <6>1, ConcatEmptySeq
          <6>4. g \in Seq(S)
            BY <3>2
          <6>5. PICK x \in Seq(S) : x = w \o (p \o g)
            BY <6>4, ConcatProperties
          <6>6. x \o <<>> = x
            BY ConcatEmptySeq
          <6>7. x = (w \o p) \o g
            BY <6>4, <6>5, ConcatAssociative
          <6>8. ((w \o f) \o (p \o g)) \o <<>> = x
            BY <6>3, <6>5, <6>6
          <6> QED
            BY <6>2, <6>7, <6>8
        <5> QED
          BY <4>3, <5>3, <5>4
      <4> QED
        BY <4>2, <4>4
    <3> QED
      BY <3>7, <3>8, <3>9, <3>10 DEF Good
  <2> QED
    BY <2>8, <2>9
<1> QED
  BY <1>1, <1>2

\* A file is open while it is being sent; one that replaces another says so.
LEMMA SendFileInLoopGood ==
  ASSUME NEW S, NEW c, Good(c, S), NEW contents, OfBytes(contents, S),
         NEW d \in SendFileInLoop(c, contents)
  PROVE  Good(d, S)
<1>1. CASE c.state = "kDisConnected"
  BY <1>1 DEF SendFileInLoop
<1>2. CASE c.state # "kDisConnected" /\ d = ForceCloseInLoop(c)
  BY <1>2, ForceCloseInLoopGood
<1>3. CASE c.state # "kDisConnected" /\ d # ForceCloseInLoop(c)
  <2>1. PICK a : a = Accepted(c, contents)
    OBVIOUS
  <2>2. c \in Transfers(S) /\ contents \in Seq(S) /\ Len(contents) \in Nat
    BY DEF Good, OfBytes
  <2>3. /\ a \in Transfers(S)
        /\ a.promised = c.promised \o contents
        /\ a.overtaken <=> c.overtaken \/ c.sendingFile
        /\ a.state = c.state
        /\ a.writeBuffer = c.writeBuffer /\ a.wire = c.wire /\ a.fds = c.fds
    BY <2>1, <2>2, AcceptedFields
  <2>4. d = [a EXCEPT !.rest = contents, !.size = Len(contents), !.fileOpen = TRUE,
                      !.fds = @ + 1, !.sendingFile = TRUE, !.writing = TRUE]
    BY <1>3, <2>1 DEF SendFileInLoop
  <2>5. PICK k \in Int : k = a.fds + 1
    BY <2>3 DEF Transfers
  <2>6. d = [a EXCEPT !.rest = contents, !.size = Len(contents), !.fileOpen = TRUE,
                      !.fds = k, !.sendingFile = TRUE, !.writing = TRUE]
    BY <2>3, <2>4, <2>5 DEF Transfers
  <2>7. d \in Transfers(S)
    BY <2>2, <2>3, <2>6 DEF Transfers
  <2>8. /\ d.rest = contents /\ d.size = Len(contents) /\ d.fileOpen = TRUE
        /\ d.fds = k /\ d.sendingFile = TRUE /\ d.writing = TRUE
        /\ d.state = a.state /\ d.writeBuffer = a.writeBuffer
        /\ d.wire = a.wire /\ d.promised = a.promised
        /\ d.overtaken = a.overtaken
    BY <2>3, <2>6 DEF Transfers
  <2>9. FileInv(d)
    <3>1. contents # <<>> \/ Len(contents) = 0
      BY <2>2
    <3>2. ~d.overtaken => d.fds = 1
      BY <2>3, <2>5, <2>8 DEF Good, FileInv, FdsInv
    <3> QED
      BY <1>3, <2>3, <2>8, <3>1, <3>2 DEF FileInv, FdsInv
  <2>10. WritingInv(d)
    BY <2>8 DEF WritingInv
  <2>11. OrderInv(d, S)
    <3>1. SUFFICES ASSUME ~d.overtaken
                   PROVE  d.promised = (d.wire \o Peek(d.writeBuffer)) \o d.rest
      BY <1>3, <2>3, <2>8 DEF OrderInv
    <3>2. ~c.overtaken /\ ~c.sendingFile
      BY <2>3, <2>8, <3>1
    <3>3. PICK w \in Seq(S), p \in Seq(S) :
            w = c.wire /\ p = Peek(c.writeBuffer)
      BY <2>2, WriteBuffer DEF Transfers
    <3>4. c.promised = (w \o p) \o <<>>
      BY <1>3, <3>2, <3>3 DEF Good, OrderInv, FileInv, FdsInv
    <3>5. (w \o p) \o <<>> = w \o p
      BY <3>3, ConcatProperties, ConcatEmptySeq
    <3> QED
      BY <2>3, <2>8, <3>3, <3>4, <3>5
  <2> QED
    BY <2>7, <2>9, <2>10, <2>11 DEF Good
<1> QED
  BY <1>1, <1>2, <1>3

LEMMA SendGood ==
  ASSUME NEW S, Junk \in S, NEW c, Good(c, S), NEW data, OfBytes(data, S),
         NEW d \in Send(c, data)
  PROVE  Good(d, S)
BY SendInLoopGood DEF Send

LEMMA SendFileGood ==
  ASSUME NEW S, NEW c, Good(c, S), NEW contents, OfBytes(contents, S),
         NEW d \in SendFile(c, contents)
  PROVE  Good(d, S)
BY SendFileInLoopGood DEF SendFile

-----------------------------------------------------------------------------
(* handleWrite *)

\* One write() moves the front of writeBuffer_ to the wire.
LEMMA DrainBufferGood ==
  ASSUME NEW S, Junk \in S, NEW c, Good(c, S), Unsent(c), NEW d \in DrainBuffer(c)
  PROVE  Good(d, S)
<1>1. CASE d = c \/ d = HandleClose(c)
  BY <1>1, HandleCloseGood
<1>2. CASE ~(d = c \/ d = HandleClose(c))
  <2>1. PICK n \in 1..ReadableBytes(c.writeBuffer) :
          d = LET w == [Taken(c, SubSeq(Peek(c.writeBuffer), 1, n)) EXCEPT
                          !.writeBuffer = Retrieve(@, n)]
              IN IF Unsent(w) \/ c.sendingFile THEN w ELSE [w EXCEPT !.writing = FALSE]
    BY <1>2 DEF DrainBuffer
  <2>t. c \in Transfers(S)
    BY DEF Good
  <2>2. PICK w \in Seq(S), p \in Seq(S), r \in Seq(S) :
          w = c.wire /\ p = Peek(c.writeBuffer) /\ r = c.rest
    BY <2>t, WriteBuffer DEF Transfers
  <2>3. n \in Nat /\ n <= Len(p)
    BY <2>1, <2>2, <2>t, WriteBuffer
  <2>4. PICK f, g, b : /\ f = SubSeq(p, 1, n)
                       /\ g = SubSeq(p, n + 1, Len(p))
                       /\ b = Retrieve(c.writeBuffer, n)
    OBVIOUS
  <2>5. OfBytes(f, S)
    BY <2>2, <2>3, <2>4 DEF OfBytes
  <2>6. IsBuffer(b, S) /\ b \in Buffers(S) /\ Peek(b) = g
    <3>1. IsBuffer(b, S) /\ Peek(b) = SubSeq(p, n + 1, Len(p))
      BY <2>2, <2>3, <2>4, <2>t, WriteBuffer, RetrieveTakes
    <3> QED
      BY <2>4, <3>1, IsBufferInBuffers
  <2>7. PICK t : t = Taken(c, f)
    OBVIOUS
  <2>8. /\ t \in Transfers(S)
        /\ t.wire = w \o f
        /\ t.promised = c.promised /\ t.overtaken = c.overtaken
        /\ t.state = c.state /\ t.writing = c.writing
        /\ t.writeBuffer = c.writeBuffer /\ t.sendingFile = c.sendingFile
        /\ t.fileOpen = c.fileOpen /\ t.rest = c.rest /\ t.size = c.size
        /\ t.fds = c.fds
    <3>1. Took(t, c, f, S)
      BY <2>t, <2>5, <2>7, TakenFields
    <3> QED
      BY <2>2, <3>1 DEF Took
  <2>9. PICK u : u = [t EXCEPT !.writeBuffer = b]
    OBVIOUS
  <2>10. /\ u \in Transfers(S)
         /\ u.writeBuffer = b
         /\ u.wire = t.wire /\ u.promised = t.promised
         /\ u.overtaken = t.overtaken /\ u.state = t.state
         /\ u.writing = t.writing /\ u.sendingFile = t.sendingFile
         /\ u.fileOpen = t.fileOpen /\ u.rest = t.rest /\ u.size = t.size
         /\ u.fds = t.fds
    BY <2>6, <2>8, <2>9 DEF Transfers
  <2>11. d = IF Unsent(u) \/ c.sendingFile THEN u ELSE [u EXCEPT !.writing = FALSE]
    <3>1. u = [Taken(c, SubSeq(Peek(c.writeBuffer), 1, n)) EXCEPT
                 !.writeBuffer = Retrieve(@, n)]
      BY <2>2, <2>4, <2>7, <2>8, <2>9 DEF Transfers
    <3> QED
      BY <2>1, <3>1
  <2>12. /\ d \in Transfers(S)
         /\ d.writing <=> (Unsent(u) \/ c.sendingFile) /\ c.writing
         /\ d.writeBuffer = b
         /\ d.wire = t.wire /\ d.promised = t.promised
         /\ d.overtaken = t.overtaken /\ d.state = t.state
         /\ d.sendingFile = t.sendingFile
         /\ d.fileOpen = t.fileOpen /\ d.rest = t.rest /\ d.size = t.size
         /\ d.fds = t.fds
    <3>1. CASE Unsent(u) \/ c.sendingFile
      BY <2>8, <2>10, <2>11, <3>1
    <3>2. CASE ~(Unsent(u) \/ c.sendingFile)
      <4>1. d = [u EXCEPT !.writing = FALSE]
        BY <2>11, <3>2
      <4>2. /\ d \in Transfers(S) /\ d.writing = FALSE
            /\ d.writeBuffer = u.writeBuffer
            /\ d.wire = u.wire /\ d.promised = u.promised
            /\ d.overtaken = u.overtaken /\ d.state = u.state
            /\ d.sendingFile = u.sendingFile
            /\ d.fileOpen = u.fileOpen /\ d.rest = u.rest /\ d.size = u.size
            /\ d.fds = u.fds
        BY <2>10, <4>1 DEF Transfers
      <4> QED
        BY <2>10, <3>2, <4>2
    <3> QED
      BY <3>1, <3>2
  <2>13. FileInv(d)
    BY <2>8, <2>12 DEF Good, FileInv, FdsInv
  <2>14. WritingInv(d)
    <3>1. c.state # "kDisConnected" => c.writing
      BY DEF Good, WritingInv
    <3>2. Unsent(d) <=> Unsent(u)
      BY <2>10, <2>12 DEF Unsent
    <3> QED
      BY <2>8, <2>12, <3>1, <3>2 DEF WritingInv
  <2>15. OrderInv(d, S)
    <3>1. SUFFICES ASSUME ~d.overtaken PROVE OrderInv(d, S)
      BY DEF OrderInv
    <3>2. (w \o f) \o g = w \o p
      BY <2>2, <2>3, <2>4, SplitData
    <3>3. /\ d.wire \o Peek(d.writeBuffer) = w \o p
          /\ d.promised = c.promised /\ d.rest = c.rest /\ d.state = c.state
      BY <2>6, <2>8, <2>12, <3>2
    <3>4. c.wire \o Peek(c.writeBuffer) = w \o p /\ ~c.overtaken
      BY <2>2, <2>8, <2>12, <3>1
    <3> QED
      BY <3>3, <3>4 DEF Good, OrderInv
  <2> QED
    BY <2>12, <2>13, <2>14, <2>15 DEF Good
<1> QED
  BY <1>1, <1>2

LEMMA FileDoneFields ==
  ASSUME NEW S, NEW c \in Transfers(S), FdsInv(c),
         NEW d, d = FileDone(c)
  PROVE  /\ d \in Transfers(S)
         /\ ~d.sendingFile /\ ~d.fileOpen /\ ~d.writing /\ FdsInv(d)
         /\ d.state = c.state /\ d.rest = c.rest
         /\ d.writeBuffer = c.writeBuffer /\ d.wire = c.wire
         /\ d.promised = c.promised /\ d.overtaken = c.overtaken
<1>1. PICK f : f = FileOver(c)
  OBVIOUS
<1>2. /\ f \in Transfers(S)
      /\ ~f.sendingFile /\ ~f.fileOpen
      /\ ~f.overtaken => f.fds = 0
      /\ f.state = c.state /\ f.rest = c.rest
      /\ f.writeBuffer = c.writeBuffer /\ f.wire = c.wire
      /\ f.promised = c.promised /\ f.overtaken = c.overtaken
  BY <1>1, FileOverFields
<1>3. d = [f EXCEPT !.writing = FALSE]
  BY <1>1 DEF FileDone
<1>4. /\ d \in Transfers(S) /\ d.writing = FALSE
      /\ d.sendingFile = f.sendingFile /\ d.fileOpen = f.fileOpen
      /\ d.fds = f.fds /\ d.state = f.state /\ d.rest = f.rest
      /\ d.writeBuffer = f.writeBuffer /\ d.wire = f.wire
      /\ d.promised = f.promised /\ d.overtaken = f.overtaken
  BY <1>2, <1>3 DEF Transfers
<1> QED
  BY <1>2, <1>4 DEF FdsInv

\* It is the file's turn.
FileTurn(c) == c.state # "kDisConnected" /\ ~Unsent(c) /\ c.sendingFile

\* One sendfile() moves the front of the file to the wire; the last one ends it.
LEMMA SendChunkGood ==
  ASSUME NEW S, NEW c, Good(c, S), FileTurn(c), NEW d \in SendChunk(c)
  PROVE  Good(d, S)
<1>t. c \in Transfers(S) /\ FdsInv(c)
  BY DEF Good, FileInv
<1>c. c \in Transfers(S)
  BY <1>t
<1>w. PICK w \in Seq(S), r \in Seq(S) : w = c.wire /\ r = c.rest
  BY <1>t DEF Transfers
<1>p. Peek(c.writeBuffer) = <<>>
  BY <1>t, WriteBuffer DEF FileTurn
<1>s. c.state # "kDisConnected"
  BY DEF FileTurn
\* All that was accepted is on the wire or in the rest of the file.
<1>o. ~c.overtaken => c.promised = w \o r
  <2>1. SUFFICES ASSUME ~c.overtaken PROVE c.promised = w \o r
    OBVIOUS
  <2>2. c.promised = (w \o <<>>) \o r
    BY <1>w, <1>p, <1>s, <2>1 DEF Good, OrderInv
  <2>3. w \o <<>> = w
    BY <1>w, ConcatEmptySeq
  <2> QED
    BY <2>2, <2>3
<1>1. CASE d = c
  BY <1>1
<1>2. CASE d = HandleClose(FileDone(c))
  <2>1. PICK e : e = FileDone(c)
    OBVIOUS
  <2>2. /\ e \in Transfers(S) /\ FdsInv(e)
        /\ e.state = c.state /\ e.rest = c.rest
        /\ e.writeBuffer = c.writeBuffer /\ e.wire = c.wire
        /\ e.promised = c.promised /\ e.overtaken = c.overtaken
    BY <1>t, <2>1, FileDoneFields
  <2>3. OrderInv(e, S)
    BY <2>2 DEF Good, OrderInv
  <2> QED
    BY <1>s, <1>2, <2>1, <2>2, <2>3, CloseKeeps
<1>3. CASE ~(d = c \/ d = HandleClose(FileDone(c)))
  <2>1. PICK n \in 1 .. (IF Len(c.rest) < ChunkSize THEN Len(c.rest) ELSE ChunkSize) :
          d = LET s == [Taken(c, SubSeq(c.rest, 1, n)) EXCEPT
                          !.rest = SubSeq(@, n + 1, Len(@))]
              IN IF s.rest = <<>> THEN FileDone(s) ELSE s
    BY <1>3 DEF SendChunk
  <2>2. n \in Nat /\ n <= Len(r)
    BY <1>w, <2>1, TransferAssumption
  <2>3. PICK f, g : f = SubSeq(r, 1, n) /\ g = SubSeq(r, n + 1, Len(r))
    OBVIOUS
  <2>4. OfBytes(f, S) /\ g \in Seq(S)
    BY <1>w, <2>2, <2>3 DEF OfBytes
  <2>f. OfBytes(f, S)
    BY <2>4
  <2>5. PICK t : t = Taken(c, f)
    OBVIOUS
  <2>6. /\ t \in Transfers(S)
        /\ t.wire = w \o f
        /\ t.promised = c.promised /\ t.overtaken = c.overtaken
        /\ t.state = c.state /\ t.writing = c.writing
        /\ t.writeBuffer = c.writeBuffer /\ t.sendingFile = c.sendingFile
        /\ t.fileOpen = c.fileOpen /\ t.rest = c.rest
        /\ t.fds = c.fds
    <3>1. Took(t, c, f, S)
      BY <1>c, <2>f, <2>5, TakenFields
    <3> QED
      BY <1>w, <3>1 DEF Took
  <2>7. PICK s : s = [t EXCEPT !.rest = g]
    OBVIOUS
  <2>8. /\ s \in Transfers(S)
        /\ s.rest = g
        /\ s.wire = t.wire /\ s.promised = t.promised
        /\ s.overtaken = t.overtaken /\ s.state = t.state
        /\ s.writing = t.writing /\ s.sendingFile = t.sendingFile
        /\ s.fileOpen = t.fileOpen /\ s.writeBuffer = t.writeBuffer
        /\ s.fds = t.fds
    BY <2>4, <2>6, <2>7 DEF Transfers
  <2>9. d = IF s.rest = <<>> THEN FileDone(s) ELSE s
    <3>1. s = [Taken(c, SubSeq(c.rest, 1, n)) EXCEPT
                 !.rest = SubSeq(@, n + 1, Len(@))]
      BY <1>w, <2>3, <2>5, <2>6, <2>7 DEF Transfers
    <3> QED
      BY <2>1, <3>1
  <2>10. ~s.overtaken => s.promised = s.wire \o g
    <3>1. (w \o f) \o g = w \o r
      BY <1>w, <2>2, <2>3, SplitData
    <3> QED
      BY <1>o, <2>6, <2>8, <3>1
  <2>11. FdsInv(s)
    BY <1>t, <2>6, <2>8 DEF FdsInv
  <2>12. CASE g = <<>>
    <3>1. d = FileDone(s)
      BY <2>8, <2>9, <2>12
    <3>2. /\ d \in Transfers(S)
          /\ ~d.sendingFile /\ ~d.fileOpen /\ ~d.writing /\ FdsInv(d)
          /\ d.state = s.state /\ d.rest = s.rest
          /\ d.writeBuffer = s.writeBuffer /\ d.wire = s.wire
          /\ d.promised = s.promised /\ d.overtaken = s.overtaken
      BY <2>8, <2>11, <3>1, FileDoneFields
    <3>3. FileInv(d)
      BY <2>8, <2>12, <3>2 DEF FileInv
    <3>4. WritingInv(d)
      BY <2>6, <2>8, <3>2 DEF WritingInv, Unsent, FileTurn
    <3>5. OrderInv(d, S)
      <4>1. SUFFICES ASSUME ~d.overtaken
                     PROVE  d.promised = (d.wire \o Peek(d.writeBuffer)) \o d.rest
        BY <1>s, <2>6, <2>8, <3>2 DEF OrderInv
      <4>2. d.promised = s.wire \o <<>> /\ d.wire = s.wire /\ d.rest = <<>>
            /\ Peek(d.writeBuffer) = <<>>
        BY <1>p, <2>6, <2>8, <2>10, <2>12, <3>2, <4>1
      <4>3. s.wire \in Seq(S)
        BY <2>8 DEF Transfers
      <4>4. (s.wire \o <<>>) \o <<>> = s.wire \o <<>>
        BY <4>3, ConcatProperties, ConcatEmptySeq
      <4> QED
        BY <4>2, <4>4
    <3> QED
      BY <3>2, <3>3, <3>4, <3>5 DEF Good
  <2>13. CASE g # <<>>
    <3>1. d = s
      BY <2>8, <2>9, <2>13
    <3>2. FileInv(d)
      <4>1. d.sendingFile = c.sendingFile /\ d.fileOpen = c.fileOpen
        BY <2>6, <2>8, <3>1
      <4>2. c.sendingFile /\ c.fileOpen
        BY DEF FileTurn, Good, FileInv
      <4>3. d.sendingFile /\ d.fileOpen
        BY <4>1, <4>2
      <4>4. d.rest # <<>> /\ d.state # "kDisConnected" /\ FdsInv(d)
        BY <1>s, <2>6, <2>8, <2>11, <2>13, <3>1
      <4> QED
        BY <4>3, <4>4 DEF FileInv
    <3>3. WritingInv(d)
      BY <2>6, <2>8, <3>1 DEF Good, WritingInv, Unsent
    <3>4. OrderInv(d, S)
      <4>1. SUFFICES ASSUME ~d.overtaken
                     PROVE  d.promised = (d.wire \o Peek(d.writeBuffer)) \o d.rest
        BY <1>s, <2>6, <2>8, <3>1 DEF OrderInv
      <4>2. d.promised = s.wire \o g /\ d.wire = s.wire /\ d.rest = g
            /\ Peek(d.writeBuffer) = <<>>
        BY <1>p, <2>6, <2>8, <2>10, <3>1, <4>1
      <4>3. s.wire \in Seq(S)
        BY <2>8 DEF Transfers
      <4>4. s.wire \o <<>> = s.wire
        BY <4>3, ConcatEmptySeq
      <4> QED
        BY <4>2, <4>4
    <3> QED
      BY <2>8, <3>1, <3>2, <3>3, <3>4 DEF Good
  <2> QED
    BY <2>12, <2>13
<1> QED
  BY <1>1, <1>2, <1>3

LEMMA HandleWriteGood ==
  ASSUME NEW S, Junk \in S, NEW c, Good(c, S), NEW d \in HandleWrite(c)
  PROVE  Good(d, S)
<1>1. PICK e \in IF Unsent(c) THEN DrainBuffer(c) ELSE {c} :
        d \in IF ~Unsent(e) /\ e.sendingFile /\ e.fileOpen THEN SendChunk(e) ELSE {e}
  BY DEF HandleWrite
<1>2. Good(e, S)
  BY <1>1, DrainBufferGood
<1>3. CASE ~Unsent(e) /\ e.sendingFile /\ e.fileOpen
  <2>1. e.state # "kDisConnected"
    BY <1>2, <1>3 DEF Good, FileInv
  <2> QED
    BY <1>1, <1>2, <1>3, <2>1, SendChunkGood DEF FileTurn
<1>4. CASE ~(~Unsent(e) /\ e.sendingFile /\ e.fileOpen)
  BY <1>1, <1>2, <1>4
<1> QED
  BY <1>3, <1>4

-----------------------------------------------------------------------------
(* Counting: induction over the naturals, from the least of those in a set.  A  *)
(* recursive function in a LET is unfolded and followed with its help.          *)

\* A set that has 0 and with every number the next one is that of all numbers.
LEMMA Counting ==
  ASSUME NEW T \in SUBSET Nat, 0 \in T, \A n \in T : n + 1 \in T
  PROVE  T = Nat
<1> SUFFICES ASSUME T # Nat PROVE FALSE
  OBVIOUS
<1>1. IsWellFoundedOn(OpToRel(<, Nat), Nat)
  BY NatLessThanWellFounded
<1>2. PICK n \in Nat \ T : \A m \in Nat \ T : ~(<<m, n>> \in OpToRel(<, Nat))
  BY <1>1, WFMin
<1>3. \A m \in Nat \ T : ~(m < n)
  BY <1>2 DEF OpToRel
<1>4. PICK m : m = n - 1
  OBVIOUS
<1>5. m \in T /\ n = m + 1
  BY <1>3, <1>4
<1> QED
  BY <1>5

-----------------------------------------------------------------------------
(* What FlattenSeq makes of a sequence of sequences *)

\* The chain of concatenations that FlattenSeq follows, as far as n.
Chain(s, n, f) == f = [i \in 1..n |-> IF i = 1 THEN s[i] ELSE f[i - 1] \o s[i]]

LEMMA ChainExists ==
  ASSUME NEW S, NEW s \in Seq(Seq(S))
  PROVE  \A n \in 0..Len(s) : \E f \in [1..n -> Seq(S)] : Chain(s, n, f)
<1>1. PICK T : T = {n \in Nat : n <= Len(s) => \E f \in [1..n -> Seq(S)] : Chain(s, n, f)}
  OBVIOUS
<1>2. 0 \in T
  <2>1. \E f \in [1..0 -> Seq(S)] : Chain(s, 0, f)
    <3>1. PICK f : f = [i \in 1..0 |-> <<>>]
      OBVIOUS
    <3>2. f \in [1..0 -> Seq(S)] /\ DOMAIN f = {} /\ 1..0 = {}
      BY <3>1
    <3>3. f = [i \in 1..0 |-> IF i = 1 THEN s[i] ELSE f[i - 1] \o s[i]]
      BY <3>1
    <3> QED
      BY <3>2, <3>3 DEF Chain
  <2> QED
    BY <1>1, <2>1
<1>3. ASSUME NEW n \in T, n + 1 <= Len(s)
      PROVE  \E f \in [1..(n + 1) -> Seq(S)] : Chain(s, n + 1, f)
  <2>1. n \in Nat /\ n <= Len(s) /\ n + 1 \in 1..Len(s) /\ s[n + 1] \in Seq(S)
    BY <1>1, <1>3
  <2>2. PICK f \in [1..n -> Seq(S)] : Chain(s, n, f)
    BY <1>1, <2>1
  <2>3. PICK a : a = IF n + 1 = 1 THEN s[n + 1] ELSE f[n] \o s[n + 1]
    OBVIOUS
  <2>4. a \in Seq(S)
    BY <2>1, <2>3
  <2>5. PICK g : g = [i \in 1..(n + 1) |-> IF i = n + 1 THEN a ELSE f[i]]
    OBVIOUS
  <2>6. g \in [1..(n + 1) -> Seq(S)]
    BY <2>1, <2>4, <2>5
  <2>7. \A i \in 1..n : f[i] = IF i = 1 THEN s[i] ELSE f[i - 1] \o s[i]
    BY <2>2 DEF Chain
  <2>8. \A i \in 1..(n + 1) : g[i] = IF i = 1 THEN s[i] ELSE g[i - 1] \o s[i]
    <3> SUFFICES ASSUME NEW i \in 1..(n + 1)
                 PROVE  g[i] = IF i = 1 THEN s[i] ELSE g[i - 1] \o s[i]
      OBVIOUS
    <3>1. i # 1 => i - 1 \in 1..n /\ i - 1 \in 1..(n + 1) /\ i - 1 # n + 1 /\ g[i - 1] = f[i - 1]
      BY <2>1, <2>5
    <3>2. CASE i = n + 1
      <4>1. g[i] = a
        BY <2>5, <3>2
      <4>2. i # 1 => g[i - 1] = f[n]
        BY <2>1, <3>1, <3>2
      <4> QED
        BY <4>1, <4>2, <2>3, <3>2
    <3>3. CASE i # n + 1
      <4>1. i \in 1..n /\ g[i] = f[i]
        BY <2>1, <2>5, <3>3
      <4> QED
        BY <2>7, <3>1, <4>1
    <3> QED
      BY <3>2, <3>3
  <2>9. Chain(s, n + 1, g)
    <3>1. PICK h : h = [i \in 1..(n + 1) |-> IF i = 1 THEN s[i] ELSE g[i - 1] \o s[i]]
      OBVIOUS
    <3>2. DOMAIN g = 1..(n + 1) /\ DOMAIN h = 1..(n + 1) /\ \A i \in 1..(n + 1) : g[i] = h[i]
      BY <2>5, <2>8, <3>1
    <3>3. g = h
      BY <2>5, <3>1, <3>2
    <3> QED
      BY <3>1, <3>3 DEF Chain
  <2> QED
    BY <2>6, <2>9
<1>4. ASSUME NEW n \in T
      PROVE  n + 1 \in T
  <2>1. n + 1 \in Nat
    BY <1>1
  <2>2. n + 1 <= Len(s) => \E f \in [1..(n + 1) -> Seq(S)] : Chain(s, n + 1, f)
    BY <1>3
  <2> QED
    BY <1>1, <2>1, <2>2
<1>5. T = Nat
  <2>1. T \in SUBSET Nat
    BY <1>1
  <2> QED
    BY <1>2, <1>4, <2>1, Counting
<1> QED
  BY <1>1, <1>5

\* s and t are the same up to k.
Agree(s, t, k) == \A i \in 1..k : s[i] = t[i]

\* Two chains agree as far as their sequences do.
LEMMA ChainsAgree ==
  ASSUME NEW s, NEW t, NEW m \in Nat, NEW n \in Nat, NEW f, NEW g,
         Chain(s, m, f), Chain(t, n, g),
         NEW k \in Nat, k <= m, k <= n, Agree(s, t, k)
  PROVE  Agree(f, g, k)
<1>1. PICK T : T = {j \in Nat : j \in 1..k => f[j] = g[j]}
  OBVIOUS
<1>2. 0 \in T
  BY <1>1
<1>3. ASSUME NEW j \in T, j + 1 \in 1..k
      PROVE  f[j + 1] = g[j + 1]
  <2>1. j \in Nat /\ j + 1 \in 1..m /\ j + 1 \in 1..n
    BY <1>1, <1>3
  <2>2. f[j + 1] = IF j + 1 = 1 THEN s[j + 1] ELSE f[(j + 1) - 1] \o s[j + 1]
    BY <2>1 DEF Chain
  <2>3. g[j + 1] = IF j + 1 = 1 THEN t[j + 1] ELSE g[(j + 1) - 1] \o t[j + 1]
    BY <2>1 DEF Chain
  <2>4. j + 1 # 1 => f[(j + 1) - 1] = g[(j + 1) - 1]
    <3>1. (j + 1) - 1 = j /\ (j + 1 # 1 => j \in 1..k)
      BY <2>1, <1>3
    <3> QED
      BY <1>1, <3>1
  <2> QED
    BY <1>3, <2>2, <2>3, <2>4 DEF Agree
<1>4. \A j \in T : j + 1 \in T
  BY <1>1, <1>3
<1>5. T = Nat
  <2>1. T \in SUBSET Nat
    BY <1>1
  <2> QED
    BY <1>2, <1>4, <2>1, Counting
<1> QED
  BY <1>1, <1>5 DEF Agree

LEMMA FlattenIs ==
  ASSUME NEW S, NEW s \in Seq(Seq(S)), s # <<>>
  PROVE  \E f \in [1..Len(s) -> Seq(S)] : Chain(s, Len(s), f) /\ FlattenSeq(s) = f[Len(s)]
<1>1. PICK n : n = Len(s)
  OBVIOUS
<1>2. n \in Nat \ {0} /\ n \in 0..Len(s)
  BY <1>1
<1>3. PICK f \in [1..n -> Seq(S)] : Chain(s, n, f)
  BY <1>2, ChainExists
<1>4. PICK g : g = CHOOSE h : Chain(s, n, h)
  OBVIOUS
<1>5. Chain(s, n, g)
  BY <1>3, <1>4
<1>6. FlattenSeq(s) = g[n]
  BY <1>1, <1>2, <1>4 DEF FlattenSeq, Chain
<1>7. g[n] = f[n]
  <2>1. n \in Nat /\ n <= n /\ Agree(s, s, n)
    BY <1>2 DEF Agree
  <2>2. Agree(g, f, n)
    BY <1>3, <1>5, <2>1, ChainsAgree
  <2> QED
    BY <1>2, <2>2 DEF Agree
<1> QED
  BY <1>1, <1>2, <1>3, <1>6, <1>7

\* FlattenSeq of none, and of one more.
LEMMA FlattenNone == FlattenSeq(<<>>) = <<>>
BY DEF FlattenSeq

LEMMA FlattenAppend ==
  ASSUME NEW S, NEW s \in Seq(Seq(S)), NEW a \in Seq(S)
  PROVE  /\ FlattenSeq(s) \in Seq(S)
         /\ FlattenSeq(Append(s, a)) = FlattenSeq(s) \o a
<1>1. PICK t, n : t = Append(s, a) /\ n = Len(s)
  OBVIOUS
<1>2. /\ t \in Seq(Seq(S)) /\ t # <<>> /\ Len(t) = n + 1 /\ t[n + 1] = a
      /\ n \in Nat /\ \A i \in 1..n : t[i] = s[i]
  BY <1>1
<1>3. PICK g \in [1..(n + 1) -> Seq(S)] : Chain(t, n + 1, g) /\ FlattenSeq(t) = g[n + 1]
  BY <1>2, FlattenIs
<1>4. g[n + 1] = IF n + 1 = 1 THEN t[n + 1] ELSE g[(n + 1) - 1] \o t[n + 1]
  <2>1. n + 1 \in 1..(n + 1)
    BY <1>2
  <2> QED
    BY <1>3, <2>1 DEF Chain
<1>5. CASE s = <<>>
  <2>1. n = 0 /\ FlattenSeq(s) = <<>>
    BY <1>1, <1>5, FlattenNone
  <2>2. FlattenSeq(t) = a
    BY <1>2, <1>3, <1>4, <2>1
  <2> QED
    BY <1>1, <2>1, <2>2
<1>6. CASE s # <<>>
  <2>1. PICK f \in [1..n -> Seq(S)] : Chain(s, n, f) /\ FlattenSeq(s) = f[n]
    BY <1>1, <1>6, FlattenIs
  <2>2. n # 0 /\ n \in 1..n /\ n <= n /\ n <= n + 1 /\ (n + 1) - 1 = n /\ n + 1 \in Nat
        /\ Agree(s, t, n)
    BY <1>1, <1>2, <1>6 DEF Agree
  <2>3. f[n] = g[n]
    <3>1. Agree(f, g, n)
      BY <1>3, <2>1, <2>2, ChainsAgree
    <3> QED
      BY <2>2, <3>1 DEF Agree
  <2>4. FlattenSeq(t) = f[n] \o a
    BY <1>2, <1>3, <1>4, <2>2, <2>3
  <2> QED
    BY <1>1, <2>1, <2>2, <2>4
<1> QED
  BY <1>5, <1>6

\* FlattenSeq of two sequences in a row is that of both, in a row.
LEMMA FlattenConcat ==
  ASSUME NEW S, NEW s \in Seq(Seq(S))
  PROVE  \A t \in Seq(Seq(S)) : FlattenSeq(s \o t) = FlattenSeq(s) \o FlattenSeq(t)
<1>1. PICK T : T = {n \in Nat : \A t \in Seq(Seq(S)) :
                     Len(t) = n => FlattenSeq(s \o t) = FlattenSeq(s) \o FlattenSeq(t)}
  OBVIOUS
<1>2. 0 \in T
  <2> SUFFICES ASSUME NEW t \in Seq(Seq(S)), Len(t) = 0
               PROVE  FlattenSeq(s \o t) = FlattenSeq(s) \o FlattenSeq(t)
    BY <1>1
  <2>1. t = <<>> /\ s \o t = s /\ FlattenSeq(t) = <<>>
    BY FlattenNone
  <2>2. FlattenSeq(s) \in Seq(S)
    BY FlattenAppend
  <2> QED
    BY <2>1, <2>2
<1>3. ASSUME NEW n \in T, NEW t \in Seq(Seq(S)), Len(t) = n + 1
      PROVE  FlattenSeq(s \o t) = FlattenSeq(s) \o FlattenSeq(t)
  <2>1. PICK u, a : u = SubSeq(t, 1, n) /\ a = t[n + 1]
    OBVIOUS
  <2>2. n \in Nat /\ u \in Seq(Seq(S)) /\ Len(u) = n /\ a \in Seq(S)
    BY <1>1, <1>3, <2>1
  <2>3. t = Append(u, a)
    BY <1>3, <2>1, <2>2
  <2>4. s \o t = Append(s \o u, a) /\ s \o u \in Seq(Seq(S))
    BY <2>2, <2>3
  <2>5. FlattenSeq(s \o t) = FlattenSeq(s \o u) \o a
    BY <2>2, <2>4, FlattenAppend
  <2>6. FlattenSeq(t) = FlattenSeq(u) \o a
    BY <2>2, <2>3, FlattenAppend
  <2>7. FlattenSeq(s \o u) = FlattenSeq(s) \o FlattenSeq(u)
    BY <1>1, <2>2
  <2>8. FlattenSeq(s) \in Seq(S) /\ FlattenSeq(u) \in Seq(S)
    BY <2>2, FlattenAppend
  <2>9. PICK x, y : x = FlattenSeq(s) /\ y = FlattenSeq(u)
    OBVIOUS
  <2>10. (x \o y) \o a = x \o (y \o a)
    BY <2>2, <2>8, <2>9
  <2> QED
    BY <2>5, <2>6, <2>7, <2>9, <2>10
<1>4. ASSUME NEW n \in T
      PROVE  n + 1 \in T
  <2>1. n + 1 \in Nat
    BY <1>1
  <2> QED
    BY <1>1, <1>3, <2>1
<1>5. T = Nat
  <2>1. T \in SUBSET Nat
    BY <1>1
  <2> QED
    BY <1>2, <1>4, <2>1, Counting
<1> QED
  BY <1>1, <1>5

LEMMA FlattenOne ==
  ASSUME NEW S, NEW a \in Seq(S), NEW s \in Seq(Seq(S))
  PROVE  /\ FlattenSeq(<<a>>) = a
         /\ FlattenSeq(<<a>> \o s) = a \o FlattenSeq(s)
<1>1. <<>> \in Seq(Seq(S)) /\ Append(<<>>, a) = <<a>> /\ <<a>> \in Seq(Seq(S))
  OBVIOUS
<1>2. FlattenSeq(<<a>>) = <<>> \o a
  BY <1>1, FlattenAppend, FlattenNone
<1>3. FlattenSeq(<<a>>) = a
  BY <1>2
<1> QED
  BY <1>1, <1>3, FlattenConcat
=============================================================================
