-------------------------------- MODULE Buffer --------------------------------
(***************************************************************************)
(* The non-blocking I/O buffer (src/net/Buffer.h, Buffer.cc): one vector   *)
(* with a read index and a write index, as functions from a buffer to the  *)
(* buffer an operation leaves.  A byte is any value; a cell that holds no  *)
(* byte anybody may read is Junk, whatever the vector really has there.    *)
(***************************************************************************)
EXTENDS Integers, Sequences

CONSTANTS
  kCheapPrepend,  \* the space kept free in front of the bytes
  ExtraData,      \* size of the second buffer that readFd gives to readv
  Junk            \* what is in a cell that holds no byte

ASSUME BufferAssumption == kCheapPrepend \in Nat /\ ExtraData \in Nat

\* buff_[i] is cell i + 1 of store.  The constructor reserves room and does not
\* resize to it: a new buffer has no writeable byte.
Junks(n) == [i \in 1..n |-> Junk]
NewBuffer == [store |-> Junks(kCheapPrepend),
              readIndex |-> kCheapPrepend, writeIndex |-> kCheapPrepend]

ReadableBytes(b) == b.writeIndex - b.readIndex
WriteableBytes(b) == Len(b.store) - b.writeIndex
PrependBytes(b) == b.readIndex
Peek(b) == SubSeq(b.store, b.readIndex + 1, b.writeIndex)

\* data copied over the cells behind index at
Copied(store, at, data) ==
  SubSeq(store, 1, at) \o data \o SubSeq(store, at + Len(data) + 1, Len(store))

\* only the cells of [from, to) hold bytes
Only(store, from, to) ==
  Junks(from) \o SubSeq(store, from + 1, to) \o Junks(Len(store) - to)

-----------------------------------------------------------------------------
(* reading *)

\* retrieveAll keeps the vector's size.
RetrieveAll(b) ==
  [store |-> Junks(Len(b.store)),
   readIndex |-> kCheapPrepend, writeIndex |-> kCheapPrepend]

Retrieve(b, len) ==
  IF len < ReadableBytes(b)
  THEN [b EXCEPT !.readIndex = @ + len,
                 !.store = Only(@, b.readIndex + len, b.writeIndex)]
  ELSE RetrieveAll(b)

\* findCRLF: the bytes before the first line end, of no line when there is none
LineEnds(b, crlf) == {i \in DOMAIN Peek(b) : Peek(b)[i] = crlf}

-----------------------------------------------------------------------------
(* writing *)

\* Fault: the bytes stay where they are when the indices move to the front.
EnsureWriteableUnmoved(b, len) ==
  IF len <= WriteableBytes(b) THEN b
  ELSE IF WriteableBytes(b) + PrependBytes(b) < len + kCheapPrepend
  THEN [b EXCEPT !.store = @ \o Junks(len - WriteableBytes(b))]
  ELSE [b EXCEPT !.readIndex = kCheapPrepend,
                 !.writeIndex = kCheapPrepend + ReadableBytes(b)]

EnsureWriteable(b, len) ==
  IF len <= WriteableBytes(b) THEN b
  ELSE IF WriteableBytes(b) + PrependBytes(b) < len + kCheapPrepend
  THEN [b EXCEPT !.store = @ \o Junks(len - WriteableBytes(b))]
  ELSE LET end == kCheapPrepend + ReadableBytes(b)
       IN [store |-> Only(Copied(b.store, kCheapPrepend, Peek(b)),
                          kCheapPrepend, end),
           readIndex |-> kCheapPrepend, writeIndex |-> end]

BufferAppend(b, data) ==
  LET e == EnsureWriteable(b, Len(data))
  IN [e EXCEPT !.store = Copied(@, e.writeIndex, data),
               !.writeIndex = @ + Len(data)]

\* Needs Len(data) <= PrependBytes(b), which the code asserts.
Prepend(b, data) ==
  LET at == b.readIndex - Len(data)
  IN [b EXCEPT !.store = Copied(@, at, data), !.readIndex = at]

\* Needs at most WriteableBytes(b) + ExtraData bytes: readv takes no more.
\* What does not fit behind writeIndex_ comes by way of the extra buffer.
ReadFd(b, data) ==
  LET room == WriteableBytes(b)
      here == SubSeq(data, 1, IF Len(data) < room THEN Len(data) ELSE room)
      filled == [b EXCEPT !.store = Copied(@, b.writeIndex, here),
                          !.writeIndex = @ + Len(here)]
  IN IF Len(data) < room THEN filled
     ELSE BufferAppend(filled, SubSeq(data, room + 1, Len(data)))
=============================================================================
