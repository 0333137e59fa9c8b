---------------------------- MODULE StreamProofs ----------------------------
(***************************************************************************)
(* The two components that move a stream of bytes through Buffers.         *)
(*   The HTTP session: the callback gets the requests as the client sent   *)
(* them, for streams of any length and however they are cut into reads,    *)
(* and the replies leave in the order of the requests, for any sizes of    *)
(* files and chunks and any space in front of a buffer.                    *)
(*   The asynchronous log: every byte that was appended is at one place,   *)
(* in order, and files follow one another, for any threads and messages.   *)
(***************************************************************************)
EXTENDS HttpSession, AsyncLogger, TransferProofs

-----------------------------------------------------------------------------
(* HttpSession: the way out *)

\* What replies are made of, and what fills a buffer's other cells.
Tokens == {Junk} \cup (Nat \X ({"header", "body"} \cup Nat))

\* The connection's way out is good, and requests can be counted.
SessionInv ==
  /\ Good(conn, Tokens)
  /\ \E T : handled \in Seq(T)

-----------------------------------------------------------------------------
LEMMA ForceCloseGood ==
  ASSUME NEW S, NEW c, Good(c, S)
  PROVE  Good(ForceClose(c), S)
<1>1. CASE c.state \in {"kConnected", "kDisConnecting"}
  <2>1. PICK d : d = [c EXCEPT !.state = "kDisConnecting"]
    OBVIOUS
  <2>2. Good(d, S)
    BY <1>1, <2>1, DisconnectingGood
  <2> QED
    BY <1>1, <2>1, <2>2, ForceCloseInLoopGood DEF ForceClose
<1> QED
  BY <1>1 DEF ForceClose

LEMMA ReplyGood ==
  ASSUME NEW c, Good(c, Tokens), NEW k \in Nat, NEW r, NEW d \in Reply(c, k, r)
  PROVE  Good(d, Tokens)
<1>1. Junk \in Tokens
  BY DEF Tokens
<1>2. <<k, "header">> \in Tokens /\ <<k, "body">> \in Tokens
  BY DEF Tokens
<1>3. CASE r \in {"FILE", "EMPTY"}
  <2>1. PICK h, f : h = <<Header(k)>> /\ f = FileBytes(k, r)
    OBVIOUS
  <2>2. OfBytes(h, Tokens)
    BY <1>2, <2>1 DEF Header, OfBytes
  <2>3. OfBytes(f, Tokens)
    <3>1. PICK n \in Nat : n = IF r = "FILE" THEN FileSize ELSE 0
      BY HttpSessionAssumption
    <3>2. \A i \in 1..n : <<k, i>> \in Tokens
      BY DEF Tokens
    <3>3. f \in [1..n -> Tokens]
      BY <2>1, <3>1, <3>2 DEF FileBytes
    <3> QED
      BY <3>3, SeqDef DEF OfBytes
  <2>4. PICK e \in Send(c, h) : d \in SendFile(e, f)
    BY <1>3, <2>1 DEF Reply
  <2>5. Good(e, Tokens)
    BY <1>1, <2>2, <2>4, SendGood
  <2> QED
    BY <2>3, <2>4, <2>5, SendFileGood
<1>4. CASE r \notin {"FILE", "EMPTY"}
  <2>1. PICK h : h = <<Header(k), <<k, "body">>>>
    OBVIOUS
  <2>2. OfBytes(h, Tokens)
    BY <1>2, <2>1 DEF Header, OfBytes
  <2> QED
    BY <1>1, <1>4, <2>1, <2>2, SendGood DEF Reply
<1> QED
  BY <1>3, <1>4

LEMMA InitEstablishes == Init => SessionInv
<1> SUFFICES ASSUME Init PROVE SessionInv
  OBVIOUS
<1>1. Junk \in Tokens
  BY DEF Tokens
<1>2. conn = NewTransfer /\ handled = <<>>
  BY DEF Init
<1>3. handled \in Seq({})
  BY <1>2, EmptySeq
<1> QED
  BY <1>1, <1>2, <1>3, NewTransferGood DEF SessionInv

LEMMA OnMessageKeeps ==
  ASSUME SessionInv, NEW b, OnMessage(b)
  PROVE  SessionInv'
<1>1. PICK p \in Parse(b) :
        LET done == p.bad \/ p.state = "kGotAll"
        IN /\ handled' = IF done THEN Append(handled, p.request) ELSE handled
           /\ IF done THEN \E c \in Reply(conn, Len(handled) + 1, p.request.line) :
                             conn' = IF p.bad THEN ForceClose(c) ELSE c
              ELSE conn' = conn
  BY DEF OnMessage
<1> DEFINE done == p.bad \/ p.state = "kGotAll"
<1>2. CASE ~done
  BY <1>1, <1>2 DEF SessionInv
<1>3. CASE done
  <2>1. PICK T : handled \in Seq(T)
    BY DEF SessionInv
  <2>2. PICK k \in Nat : k = Len(handled) + 1
    BY <2>1
  <2>3. PICK c \in Reply(conn, k, p.request.line) :
          conn' = IF p.bad THEN ForceClose(c) ELSE c
    BY <1>1, <1>3, <2>2
  <2>4. Good(c, Tokens)
    BY <2>3, ReplyGood DEF SessionInv
  <2>5. Good(conn', Tokens)
    BY <2>3, <2>4, ForceCloseGood
  <2>6. \E U : handled' \in Seq(U)
    <3>1. PICK q : q = p.request
      OBVIOUS
    <3>2. PICK U : U = T \cup {q}
      OBVIOUS
    <3>3. handled \in Seq(U) /\ q \in U
      BY <2>1, <3>2, SeqMonotonic
    <3>4. handled' = Append(handled, q)
      BY <1>1, <1>3, <3>1
    <3>5. handled' \in Seq(U)
      BY <3>3, <3>4, AppendProperties
    <3> QED
      BY <3>5
  <2> QED
    BY <2>5, <2>6 DEF SessionInv, Tokens
<1> QED
  BY <1>2, <1>3

LEMMA NextKeeps == SessionInv /\ [Next]_vars => SessionInv'
<1> SUFFICES ASSUME SessionInv, [Next]_vars PROVE SessionInv'
  OBVIOUS
<1>0. Junk \in Tokens
  BY DEF Tokens
<1>1. CASE HandleRead
  BY <1>1, OnMessageKeeps DEF HandleRead
<1>2. CASE HandleWritable
  <2>1. handled' = handled /\ conn' \in HandleWrite(conn)
    BY <1>2 DEF HandleWritable
  <2> QED
    BY <1>0, <2>1, HandleWriteGood DEF SessionInv, Tokens
<1>3. CASE PeerCloses
  BY <1>3, HandleCloseGood DEF PeerCloses, SessionInv, Tokens
<1>4. CASE OtherForceClose
  BY <1>4, DisconnectingGood DEF OtherForceClose, SessionInv, Tokens
<1>5. CASE RunPosted
  BY <1>5, ForceCloseInLoopGood DEF RunPosted, SessionInv, Tokens
<1>6. CASE UNCHANGED vars
  BY <1>6 DEF vars, SessionInv, Tokens
<1> QED
  BY <1>1, <1>2, <1>3, <1>4, <1>5, <1>6 DEF Next

LEMMA SessionInvariant == Spec => []SessionInv
BY InitEstablishes, NextKeeps, PTL DEF Spec

-----------------------------------------------------------------------------
LEMMA IsPrefixOf ==
  ASSUME NEW S, NEW w \in Seq(S), NEW q \in Seq(S)
  PROVE  IsPrefix(w, w \o q)
<1>1. SubSeq(w, 1, Len(w)) = SubSeq(w \o q, 1, Len(w))
  <2>1. CASE Len(w) = 0
    BY <2>1, SubSeqEmpty
  <2>2. CASE Len(w) # 0
    <3>1. 1 \in 1..Len(w) /\ Len(w) \in 1..Len(w)
      BY <2>2
    <3> QED
      BY <3>1, SubSeqOfConcat1
  <2> QED
    BY <2>1, <2>2
<1>2. Len(w) <= Len(w \o q)
  BY ConcatProperties
<1> QED
  BY <1>1, <1>2 DEF IsPrefix

\* The socket gets the replies and the files as they were handed over, in this
\* order and each byte once, from the callbacks after a close too, and no file
\* stays open (sendInLoop, sendFileInLoop, handleWrite, handleClose).
THEOREM RepliesStayInOrder == Spec => []RepliesInOrder
<1>1. SessionInv => RepliesInOrder
  <2> SUFFICES ASSUME SessionInv, ~conn.overtaken
               PROVE  /\ conn.fds = IF conn.fileOpen THEN 1 ELSE 0
                      /\ IF Open
                         THEN conn.promised =
                                conn.wire \o Peek(conn.writeBuffer) \o conn.rest
                         ELSE IsPrefix(conn.wire \o Peek(conn.writeBuffer), conn.promised)
    BY DEF RepliesInOrder
  <2>1. Good(conn, Tokens)
    BY DEF SessionInv
  <2>2. conn.fds = IF conn.fileOpen THEN 1 ELSE 0
    BY <2>1 DEF Good, FileInv, FdsInv
  <2>3. CASE Open
    BY <2>1, <2>2, <2>3 DEF Open, Good, OrderInv
  <2>4. CASE ~Open
    <3>1. PICK w : w = conn.wire \o Peek(conn.writeBuffer)
      OBVIOUS
    <3>2. PICK q \in Seq(Tokens) : conn.promised = w \o q
      BY <2>1, <2>4, <3>1 DEF Open, Good, OrderInv
    <3>3. w \in Seq(Tokens)
      <4>1. conn.wire \in Seq(Tokens) /\ Peek(conn.writeBuffer) \in Seq(Tokens)
        BY <2>1, WriteBuffer DEF Good, Transfers
      <4> QED
        BY <3>1, <4>1, ConcatProperties
    <3>4. IsPrefix(w, conn.promised)
      BY <3>2, <3>3, IsPrefixOf
    <3> QED
      BY <2>2, <2>4, <3>1, <3>4
  <2> QED
    BY <2>3, <2>4
<1> QED
  BY <1>1, SessionInvariant, PTL

\* An open connection asks for EPOLLOUT exactly while it has something to write,
\* the turn of an empty file included (enableWriting, disableWriting).
THEOREM WriteEventsAreRight == Spec => []WriteEventsMatchWork
<1>1. SessionInv => WriteEventsMatchWork
  BY DEF SessionInv, Good, FileInv, WritingInv, Open, WriteEventsMatchWork
<1> QED
  BY <1>1, SessionInvariant, PTL

-----------------------------------------------------------------------------
(* HttpSession: the client's bytes, and where the parser is in them *)

Sent == {Junk, "crlf", "length", "x", "y"} \cup Kinds

\* what is read and to be read of the client's bytes
Left(p, in) == Peek(p.buffer) \o in

Parsers ==
  [buffer : Buffers(Sent),
   state : {"kExpectRequestLine", "kExpectHeaders", "kExpectBody", "kGotAll"},
   request : [line : Kinds \cup {"kInvalid"}, length : BOOLEAN, body : Seq(Sent)],
   bad : BOOLEAN, more : BOOLEAN]

Got(r, l, body) == [line |-> r, length |-> l, body |-> body]

\* What the parser has made of the first request, r, and what it has yet to
\* see of it in front of the bytes of those behind it, t.
AtHeaders(p, in, r, t) ==
  \/ /\ r # "POST" /\ p.request = Got(r, FALSE, <<>>)
     /\ Left(p, in) = <<"crlf">> \o t
  \/ /\ r = "POST" /\ p.request = Got(r, FALSE, <<>>)
     /\ Left(p, in) = <<"length">> \o (<<"crlf">> \o (<<"crlf">> \o (Body \o t)))
  \/ /\ r = "POST" /\ p.request = Got(r, TRUE, <<>>)
     /\ Left(p, in) = <<"crlf">> \o (Body \o t)
AtBody(p, in, r, t) ==
  r = "POST" /\ p.request = Got(r, TRUE, <<>>) /\ Left(p, in) = Body \o t
AtEnd(p, in, r, t) == p.request = Request(r) /\ Left(p, in) = t

\* the parser over the requests s, of which in has yet to be read
ParserInv(p, s, in) ==
  /\ p \in Parsers /\ ~p.bad
  /\ p.state = "kExpectRequestLine" =>
       p.request = NoRequest /\ Left(p, in) = Stream(s)
  /\ p.state # "kExpectRequestLine" => s # <<>>
  /\ p.state = "kExpectHeaders" => AtHeaders(p, in, Head(s), Stream(Tail(s)))
  /\ p.state = "kExpectBody" => AtBody(p, in, Head(s), Stream(Tail(s)))
  /\ p.state = "kGotAll" => AtEnd(p, in, Head(s), Stream(Tail(s)))

-----------------------------------------------------------------------------
LEMMA BytesOfSent ==
  ASSUME NEW r \in Kinds
  PROVE  /\ BytesOf(r) \in Seq(Sent) /\ r # "crlf" /\ r # "length" /\ r # "kInvalid"
         /\ Body \in Seq(Sent) /\ Len(Body) = 2
<1>1. r # "crlf" /\ r # "length" /\ r # "kInvalid"
  BY HttpSessionAssumption
<1>2. {r, "crlf", "length", "x", "y"} \subseteq Sent
  BY DEF Sent
<1>3. Body \in Seq(Sent) /\ Len(Body) = 2
  BY <1>2 DEF Body
<1>4. <<r, "crlf", "crlf">> \in Seq(Sent)
  BY <1>2
<1>5. <<r, "crlf", "length", "crlf", "crlf">> \in Seq(Sent)
  BY <1>2
<1> QED
  BY <1>1, <1>3, <1>4, <1>5 DEF BytesOf

LEMMA StreamIs ==
  ASSUME NEW s \in Seq(Kinds)
  PROVE  /\ Stream(s) \in Seq(Sent)
         /\ s = <<>> => Stream(s) = <<>>
         /\ s # <<>> => Stream(s) = BytesOf(Head(s)) \o Stream(Tail(s))
<1>1. ASSUME NEW u \in Seq(Kinds)
      PROVE  [i \in DOMAIN u |-> BytesOf(u[i])] \in Seq(Seq(Sent))
  <2>1. \A i \in 1..Len(u) : BytesOf(u[i]) \in Seq(Sent)
    BY BytesOfSent
  <2> QED
    BY <2>1
<1>2. PICK w : w = [i \in DOMAIN s |-> BytesOf(s[i])]
  OBVIOUS
<1>3. w \in Seq(Seq(Sent)) /\ Stream(s) = FlattenSeq(w) /\ Len(w) = Len(s)
  BY <1>1, <1>2 DEF Stream
<1>4. Stream(s) \in Seq(Sent)
  <2>1. <<>> \in Seq(Sent)
    OBVIOUS
  <2> QED
    BY <1>3, <2>1, FlattenAppend
<1>5. CASE s = <<>>
  <2>1. w = <<>>
    BY <1>3, <1>5
  <2> QED
    BY <1>3, <1>4, <1>5, <2>1, FlattenNone
<1>6. CASE s # <<>>
  <2>1. PICK r, t : r = Head(s) /\ t = Tail(s)
    OBVIOUS
  <2>2. r \in Kinds /\ t \in Seq(Kinds) /\ Len(s) \in Nat \ {0} /\ Len(t) = Len(s) - 1
    BY <1>6, <2>1
  <2>3. PICK x : x = [i \in DOMAIN t |-> BytesOf(t[i])]
    OBVIOUS
  <2>4. x \in Seq(Seq(Sent)) /\ Stream(t) = FlattenSeq(x) /\ Len(x) = Len(t)
    BY <1>1, <2>2, <2>3 DEF Stream
  <2>5. PICK a : a = BytesOf(r)
    OBVIOUS
  <2>6. a \in Seq(Sent)
    BY <2>2, <2>5, BytesOfSent
  <2>7. w = <<a>> \o x
    <3>1. PICK y : y = <<a>> \o x
      OBVIOUS
    <3>2. y \in Seq(Seq(Sent)) /\ Len(y) = Len(s) /\ y[1] = a
      <4>1. <<a>> \in Seq(Seq(Sent)) /\ Len(<<a>>) = 1
        BY <2>6
      <4>2. y \in Seq(Seq(Sent)) /\ Len(y) = 1 + Len(x)
        BY <2>4, <3>1, <4>1
      <4>3. y[1] = <<a>>[1]
        BY <2>4, <3>1, <4>1
      <4> QED
        BY <2>2, <2>4, <4>2, <4>3
    <3>3. ASSUME NEW i \in 2..Len(s)
          PROVE  y[i] = w[i]
      <4>1. i - 1 \in 1..Len(t) /\ t[i - 1] = s[i] /\ i \in 1..Len(s)
        BY <1>6, <2>1, <2>2
      <4>2. y[i] = x[i - 1]
        BY <2>4, <2>6, <3>1, <4>1, <2>2
      <4>3. x[i - 1] = BytesOf(s[i])
        BY <2>2, <2>3, <4>1
      <4> QED
        BY <1>2, <4>1, <4>2, <4>3
    <3>4. w[1] = a
      BY <1>2, <2>1, <2>2, <2>5
    <3>5. \A i \in 1..Len(s) : i = 1 \/ i \in 2..Len(s)
      BY <2>2
    <3>6. \A i \in 1..Len(s) : y[i] = w[i]
      BY <3>2, <3>3, <3>4, <3>5
    <3> QED
      BY <1>3, <3>1, <3>2, <3>6, SeqEqual
  <2>8. FlattenSeq(<<a>> \o x) = a \o FlattenSeq(x)
    BY <2>4, <2>6, FlattenOne
  <2>9. Stream(s) = a \o Stream(t)
    BY <1>3, <2>4, <2>7, <2>8
  <2> QED
    BY <1>4, <1>6, <2>1, <2>5, <2>9
<1> QED
  BY <1>5, <1>6

-----------------------------------------------------------------------------
\* How a sequence that begins with w goes on where w does not end before k.
LEMMA FrontOf ==
  ASSUME NEW S, NEW w \in Seq(S), NEW in \in Seq(S), NEW l \in Seq(S), NEW t \in Seq(S),
         w \o in = l \o t, Len(l) <= Len(w)
  PROVE  SubSeq(w, 1, Len(l)) = l /\ SubSeq(w, Len(l) + 1, Len(w)) \o in = t
<1>1. PICK k \in Nat, m \in Nat, n \in Nat, j \in Nat :
        k = Len(l) /\ m = Len(w) /\ n = Len(in) /\ j = Len(t)
  OBVIOUS
<1>2. PICK x : x = w \o in
  OBVIOUS
<1>3. /\ Len(x) = m + n /\ Len(x) = k + j /\ k <= m
      /\ \A i \in 1..(m + n) : x[i] = IF i <= m THEN w[i] ELSE in[i - m]
      /\ \A i \in 1..(k + j) : x[i] = IF i <= k THEN l[i] ELSE t[i - k]
  BY <1>1, <1>2, ConcatProperties
<1>4. PICK a : a = SubSeq(w, 1, k)
  OBVIOUS
<1>5. a \in Seq(S) /\ Len(a) = k /\ \A i \in 1..k : a[i] = w[i]
  BY <1>1, <1>3, <1>4
<1>6. a = l
  <2>1. ASSUME NEW i \in 1..k
        PROVE  a[i] = l[i]
    <3>1. i \in 1..(m + n) /\ i \in 1..(k + j) /\ i <= m /\ i <= k
      BY <1>3
    <3>2. x[i] = w[i] /\ x[i] = l[i]
      BY <1>3, <3>1
    <3> QED
      BY <1>5, <3>2
  <2> QED
    BY <1>1, <1>5, <2>1, SeqEqual
<1>7. PICK b : b = SubSeq(w, k + 1, m)
  OBVIOUS
<1>8. b \in Seq(S) /\ Len(b) = m - k /\ \A i \in 1..(m - k) : b[i] = w[i + k]
  BY <1>1, <1>3, <1>7
<1>9. PICK c : c = b \o in
  OBVIOUS
<1>10. /\ c \in Seq(S) /\ Len(c) = j
       /\ \A i \in 1..j : c[i] = IF i <= m - k THEN b[i] ELSE in[i - (m - k)]
  BY <1>1, <1>3, <1>8, <1>9, ConcatProperties
<1>11. \A i \in 1..j : c[i] = t[i]
  <2> SUFFICES ASSUME NEW i \in 1..j PROVE c[i] = t[i]
    OBVIOUS
  <2>1. i + k \in 1..(k + j) /\ ~(i + k <= k) /\ (i + k) - k = i
    BY <1>1
  <2>2. x[i + k] = t[i]
    BY <1>3, <2>1
  <2>3. x[i + k] = IF i + k <= m THEN w[i + k] ELSE in[(i + k) - m]
    BY <1>3, <2>1
  <2>4. CASE i <= m - k
    <3>1. c[i] = b[i] /\ b[i] = w[i + k] /\ i + k <= m
      BY <1>8, <1>10, <2>4
    <3> QED
      BY <2>2, <2>3, <3>1
  <2>5. CASE ~(i <= m - k)
    <3>1. c[i] = in[i - (m - k)] /\ ~(i + k <= m) /\ i - (m - k) = (i + k) - m
      BY <1>10, <2>5
    <3> QED
      BY <2>2, <2>3, <3>1
  <2> QED
    BY <2>4, <2>5
<1>12. c = t
  BY <1>1, <1>10, <1>11, SeqEqual
<1> QED
  BY <1>1, <1>4, <1>6, <1>7, <1>9, <1>12

NoLineEnd(l) == \A i \in 1..Len(l) : l[i] # "crlf"

\* The buffer holds a line end: the first one is that of the line l in front.
LEMMA LineIs ==
  ASSUME NEW b, IsBuffer(b, Sent), NEW in \in Seq(Sent),
         NEW l \in Seq(Sent), NEW t \in Seq(Sent),
         Peek(b) \o in = l \o (<<"crlf">> \o t), NoLineEnd(l),
         LineEnds(b, "crlf") # {}
  PROVE  /\ Line(b) = l
         /\ IsBuffer(Retrieve(b, Len(Line(b)) + 1), Sent)
         /\ Peek(Retrieve(b, Len(Line(b)) + 1)) \o in = t
<1>1. PICK w : w = Peek(b)
  OBVIOUS
<1>2. w \in Seq(Sent)
  BY <1>1, PeekCells DEF OfBytes
<1>3. PICK k \in Nat, m \in Nat : k = Len(l) /\ m = Len(w)
  BY <1>2
<1>4. PICK e : e = <<"crlf">> \o t
  OBVIOUS
<1>5. "crlf" \in Sent /\ Junk \in Sent
  BY DEF Sent
<1>6. e \in Seq(Sent) /\ e[1] = "crlf" /\ Len(e) = Len(t) + 1
  <2>1. <<"crlf">> \in Seq(Sent) /\ Len(<<"crlf">>) = 1 /\ <<"crlf">>[1] = "crlf"
    BY <1>5
  <2> QED
    BY <1>4, <2>1, ConcatProperties
<1>7. PICK x : x = w \o in
  OBVIOUS
<1>8. /\ \A i \in 1..m : x[i] = w[i]
      /\ \A i \in 1..k : x[i] = l[i]
      /\ x[k + 1] = e[1]
  <2>1. \A i \in 1..m : x[i] = w[i]
    BY <1>2, <1>3, <1>7, ConcatProperties
  <2>2. x = l \o e
    BY <1>1, <1>4, <1>7
  <2>3. \A i \in 1..k : x[i] = l[i]
    BY <1>3, <1>6, <2>2, ConcatProperties
  <2>4. k + 1 \in 1..(Len(l) + Len(e)) /\ ~(k + 1 <= Len(l)) /\ (k + 1) - Len(l) = 1
    BY <1>3, <1>6
  <2>5. x[k + 1] = e[1]
    BY <1>6, <2>2, <2>4, ConcatProperties
  <2> QED
    BY <2>1, <2>3, <2>5
<1>9. LineEnds(b, "crlf") = {i \in 1..m : w[i] = "crlf"}
  BY <1>1, <1>2, <1>3 DEF LineEnds
<1>10. \A i \in LineEnds(b, "crlf") : i \in 1..m /\ k + 1 <= i
  <2> SUFFICES ASSUME NEW i \in 1..m, w[i] = "crlf" PROVE k + 1 <= i
    BY <1>9
  <2>1. i \in 1..k => l[i] = "crlf"
    BY <1>8
  <2>2. i \notin 1..k
    BY <1>3, <2>1 DEF NoLineEnd
  <2> QED
    BY <2>2
<1>11. k + 1 \in 1..m
  BY <1>10
<1>12. k + 1 \in LineEnds(b, "crlf")
  BY <1>6, <1>8, <1>9, <1>11
<1>13. PICK end : end = CHOOSE i \in LineEnds(b, "crlf") :
                          \A j \in LineEnds(b, "crlf") : i <= j
  OBVIOUS
<1>14. end \in LineEnds(b, "crlf") /\ \A j \in LineEnds(b, "crlf") : end <= j
  BY <1>10, <1>12, <1>13
<1>15. end = k + 1
  BY <1>10, <1>12, <1>14
<1>16. SubSeq(w, 1, k) = l
  <2>1. w \o in = l \o e /\ Len(l) <= Len(w)
    <3>1. w \o in = l \o e
      BY <1>1, <1>4
    <3>2. Len(l) <= Len(w)
      BY <1>3, <1>11
    <3> QED
      BY <3>1, <3>2
  <2>2. SubSeq(w, 1, Len(l)) = l
    BY <1>2, <1>6, <2>1, FrontOf
  <2> QED
    BY <1>3, <2>2
<1>17. Line(b) = l
  <2>1. end - 1 = k
    BY <1>15
  <2>2. Line(b) = SubSeq(w, 1, end - 1)
    BY <1>1, <1>13 DEF Line
  <2> QED
    BY <1>16, <2>1, <2>2
<1>18. PICK c, n : c = Retrieve(b, n) /\ n = k + 1
  OBVIOUS
<1>19. n \in Nat /\ n <= m
  BY <1>11, <1>18
<1>20. IsBuffer(c, Sent) /\ Peek(c) = SubSeq(w, n + 1, Len(w))
  BY <1>1, <1>5, <1>18, <1>19, RetrieveTakes
<1>21. PICK o, g : o = <<"crlf">> /\ g = l \o o
  OBVIOUS
<1>22. o \in Seq(Sent) /\ Len(o) = 1
  BY <1>5, <1>21
<1>23. g \in Seq(Sent) /\ Len(g) = n
  BY <1>3, <1>18, <1>21, <1>22, ConcatProperties
<1>24. w \o in = g \o t
  <2>1. (l \o o) \o t = l \o (o \o t)
    BY <1>22, ConcatAssociative
  <2> QED
    BY <1>1, <1>21, <2>1
<1>25. SubSeq(w, n + 1, Len(w)) \o in = t
  <2>1. Len(g) <= Len(w)
    BY <1>3, <1>19, <1>23
  <2>2. SubSeq(w, Len(g) + 1, Len(w)) \o in = t
    BY <1>2, <1>23, <1>24, <2>1, FrontOf
  <2> QED
    BY <1>23, <2>2
<1> QED
  BY <1>3, <1>17, <1>18, <1>20, <1>25

LEMMA OneMore ==
  ASSUME NEW S, NEW x \in S, NEW u \in Seq(S), NEW t \in Seq(S)
  PROVE  /\ <<x>> \in Seq(S) /\ <<x>> \o t \in Seq(S)
         /\ (<<x>> \o u) \o t = <<x>> \o (u \o t)
<1>1. <<x>> \in Seq(S)
  OBVIOUS
<1> QED
  BY <1>1, ConcatProperties, ConcatAssociative

LEMMA TwoAre ==
  ASSUME NEW S, NEW x \in S, NEW y \in S
  PROVE  <<x, y>> = <<x>> \o <<y>>
<1>1. PICK a, b : a = <<x>> /\ b = <<y>>
  OBVIOUS
<1>2. a \in Seq(S) /\ b \in Seq(S) /\ Len(a) = 1 /\ Len(b) = 1 /\ a[1] = x /\ b[1] = y
  BY <1>1
<1>3. PICK w : w = a \o b
  OBVIOUS
<1>4. w \in Seq(S) /\ Len(w) = 2
  BY <1>2, <1>3, ConcatProperties
<1>5. w[1] = x /\ w[2] = y
  BY <1>2, <1>3, ConcatProperties
<1>6. PICK u : u = <<x, y>>
  OBVIOUS
<1>7. u \in Seq(S) /\ Len(u) = 2 /\ u[1] = x /\ u[2] = y
  BY <1>6
<1>8. \A i \in 1..2 : i = 1 \/ i = 2
  OBVIOUS
<1>9. u = w
  BY <1>4, <1>5, <1>7, <1>8, SeqEqual
<1> QED
  BY <1>1, <1>3, <1>6, <1>9

LEMMA ThreeMore ==
  ASSUME NEW S, NEW x \in S, NEW y \in S, NEW z \in S, NEW v \in Seq(S)
  PROVE  <<x, y, z>> \o v = <<x>> \o (<<y>> \o (<<z>> \o v))
<1>1. PICK a, b, c : a = <<x>> /\ b = <<y>> /\ c = <<z>>
  OBVIOUS
<1>2. a \in Seq(S) /\ b \in Seq(S) /\ c \in Seq(S) /\ b \o c \in Seq(S)
  BY <1>1
<1>3. <<x, y, z>> = <<x>> \o (<<y>> \o <<z>>)
  <2>1. <<x, y, z>> = <<x>> \o <<y, z>>
    OBVIOUS
  <2>2. <<y, z>> = <<y>> \o <<z>>
    BY TwoAre
  <2> QED
    BY <2>1, <2>2
<1>4. (a \o (b \o c)) \o v = a \o ((b \o c) \o v)
  BY <1>2, ConcatAssociative
<1>5. (b \o c) \o v = b \o (c \o v)
  BY <1>2, ConcatAssociative
<1> QED
  BY <1>1, <1>3, <1>4, <1>5

\* The bytes of a request, line by line.
LEMMA BytesInLines ==
  ASSUME NEW r \in Kinds, NEW t \in Seq(Sent)
  PROVE  /\ r # "POST" => BytesOf(r) \o t = <<r>> \o (<<"crlf">> \o (<<"crlf">> \o t))
         /\ r = "POST" => BytesOf(r) \o t =
              <<r>> \o (<<"crlf">> \o (<<"length">> \o (<<"crlf">> \o (<<"crlf">> \o (Body \o t)))))
<1>1. r \in Sent /\ "crlf" \in Sent /\ "length" \in Sent
  BY DEF Sent
<1>2. r # "POST" => BytesOf(r) = <<r, "crlf", "crlf">>
  BY DEF BytesOf
<1>3. <<r, "crlf", "crlf">> \o t = <<r>> \o (<<"crlf">> \o (<<"crlf">> \o t))
  BY <1>1, ThreeMore
<1>4. PICK x, y : x = "crlf" /\ y = "length"
  OBVIOUS
<1>5. PICK a, b, c, body : a = <<r>> /\ b = <<x>> /\ c = <<y, x, x>> /\ body = Body
  OBVIOUS
<1>6. x \in Sent /\ y \in Sent
  BY <1>1, <1>4
<1>7. a \in Seq(Sent) /\ b \in Seq(Sent) /\ c \in Seq(Sent)
  BY <1>1, <1>5, <1>6
<1>8. body \in Seq(Sent)
  BY <1>5, BytesOfSent
<1>9. body \o t \in Seq(Sent)
  BY <1>8
<1>10. b \o c \in Seq(Sent) /\ a \o (b \o c) \in Seq(Sent)
  BY <1>7
<1>11. r = "POST" => BytesOf(r) = (a \o (b \o c)) \o body
  <2>1. <<r, x, y, x, x>> = <<r>> \o <<x, y, x, x>>
    OBVIOUS
  <2>2. <<x, y, x, x>> = <<x>> \o <<y, x, x>>
    OBVIOUS
  <2>3. <<r, x, y, x, x>> = a \o (b \o c)
    BY <1>5, <2>1, <2>2
  <2> QED
    BY <1>4, <1>5, <2>3 DEF BytesOf
<1>12. PICK v, d, e : v = body \o t /\ d = b \o c /\ e = a \o d
  OBVIOUS
<1>13. v \in Seq(Sent)
  BY <1>12, <1>9
<1>14. d \in Seq(Sent) /\ e \in Seq(Sent)
  BY <1>12, <1>10
<1>15. (e \o body) \o t = e \o v
  <2>1. (e \o body) \o t = e \o (body \o t)
    BY <1>8, <1>14, ConcatAssociative
  <2> QED
    BY <1>12, <2>1
<1>16. (a \o d) \o v = a \o (d \o v)
  <2>1. a \in Seq(Sent) /\ d \in Seq(Sent)
    BY <1>7, <1>14
  <2> QED
    BY <1>13, <2>1, ConcatAssociative
<1>17. (b \o c) \o v = b \o (c \o v)
  BY <1>7, <1>13, ConcatAssociative
<1>18. <<y, x, x>> \o v = <<y>> \o (<<x>> \o (<<x>> \o v))
  BY <1>6, <1>13, ThreeMore
<1>19. r = "POST" => BytesOf(r) \o t = <<r>> \o (<<x>> \o (<<y>> \o (<<x>> \o (<<x>> \o v))))
  BY <1>5, <1>11, <1>12, <1>15, <1>16, <1>17, <1>18
<1> QED
  BY <1>2, <1>3, <1>4, <1>5, <1>12, <1>19

-----------------------------------------------------------------------------
(* The turns of the parser *)

LEMMA ParserFields ==
  ASSUME NEW p \in Parsers
  PROVE  /\ IsBuffer(p.buffer, Sent) /\ p.buffer \in Buffers(Sent)
         /\ Peek(p.buffer) \in Seq(Sent)
<1>1. IsBuffer(p.buffer, Sent) /\ p.buffer \in Buffers(Sent)
  BY DEF Parsers, Buffers
<1> QED
  BY <1>1, PeekCells DEF OfBytes

\* It takes a line l that is in front.
LEMMA TakesLine ==
  ASSUME NEW p \in Parsers, NEW in \in Seq(Sent), NEW l \in Seq(Sent), NEW t \in Seq(Sent),
         Left(p, in) = l \o (<<"crlf">> \o t), NoLineEnd(l), More(p)
  PROVE  /\ Line(p.buffer) = l
         /\ SkipLine(p) \in Parsers
         /\ SkipLine(p) = [p EXCEPT !.buffer = SkipLine(p).buffer]
         /\ Left(SkipLine(p), in) = t
<1>1. PICK b : b = p.buffer
  OBVIOUS
<1>2. IsBuffer(b, Sent) /\ LineEnds(b, "crlf") # {}
  BY <1>1, ParserFields DEF More
<1>3. PICK c : c = Retrieve(b, Len(Line(b)) + 1)
  OBVIOUS
<1>4. Line(b) = l /\ IsBuffer(c, Sent) /\ Peek(c) \o in = t
  <2>1. Peek(b) \o in = l \o (<<"crlf">> \o t)
    BY <1>1 DEF Left
  <2> QED
    BY <1>2, <1>3, <2>1, LineIs
<1>5. SkipLine(p) = [p EXCEPT !.buffer = c]
  BY <1>1, <1>3 DEF SkipLine
<1>6. c \in Buffers(Sent)
  BY <1>4 DEF Buffers, IsBuffer
<1>7. SkipLine(p) \in Parsers /\ SkipLine(p).buffer = c
  BY <1>5, <1>6 DEF Parsers
<1> QED
  BY <1>1, <1>4, <1>5, <1>7 DEF Left

LEMMA GotLineSet ==
  ASSUME NEW r, NEW l, NEW body, NEW e
  PROVE  [Got(r, l, body) EXCEPT !.line = e] = Got(e, l, body)
BY DEF Got

LEMMA GotLengthSet ==
  ASSUME NEW r, NEW l, NEW body, NEW e
  PROVE  [Got(r, l, body) EXCEPT !.length = e] = Got(r, e, body)
BY DEF Got

LEMMA GotBodySet ==
  ASSUME NEW r, NEW l, NEW body, NEW e
  PROVE  [Got(r, l, body) EXCEPT !.body = e] = Got(r, l, e)
BY DEF Got

LEMMA NothingGot ==
  /\ NoRequest = Got("kInvalid", FALSE, <<>>)
  /\ \A r : [NoRequest EXCEPT !.line = r] = Got(r, FALSE, <<>>)
<1>1. PICK no : no = FALSE
  OBVIOUS
<1>2. NoRequest = Got("kInvalid", no, <<>>)
  BY <1>1 DEF NoRequest, Got
<1>3. ASSUME NEW r
      PROVE  [NoRequest EXCEPT !.line = r] = Got(r, no, <<>>)
  <2>1. [Got("kInvalid", no, <<>>) EXCEPT !.line = r] = Got(r, no, <<>>)
    BY GotLineSet
  <2> QED
    BY <1>2, <2>1
<1> QED
  BY <1>1, <1>2, <1>3

LEMMA LengthGot ==
  ASSUME NEW r
  PROVE  [Got(r, FALSE, <<>>) EXCEPT !.length = TRUE] = Got(r, TRUE, <<>>)
<1>1. ASSUME NEW no, NEW yes
      PROVE  [Got(r, no, <<>>) EXCEPT !.length = yes] = Got(r, yes, <<>>)
  BY GotLengthSet
<1>2. PICK no, yes : no = FALSE /\ yes = TRUE
  OBVIOUS
<1>3. [Got(r, no, <<>>) EXCEPT !.length = yes] = Got(r, yes, <<>>)
  BY <1>1
<1> QED
  BY <1>2, <1>3

LEMMA BodyGot ==
  ASSUME NEW r, NEW body
  PROVE  [Got(r, TRUE, <<>>) EXCEPT !.body = body] = Got(r, TRUE, body)
<1>1. PICK yes : yes = TRUE
  OBVIOUS
<1>2. [Got(r, yes, <<>>) EXCEPT !.body = body] = Got(r, yes, body)
  BY GotBodySet
<1> QED
  BY <1>1, <1>2

LEMMA AllGot ==
  ASSUME NEW r
  PROVE  /\ r = "POST" => Request(r) = Got(r, TRUE, Body)
         /\ r # "POST" => Request(r) = Got(r, FALSE, <<>>)
<1>1. CASE r = "POST"
  BY <1>1 DEF Request, Got
<1>2. CASE r # "POST"
  BY <1>2 DEF Request, Got
<1> QED
  BY <1>1, <1>2

\* In front of the parser is a whole line, or it waits.
LEMMA WaitKeeps ==
  ASSUME NEW p, NEW s, NEW in, ParserInv(p, s, in)
  PROVE  ParserInv([p EXCEPT !.more = FALSE], s, in)
<1>1. PICK q : q = [p EXCEPT !.more = FALSE]
  OBVIOUS
<1>2. p \in Parsers
  BY DEF ParserInv
<1>3. q \in Parsers
  BY <1>1, <1>2 DEF Parsers
<1>4. q.buffer = p.buffer /\ q.state = p.state /\ q.request = p.request /\ q.bad = p.bad
  BY <1>1, <1>2 DEF Parsers
<1>5. Left(q, in) = Left(p, in)
  BY <1>4 DEF Left
<1> QED
  BY <1>1, <1>3, <1>4, <1>5 DEF ParserInv, AtHeaders, AtBody, AtEnd

LEMMA OneToken ==
  ASSUME NEW x \in Sent, x # "crlf"
  PROVE  <<x>> \in Seq(Sent) /\ NoLineEnd(<<x>>) /\ Len(<<x>>) = 1 /\ <<x>>[1] = x
BY DEF NoLineEnd

\* The first line of a request is its own.
LEMMA ParseRequestLineKeeps ==
  ASSUME NEW p, NEW s \in Seq(Kinds), NEW in \in Seq(Sent), ParserInv(p, s, in),
         p.state = "kExpectRequestLine"
  PROVE  ParserInv(ParseRequestLine(p), s, in)
<1>1. CASE ~More(p)
  BY <1>1, WaitKeeps DEF ParseRequestLine
<1>2. CASE More(p)
  <2>1. p \in Parsers /\ ~p.bad /\ p.request = NoRequest /\ Left(p, in) = Stream(s)
    BY DEF ParserInv
  <2>2. s # <<>>
    <3> SUFFICES ASSUME s = <<>> PROVE FALSE
      OBVIOUS
    <3>1. Peek(p.buffer) \in Seq(Sent) /\ Peek(p.buffer) \o in = <<>>
      BY <2>1, ParserFields, StreamIs DEF Left
    <3>2. Peek(p.buffer) = <<>>
      BY <3>1
    <3> QED
      BY <1>2, <3>2 DEF More, LineEnds
  <2>3. PICK r, t : r = Head(s) /\ t = Stream(Tail(s))
    OBVIOUS
  <2>4. r \in Kinds /\ Tail(s) \in Seq(Kinds)
    BY <2>2, <2>3
  <2>5. r \in Sent /\ r # "crlf" /\ t \in Seq(Sent)
    BY <2>3, <2>4, BytesOfSent, StreamIs DEF Sent
  <2>6. Left(p, in) = BytesOf(r) \o t
    BY <2>1, <2>2, <2>3, StreamIs
  <2>7. PICK u, v : /\ u = <<"crlf">> \o t
                    /\ v = <<"length">> \o (<<"crlf">> \o (<<"crlf">> \o (Body \o t)))
    OBVIOUS
  <2>8. PICK w : w = IF r = "POST" THEN v ELSE u
    OBVIOUS
  <2>9. Left(p, in) = <<r>> \o (<<"crlf">> \o w)
    BY <2>4, <2>5, <2>6, <2>7, <2>8, BytesInLines
  <2>10. w \in Seq(Sent)
    <3>1. "crlf" \in Sent /\ "length" \in Sent
      BY DEF Sent
    <3>2. u \in Seq(Sent)
      BY <2>5, <2>7, <3>1, OneMore
    <3>3. Body \in Seq(Sent)
      BY <2>4, BytesOfSent
    <3>4. Body \o t \in Seq(Sent)
      BY <2>5, <3>3
    <3>5. <<"crlf">> \o (Body \o t) \in Seq(Sent)
      BY <3>1, <3>4, OneMore
    <3>6. <<"crlf">> \o (<<"crlf">> \o (Body \o t)) \in Seq(Sent)
      BY <3>1, <3>5, OneMore
    <3>7. v \in Seq(Sent)
      BY <2>7, <3>1, <3>6, OneMore
    <3> QED
      BY <2>8, <3>2, <3>7
  <2>11. /\ Line(p.buffer) = <<r>> /\ SkipLine(p) \in Parsers
         /\ SkipLine(p) = [p EXCEPT !.buffer = SkipLine(p).buffer]
         /\ Left(SkipLine(p), in) = w
    <3>1. PICK l : l = <<r>>
      OBVIOUS
    <3>2. l \in Seq(Sent) /\ NoLineEnd(l)
      BY <2>5, <3>1, OneToken
    <3>3. Left(p, in) = l \o (<<"crlf">> \o w) /\ p \in Parsers
      BY <2>1, <2>9, <3>1
    <3>4. /\ Line(p.buffer) = l /\ SkipLine(p) \in Parsers
          /\ SkipLine(p) = [p EXCEPT !.buffer = SkipLine(p).buffer]
          /\ Left(SkipLine(p), in) = w
      BY <1>2, <2>10, <3>2, <3>3, TakesLine
    <3> QED
      BY <3>1, <3>4
  <2>12. PICK d : d = SkipLine(p)
    OBVIOUS
  <2>13. PICK q : q = [d EXCEPT !.request.line = r, !.state = "kExpectHeaders"]
    OBVIOUS
  <2>14. ParseRequestLine(p) = q
    <3>1. Len(Line(p.buffer)) = 1 /\ Line(p.buffer)[1] = r
      BY <2>5, <2>11, OneToken
    <3> QED
      BY <1>2, <2>4, <2>12, <2>13, <3>1 DEF ParseRequestLine
  <2>15. d.request = NoRequest /\ d.bad = p.bad
    BY <2>1, <2>11, <2>12 DEF Parsers
  <2>16. d \in Parsers
    BY <2>11, <2>12
  <2>17. /\ q \in Parsers /\ q.buffer = d.buffer /\ q.state = "kExpectHeaders"
         /\ q.bad = d.bad /\ q.request = [d.request EXCEPT !.line = r]
    BY <2>4, <2>13, <2>16 DEF Parsers
  <2>18. q.request = Got(r, FALSE, <<>>)
    <3>1. [NoRequest EXCEPT !.line = r] = Got(r, FALSE, <<>>)
      BY NothingGot
    <3> QED
      BY <2>15, <2>17, <3>1
  <2>19. Left(q, in) = w
    BY <2>11, <2>12, <2>17 DEF Left
  <2>20. AtHeaders(q, in, r, t)
    BY <2>7, <2>8, <2>18, <2>19 DEF AtHeaders
  <2> QED
    BY <2>1, <2>2, <2>3, <2>14, <2>15, <2>17, <2>20 DEF ParserInv
<1> QED
  BY <1>1, <1>2

\* A header line, or the empty one behind them.
LEMMA ParseHeaderKeeps ==
  ASSUME NEW p, NEW s \in Seq(Kinds), NEW in \in Seq(Sent), ParserInv(p, s, in),
         p.state = "kExpectHeaders"
  PROVE  ParserInv(ParseHeader(p), s, in)
<1>1. CASE ~More(p)
  BY <1>1, WaitKeeps DEF ParseHeader
<1>2. CASE More(p)
  <2>1. p \in Parsers /\ ~p.bad /\ s # <<>>
    BY DEF ParserInv
  <2>2. PICK r, t : r = Head(s) /\ t = Stream(Tail(s))
    OBVIOUS
  <2>3. AtHeaders(p, in, r, t)
    BY <2>2 DEF ParserInv
  <2>4. r \in Kinds /\ Tail(s) \in Seq(Kinds)
    BY <2>1, <2>2
  <2>5. t \in Seq(Sent) /\ Body \in Seq(Sent)
    BY <2>2, <2>4, BytesOfSent, StreamIs
  <2>6. PICK d, line : d = SkipLine(p) /\ line = Line(p.buffer)
    OBVIOUS
  <2>7. ASSUME NEW l \in Seq(Sent), NoLineEnd(l), NEW w \in Seq(Sent),
               Left(p, in) = l \o (<<"crlf">> \o w)
        PROVE  /\ line = l /\ d \in Parsers /\ d = [p EXCEPT !.buffer = d.buffer]
               /\ d.request = p.request /\ d.bad = p.bad /\ d.state = p.state
               /\ Left(d, in) = w
    <3>1. /\ line = l /\ d \in Parsers /\ d = [p EXCEPT !.buffer = d.buffer]
          /\ Left(d, in) = w
      BY <1>2, <2>1, <2>6, <2>7, TakesLine
    <3> QED
      BY <2>1, <3>1 DEF Parsers
  <2>8. ASSUME NEW w \in Seq(Sent), Left(p, in) = <<"crlf">> \o w
        PROVE  /\ line = <<>> /\ d \in Parsers
               /\ d.request = p.request /\ d.bad = p.bad /\ Left(d, in) = w
    <3>1. PICK l : l = <<>>
      OBVIOUS
    <3>2. l \in Seq(Sent) /\ NoLineEnd(l)
      BY <3>1 DEF NoLineEnd
    <3>3. <<"crlf">> \o w \in Seq(Sent)
      <4>1. "crlf" \in Sent
        BY DEF Sent
      <4> QED
        BY <4>1, OneMore
    <3>4. Left(p, in) = l \o (<<"crlf">> \o w)
      BY <2>8, <3>1, <3>3
    <3> QED
      BY <2>7, <3>1, <3>2, <3>4
  <2>9. ASSUME NEW w \in Seq(Sent), Left(p, in) = <<"crlf">> \o w,
               NEW x \in {"kExpectBody", "kGotAll"},
               x = IF p.request.line = "POST" THEN "kExpectBody" ELSE "kGotAll"
        PROVE  \E q \in Parsers :
                 /\ q = ParseHeader(p) /\ q.state = x /\ ~q.bad
                 /\ q.request = p.request /\ Left(q, in) = w
    <3>1. /\ line = <<>> /\ d \in Parsers
          /\ d.request = p.request /\ d.bad = p.bad /\ Left(d, in) = w
      BY <2>8, <2>9
    <3>2. PICK q : q = [d EXCEPT !.state = x]
      OBVIOUS
    <3>3. ParseHeader(p) = q
      BY <1>2, <2>6, <2>9, <3>1, <3>2 DEF ParseHeader
    <3>4. /\ q \in Parsers /\ q.state = x /\ q.bad = d.bad /\ q.request = d.request
          /\ q.buffer = d.buffer
      BY <3>1, <3>2 DEF Parsers
    <3>5. Left(q, in) = w
      BY <3>1, <3>4 DEF Left
    <3> QED
      BY <2>1, <3>1, <3>3, <3>4, <3>5
  <2>10. CASE r # "POST" /\ p.request = Got(r, FALSE, <<>>) /\ Left(p, in) = <<"crlf">> \o t
    <3>1. p.request.line = r
      BY <2>10 DEF Got
    <3>2. PICK q \in Parsers :
            /\ q = ParseHeader(p) /\ q.state = "kGotAll" /\ ~q.bad
            /\ q.request = p.request /\ Left(q, in) = t
      BY <2>5, <2>9, <2>10, <3>1
    <3>3. AtEnd(q, in, r, t)
      BY <2>10, <3>2, AllGot DEF AtEnd
    <3> QED
      BY <2>1, <2>2, <3>2, <3>3 DEF ParserInv
  <2>11. CASE /\ r = "POST" /\ p.request = Got(r, TRUE, <<>>)
              /\ Left(p, in) = <<"crlf">> \o (Body \o t)
    <3>1. p.request.line = "POST"
      BY <2>11 DEF Got
    <3>2. Body \o t \in Seq(Sent)
      BY <2>5
    <3>3. PICK q \in Parsers :
            /\ q = ParseHeader(p) /\ q.state = "kExpectBody" /\ ~q.bad
            /\ q.request = p.request /\ Left(q, in) = Body \o t
      BY <2>9, <2>11, <3>1, <3>2
    <3>4. AtBody(q, in, r, t)
      BY <2>11, <3>3 DEF AtBody
    <3> QED
      BY <2>1, <2>2, <3>3, <3>4 DEF ParserInv
  <2>12. CASE /\ r = "POST" /\ p.request = Got(r, FALSE, <<>>)
              /\ Left(p, in) = <<"length">> \o (<<"crlf">> \o (<<"crlf">> \o (Body \o t)))
    <3>1. PICK w : w = <<"crlf">> \o (Body \o t)
      OBVIOUS
    <3>2. w \in Seq(Sent)
      <4>1. "crlf" \in Sent /\ Body \o t \in Seq(Sent)
        BY <2>5 DEF Sent
      <4> QED
        BY <3>1, <4>1, OneMore
    <3>3. PICK l : l = <<"length">>
      OBVIOUS
    <3>4. l \in Seq(Sent) /\ NoLineEnd(l) /\ Len(l) = 1
      <4>1. "length" \in Sent /\ "length" # "crlf"
        BY DEF Sent
      <4> QED
        BY <3>3, <4>1, OneToken
    <3>5. Left(p, in) = l \o (<<"crlf">> \o w)
      BY <2>12, <3>1, <3>3
    <3>6. line = l /\ d \in Parsers /\ d.request = p.request /\ d.bad = p.bad
          /\ d.state = p.state /\ Left(d, in) = w
      BY <2>7, <3>2, <3>4, <3>5
    <3>7. PICK b : b = (d.request.length \/ line = <<"length">>)
      OBVIOUS
    <3>8. b = TRUE
      BY <3>3, <3>6, <3>7
    <3>9. PICK q : q = [d EXCEPT !.request.length = b]
      OBVIOUS
    <3>10. ParseHeader(p) = q
      <4>1. line # <<>>
        BY <3>3, <3>6
      <4> QED
        BY <1>2, <2>6, <3>7, <3>9, <4>1 DEF ParseHeader
    <3>11. /\ q \in Parsers /\ q.state = d.state /\ q.bad = d.bad /\ q.buffer = d.buffer
           /\ q.request = [d.request EXCEPT !.length = b]
      BY <3>6, <3>8, <3>9 DEF Parsers
    <3>12. q.request = Got(r, TRUE, <<>>)
      <4>1. q.request = [Got(r, FALSE, <<>>) EXCEPT !.length = TRUE]
        BY <2>12, <3>6, <3>8, <3>11
      <4> QED
        BY <4>1, LengthGot
    <3>13. Left(q, in) = w
      BY <3>6, <3>11 DEF Left
    <3>14. AtHeaders(q, in, r, t)
      BY <2>12, <3>1, <3>12, <3>13 DEF AtHeaders
    <3> QED
      BY <2>1, <2>2, <3>6, <3>10, <3>11, <3>14 DEF ParserInv
  <2> QED
    BY <2>3, <2>10, <2>11, <2>12 DEF AtHeaders
<1> QED
  BY <1>1, <1>2

\* The body, when all of it is there.
LEMMA ParseBodyKeeps ==
  ASSUME NEW p, NEW s \in Seq(Kinds), NEW in \in Seq(Sent), ParserInv(p, s, in),
         p.state = "kExpectBody"
  PROVE  ParserInv(ParseBody(p), s, in)
<1>1. p \in Parsers /\ ~p.bad /\ s # <<>>
  BY DEF ParserInv
<1>2. PICK r, t : r = Head(s) /\ t = Stream(Tail(s))
  OBVIOUS
<1>3. r = "POST" /\ p.request = Got(r, TRUE, <<>>) /\ Left(p, in) = Body \o t
  BY <1>2 DEF ParserInv, AtBody
<1>4. r \in Kinds /\ Tail(s) \in Seq(Kinds)
  BY <1>1, <1>2
<1>5. t \in Seq(Sent) /\ Body \in Seq(Sent) /\ Len(Body) = 2
  BY <1>2, <1>4, BytesOfSent, StreamIs
<1>6. p.request.length
  BY <1>3 DEF Got
<1>7. CASE ReadableBytes(p.buffer) < Len(Body)
  BY <1>6, <1>7, WaitKeeps DEF ParseBody
<1>8. CASE ~(ReadableBytes(p.buffer) < Len(Body))
  <2>1. PICK w, c : w = Peek(p.buffer) /\ c = Retrieve(p.buffer, Len(Body))
    OBVIOUS
  <2>2. w \in Seq(Sent) /\ Len(w) \in Nat /\ Len(Body) <= Len(w)
    BY <1>1, <1>5, <1>8, <2>1, ParserFields, PeekCells
  <2>3. w \o in = Body \o t
    BY <1>3, <2>1 DEF Left
  <2>4. SubSeq(w, 1, Len(Body)) = Body /\ SubSeq(w, Len(Body) + 1, Len(w)) \o in = t
    BY <1>5, <2>2, <2>3, FrontOf
  <2>5. IsBuffer(c, Sent) /\ Peek(c) = SubSeq(w, Len(Body) + 1, Len(w))
    <3>1. Junk \in Sent /\ IsBuffer(p.buffer, Sent) /\ Len(Body) \in Nat
      <4>1. Junk \in Sent
        BY DEF Sent
      <4> QED
        BY <1>1, <1>5, <4>1, ParserFields
    <3> QED
      BY <2>1, <3>1, RetrieveTakes
  <2>6. c \in Buffers(Sent)
    BY <2>5 DEF Buffers, IsBuffer
  <2>7. PICK q : q = [p EXCEPT !.request.body = Body, !.buffer = c, !.state = "kGotAll"]
    OBVIOUS
  <2>8. ParseBody(p) = q
    BY <1>6, <1>8, <2>1, <2>4, <2>7 DEF ParseBody
  <2>9. /\ q \in Parsers /\ q.state = "kGotAll" /\ q.bad = p.bad /\ q.buffer = c
        /\ q.request = [p.request EXCEPT !.body = Body]
    BY <1>1, <1>5, <2>6, <2>7 DEF Parsers
  <2>10. q.request = Request(r)
    <3>1. q.request = [Got(r, TRUE, <<>>) EXCEPT !.body = Body]
      BY <1>3, <2>9
    <3>2. [Got(r, TRUE, <<>>) EXCEPT !.body = Body] = Got(r, TRUE, Body)
      BY BodyGot
    <3>3. Request(r) = Got(r, TRUE, Body)
      BY <1>3, AllGot
    <3> QED
      BY <3>1, <3>2, <3>3
  <2>11. Left(q, in) = t
    BY <2>4, <2>5, <2>9 DEF Left
  <2>12. AtEnd(q, in, r, t)
    BY <2>10, <2>11 DEF AtEnd
  <2> QED
    BY <1>1, <1>2, <2>8, <2>9, <2>12 DEF ParserInv
<1> QED
  BY <1>7, <1>8

LEMMA ParseStepKeeps ==
  ASSUME NEW p, NEW s \in Seq(Kinds), NEW in \in Seq(Sent), ParserInv(p, s, in)
  PROVE  ParserInv(ParseStep(p), s, in)
<1>1. p.state \in {"kExpectRequestLine", "kExpectHeaders", "kExpectBody", "kGotAll"}
  BY DEF ParserInv, Parsers
<1>2. CASE p.state = "kExpectRequestLine"
  <2>1. ParseStep(p) = ParseRequestLine(p)
    BY <1>2 DEF ParseStep
  <2> QED
    BY <1>2, <2>1, ParseRequestLineKeeps
<1>3. CASE p.state = "kExpectHeaders"
  <2>1. ParseStep(p) = ParseHeader(p)
    BY <1>3 DEF ParseStep
  <2> QED
    BY <1>3, <2>1, ParseHeaderKeeps
<1>4. CASE p.state = "kExpectBody"
  <2>1. ParseStep(p) = ParseBody(p)
    BY <1>4 DEF ParseStep
  <2> QED
    BY <1>4, <2>1, ParseBodyKeeps
<1>5. CASE p.state = "kGotAll"
  <2>1. ParseStep(p) = [p EXCEPT !.more = FALSE]
    BY <1>5 DEF ParseStep
  <2> QED
    BY <2>1, WaitKeeps
<1> QED
  BY <1>1, <1>2, <1>3, <1>4, <1>5

-----------------------------------------------------------------------------
(* All its turns *)

Turn(x) == {IF p.more THEN ParseStep(p) ELSE p : p \in x}
Turned(x, n, f) == f = [i \in 0..n |-> IF i = 0 THEN x ELSE Turn(f[i - 1])]

LEMMA TurnsExist ==
  ASSUME NEW x
  PROVE  \A n \in Nat : \E f : Turned(x, n, f)
<1>1. PICK T : T = {n \in Nat : \E f : Turned(x, n, f)}
  OBVIOUS
<1>2. 0 \in T
  <2>1. PICK f : f = [i \in 0..0 |-> x]
    OBVIOUS
  <2>2. \A i \in 0..0 : i = 0
    OBVIOUS
  <2>3. f = [i \in 0..0 |-> IF i = 0 THEN x ELSE Turn(f[i - 1])]
    BY <2>1, <2>2
  <2> QED
    BY <1>1, <2>3 DEF Turned
<1>3. ASSUME NEW n \in T
      PROVE  n + 1 \in T
  <2>1. n \in Nat /\ n + 1 \in Nat
    BY <1>1
  <2>2. PICK f : Turned(x, n, f)
    BY <1>1
  <2>3. PICK g : g = [i \in 0..(n + 1) |-> IF i = n + 1 THEN Turn(f[n]) ELSE f[i]]
    OBVIOUS
  <2>4. \A i \in 0..n : g[i] = f[i]
    BY <2>1, <2>3
  <2>5. ASSUME NEW i \in 0..(n + 1)
        PROVE  g[i] = IF i = 0 THEN x ELSE Turn(g[i - 1])
    <3>1. CASE i = n + 1
      <4>1. g[i] = Turn(f[n]) /\ i - 1 = n /\ i # 0 /\ n \in 0..n
        BY <2>1, <2>3, <3>1
      <4>2. g[n] = f[n]
        BY <2>4, <4>1
      <4> QED
        BY <4>1, <4>2
    <3>2. CASE i # n + 1
      <4>1. i \in 0..n /\ (i # 0 => i - 1 \in 0..n)
        BY <2>1, <3>2
      <4>2. f[i] = IF i = 0 THEN x ELSE Turn(f[i - 1])
        BY <2>2, <4>1 DEF Turned
      <4> QED
        BY <2>4, <4>1, <4>2
    <3> QED
      BY <3>1, <3>2
  <2>6. PICK h : h = [i \in 0..(n + 1) |-> IF i = 0 THEN x ELSE Turn(g[i - 1])]
    OBVIOUS
  <2>7. \A i \in 0..(n + 1) : g[i] = h[i]
    BY <2>5, <2>6
  <2>8. g = h
    BY <2>3, <2>6, <2>7
  <2>9. Turned(x, n + 1, g)
    BY <2>6, <2>8 DEF Turned
  <2> QED
    BY <1>1, <2>1, <2>9
<1>4. T = Nat
  <2>1. T \in SUBSET Nat
    BY <1>1
  <2> QED
    BY <1>2, <1>3, <2>1, Counting
<1> QED
  BY <1>1, <1>4

\* What every turn keeps holds of all that the last one leaves.
LEMMA TurnsKeep ==
  ASSUME NEW s \in Seq(Kinds), NEW in \in Seq(Sent), NEW x, NEW f, NEW n \in Nat,
         Turned(x, n, f), \A p \in x : ParserInv(p, s, in)
  PROVE  \A p \in f[n] : ParserInv(p, s, in)
<1>1. PICK T : T = {i \in Nat : i <= n => \A p \in f[i] : ParserInv(p, s, in)}
  OBVIOUS
<1>2. 0 \in T
  <2>1. 0 \in 0..n
    OBVIOUS
  <2>2. f[0] = x
    BY <2>1 DEF Turned
  <2> QED
    BY <1>1, <2>2
<1>3. ASSUME NEW i \in T
      PROVE  i + 1 \in T
  <2>1. i \in Nat /\ i + 1 \in Nat
    BY <1>1
  <2>2. ASSUME i + 1 <= n
        PROVE  \A p \in f[i + 1] : ParserInv(p, s, in)
    <3>1. i + 1 \in 0..n /\ i + 1 # 0 /\ (i + 1) - 1 = i /\ i <= n
      BY <2>1, <2>2
    <3>2. f[i + 1] = IF i + 1 = 0 THEN x ELSE Turn(f[(i + 1) - 1])
      BY <3>1 DEF Turned
    <3>3. f[i + 1] = Turn(f[i])
      BY <3>1, <3>2
    <3>4. \A p \in f[i] : ParserInv(p, s, in)
      BY <1>1, <3>1
    <3> SUFFICES ASSUME NEW q \in f[i + 1] PROVE ParserInv(q, s, in)
      OBVIOUS
    <3>5. PICK p \in f[i] : q = IF p.more THEN ParseStep(p) ELSE p
      BY <3>3 DEF Turn
    <3>6. ParserInv(p, s, in)
      BY <3>4, <3>5
    <3> QED
      BY <3>5, <3>6, ParseStepKeeps
  <2> QED
    BY <1>1, <2>1, <2>2
<1>4. T = Nat
  <2>1. T \in SUBSET Nat
    BY <1>1
  <2> QED
    BY <1>2, <1>3, <2>1, Counting
<1> QED
  BY <1>1, <1>4

\* HttpContext::parse over the bytes of the requests s.
LEMMA ParseKeeps ==
  ASSUME NEW s \in Seq(Kinds), NEW in \in Seq(Sent), NEW b, IsBuffer(b, Sent),
         Peek(b) \o in = Stream(s), context = "kExpectRequestLine", NEW p \in Parse(b)
  PROVE  ParserInv(p, s, in)
<1>1. PICK p0 : p0 = [buffer |-> b, state |-> context, request |-> NoRequest,
                      bad |-> FALSE, more |-> TRUE]
  OBVIOUS
<1>2. ParserInv(p0, s, in)
  <2>1. b \in Buffers(Sent)
    BY DEF Buffers, IsBuffer
  <2>2. NoRequest \in [line : Kinds \cup {"kInvalid"}, length : BOOLEAN, body : Seq(Sent)]
    BY DEF NoRequest
  <2>3. p0 \in Parsers
    BY <1>1, <2>1, <2>2 DEF Parsers
  <2>4. p0.state = "kExpectRequestLine" /\ p0.request = NoRequest /\ ~p0.bad /\ p0.buffer = b
    BY <1>1
  <2> QED
    BY <2>3, <2>4 DEF ParserInv, Left
<1>3. PICK n \in Nat : n = ReadableBytes(b) + 3
  BY PeekCells
<1>4. PICK f : f = CHOOSE g : Turned({p0}, n, g)
  OBVIOUS
<1>5. Turned({p0}, n, f)
  BY <1>3, <1>4, TurnsExist
<1>6. Parse(b) = f[n]
  BY <1>1, <1>3, <1>4 DEF Parse, Turned, Turn
<1>7. \A q \in f[n] : ParserInv(q, s, in)
  BY <1>2, <1>3, <1>5, TurnsKeep
<1> QED
  BY <1>6, <1>7

-----------------------------------------------------------------------------
(* HttpSession: the way in *)

Behind(n) == SubSeq(script, n + 1, Len(script))

\* Before the requests of which a read ended inside one, those that were handled
\* are the first of the client's, and the bytes of the others are in readBuffer_
\* or on their way.
Parsed ==
  LET n == Len(handled)
  IN /\ script \in Seq(Kinds) /\ input \in Seq(Sent)
     /\ IsBuffer(readBuffer, Sent)
     /\ context = "kExpectRequestLine"
     /\ n \in 0..Len(script)
     /\ handled = [i \in 1..n |-> Request(script[i])]
     /\ Peek(readBuffer) \o input = Stream(Behind(n))
ParsedInv == torn \/ Parsed

LEMMA InitParsed == Init => ParsedInv
<1> SUFFICES ASSUME Init PROVE Parsed
  BY DEF ParsedInv
<1>1. script \in Seq(Kinds) /\ input = Stream(script) /\ readBuffer = NewBuffer
      /\ context = "kExpectRequestLine" /\ handled = <<>>
  <2>1. script \in SeqOf(Kinds, MaxRequests)
    BY DEF Init
  <2>2. script \in Seq(Kinds)
    BY <2>1, SeqDef, HttpSessionAssumption DEF SeqOf
  <2> QED
    BY <2>2 DEF Init
<1>2. input \in Seq(Sent)
  BY <1>1, StreamIs
<1>3. Len(handled) = 0 /\ handled = [i \in 1..0 |-> Request(script[i])]
  BY <1>1
<1>4. Behind(0) = script
  BY <1>1, SubSeqFull DEF Behind
<1>5. IsBuffer(readBuffer, Sent) /\ Peek(readBuffer) = <<>>
  <2>1. Junk \in Sent
    BY DEF Sent
  <2> QED
    BY <1>1, <2>1, NewBufferEmpty
<1>6. Peek(readBuffer) \o input = input
  BY <1>2, <1>5
<1> QED
  BY <1>1, <1>2, <1>3, <1>4, <1>5, <1>6 DEF Parsed

\* onMessage over a buffer that goes on where the handled requests end
LEMMA OnMessageParses ==
  ASSUME NEW b, IsBuffer(b, Sent), NEW in \in Seq(Sent), input' = in, script' = script,
         Parsed, Peek(b) \o in = Stream(Behind(Len(handled))), OnMessage(b), ~torn'
  PROVE  Parsed'
<1>1. PICK n \in Nat, m \in Nat : n = Len(handled) /\ m = Len(script) /\ n <= m
  <2>1. script \in Seq(Kinds) /\ Len(script) \in Nat /\ Len(handled) \in 0..Len(script)
    BY DEF Parsed
  <2> QED
    BY <2>1
<1>2. /\ script \in Seq(Kinds) /\ context = "kExpectRequestLine"
      /\ handled = [i \in 1..n |-> Request(script[i])]
  BY <1>1 DEF Parsed
<1>3. PICK s : s = Behind(n)
  OBVIOUS
<1>4. s \in Seq(Kinds) /\ Len(s) = m - n /\ \A i \in 1..(m - n) : s[i] = script[n + i]
  BY <1>1, <1>2, <1>3 DEF Behind
<1>5. PICK p \in Parse(b) :
        LET done == p.bad \/ p.state = "kGotAll"
        IN /\ readBuffer' = p.buffer
           /\ context' = IF done THEN "kExpectRequestLine" ELSE p.state
           /\ handled' = IF done THEN Append(handled, p.request) ELSE handled
           /\ torn' = (torn \/ (~done /\ p.state # "kExpectRequestLine"))
  BY DEF OnMessage
<1>6. ParserInv(p, s, in)
  BY <1>1, <1>2, <1>3, <1>4, <1>5, ParseKeeps
<1>7. ~p.bad /\ IsBuffer(p.buffer, Sent)
  BY <1>6, ParserFields DEF ParserInv
<1>8. CASE p.state # "kGotAll"
  <2>1. p.state = "kExpectRequestLine"
    BY <1>5, <1>7, <1>8
  <2>2. Left(p, in) = Stream(s)
    BY <1>6, <2>1 DEF ParserInv
  <2>3. readBuffer' = p.buffer /\ context' = "kExpectRequestLine" /\ handled' = handled
    BY <1>5, <1>7, <1>8, <2>1
  <2> QED
    BY <1>1, <1>2, <1>3, <1>7, <2>2, <2>3 DEF Parsed, Left, Behind
<1>9. CASE p.state = "kGotAll"
  <2>1. s # <<>> /\ AtEnd(p, in, Head(s), Stream(Tail(s)))
    BY <1>6, <1>9 DEF ParserInv
  <2>2. readBuffer' = p.buffer /\ context' = "kExpectRequestLine"
        /\ handled' = Append(handled, p.request)
    BY <1>5, <1>9
  <2>3. n + 1 <= m /\ n + 1 \in Nat /\ Head(s) = script[n + 1]
    BY <1>1, <1>4, <2>1
  <2>4. p.request = Request(script[n + 1]) /\ Peek(p.buffer) \o in = Stream(Tail(s))
    BY <2>1, <2>3 DEF AtEnd, Left
  <2>5. Tail(s) = Behind(n + 1)
    <3>1. PICK u, v : u = Tail(s) /\ v = Behind(n + 1)
      OBVIOUS
    <3>2. /\ u \in Seq(Kinds) /\ Len(u) = m - (n + 1)
          /\ \A i \in 1..(m - (n + 1)) : u[i] = s[i + 1]
      <4>1. /\ u \in Seq(Kinds) /\ Len(u) = Len(s) - 1
            /\ \A i \in 1..Len(u) : u[i] = s[i + 1]
        BY <1>4, <2>1, <3>1, HeadTailProperties
      <4>2. Len(u) = m - (n + 1)
        BY <1>1, <1>4, <4>1
      <4> QED
        BY <4>1, <4>2
    <3>3. /\ v \in Seq(Kinds) /\ Len(v) = m - (n + 1)
          /\ \A i \in 1..(m - (n + 1)) : v[i] = script[(n + 1) + i]
      BY <1>1, <1>2, <2>3, <3>1 DEF Behind
    <3>4. ASSUME NEW i \in 1..(m - (n + 1))
          PROVE  u[i] = v[i]
      <4>1. i + 1 \in 1..(m - n) /\ n + (i + 1) = (n + 1) + i
        BY <1>1
      <4> QED
        BY <1>4, <3>2, <3>3, <4>1
    <3> QED
      BY <3>1, <3>2, <3>3, <3>4, SeqEqual
  <2>6. handled' = [i \in 1..(n + 1) |-> Request(script[i])] /\ Len(handled') = n + 1
    <3>1. PICK h, q : h = handled /\ q = p.request
      OBVIOUS
    <3>2. PICK S : S = {Request(script[i]) : i \in 1..n} \cup {q}
      OBVIOUS
    <3>3. h \in Seq(S) /\ q \in S /\ Len(h) = n
      <4>1. h \in [1..n -> S]
        BY <1>2, <3>1, <3>2
      <4>2. h \in Seq(S)
        BY <1>1, <4>1, SeqDef
      <4> QED
        BY <1>1, <3>1, <3>2, <4>2
    <3>4. PICK g : g = Append(h, q)
      OBVIOUS
    <3>5. /\ g \in Seq(S) /\ Len(g) = n + 1 /\ g[n + 1] = q
          /\ \A i \in 1..n : g[i] = h[i]
      BY <3>3, <3>4, AppendProperties
    <3>6. ASSUME NEW i \in 1..(n + 1)
          PROVE  g[i] = Request(script[i])
      <4>1. CASE i = n + 1
        BY <2>4, <3>1, <3>5, <4>1
      <4>2. CASE i # n + 1
        <5>1. i \in 1..n
          BY <1>1, <4>2
        <5> QED
          BY <1>2, <3>1, <3>5, <5>1
      <4> QED
        BY <4>1, <4>2
    <3>7. g = [i \in 1..(n + 1) |-> Request(script[i])]
      <4>1. PICK f : f = [i \in 1..(n + 1) |-> Request(script[i])]
        OBVIOUS
      <4>2. DOMAIN g = 1..(n + 1)
        BY <3>5, LenProperties
      <4>3. g = [i \in 1..(n + 1) |-> g[i]]
        BY <3>5, <4>2
      <4> QED
        BY <3>6, <4>1, <4>3
    <3> QED
      BY <2>2, <3>1, <3>4, <3>5, <3>7
  <2>7. n + 1 \in 0..Len(script)
    BY <1>1, <2>3
  <2> QED
    BY <1>2, <1>7, <2>2, <2>4, <2>5, <2>6, <2>7 DEF Parsed, Behind
<1> QED
  BY <1>8, <1>9

LEMMA ReadParses ==
  ASSUME ParsedInv, HandleRead
  PROVE  ParsedInv'
<1> SUFFICES ASSUME ~torn' PROVE Parsed'
  BY DEF ParsedInv
<1>1. ~torn
  BY DEF HandleRead, OnMessage
<1>2. Parsed
  BY <1>1 DEF ParsedInv
<1>3. input \in Seq(Sent) /\ IsBuffer(readBuffer, Sent)
      /\ Peek(readBuffer) \o input = Stream(Behind(Len(handled)))
  BY <1>2 DEF Parsed
<1>4. PICK n \in 1..Len(input) :
        /\ input' = SubSeq(input, n + 1, Len(input))
        /\ OnMessage(ReadFd(readBuffer, SubSeq(input, 1, n)))
  BY DEF HandleRead
<1>5. PICK data, in, b : data = SubSeq(input, 1, n) /\ in = SubSeq(input, n + 1, Len(input))
                          /\ b = ReadFd(readBuffer, data)
  OBVIOUS
<1>6. data \in Seq(Sent) /\ in \in Seq(Sent) /\ data \o in = input
  BY <1>3, <1>5
<1>7. IsBuffer(b, Sent) /\ Peek(b) = Peek(readBuffer) \o data
  <2>1. Junk \in Sent
    BY DEF Sent
  <2> QED
    BY <1>3, <1>5, <1>6, <2>1, ReadFdAdds DEF OfBytes
<1>8. Peek(b) \o in = Stream(Behind(Len(handled)))
  <2>1. PICK w : w = Peek(readBuffer)
    OBVIOUS
  <2>2. w \in Seq(Sent)
    BY <1>3, <2>1, PeekCells DEF OfBytes
  <2>3. (w \o data) \o in = w \o (data \o in)
    <3>1. data \in Seq(Sent) /\ in \in Seq(Sent)
      BY <1>6
    <3> QED
      BY <2>2, <3>1, ConcatAssociative
  <2> QED
    BY <1>3, <1>6, <1>7, <2>1, <2>3
<1>9. script' = script
  BY DEF HandleRead
<1> QED
  BY <1>2, <1>4, <1>5, <1>6, <1>7, <1>8, <1>9, OnMessageParses

LEMMA NextParses == ParsedInv /\ [Next]_vars => ParsedInv'
<1> SUFFICES ASSUME ParsedInv, [Next]_vars PROVE ParsedInv'
  OBVIOUS
<1>1. CASE HandleRead
  BY <1>1, ReadParses
<1>2. CASE UNCHANGED <<script, input, readBuffer, context, handled, torn>>
  BY <1>2 DEF ParsedInv, Parsed, Behind
<1> QED
  BY <1>1, <1>2 DEF Next, vars, HandleWritable, PeerCloses, OtherForceClose, RunPosted

\* The HTTP callback gets the client's requests, in their order and with their
\* bodies, up to where a read ended inside one, for streams and reads of any
\* length (HttpServer::onMessage, HttpContext::parse, Buffer).
THEOREM RequestsArriveAsSent == Spec => []HandledAsSent
<1>1. ParsedInv => HandledAsSent
  <2> SUFFICES ASSUME Parsed PROVE IsPrefix(handled, Requests)
    BY DEF ParsedInv, HandledAsSent
  <2>1. PICK n, m : n = Len(handled) /\ m = Len(script)
    OBVIOUS
  <2>2. /\ script \in Seq(Kinds) /\ m \in Nat /\ n \in 0..m
        /\ handled = [i \in 1..n |-> Request(script[i])]
    BY <2>1 DEF Parsed
  <2>3. PICK r : r = Requests
    OBVIOUS
  <2>4. r = [i \in 1..m |-> Request(script[i])]
    BY <2>1, <2>2, <2>3 DEF Requests
  <2>5. PICK S : S = {Request(script[i]) : i \in 1..m}
    OBVIOUS
  <2>6. r \in Seq(S) /\ Len(r) = m
    <3>1. r \in [1..m -> S]
      BY <2>4, <2>5
    <3>2. r \in Seq(S)
      BY <2>2, <3>1, SeqDef
    <3>3. Len(r) \in Nat /\ DOMAIN r = 1..Len(r)
      BY <3>2, LenProperties
    <3>4. DOMAIN r = 1..m
      BY <2>4
    <3> QED
      BY <2>2, <3>2, <3>3, <3>4, SameInterval
  <2>7. SubSeq(r, 1, n) = handled
    <3>1. PICK a : a = SubSeq(r, 1, n)
      OBVIOUS
    <3>2. a = [i \in 1..n |-> r[i]]
      BY <2>2, <2>6, <3>1
    <3>3. \A i \in 1..n : r[i] = Request(script[i])
      BY <2>2, <2>4
    <3> QED
      BY <2>2, <3>1, <3>2, <3>3
  <2> QED
    BY <2>1, <2>2, <2>3, <2>6, <2>7 DEF IsPrefix
<1> QED
  BY <1>1, InitParsed, NextParses, PTL DEF Spec

-----------------------------------------------------------------------------
(* AsyncLogger *)

\* What a log's buffers hold, and rows of them.
Byte == Nat \cup {Junk}
Rows == Seq(Buffers(Byte))
Peeks(bs) == [i \in DOMAIN bs |-> Peek(bs[i])]

\* There is nothing to be read in any buffer of the row.
Blank(bs) == \A i \in DOMAIN bs : Peek(bs[i]) = <<>>

Count(n) == [i \in 1..n |-> i]
Following(m, n) == [i \in 1..n |-> m + i]

\* Whoever is inside append() holds the bytes that come next.
FrontInv ==
  /\ appended \in Nat /\ front \in [Threads -> Seq(Nat)]
  /\ \A t \in Threads : front[t] # <<>> => front[t] = Following(appended, Len(front[t]))
  /\ \A t, u \in Threads : front[t] # <<>> /\ front[u] # <<>> => t = u

\* There is a current buffer and, but while the back-end writes, one in buffA to
\* follow it; the buffers that are handed out next hold no old bytes.
RowsInv ==
  /\ currentBuffer \in Rows /\ nextBuffer \in Rows /\ buffers \in Rows
  /\ buffA \in Rows /\ buffB \in Rows /\ buffersToWrite \in Rows
  /\ Len(currentBuffer) = 1 /\ Len(buffA) <= 1
  /\ Blank(nextBuffer) /\ Blank(buffA) /\ Blank(buffB)
  /\ at \in 0..Len(buffersToWrite)
  /\ buffA = <<>> => backPc = "writing" /\ buffersToWrite # <<>>
  /\ backPc # "writing" => at = 0 /\ Blank(buffersToWrite)

Waiting == SubSeq(buffersToWrite, at + 1, Len(buffersToWrite))
Given(l) == [i \in DOMAIN l |-> l[i].byte]

AllHere ==
  Count(appended) = ((Given(log) \o Bytes(Waiting)) \o Bytes(buffers)) \o Bytes(currentBuffer)

NotAfter(m, n) == m[1] < n[1] \/ (m[1] = n[1] /\ m[2] <= n[2])

\* A file's name is of the day it was looked for, or an earlier one.
Filing(f) ==
  /\ \E W : f \in [open : BOOLEAN, bad : BOOLEAN, name : Nat \X Nat, lastDate : Nat,
                   sequence : Nat, hasWritten : W]
  /\ f.name[1] <= f.lastDate /\ f.lastDate <= today
  /\ f.name[1] = f.lastDate => f.name[2] <= f.sequence

Entries == [byte : Byte, name : Nat \X Nat, lost : BOOLEAN]

FilesInv ==
  /\ today \in Nat /\ Filing(file) /\ log \in Seq(Entries)
  /\ \A i \in DOMAIN log : NotAfter(log[i].name, file.name)
  /\ \A i, j \in DOMAIN log : i < j => NotAfter(log[i].name, log[j].name)

LogCore == FrontInv /\ RowsInv /\ AllHere /\ FilesInv

\* Until start() there is no back-end.
OwnerInv == ownerPc = "new" => backPc = "none"

LogInv == raced \/ (LogCore /\ OwnerInv)

-----------------------------------------------------------------------------
(* AsyncLogger: what is in a row of buffers *)

LEMMA PeeksOf ==
  ASSUME NEW bs \in Rows
  PROVE  /\ Peeks(bs) \in Seq(Seq(Byte)) /\ Len(Peeks(bs)) = Len(bs)
         /\ \A i \in 1..Len(bs) : Peeks(bs)[i] = Peek(bs[i])
         /\ Bytes(bs) = FlattenSeq(Peeks(bs)) /\ Bytes(bs) \in Seq(Byte)
<1>1. PICK n \in Nat : n = Len(bs) /\ DOMAIN bs = 1..n
  BY DEF Rows
<1>2. \A i \in 1..n : Peek(bs[i]) \in Seq(Byte)
  <2> SUFFICES ASSUME NEW i \in 1..n PROVE Peek(bs[i]) \in Seq(Byte)
    OBVIOUS
  <2>1. bs[i] \in Buffers(Byte)
    BY <1>1 DEF Rows
  <2>2. IsBuffer(bs[i], Byte)
    BY <2>1 DEF Buffers
  <2> QED
    BY <2>2, PeekCells DEF OfBytes
<1>3. Peeks(bs) = [i \in 1..n |-> Peek(bs[i])]
  BY <1>1 DEF Peeks
<1>4. Peeks(bs) \in [1..n -> Seq(Byte)]
  BY <1>2, <1>3
<1>5. Peeks(bs) \in Seq(Seq(Byte))
  BY <1>4, SeqDef
<1>6. Len(Peeks(bs)) = n
  <2>1. PICK p : p = Peeks(bs)
    OBVIOUS
  <2>2. DOMAIN p = 1..n /\ p \in Seq(Seq(Byte))
    BY <1>4, <1>5, <2>1
  <2>3. Len(p) \in Nat /\ DOMAIN p = 1..Len(p)
    BY <2>2, LenProperties
  <2>4. Len(p) = n
    BY <2>2, <2>3, SameInterval
  <2> QED
    BY <2>1, <2>4
<1>7. Bytes(bs) = FlattenSeq(Peeks(bs))
  BY DEF Bytes, Peeks
<1>8. FlattenSeq(Peeks(bs)) \in Seq(Byte)
  <2>1. <<>> \in Seq(Byte)
    OBVIOUS
  <2> QED
    BY <1>5, <2>1, FlattenAppend
<1> QED
  BY <1>1, <1>3, <1>5, <1>6, <1>7, <1>8

LEMMA BytesConcat ==
  ASSUME NEW bs \in Rows, NEW cs \in Rows
  PROVE  bs \o cs \in Rows /\ Bytes(bs \o cs) = Bytes(bs) \o Bytes(cs)
<1>1. PICK ds : ds = bs \o cs
  OBVIOUS
<1>2. PICK m \in Nat, n \in Nat : m = Len(bs) /\ n = Len(cs)
  BY DEF Rows
<1>3. /\ ds \in Rows /\ Len(ds) = m + n
      /\ \A i \in 1..m+n : ds[i] = IF i <= m THEN bs[i] ELSE cs[i - m]
  BY <1>1, <1>2, ConcatProperties DEF Rows
<1>4. PICK p, q, r : p = Peeks(bs) /\ q = Peeks(cs) /\ r = Peeks(ds)
  OBVIOUS
<1>5. /\ p \in Seq(Seq(Byte)) /\ Len(p) = m /\ \A i \in 1..m : p[i] = Peek(bs[i])
      /\ Bytes(bs) = FlattenSeq(p)
  BY <1>2, <1>4, PeeksOf
<1>6. /\ q \in Seq(Seq(Byte)) /\ Len(q) = n /\ \A i \in 1..n : q[i] = Peek(cs[i])
      /\ Bytes(cs) = FlattenSeq(q)
  BY <1>2, <1>4, PeeksOf
<1>7. /\ r \in Seq(Seq(Byte)) /\ Len(r) = m + n /\ \A i \in 1..m+n : r[i] = Peek(ds[i])
      /\ Bytes(ds) = FlattenSeq(r)
  BY <1>3, <1>4, PeeksOf
<1>8. \A i \in 1..m+n : r[i] = IF i <= m THEN p[i] ELSE q[i - m]
  <2> SUFFICES ASSUME NEW i \in 1..m+n
               PROVE  r[i] = IF i <= m THEN p[i] ELSE q[i - m]
    OBVIOUS
  <2>1. CASE i <= m
    BY <1>3, <1>5, <1>7, <2>1
  <2>2. CASE ~(i <= m)
    <3>1. i - m \in 1..n
      BY <2>2
    <3> QED
      BY <1>3, <1>6, <1>7, <2>2, <3>1
  <2> QED
    BY <2>1, <2>2
<1>9. r = p \o q
  <2>1. /\ p \o q \in Seq(Seq(Byte)) /\ Len(p \o q) = m + n
        /\ \A i \in 1..m+n : (p \o q)[i] = IF i <= m THEN p[i] ELSE q[i - m]
    BY <1>5, <1>6, ConcatProperties
  <2> QED
    BY <1>7, <1>8, <2>1, SeqEqual
<1> QED
  BY <1>1, <1>3, <1>5, <1>6, <1>7, <1>9, FlattenConcat

LEMMA BytesOne ==
  ASSUME NEW b \in Buffers(Byte)
  PROVE  <<b>> \in Rows /\ Bytes(<<b>>) = Peek(b) /\ Peek(b) \in Seq(Byte)
<1>1. <<b>> \in Rows
  BY DEF Rows
<1>2. Peeks(<<b>>) = <<Peek(b)>>
  BY DEF Peeks
<1>3. Peek(b) \in Seq(Byte)
  BY PeekCells DEF Buffers, OfBytes
<1>4. <<>> \in Seq(Seq(Byte))
  OBVIOUS
<1>5. FlattenSeq(<<Peek(b)>>) = Peek(b)
  BY <1>3, <1>4, FlattenOne
<1> QED
  BY <1>1, <1>2, <1>3, <1>5, PeeksOf

LEMMA BytesNone ==
  ASSUME NEW bs \in Rows, Blank(bs)
  PROVE  Bytes(bs) = <<>>
<1>1. PICK T : T = {n \in Nat : \A cs \in Rows : Len(cs) = n /\ Blank(cs) => Bytes(cs) = <<>>}
  OBVIOUS
<1>2. 0 \in T
  <2> SUFFICES ASSUME NEW cs \in Rows, Len(cs) = 0 PROVE Bytes(cs) = <<>>
    BY <1>1
  <2>1. Peeks(cs) \in Seq(Seq(Byte)) /\ Len(Peeks(cs)) = 0
    BY PeeksOf
  <2>2. Peeks(cs) = <<>>
    BY <2>1
  <2> QED
    BY <2>2, PeeksOf, FlattenNone
<1>3. ASSUME NEW n \in T, NEW cs \in Rows, Len(cs) = n + 1, Blank(cs)
      PROVE  Bytes(cs) = <<>>
  <2>1. PICK u, b : u = SubSeq(cs, 1, n) /\ b = cs[n + 1]
    OBVIOUS
  <2>2. /\ n \in Nat /\ u \in Rows /\ Len(u) = n /\ b \in Buffers(Byte)
        /\ \A i \in 1..n : u[i] = cs[i]
    BY <1>1, <1>3, <2>1 DEF Rows
  <2>3. cs = u \o <<b>>
    BY <1>3, <2>1, <2>2 DEF Rows
  <2>4. Blank(u) /\ Peek(b) = <<>>
    <3>1. DOMAIN cs = 1..(n + 1) /\ DOMAIN u = 1..n
      BY <1>3, <2>2 DEF Rows
    <3> QED
      BY <1>3, <2>1, <2>2, <3>1 DEF Blank
  <2>5. Bytes(u) = <<>>
    BY <1>1, <2>2, <2>4
  <2>6. Bytes(<<b>>) = <<>> /\ <<b>> \in Rows
    BY <2>2, <2>4, BytesOne
  <2>7. Bytes(cs) = <<>> \o <<>>
    <3>1. PICK h : h = <<b>>
      OBVIOUS
    <3>2. h \in Rows /\ Bytes(h) = <<>> /\ cs = u \o h
      BY <2>3, <2>6, <3>1
    <3>3. Bytes(u \o h) = Bytes(u) \o Bytes(h)
      BY <2>2, <3>2, BytesConcat
    <3> QED
      BY <2>5, <3>2, <3>3
  <2> QED
    BY <2>7
<1>4. ASSUME NEW n \in T
      PROVE  n + 1 \in T
  <2>1. n + 1 \in Nat
    BY <1>1
  <2> QED
    BY <1>1, <1>3, <2>1
<1>5. T = Nat
  <2>1. T \in SUBSET Nat
    BY <1>1
  <2> QED
    BY <1>2, <1>4, <2>1, Counting
<1>6. Len(bs) \in Nat
  BY DEF Rows
<1> QED
  BY <1>1, <1>5, <1>6

\* what is left of a row when its next buffer is written
LEMMA BytesNext ==
  ASSUME NEW bs \in Rows, NEW n \in Nat, n < Len(bs)
  PROVE  /\ bs[n + 1] \in Buffers(Byte) /\ Peek(bs[n + 1]) \in Seq(Byte)
         /\ SubSeq(bs, n + 2, Len(bs)) \in Rows
         /\ Bytes(SubSeq(bs, n + 1, Len(bs)))
              = Peek(bs[n + 1]) \o Bytes(SubSeq(bs, n + 2, Len(bs)))
<1>1. PICK l \in Nat : l = Len(bs)
  BY DEF Rows
<1>2. bs \in Seq(Buffers(Byte)) /\ n + 1 \in 1..l /\ l \in 1..l
  BY <1>1 DEF Rows
<1>3. bs[n + 1] \in Buffers(Byte)
  BY <1>1, <1>2
<1>4. PICK r : r = SubSeq(bs, n + 2, l)
  OBVIOUS
<1>5. r \in Rows
  BY <1>1, <1>2, <1>4 DEF Rows
<1>6. SubSeq(bs, n + 1, l) = <<bs[n + 1]>> \o r
  <2>1. PICK m : m = n + 1
    OBVIOUS
  <2>2. m \in 1..Len(bs) /\ l \in m..Len(bs) /\ m + 1 = n + 2
    BY <1>1, <2>1
  <2>3. SubSeq(bs, m, l) = <<bs[m]>> \o SubSeq(bs, m + 1, l)
    BY <1>2, <2>2, SubSeqRecursiveFirst
  <2> QED
    BY <1>4, <2>1, <2>2, <2>3
<1>7. /\ <<bs[n + 1]>> \in Rows /\ Bytes(<<bs[n + 1]>>) = Peek(bs[n + 1])
      /\ Peek(bs[n + 1]) \in Seq(Byte)
  BY <1>3, BytesOne
<1>8. Bytes(<<bs[n + 1]>> \o r) = Peek(bs[n + 1]) \o Bytes(r)
  <2>1. PICK h : h = <<bs[n + 1]>>
    OBVIOUS
  <2>2. h \in Rows /\ Bytes(h) = Peek(bs[n + 1])
    BY <1>7, <2>1
  <2>3. Bytes(h \o r) = Bytes(h) \o Bytes(r)
    BY <1>5, <2>2, BytesConcat
  <2> QED
    BY <2>1, <2>2, <2>3
<1> QED
  BY <1>1, <1>3, <1>4, <1>5, <1>6, <1>7, <1>8

-----------------------------------------------------------------------------
(* AsyncLogger: the names of files *)

LEMMA ReadyFiling ==
  ASSUME today \in Nat, Filing(file), NEW len, NEW f \in Ready(Dated(file), len)
  PROVE  Filing(f) /\ NotAfter(file.name, f.name)
<1>1. PICK W : file \in [open : BOOLEAN, bad : BOOLEAN, name : Nat \X Nat,
                         lastDate : Nat, sequence : Nat, hasWritten : W]
  BY DEF Filing
<1>2. PICK V : V = W \cup {0} \cup {sizes[n] : n \in Nat \X Nat}
  OBVIOUS
<1>3. PICK d : d = Dated(file)
  OBVIOUS
<1>4. /\ d \in [open : BOOLEAN, bad : BOOLEAN, name : Nat \X Nat,
                lastDate : Nat, sequence : Nat, hasWritten : V]
      /\ d.name = file.name /\ d.lastDate = today /\ d.name[1] <= today
      /\ d.name[1] = today => d.name[2] <= d.sequence
  <2>1. CASE today = file.lastDate
    BY <1>1, <1>2, <1>3, <2>1 DEF Filing, Dated
  <2>2. CASE today # file.lastDate
    <3>1. d = [file EXCEPT !.open = FALSE, !.sequence = 0, !.hasWritten = 0,
                           !.lastDate = today]
      BY <1>3, <2>2 DEF Dated
    <3>2. /\ d \in [open : BOOLEAN, bad : BOOLEAN, name : Nat \X Nat,
                    lastDate : Nat, sequence : Nat, hasWritten : V]
          /\ d.name = file.name /\ d.lastDate = today
      BY <1>1, <1>2, <3>1
    <3>3. file.name[1] < today
      BY <1>1, <2>2 DEF Filing
    <3> QED
      BY <1>1, <3>2, <3>3
  <2> QED
    BY <2>1, <2>2
<1>5. ASSUME NEW s \in Nat, NEW e \in [open : BOOLEAN, bad : BOOLEAN, name : Nat \X Nat,
                lastDate : Nat, sequence : Nat, hasWritten : V],
             e.name = d.name, e.lastDate = today, e.sequence = s,
             NEW o \in BOOLEAN, NEW v \in V,
             d.name[1] = today => d.name[2] <= s
      PROVE  /\ Filing([e EXCEPT !.open = FALSE])
             /\ [e EXCEPT !.open = FALSE].name = d.name
             /\ Filing(Opened(e)) /\ Opened(e).name = <<today, s>>
             /\ Filing([Opened(e) EXCEPT !.hasWritten = 0])
             /\ [Opened(e) EXCEPT !.hasWritten = 0].name = <<today, s>>
  <2>1. sizes[FileName(e)] \in V /\ FileName(e) = <<today, s>>
    BY <1>2, <1>5 DEF FileName
  <2>2. /\ [e EXCEPT !.open = FALSE] \in [open : BOOLEAN, bad : BOOLEAN, name : Nat \X Nat,
                lastDate : Nat, sequence : Nat, hasWritten : V]
        /\ [e EXCEPT !.open = FALSE].name = d.name
        /\ [e EXCEPT !.open = FALSE].lastDate = today
        /\ [e EXCEPT !.open = FALSE].sequence = s
    BY <1>5
  <2>3. PICK p : p = Opened(e)
    OBVIOUS
  <2>4. /\ p \in [open : BOOLEAN, bad : BOOLEAN, name : Nat \X Nat,
                lastDate : Nat, sequence : Nat, hasWritten : V]
        /\ p.name = <<today, s>> /\ p.lastDate = today /\ p.sequence = s
    <3>1. PICK n \in Nat \X Nat : n = <<today, s>>
      OBVIOUS
    <3>2. PICK w \in V : w = sizes[FileName(e)]
      BY <2>1
    <3>3. p = [e EXCEPT !.open = TRUE, !.bad = FALSE, !.name = n, !.hasWritten = w]
      BY <2>1, <2>3, <3>1, <3>2 DEF Opened
    <3> QED
      BY <1>5, <3>1, <3>2, <3>3
  <2>5. PICK q : q = [p EXCEPT !.hasWritten = 0]
    OBVIOUS
  <2>6. /\ q \in [open : BOOLEAN, bad : BOOLEAN, name : Nat \X Nat,
                lastDate : Nat, sequence : Nat, hasWritten : V]
        /\ q.name = <<today, s>> /\ q.lastDate = today /\ q.sequence = s
    BY <1>2, <2>4, <2>5
  <2>7. Filing([e EXCEPT !.open = FALSE])
    BY <1>4, <1>5, <2>2 DEF Filing
  <2>8. Filing(p) /\ Filing(q)
    BY <2>4, <2>6 DEF Filing
  <2> QED
    BY <2>2, <2>3, <2>4, <2>5, <2>6, <2>7, <2>8
<1>6. NotAfter(file.name, d.name)
  BY <1>1, <1>4 DEF NotAfter
<1>7. ASSUME NEW s \in Nat, d.name[1] = today => d.name[2] <= s
      PROVE  NotAfter(file.name, <<today, s>>)
  <2>1. PICK n \in Nat \X Nat : n = file.name
    BY <1>1
  <2>2. n[1] \in Nat /\ n[1] <= today /\ (n[1] = today => n[2] <= s)
    BY <1>4, <1>7, <2>1
  <2>3. n[1] < today \/ (n[1] = today /\ n[2] <= s)
    BY <2>2
  <2> QED
    BY <2>1, <2>3 DEF NotAfter
<1>8. CASE d.open /\ d.name = FileName(d)
  <2>1. f = d
    BY <1>3, <1>8 DEF Ready
  <2>2. Filing(d)
    BY <1>4 DEF Filing
  <2> QED
    BY <1>6, <2>1, <2>2
<1>9. CASE ~(d.open /\ d.name = FileName(d))
  <2>1. PICK e : e = [d EXCEPT !.sequence = @ + 1]
    OBVIOUS
  <2>2. \/ f = [d EXCEPT !.open = FALSE]
        \/ f = [Opened(e) EXCEPT !.hasWritten = 0]
        \/ f = [e EXCEPT !.open = FALSE]
        \/ f = Opened(d)
    BY <1>3, <1>9, <2>1 DEF Ready
  <2>3. PICK s \in Nat : s = d.sequence
    BY <1>4
  <2>4. /\ e \in [open : BOOLEAN, bad : BOOLEAN, name : Nat \X Nat,
                lastDate : Nat, sequence : Nat, hasWritten : V]
        /\ e.name = d.name /\ e.lastDate = today /\ e.sequence = s + 1
        /\ d.name[1] = today => d.name[2] <= s + 1
    BY <1>4, <2>1, <2>3
  <2>5. 0 \in V /\ TRUE \in BOOLEAN /\ s + 1 \in Nat
    BY <1>2
  <2>6. /\ Filing([d EXCEPT !.open = FALSE]) /\ [d EXCEPT !.open = FALSE].name = d.name
        /\ Filing(Opened(d)) /\ Opened(d).name = <<today, s>>
    BY <1>4, <1>5, <2>3, <2>5
  <2>7. /\ Filing([e EXCEPT !.open = FALSE]) /\ [e EXCEPT !.open = FALSE].name = d.name
        /\ Filing([Opened(e) EXCEPT !.hasWritten = 0])
        /\ [Opened(e) EXCEPT !.hasWritten = 0].name = <<today, s + 1>>
    BY <1>5, <2>4, <2>5
  <2>8. NotAfter(file.name, <<today, s>>) /\ NotAfter(file.name, <<today, s + 1>>)
    BY <1>4, <1>7, <2>3, <2>4, <2>5
  <2> QED
    BY <1>6, <2>2, <2>6, <2>7, <2>8
<1> QED
  BY <1>8, <1>9

LEMMA NotAfterTransitive ==
  ASSUME NEW l \in Nat \X Nat, NEW m \in Nat \X Nat, NEW n \in Nat \X Nat,
         NotAfter(l, m), NotAfter(m, n)
  PROVE  NotAfter(l, n)
BY DEF NotAfter

LEMMA NotAfterItself ==
  ASSUME NEW n \in Nat \X Nat
  PROVE  NotAfter(n, n)
BY DEF NotAfter

\* write() of bytes: the file and the log go on
LEMMA WriteKeeps ==
  ASSUME FilesInv, NEW data \in Seq(Byte), Write(data), today' = today
  PROVE  FilesInv' /\ Given(log') = Given(log) \o data
<1>1. PICK f \in Ready(Dated(file), Len(data)), fails \in BOOLEAN :
        LET lost == ~f.open \/ f.bad \/ fails
        IN /\ file' = IF ~f.open THEN f
                      ELSE [f EXCEPT !.bad = @ \/ fails, !.hasWritten = @ + Len(data)]
           /\ log' = log \o [i \in DOMAIN data |->
                               [byte |-> data[i], name |-> f.name, lost |-> lost]]
  BY DEF Write
<1>2. Filing(f) /\ NotAfter(file.name, f.name) /\ f.name \in Nat \X Nat
  <2>1. Filing(f) /\ NotAfter(file.name, f.name)
    BY ReadyFiling DEF FilesInv
  <2> QED
    BY <2>1 DEF Filing
<1>3. PICK W : f \in [open : BOOLEAN, bad : BOOLEAN, name : Nat \X Nat,
                      lastDate : Nat, sequence : Nat, hasWritten : W]
  BY <1>2 DEF Filing
<1>4. Filing(file)' /\ file'.name = f.name
  <2>1. CASE ~f.open
    <3>1. file' = f
      BY <1>1, <2>1
    <3> QED
      BY <1>2, <3>1 DEF Filing
  <2>2. CASE f.open
    <3>1. PICK h : h = f.hasWritten + Len(data)
      OBVIOUS
    <3>2. PICK V : V = W \cup {h}
      OBVIOUS
    <3>3. PICK b \in BOOLEAN : b = (f.bad \/ fails)
      OBVIOUS
    <3>4. file' = [f EXCEPT !.bad = b, !.hasWritten = h]
      BY <1>1, <2>2, <3>1, <3>3
    <3>5. /\ file' \in [open : BOOLEAN, bad : BOOLEAN, name : Nat \X Nat,
                        lastDate : Nat, sequence : Nat, hasWritten : V]
          /\ file'.name = f.name /\ file'.lastDate = f.lastDate
          /\ file'.sequence = f.sequence
      BY <1>3, <3>2, <3>4
    <3> QED
      BY <1>2, <3>5 DEF Filing
  <2> QED
    BY <2>1, <2>2
<1>5. PICK lost \in BOOLEAN : lost = (~f.open \/ f.bad \/ fails)
  OBVIOUS
<1>6. PICK more : more = [i \in DOMAIN data |->
                            [byte |-> data[i], name |-> f.name, lost |-> lost]]
  OBVIOUS
<1>7. log' = log \o more
  BY <1>1, <1>5, <1>6
<1>8. PICK m \in Nat, n \in Nat : m = Len(log) /\ n = Len(data)
  BY DEF FilesInv
<1>9. log \in Seq(Entries) /\ DOMAIN log = 1..m /\ DOMAIN data = 1..n
  BY <1>8 DEF FilesInv
<1>10. /\ more \in Seq(Entries) /\ Len(more) = n
       /\ \A i \in 1..n : more[i].byte = data[i] /\ more[i].name = f.name
  <2>1. \A i \in 1..n : data[i] \in Byte
    BY <1>8
  <2>2. more = [i \in 1..n |-> [byte |-> data[i], name |-> f.name, lost |-> lost]]
    BY <1>6, <1>9
  <2>3. more \in [1..n -> Entries]
    BY <1>2, <2>1, <2>2 DEF Entries
  <2>4. more \in Seq(Entries) /\ Len(more) = n
    BY <2>3, FunctionIsSeq
  <2> QED
    BY <2>2, <2>4
<1>11. /\ log' \in Seq(Entries) /\ Len(log') = m + n /\ DOMAIN log' = 1..(m + n)
       /\ \A i \in 1..(m + n) : log'[i] = IF i <= m THEN log[i] ELSE more[i - m]
  <2>1. PICK l : l = log'
    OBVIOUS
  <2>2. /\ l \in Seq(Entries) /\ Len(l) = m + n
        /\ \A i \in 1..(m + n) : l[i] = IF i <= m THEN log[i] ELSE more[i - m]
    <3>1. log \in Seq(Entries) /\ more \in Seq(Entries) /\ Len(log) = m /\ Len(more) = n
      BY <1>8, <1>9, <1>10
    <3>2. l = log \o more
      BY <1>7, <2>1
    <3> QED
      BY <3>1, <3>2, ConcatProperties
  <2>3. DOMAIN l = 1..(m + n)
    BY <2>2
  <2> QED
    BY <2>1, <2>2, <2>3
<1>12. file.name \in Nat \X Nat
  BY DEF FilesInv, Filing
<1>13. ASSUME NEW i \in 1..(m + n)
       PROVE  NotAfter(log'[i].name, f.name)
  <2>1. CASE i <= m
    <3>1. i \in 1..m /\ log'[i] = log[i] /\ log[i] \in Entries
      BY <1>8, <1>9, <1>11, <2>1
    <3>2. NotAfter(log[i].name, file.name) /\ log[i].name \in Nat \X Nat
      BY <1>9, <3>1 DEF FilesInv, Entries
    <3> QED
      BY <1>2, <1>12, <3>1, <3>2, NotAfterTransitive
  <2>2. CASE ~(i <= m)
    <3>1. i - m \in 1..n /\ log'[i] = more[i - m]
      BY <1>11, <2>2
    <3> QED
      BY <1>2, <1>10, <3>1, NotAfterItself
  <2> QED
    BY <2>1, <2>2
<1>14. ASSUME NEW i \in 1..(m + n), NEW j \in 1..(m + n), i < j
       PROVE  NotAfter(log'[i].name, log'[j].name)
  <2>1. CASE j <= m
    <3>1. i \in DOMAIN log /\ j \in DOMAIN log /\ log'[i] = log[i] /\ log'[j] = log[j]
      BY <1>9, <1>11, <1>14, <2>1
    <3> QED
      BY <1>14, <3>1 DEF FilesInv
  <2>2. CASE ~(j <= m)
    <3>1. j - m \in 1..n /\ log'[j] = more[j - m]
      BY <1>11, <2>2
    <3>2. log'[j].name = f.name
      BY <1>10, <3>1
    <3> QED
      BY <1>13, <3>2
  <2> QED
    BY <2>1, <2>2
<1>15. FilesInv'
  <2>1. \A i \in DOMAIN log' : NotAfter(log'[i].name, file'.name)
    BY <1>4, <1>11, <1>13
  <2>2. \A i, j \in DOMAIN log' : i < j => NotAfter(log'[i].name, log'[j].name)
    BY <1>11, <1>14
  <2>3. today' \in Nat
    BY DEF FilesInv
  <2> QED
    BY <1>4, <1>11, <2>1, <2>2, <2>3 DEF FilesInv
<1>16. Given(log') = Given(log) \o data
  <2>1. PICK g, h : g = Given(log') /\ h = Given(log)
    OBVIOUS
  <2>2. g = [i \in 1..(m + n) |-> log'[i].byte] /\ h = [i \in 1..m |-> log[i].byte]
    BY <1>9, <1>11, <2>1 DEF Given
  <2>3. /\ \A i \in 1..m : log[i].byte \in Byte
        /\ \A i \in 1..(m + n) : log'[i].byte \in Byte
    <3>1. \A i \in 1..m : log[i] \in Entries
      BY <1>8, <1>9
    <3>2. PICK l : l = log'
      OBVIOUS
    <3>3. \A i \in 1..(m + n) : l[i] \in Entries
      BY <1>11, <3>2
    <3> QED
      BY <3>1, <3>2, <3>3 DEF Entries
  <2>4. h \in [1..m -> Byte] /\ g \in [1..(m + n) -> Byte] /\ m + n \in Nat
    BY <2>2, <2>3
  <2>5. h \in Seq(Byte) /\ Len(h) = m /\ g \in Seq(Byte) /\ Len(g) = m + n
    BY <2>4, FunctionIsSeq
  <2>6. /\ h \o data \in Seq(Byte) /\ Len(h \o data) = m + n
        /\ \A i \in 1..(m + n) : (h \o data)[i] = IF i <= m THEN h[i] ELSE data[i - m]
    BY <1>8, <2>5, ConcatProperties
  <2>7. \A i \in 1..(m + n) : g[i] = IF i <= m THEN h[i] ELSE data[i - m]
    <3> SUFFICES ASSUME NEW i \in 1..(m + n)
                 PROVE  g[i] = IF i <= m THEN h[i] ELSE data[i - m]
      OBVIOUS
    <3>1. CASE i <= m
      BY <1>11, <2>2, <3>1
    <3>2. CASE ~(i <= m)
      <4>1. i - m \in 1..n
        BY <3>2
      <4> QED
        BY <1>10, <1>11, <2>2, <3>2, <4>1
    <3> QED
      BY <3>1, <3>2
  <2>8. g = h \o data
    BY <2>5, <2>6, <2>7, SeqEqual
  <2> QED
    BY <2>1, <2>8
<1> QED
  BY <1>15, <1>16

-----------------------------------------------------------------------------
(* AsyncLogger: the steps of the threads *)

LEMMA NewBufferBlank ==
  NewBuffer \in Buffers(Byte) /\ Peek(NewBuffer) = <<>>
<1>1. Junk \in Byte
  BY DEF Byte
<1> QED
  BY <1>1, NewBufferEmpty, IsBufferInBuffers

LEMMA RetrieveAllBlank ==
  ASSUME NEW b \in Buffers(Byte)
  PROVE  RetrieveAll(b) \in Buffers(Byte) /\ Peek(RetrieveAll(b)) = <<>>
<1>1. IsBuffer(b, Byte) /\ Junk \in Byte
  BY DEF Buffers, Byte
<1>2. PICK n \in Nat : n = Len(b.store) /\ kCheapPrepend <= n /\ kCheapPrepend \in Nat
  BY <1>1, Fields
<1>3. Junks(n) \in Seq(Byte) /\ Len(Junks(n)) = n
  BY <1>1, JunkCells
<1>4. PICK r : r = RetrieveAll(b)
  OBVIOUS
<1>5. IsBuffer(r, Byte) /\ ReadableBytes(r) = 0
  BY <1>2, <1>3, <1>4 DEF RetrieveAll, IsBuffer, ReadableBytes
<1>6. Len(Peek(r)) = 0 /\ Peek(r) \in Seq(Byte)
  BY <1>5, PeekCells DEF OfBytes
<1> QED
  BY <1>4, <1>5, <1>6, IsBufferInBuffers

LEMMA GivenOf ==
  ASSUME NEW l \in Seq(Entries)
  PROVE  Given(l) \in Seq(Byte)
<1>1. PICK n \in Nat : n = Len(l) /\ DOMAIN l = 1..n
  OBVIOUS
<1>2. \A i \in 1..n : l[i].byte \in Byte
  <2>1. \A i \in 1..n : l[i] \in Entries
    BY <1>1
  <2> QED
    BY <2>1 DEF Entries
<1>3. Given(l) \in [1..n -> Byte]
  BY <1>1, <1>2 DEF Given
<1> QED
  BY <1>3, FunctionIsSeq

LEMMA CountOn ==
  ASSUME NEW m \in Nat, NEW n \in Nat
  PROVE  /\ Count(m) \in Seq(Nat) /\ Following(m, n) \in Seq(Nat)
         /\ Len(Following(m, n)) = n
         /\ Count(m + n) = Count(m) \o Following(m, n)
<1>1. PICK a, b, c : a = Count(m) /\ b = Following(m, n) /\ c = Count(m + n)
  OBVIOUS
<1>2. a \in [1..m -> Nat] /\ b \in [1..n -> Nat] /\ c \in [1..(m + n) -> Nat] /\ m + n \in Nat
  BY <1>1 DEF Count, Following
<1>3. a \in Seq(Nat) /\ Len(a) = m /\ b \in Seq(Nat) /\ Len(b) = n
      /\ c \in Seq(Nat) /\ Len(c) = m + n
  BY <1>2, FunctionIsSeq
<1>4. /\ a \o b \in Seq(Nat) /\ Len(a \o b) = m + n
      /\ \A i \in 1..(m + n) : (a \o b)[i] = IF i <= m THEN a[i] ELSE b[i - m]
  BY <1>3, ConcatProperties
<1>5. \A i \in 1..(m + n) : c[i] = IF i <= m THEN a[i] ELSE b[i - m]
  <2> SUFFICES ASSUME NEW i \in 1..(m + n)
               PROVE  c[i] = IF i <= m THEN a[i] ELSE b[i - m]
    OBVIOUS
  <2>1. c[i] = i
    BY <1>1 DEF Count
  <2>2. CASE i <= m
    BY <1>1, <2>1, <2>2 DEF Count
  <2>3. CASE ~(i <= m)
    <3>1. i - m \in 1..n
      BY <2>3
    <3>2. b[i - m] = m + (i - m)
      BY <1>1, <3>1 DEF Following
    <3> QED
      BY <2>1, <2>3, <3>2
  <2> QED
    BY <2>2, <2>3
<1>6. c = a \o b
  BY <1>3, <1>4, <1>5, SeqEqual
<1> QED
  BY <1>1, <1>3, <1>6

-----------------------------------------------------------------------------
LEMMA LogInit == LInit => LogCore
<1> SUFFICES ASSUME LInit PROVE LogCore
  OBVIOUS
<1>1. FrontInv
  BY DEF LInit, FrontInv
<1>2. PICK b \in Buffers(Byte) : b = NewBuffer /\ Peek(b) = <<>>
  BY NewBufferBlank
<1>3. <<b>> \in Rows /\ <<>> \in Rows
  BY DEF Rows
<1>4. Blank(<<b>>) /\ Blank(<<>>) /\ Bytes(<<b>>) = <<>> /\ Bytes(<<>>) = <<>>
  <2>1. Blank(<<b>>) /\ Blank(<<>>)
    BY <1>2 DEF Blank
  <2> QED
    BY <1>3, <2>1, BytesNone
<1>5. RowsInv
  BY <1>2, <1>3, <1>4 DEF LInit, RowsInv
<1>6. AllHere
  <2>1. Given(log) = <<>> /\ Count(appended) = <<>>
    BY DEF LInit, Given, Count
  <2>2. Waiting = <<>>
    BY DEF LInit, Waiting
  <2>3. Bytes(Waiting) = <<>> /\ Bytes(buffers) = <<>> /\ Bytes(currentBuffer) = <<>>
    BY <1>2, <1>4, <2>2 DEF LInit
  <2> QED
    BY <2>1, <2>3 DEF AllHere
<1>7. FilesInv
  <2>1. PICK W : W = {0}
    OBVIOUS
  <2>2. file \in [open : BOOLEAN, bad : BOOLEAN, name : Nat \X Nat, lastDate : Nat,
                  sequence : Nat, hasWritten : W]
    BY <2>1 DEF LInit
  <2>3. Filing(file)
    BY <2>2 DEF LInit, Filing
  <2>4. log = <<>> /\ today = 1
    BY DEF LInit
  <2> QED
    BY <2>3, <2>4 DEF FilesInv
<1> QED
  BY <1>1, <1>5, <1>6, <1>7 DEF LogCore

LEMMA BeginAppendKeeps ==
  ASSUME LogCore, NEW t \in Threads, BeginAppend(t), ~raced'
  PROVE  LogCore'
<1>1. PICK len \in Lengths : front' = [front EXCEPT ![t] = Following(appended, len)]
  BY DEF BeginAppend, Following
<1>2. len \in Nat \ {0} /\ appended \in Nat
  BY AsyncLoggerAssumption DEF LogCore, FrontInv
<1>3. PICK f : f = Following(appended, len)
  OBVIOUS
<1>4. f \in Seq(Nat) /\ Len(f) = len /\ f # <<>>
  BY <1>2, <1>3, CountOn
<1>5. \A u \in Threads : front[u] = <<>>
  BY DEF BeginAppend, Inside
<1>6. FrontInv'
  <2>1. front' \in [Threads -> Seq(Nat)] /\ appended' = appended
        /\ \A u \in Threads : front'[u] = IF u = t THEN f ELSE <<>>
    BY <1>1, <1>3, <1>4, <1>5 DEF LogCore, FrontInv, BeginAppend
  <2>2. f = Following(appended', Len(f))
    BY <1>3, <1>4, <2>1
  <2> QED
    BY <1>2, <2>1, <2>2 DEF FrontInv
<1>7. RowsInv'
  BY DEF LogCore, RowsInv, BeginAppend, buffvars, Blank
<1>8. AllHere'
  BY DEF LogCore, AllHere, BeginAppend, buffvars, filevars, Waiting
<1>9. FilesInv'
  BY DEF LogCore, FilesInv, BeginAppend, filevars, Filing
<1> QED
  BY <1>6, <1>7, <1>8, <1>9 DEF LogCore

LEMMA AppendDataKeeps ==
  ASSUME LogCore, NEW t \in Threads, AppendData(t)
  PROVE  LogCore'
<1>1. PICK data : data = front[t]
  OBVIOUS
<1>2. PICK n \in Nat : n = Len(data)
  BY <1>1 DEF LogCore, FrontInv
<1>3. /\ data = Following(appended, n) /\ data # <<>> /\ appended \in Nat
      /\ data \in Seq(Nat) /\ appended' = appended + n
  BY <1>1, <1>2 DEF LogCore, FrontInv, AppendData
<1>4. data \in Seq(Byte) /\ OfBytes(data, Byte) /\ Junk \in Byte
  <2>1. data \in Seq(Byte)
    BY <1>3 DEF Byte
  <2> QED
    BY <2>1 DEF OfBytes, Byte
<1>5. FrontInv'
  <2>1. /\ front' \in [Threads -> Seq(Nat)] /\ front' = [front EXCEPT ![t] = <<>>]
    BY DEF LogCore, FrontInv, AppendData
  <2>2. \A u \in Threads : front'[u] = <<>>
    BY <1>1, <1>3, <2>1 DEF LogCore, FrontInv
  <2>3. appended' \in Nat
    BY <1>3
  <2> QED
    BY <2>1, <2>2, <2>3 DEF FrontInv
<1>6. FilesInv' /\ log' = log /\ Waiting' = Waiting
  BY DEF LogCore, FilesInv, AppendData, filevars, Filing, Waiting
<1>7. PICK b \in Buffers(Byte) : currentBuffer = <<b>>
  <2>1. currentBuffer \in Seq(Buffers(Byte)) /\ Len(currentBuffer) = 1
    BY DEF LogCore, RowsInv, Rows
  <2>2. currentBuffer = <<currentBuffer[1]>> /\ currentBuffer[1] \in Buffers(Byte)
    BY <2>1
  <2> QED
    BY <2>2
<1>8. PICK A, B, C, D : A = Given(log) /\ B = Bytes(Waiting) /\ C = Bytes(buffers)
                        /\ D = Bytes(currentBuffer)
  OBVIOUS
<1>9. A \in Seq(Byte) /\ B \in Seq(Byte) /\ C \in Seq(Byte) /\ D \in Seq(Byte)
  <2>1. A \in Seq(Byte)
    BY <1>8, GivenOf DEF LogCore, FilesInv
  <2>2. PICK m \in Nat, l \in Nat :
          m = at /\ l = Len(buffersToWrite) /\ m <= l /\ buffersToWrite \in Seq(Buffers(Byte))
    <3>1. PICK bs \in Seq(Buffers(Byte)) : bs = buffersToWrite
      BY DEF LogCore, RowsInv, Rows
    <3>2. Len(bs) \in Nat /\ at \in 0..Len(bs)
      BY <3>1 DEF LogCore, RowsInv
    <3>3. at \in Nat /\ at <= Len(bs)
      BY <3>2
    <3> QED
      BY <3>1, <3>2, <3>3
  <2>3. Waiting \in Rows
    BY <2>2, Part DEF Waiting, Rows
  <2> QED
    BY <1>8, <2>1, <2>3, PeeksOf DEF LogCore, RowsInv
<1>10. Count(appended) = ((A \o B) \o C) \o D /\ Count(appended') = Count(appended) \o data
  BY <1>3, <1>8, CountOn DEF LogCore, AllHere
<1>11. CASE WriteableBytes(currentBuffer[1]) > Len(data)
  <2>1. PICK e : e = BufferAppend(b, data)
    OBVIOUS
  <2>2. e \in Buffers(Byte) /\ Peek(e) = Peek(b) \o data
    <3>1. IsBuffer(b, Byte)
      BY DEF Buffers
    <3> QED
      BY <1>4, <2>1, <3>1, AppendAdds, IsBufferInBuffers
  <2>3. currentBuffer' = <<e>> /\ UNCHANGED <<nextBuffer, buffers, backPc, buffA, buffB,
                                              buffersToWrite, at>>
    BY <1>1, <1>7, <1>11, <2>1 DEF AppendData
  <2>4. <<e>> \in Rows /\ Bytes(<<e>>) = D \o data
    BY <1>7, <1>8, <2>2, BytesOne
  <2>5. RowsInv'
    BY <2>3, <2>4 DEF LogCore, RowsInv, Blank
  <2>6. PICK X : X = (A \o B) \o C
    OBVIOUS
  <2>7. (X \o D) \o data = X \o (D \o data)
    <3>1. X \in Seq(Byte)
      BY <1>9, <2>6
    <3> QED
      BY <1>4, <1>9, <3>1, ConcatAssociative
  <2>8. AllHere'
    BY <1>6, <1>8, <1>10, <2>3, <2>4, <2>6, <2>7 DEF AllHere
  <2> QED
    BY <1>5, <1>6, <2>5, <2>8 DEF LogCore
<1>12. CASE ~(WriteableBytes(currentBuffer[1]) > Len(data))
  <2>1. FillNext(data) /\ backPc' = Woken
    BY <1>1, <1>12 DEF AppendData
  <2>2. PICK g \in Buffers(Byte) : g = (nextBuffer \o <<NewBuffer>>)[1] /\ Peek(g) = <<>>
    <3>1. PICK h : h = <<NewBuffer>>
      OBVIOUS
    <3>2. PICK l \in Nat : l = Len(nextBuffer)
      BY DEF LogCore, RowsInv, Rows
    <3>3. /\ nextBuffer \in Seq(Buffers(Byte)) /\ h \in Seq(Buffers(Byte))
          /\ Len(h) = 1 /\ h[1] = NewBuffer
      BY <3>1, NewBufferBlank DEF LogCore, RowsInv, Rows
    <3>4. (nextBuffer \o h)[1] = IF 1 <= l THEN nextBuffer[1] ELSE h[1 - l]
      <4>1. 1 \in 1..(l + 1)
        OBVIOUS
      <4> QED
        BY <3>2, <3>3, <4>1, ConcatProperties
    <3>5. CASE 1 <= l
      <4>1. 1 \in DOMAIN nextBuffer
        BY <3>2, <3>3, <3>5
      <4>2. nextBuffer[1] \in Buffers(Byte) /\ Peek(nextBuffer[1]) = <<>>
        BY <3>3, <4>1 DEF LogCore, RowsInv, Blank
      <4> QED
        BY <3>1, <3>4, <3>5, <4>2
    <3>6. CASE ~(1 <= l)
      <4>1. l = 0
        BY <3>6
      <4>2. (nextBuffer \o h)[1] = NewBuffer
        BY <3>3, <3>4, <4>1
      <4> QED
        BY <3>1, <4>2, NewBufferBlank
    <3> QED
      BY <3>5, <3>6
  <2>3. PICK e : e = BufferAppend(g, data)
    OBVIOUS
  <2>4. e \in Buffers(Byte) /\ Peek(e) = data
    <3>1. IsBuffer(g, Byte)
      BY DEF Buffers
    <3>2. e \in Buffers(Byte) /\ Peek(e) = Peek(g) \o data
      BY <1>4, <2>3, <3>1, AppendAdds, IsBufferInBuffers
    <3>3. <<>> \o data = data
      BY <1>4
    <3> QED
      BY <2>2, <3>2, <3>3
  <2>5. /\ currentBuffer' = <<e>> /\ nextBuffer' = <<>>
        /\ buffers' = buffers \o currentBuffer
        /\ UNCHANGED <<buffA, buffB, buffersToWrite, at>>
    BY <2>1, <2>2, <2>3 DEF FillNext, AppendData
  <2>6. <<e>> \in Rows /\ Bytes(<<e>>) = data /\ <<>> \in Rows /\ Blank(<<>>)
    <3>1. <<>> \in Rows /\ Blank(<<>>)
      BY DEF Rows, Blank
    <3> QED
      BY <2>4, <3>1, BytesOne
  <2>7. buffers' \in Rows /\ Bytes(buffers') = C \o D
    BY <1>8, <2>5, BytesConcat DEF LogCore, RowsInv
  <2>8. RowsInv'
    <3>1. (backPc' = "writing") <=> (backPc = "writing")
      BY <2>1 DEF Woken
    <3> QED
      BY <2>5, <2>6, <2>7, <3>1 DEF LogCore, RowsInv, Blank
  <2>9. AllHere'
    <3>1. PICK X : X = A \o B
      OBVIOUS
    <3>2. X \in Seq(Byte)
      BY <1>9, <3>1
    <3>3. (X \o C) \o D = X \o (C \o D)
      BY <1>9, <3>2, ConcatAssociative
    <3> QED
      BY <1>6, <1>8, <1>10, <2>5, <2>6, <2>7, <3>1, <3>3 DEF AllHere
  <2> QED
    BY <1>5, <1>6, <2>8, <2>9 DEF LogCore
<1> QED
  BY <1>11, <1>12

-----------------------------------------------------------------------------
\* Steps that leave the bytes alone.
LEMMA QuietKeeps ==
  ASSUME LogCore, UNCHANGED <<buffvars, filevars, front, appended, today>>,
         backPc = "writing" => backPc' = "writing"
  PROVE  LogCore'
<1>1. FrontInv'
  BY DEF LogCore, FrontInv
<1>2. RowsInv'
  BY DEF LogCore, RowsInv, buffvars, Blank
<1>3. AllHere'
  BY DEF LogCore, AllHere, buffvars, filevars, Waiting
<1>4. FilesInv'
  BY DEF LogCore, FilesInv, filevars, Filing
<1> QED
  BY <1>1, <1>2, <1>3, <1>4 DEF LogCore

LEMMA TakeBuffersKeeps ==
  ASSUME LogCore, backPc = "swapping", TakeBuffers, backPc' = "writing", at' = 0,
         UNCHANGED <<filevars, front, appended, today>>
  PROVE  LogCore'
<1>1. /\ currentBuffer \in Rows /\ nextBuffer \in Rows /\ buffers \in Rows
      /\ buffA \in Rows /\ buffB \in Rows /\ buffersToWrite \in Rows
      /\ Len(currentBuffer) = 1 /\ at = 0
      /\ Blank(nextBuffer) /\ Blank(buffA) /\ Blank(buffB) /\ Blank(buffersToWrite)
  BY DEF LogCore, RowsInv
<1>2. Len(buffA) = 1
  <2>1. PICK a \in Seq(Buffers(Byte)) : a = buffA
    BY <1>1 DEF Rows
  <2>2. Len(a) \in Nat /\ Len(a) <= 1 /\ a # <<>>
    BY <2>1 DEF LogCore, RowsInv
  <2>3. PICK n \in Nat : n = Len(a) /\ n <= 1
    BY <2>2
  <2>4. n # 0
    BY <2>1, <2>2, <2>3
  <2>5. n = 1
    BY <2>3, <2>4
  <2> QED
    BY <2>1, <2>3, <2>5
<1>3. PICK X : X = buffers \o currentBuffer
  OBVIOUS
<1>4. /\ buffersToWrite' = X /\ buffers' = buffersToWrite
      /\ currentBuffer' = buffA /\ buffA' = <<>>
  BY <1>3 DEF TakeBuffers
<1>5. X \in Rows /\ Bytes(X) = Bytes(buffers) \o Bytes(currentBuffer) /\ Len(X) \in Nat
      /\ X # <<>>
  <2>1. X \in Rows /\ Bytes(X) = Bytes(buffers) \o Bytes(currentBuffer)
    BY <1>1, <1>3, BytesConcat
  <2>2. Len(X) = Len(buffers) + 1 /\ Len(buffers) \in Nat
    <3>1. PICK c \in Seq(Buffers(Byte)), d \in Seq(Buffers(Byte)) :
            c = buffers /\ d = currentBuffer
      BY <1>1 DEF Rows
    <3>2. Len(c \o d) = Len(c) + Len(d) /\ Len(c) \in Nat
      OBVIOUS
    <3> QED
      BY <1>1, <1>3, <3>1, <3>2
  <2> QED
    BY <2>1, <2>2
<1>6. <<>> \in Rows /\ Blank(<<>>)
  BY DEF Rows, Blank
<1>7. nextBuffer' \in Rows /\ buffB' \in Rows /\ Blank(nextBuffer)' /\ Blank(buffB)'
  <2>1. CASE nextBuffer = <<>>
    <3>1. nextBuffer' = buffB /\ buffB' = <<>>
      BY <2>1 DEF TakeBuffers
    <3> QED
      BY <1>1, <1>6, <3>1 DEF Blank
  <2>2. CASE nextBuffer # <<>>
    BY <1>1, <2>2 DEF TakeBuffers, Blank
  <2> QED
    BY <2>1, <2>2
<1>8. RowsInv'
  BY <1>1, <1>2, <1>4, <1>5, <1>6, <1>7 DEF RowsInv, Blank
<1>9. Waiting' = X /\ Waiting = buffersToWrite
  <2>1. SubSeq(X, 1, Len(X)) = X
    BY <1>5, SubSeqFull DEF Rows
  <2>2. SubSeq(buffersToWrite, 1, Len(buffersToWrite)) = buffersToWrite
    BY <1>1, SubSeqFull DEF Rows
  <2> QED
    BY <1>1, <1>4, <2>1, <2>2 DEF Waiting
<1>10. Bytes(buffersToWrite) = <<>> /\ Bytes(buffA) = <<>>
  BY <1>1, BytesNone
<1>11. PICK A, C, D : A = Given(log) /\ C = Bytes(buffers) /\ D = Bytes(currentBuffer)
  OBVIOUS
<1>12. A \in Seq(Byte) /\ C \in Seq(Byte) /\ D \in Seq(Byte)
  BY <1>1, <1>11, GivenOf, PeeksOf DEF LogCore, FilesInv
<1>13. Count(appended) = (A \o C) \o D
  <2>1. Count(appended) = ((A \o <<>>) \o C) \o D
    BY <1>9, <1>10, <1>11 DEF LogCore, AllHere
  <2> QED
    BY <1>12, <2>1
<1>14. AllHere'
  <2>1. (A \o C) \o D = A \o (C \o D)
    BY <1>12, ConcatAssociative
  <2>2. ((A \o (C \o D)) \o <<>>) \o <<>> = A \o (C \o D)
    BY <1>12
  <2>3. log' = log /\ appended' = appended
    BY DEF filevars
  <2>4. Bytes(Waiting)' = C \o D /\ Bytes(buffers)' = <<>> /\ Bytes(currentBuffer)' = <<>>
        /\ Given(log)' = A
    BY <1>4, <1>5, <1>9, <1>10, <1>11, <2>3
  <2> QED
    BY <1>13, <2>1, <2>2, <2>3, <2>4 DEF AllHere
<1>15. FrontInv' /\ FilesInv'
  BY DEF LogCore, FrontInv, FilesInv, filevars, Filing
<1> QED
  BY <1>8, <1>14, <1>15 DEF LogCore

LEMMA WriteOneKeeps ==
  ASSUME LogCore, WriteOne
  PROVE  LogCore'
<1>1. PICK m \in Nat, l \in Nat :
        m = at /\ l = Len(buffersToWrite) /\ m < l
  <2>1. PICK bs \in Seq(Buffers(Byte)) : bs = buffersToWrite
    BY DEF LogCore, RowsInv, Rows
  <2>2. Len(bs) \in Nat /\ at \in Nat /\ at < Len(bs)
    BY <2>1 DEF LogCore, RowsInv, WriteOne
  <2> QED
    BY <2>1, <2>2
<1>2. PICK data, R : data = Peek(buffersToWrite[m + 1]) /\ R = SubSeq(buffersToWrite, m + 2, l)
  OBVIOUS
<1>3. data \in Seq(Byte) /\ R \in Rows /\ Bytes(Waiting) = data \o Bytes(R)
  BY <1>1, <1>2, BytesNext DEF LogCore, RowsInv, Waiting
<1>4. /\ Write(data) /\ at' = m + 1 /\ backPc' = backPc /\ backPc = "writing"
      /\ today' = today /\ front' = front /\ appended' = appended
      /\ UNCHANGED <<currentBuffer, nextBuffer, buffers, buffA, buffB, buffersToWrite>>
  BY <1>1, <1>2 DEF WriteOne, Stays
<1>5. FilesInv' /\ Given(log') = Given(log) \o data
  BY <1>3, <1>4, WriteKeeps DEF LogCore
<1>6. Waiting' = R
  BY <1>1, <1>2, <1>4 DEF Waiting
<1>7. FrontInv'
  BY <1>4 DEF LogCore, FrontInv
<1>8. RowsInv'
  BY <1>1, <1>4 DEF LogCore, RowsInv, Blank
<1>9. AllHere'
  <2>1. PICK A, B : A = Given(log) /\ B = Bytes(R)
    OBVIOUS
  <2>2. A \in Seq(Byte) /\ B \in Seq(Byte)
    BY <1>3, <2>1, GivenOf, PeeksOf DEF LogCore, FilesInv
  <2>3. A \o (data \o B) = (A \o data) \o B
    BY <1>3, <2>2, ConcatAssociative
  <2>4. Given(log') \o Bytes(Waiting') = Given(log) \o Bytes(Waiting)
    BY <1>3, <1>5, <1>6, <2>1, <2>3
  <2> QED
    BY <1>4, <2>4 DEF LogCore, AllHere
<1> QED
  BY <1>5, <1>7, <1>8, <1>9 DEF LogCore

LEMMA RefillKeeps ==
  ASSUME LogCore, Refill
  PROVE  LogCore'
<1>1. PICK bs, n : bs = buffersToWrite /\ n = Len(bs)
  OBVIOUS
<1>2. /\ bs \in Seq(Buffers(Byte)) /\ n \in Nat /\ DOMAIN bs = 1..n /\ at = n
      /\ at' = 0 /\ backPc' = "head"
  BY <1>1 DEF LogCore, RowsInv, Rows, Refill
<1>3. PICK empty : empty = [i \in DOMAIN bs |-> RetrieveAll(bs[i])]
  OBVIOUS
<1>4. Refilled(empty)
  BY <1>1, <1>3 DEF Refill
<1>5. /\ empty \in Rows /\ Len(empty) = n /\ Blank(empty)
  <2>1. \A i \in 1..n : /\ empty[i] = RetrieveAll(bs[i]) /\ empty[i] \in Buffers(Byte)
                        /\ Peek(empty[i]) = <<>>
    BY <1>2, <1>3, RetrieveAllBlank
  <2>2. empty \in [1..n -> Buffers(Byte)] /\ DOMAIN empty = 1..n
    BY <1>2, <1>3, <2>1
  <2>3. empty \in Rows /\ Len(empty) = n
    BY <1>2, <2>2, FunctionIsSeq DEF Rows
  <2> QED
    BY <2>1, <2>2, <2>3 DEF Blank
<1>6. ASSUME NEW r \in Rows, Blank(r), r # <<>>
      PROVE  /\ Front(r) \in Rows /\ Blank(Front(r))
             /\ <<Last(r)>> \in Rows /\ Blank(<<Last(r)>>) /\ <<Last(r)>> # <<>>
  <2>1. PICK k \in Nat : k = Len(r) /\ k > 0 /\ r \in Seq(Buffers(Byte)) /\ DOMAIN r = 1..k
    BY <1>6 DEF Rows
  <2>2. PICK f : f = SubSeq(r, 0 + 1, k - 1)
    OBVIOUS
  <2>3. /\ f \in Seq(Buffers(Byte)) /\ Len(f) = k - 1
        /\ \A i \in 1..(k - 1) : f[i] = r[0 + i]
    <3>1. PICK j \in Nat : j = k - 1
      BY <2>1
    <3>2. j <= Len(r) /\ f = SubSeq(r, 0 + 1, j)
      BY <2>1, <2>2, <3>1
    <3>3. f \in Seq(Buffers(Byte)) /\ Len(f) = j - 0 /\ \A i \in 1..(j - 0) : f[i] = r[0 + i]
      BY <2>1, <3>1, <3>2, Part
    <3> QED
      BY <3>1, <3>3
  <2>4. Front(r) = f
    BY <2>1, <2>2 DEF Front
  <2>5. Blank(f)
    <3>1. DOMAIN f = 1..(k - 1)
      BY <2>1, <2>3
    <3> QED
      BY <1>6, <2>1, <2>3, <3>1 DEF Blank
  <2>6. PICK b : b = Last(r)
    OBVIOUS
  <2>7. b \in Buffers(Byte) /\ Peek(b) = <<>>
    BY <1>6, <2>1, <2>6 DEF Last, Blank
  <2>8. Blank(<<b>>) /\ <<b>> \in Rows /\ <<b>> # <<>>
    BY <2>7 DEF Blank, Rows
  <2> QED
    BY <2>3, <2>4, <2>5, <2>6, <2>8 DEF Rows
<1>7. PICK unused : unused = IF buffA = <<>> THEN Front(empty) ELSE empty
  OBVIOUS
<1>8. buffA = <<>> => empty # <<>>
  BY <1>1, <1>2, <1>5 DEF LogCore, RowsInv
<1>9. unused \in Rows /\ Blank(unused)
  BY <1>5, <1>6, <1>7, <1>8
<1>10. PICK takeB \in BOOLEAN : takeB = (buffB = <<>> /\ unused # <<>>)
  OBVIOUS
<1>11. /\ buffA' = IF buffA = <<>> THEN <<Last(empty)>> ELSE buffA
       /\ buffB' = IF takeB THEN <<Last(unused)>> ELSE buffB
       /\ buffersToWrite' = IF takeB THEN Front(unused) ELSE unused
  BY <1>4, <1>7, <1>10 DEF Refilled
<1>12. /\ buffA' \in Rows /\ Blank(buffA') /\ buffA' # <<>>
       /\ Len(buffA') <= 1 /\ buffB' \in Rows /\ Blank(buffB')
       /\ buffersToWrite' \in Rows /\ Blank(buffersToWrite')
  <2>1. buffA' \in Rows /\ Blank(buffA') /\ buffA' # <<>> /\ Len(buffA') <= 1
    BY <1>5, <1>6, <1>8, <1>11 DEF LogCore, RowsInv
  <2>2. CASE takeB
    BY <1>6, <1>9, <1>10, <1>11, <2>1, <2>2
  <2>3. CASE ~takeB
    BY <1>9, <1>11, <2>1, <2>3 DEF LogCore, RowsInv
  <2> QED
    BY <2>2, <2>3
<1>13. UNCHANGED <<currentBuffer, nextBuffer, buffers, filevars, front, appended, today>>
  BY DEF Refill, Stays
<1>14. RowsInv'
  <2>1. 0 \in 0..Len(buffersToWrite')
    BY <1>12 DEF Rows
  <2> QED
    BY <1>2, <1>12, <1>13, <2>1 DEF LogCore, RowsInv, Blank
<1>15. FrontInv' /\ FilesInv'
  BY <1>13 DEF LogCore, FrontInv, FilesInv, filevars, Filing
<1>16. Bytes(Waiting) = <<>> /\ Bytes(Waiting') = <<>>
  <2>1. Waiting = <<>>
    BY <1>1, <1>2 DEF Waiting
  <2>2. <<>> \in Rows /\ Blank(<<>>)
    BY DEF Rows, Blank
  <2>3. Waiting' = buffersToWrite'
    <3>1. PICK r \in Seq(Buffers(Byte)) : r = buffersToWrite'
      BY <1>12 DEF Rows
    <3>2. SubSeq(r, 1, Len(r)) = r
      BY SubSeqFull
    <3> QED
      BY <1>2, <3>1, <3>2 DEF Waiting
  <2> QED
    BY <1>12, <2>1, <2>2, <2>3, BytesNone
<1>17. AllHere'
  <2>1. Given(log') = Given(log)
    BY <1>13 DEF filevars
  <2> QED
    BY <1>13, <1>16, <2>1 DEF LogCore, AllHere
<1> QED
  BY <1>14, <1>15, <1>17 DEF LogCore

LEMMA NextDayKeeps ==
  ASSUME LogCore, NextDay
  PROVE  LogCore'
<1>1. FrontInv'
  BY DEF LogCore, FrontInv, NextDay
<1>2. RowsInv'
  BY DEF LogCore, RowsInv, NextDay, buffvars, Blank
<1>3. AllHere'
  BY DEF LogCore, AllHere, NextDay, buffvars, filevars, Waiting
<1>4. FilesInv'
  <2>1. today' = today + 1 /\ file' = file /\ log' = log /\ today \in Nat /\ Filing(file)
    BY DEF LogCore, FilesInv, NextDay, filevars
  <2>2. PICK W : file \in [open : BOOLEAN, bad : BOOLEAN, name : Nat \X Nat, lastDate : Nat,
                           sequence : Nat, hasWritten : W]
    BY <2>1 DEF Filing
  <2>3. file.lastDate <= today'
    BY <2>1, <2>2 DEF Filing
  <2>4. Filing(file)'
    BY <2>1, <2>2, <2>3 DEF Filing
  <2> QED
    BY <2>1, <2>4 DEF LogCore, FilesInv
<1> QED
  BY <1>1, <1>2, <1>3, <1>4 DEF LogCore

LEMMA CoreNext ==
  ASSUME LogCore, OwnerInv, LNext, ~raced'
  PROVE  LogCore'
<1>1. ASSUME NEW t \in Threads, BeginAppend(t) \/ AppendData(t)
      PROVE  LogCore'
  BY <1>1, BeginAppendKeeps, AppendDataKeeps
<1>2. CASE TestRunning \/ TestWaiting \/ FallAsleep \/ WakeSpuriously
  <2>1. UNCHANGED <<buffvars, filevars, front, appended, today>> /\ backPc # "writing"
    BY <1>2 DEF TestRunning, TestWaiting, FallAsleep, WakeSpuriously, Stays
  <2> QED
    BY <2>1, QuietKeeps
<1>3. CASE Swap
  <2>1. backPc = "swapping" /\ UNCHANGED <<filevars, front, appended, today>>
    BY <1>3 DEF Swap, Stays
  <2>2. CASE buffers # <<>> \/ Held(currentBuffer)
    <3>1. TakeBuffers /\ backPc' = "writing" /\ at' = 0
      BY <1>3, <2>2 DEF Swap
    <3> QED
      BY <2>1, <3>1, TakeBuffersKeeps
  <2>3. CASE ~(buffers # <<>> \/ Held(currentBuffer))
    <3>1. UNCHANGED buffvars
      BY <1>3, <2>3 DEF Swap
    <3> QED
      BY <2>1, <3>1, QuietKeeps
  <2> QED
    BY <2>2, <2>3
<1>4. CASE WriteOne
  BY <1>4, WriteOneKeeps
<1>5. CASE Refill
  BY <1>5, RefillKeeps
<1>6. CASE Start
  <2>1. UNCHANGED <<buffvars, filevars, front, appended, today>> /\ backPc = "none"
    BY <1>6 DEF Start, OwnerKeeps, OwnerInv
  <2> QED
    BY <2>1, QuietKeeps
<1>7. CASE StopClears \/ StopJoins
  <2>1. UNCHANGED <<buffvars, filevars, front, appended, today, backPc>>
    BY <1>7 DEF StopClears, StopJoins, OwnerKeeps
  <2> QED
    BY <2>1, QuietKeeps
<1>8. CASE StopNotifies
  <2>1. UNCHANGED <<buffvars, filevars, front, appended, today>> /\ backPc' = Woken
    BY <1>8 DEF StopNotifies
  <2>2. backPc = "writing" => backPc' = "writing"
    BY <2>1 DEF Woken
  <2> QED
    BY <2>1, <2>2, QuietKeeps
<1>9. CASE NextDay
  BY <1>9, NextDayKeeps
<1> QED
  BY <1>1, <1>2, <1>3, <1>4, <1>5, <1>6, <1>7, <1>8, <1>9 DEF LNext, BackStep

LEMMA OwnerNext ==
  ASSUME OwnerInv, LNext
  PROVE  OwnerInv'
<1>1. ASSUME NEW t \in Threads, BeginAppend(t) \/ AppendData(t)
      PROVE  OwnerInv'
  <2>1. ownerPc' = ownerPc /\ (backPc = "none" => backPc' = "none")
    BY <1>1 DEF BeginAppend, AppendData, Woken
  <2> QED
    BY <2>1 DEF OwnerInv
<1>2. CASE BackStep \/ WakeSpuriously
  BY <1>2 DEF OwnerInv, BackStep, Stays, TestRunning, TestWaiting, FallAsleep,
              WakeSpuriously, Swap, WriteOne, Refill
<1>3. CASE Start \/ StopClears \/ StopNotifies \/ StopJoins
  BY <1>3 DEF Start, StopClears, StopNotifies, StopJoins, OwnerInv
<1>4. CASE NextDay
  BY <1>4 DEF NextDay, OwnerInv
<1> QED
  BY <1>1, <1>2, <1>3, <1>4 DEF LNext

LEMMA LogNext == LogInv /\ [LNext]_lvars => LogInv'
<1> SUFFICES ASSUME LogInv, [LNext]_lvars, ~raced' PROVE LogCore' /\ OwnerInv'
  BY DEF LogInv
<1>1. CASE UNCHANGED lvars
  <2>1. /\ raced' = raced
        /\ UNCHANGED <<buffvars, filevars, front, appended, today, backPc, ownerPc>>
    BY <1>1 DEF lvars
  <2>2. LogCore /\ OwnerInv
    BY <2>1 DEF LogInv
  <2>3. LogCore'
    BY <2>1, <2>2, QuietKeeps
  <2>4. OwnerInv'
    BY <2>1, <2>2 DEF OwnerInv
  <2> QED
    BY <2>3, <2>4
<1>2. CASE LNext
  <2>1. LogCore /\ OwnerInv
    BY <1>2 DEF LogInv, LNext
  <2>2. LogCore'
    BY <1>2, <2>1, CoreNext
  <2>3. OwnerInv'
    BY <1>2, <2>1, OwnerNext
  <2> QED
    BY <2>2, <2>3
<1> QED
  BY <1>1, <1>2

\* Every byte that was appended is in exactly one place, in order, and write()
\* never goes back to an older file (append, threadFunc, write).
THEOREM EveryByteInOrder == LSpec => []LogInOrder
<1>1. LInit => LogInv
  BY LogInit DEF LogInv, OwnerInv, LInit
<1>2. LogInv => LogInOrder
  <2> SUFFICES ASSUME LogCore PROVE LogInOrder
    BY DEF LogInv, LogInOrder
  <2>1. \A i, j \in DOMAIN log :
          i < j => \/ log[i].name[1] < log[j].name[1]
                   \/ /\ log[i].name[1] = log[j].name[1]
                      /\ log[i].name[2] <= log[j].name[2]
    BY DEF LogCore, FilesInv, NotAfter
  <2> QED
    BY <2>1 DEF LogCore, AllHere, Count, Given, Waiting, LogInOrder
<1> QED
  BY <1>1, <1>2, LogNext, PTL DEF LSpec
=============================================================================
