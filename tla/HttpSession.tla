----------------------------- MODULE HttpSession -----------------------------
(***************************************************************************)
(* One connection of the HTTP server (src/net/Http): the requests of a     *)
(* client arrive in pieces of any size, HttpServer::onMessage parses what  *)
(* is there with the connection's HttpContext and answers through the      *)
(* connection.  A token stands for a run of bytes: a request line, a       *)
(* header line, a line end, a piece of a body.                             *)
(***************************************************************************)
EXTENDS Transfer, SequencesExt

CONSTANTS
  Kinds,        \* requests a client may send, of {"GET", "FILE", "EMPTY", "POST"}
  MaxRequests,  \* bound: requests of the client
  FileSize      \* length of the file that "FILE" asks for, in tokens

ASSUME HttpSessionAssumption ==
  /\ Kinds \subseteq {"GET", "FILE", "EMPTY", "POST"}
  /\ MaxRequests \in Nat /\ FileSize \in Nat \ {0}

VARIABLES
  script,      \* the requests of the client, in order
  input,       \* what has yet to arrive of them
  readBuffer,  \* readBuffer_
  context,     \* the state_ of the connection's HttpContext
  conn,        \* the connection's way out
  posted,      \* forceClose() of another thread has posted forceCloseInLoop
  left,        \* callbacks still to run of the report that closed the connection
  handled,     \* history: the requests handed to the HTTP callback
  torn,        \* history: onMessage returned in the middle of a request
  piled        \* history: onMessage returned over the next request's first line

vars == <<script, input, readBuffer, context, conn, posted, left, handled, torn, piled>>

-----------------------------------------------------------------------------
(* What the client sends.  "GET" asks for a reply from memory, "FILE" and  *)
(* "EMPTY" for one of a file, "POST" has a body and its length.            *)

Body == <<"x", "y">>
BytesOf(r) == IF r = "POST" THEN <<r, "crlf", "length", "crlf", "crlf">> \o Body
              ELSE <<r, "crlf", "crlf">>
Stream(s) == FlattenSeq([i \in DOMAIN s |-> BytesOf(s[i])])
Request(r) == [line |-> r, length |-> r = "POST",
               body |-> IF r = "POST" THEN Body ELSE <<>>]

\* A new HttpRequest: method kInvalid, no header, no body.
NoRequest == [line |-> "kInvalid", length |-> FALSE, body |-> <<>>]

-----------------------------------------------------------------------------
(* HttpContext::parse, one turn of its loop per ParseStep: p has the       *)
(* buffer, the state, the request and whether the loop goes on; bad is the *)
(* answer 400.                                                             *)

Line(b) ==
  LET end == CHOOSE i \in LineEnds(b, "crlf") :
               \A j \in LineEnds(b, "crlf") : i <= j
  IN SubSeq(Peek(b), 1, end - 1)
SkipLine(p) == [p EXCEPT !.buffer = Retrieve(@, Len(Line(@)) + 1)]
More(p) == LineEnds(p.buffer, "crlf") # {}

ParseRequestLine(p) ==
  IF ~More(p) THEN [p EXCEPT !.more = FALSE]
  ELSE LET line == Line(p.buffer)
       IN IF Len(line) = 1 /\ line[1] \in Kinds
          THEN [SkipLine(p) EXCEPT !.request.line = line[1],
                                   !.state = "kExpectHeaders"]
          ELSE [SkipLine(p) EXCEPT !.bad = TRUE, !.more = FALSE]

ParseHeader(p) ==
  IF ~More(p) THEN [p EXCEPT !.more = FALSE]
  ELSE LET line == Line(p.buffer)
       IN IF line # <<>>
          THEN [SkipLine(p) EXCEPT !.request.length = @ \/ line = <<"length">>]
          ELSE [SkipLine(p) EXCEPT !.state =
                  IF p.request.line = "POST" THEN "kExpectBody" ELSE "kGotAll"]

ParseBody(p) ==
  IF ~p.request.length THEN [p EXCEPT !.state = "kGotAll"]
  ELSE IF ReadableBytes(p.buffer) < Len(Body) THEN [p EXCEPT !.more = FALSE]
  ELSE [p EXCEPT !.request.body = SubSeq(Peek(p.buffer), 1, Len(Body)),
                 !.buffer = Retrieve(@, Len(Body)), !.state = "kGotAll"]

ParseStep(p) ==
  CASE p.state = "kExpectRequestLine" -> ParseRequestLine(p)
    [] p.state = "kExpectHeaders" -> ParseHeader(p)
    [] p.state = "kExpectBody" -> ParseBody(p)
    [] p.state = "kGotAll" -> [p EXCEPT !.more = FALSE]

\* Every turn that goes on takes a line or leaves a state for good.
Parse(b) ==
  LET Turns == ReadableBytes(b) + 3
      after[n \in 0..Turns] ==
        IF n = 0 THEN { [buffer |-> b, state |-> context, request |-> NoRequest,
                         bad |-> FALSE, more |-> TRUE] }
        ELSE { IF p.more THEN ParseStep(p) ELSE p : p \in after[n - 1] }
  IN after[Turns]

-----------------------------------------------------------------------------
(* HttpServer::onMessage.  The HTTP callback is test/HttpCallback.cc: a    *)
(* file for some paths, a reply from memory for all others, also for a     *)
(* request it cannot make out.                                             *)

Header(k) == <<k, "header">>
FileBytes(k, r) == [i \in 1..IF r = "FILE" THEN FileSize ELSE 0 |-> <<k, i>>]

Reply(c, k, r) ==
  IF r \in {"FILE", "EMPTY"}
  THEN UNION { SendFile(d, FileBytes(k, r)) : d \in Send(c, <<Header(k)>>) }
  ELSE Send(c, <<Header(k), <<k, "body">>>>)

\* forceClose() by the loop's own thread
ForceClose(c) == IF c.state \in {"kConnected", "kDisConnecting"}
                 THEN ForceCloseInLoop([c EXCEPT !.state = "kDisConnecting"]) ELSE c

OnMessage(b) ==
  \E p \in Parse(b) :
    LET done == p.bad \/ p.state = "kGotAll"
    IN /\ readBuffer' = p.buffer
       /\ context' = IF done THEN "kExpectRequestLine" ELSE p.state
       /\ handled' = IF done THEN Append(handled, p.request) ELSE handled
       /\ IF done THEN \E c \in Reply(conn, Len(handled) + 1, p.request.line) :
                         conn' = IF p.bad THEN ForceClose(c) ELSE c
          ELSE conn' = conn
       /\ torn' = (torn \/ (~done /\ p.state # "kExpectRequestLine"))
       /\ piled' = (piled \/ (done /\ More(p)))

-----------------------------------------------------------------------------
(* What the IO loop does with the connection. *)

Init ==
  /\ script \in SeqOf(Kinds, MaxRequests) \ {<<>>}
  /\ input = Stream(script)
  /\ readBuffer = NewBuffer
  /\ context = "kExpectRequestLine"
  /\ conn = NewTransfer
  /\ posted = FALSE /\ left = {}
  /\ handled = <<>>
  /\ torn = FALSE /\ piled = FALSE

Open == conn.state # "kDisConnected"

\* Channel::handleEvent() runs every callback of a report, the read one before the
\* write one, also when one of them has closed the connection.
Writable == IF conn.writing THEN {"write"} ELSE {}

\* handleRead: any part of what has arrived, as much as readFd has room for
HandleRead ==
  /\ Open \/ "read" \in left
  /\ \E n \in 1..Len(input) :
       /\ n <= WriteableBytes(readBuffer) + ExtraData
       /\ input' = SubSeq(input, n + 1, Len(input))
       /\ OnMessage(ReadFd(readBuffer, SubSeq(input, 1, n)))
  /\ left' \in IF Open /\ ~Open' THEN SUBSET Writable ELSE {left \ {"read"}}
  /\ UNCHANGED <<script, posted>>

HandleWritable ==
  /\ Open \/ "write" \in left
  /\ conn.writing
  /\ conn' \in HandleWrite(conn)
  /\ left' = {}
  /\ UNCHANGED <<script, input, readBuffer, context, posted, handled, torn, piled>>

\* the peer's end of stream, an error, or onIdleTimeout()
PeerCloses ==
  /\ Open
  /\ conn' = HandleClose(conn)
  /\ left' \in SUBSET ({"read"} \cup Writable)
  /\ UNCHANGED <<script, input, readBuffer, context, posted, handled, torn, piled>>

\* forceClose() of another thread: TcpServer::stop()
OtherForceClose ==
  /\ conn.state = "kConnected"
  /\ conn' = [conn EXCEPT !.state = "kDisConnecting"]
  /\ posted' = TRUE
  /\ UNCHANGED <<script, input, readBuffer, context, left, handled, torn, piled>>
RunPosted ==
  /\ posted
  /\ posted' = FALSE
  /\ conn' = ForceCloseInLoop(conn)
  /\ UNCHANGED <<script, input, readBuffer, context, left, handled, torn, piled>>

Next ==
  \/ HandleRead
  \/ HandleWritable
  \/ PeerCloses
  \/ OtherForceClose
  \/ RunPosted

Spec == Init /\ [][Next]_vars

\* The loop reads what has arrived, and a socket that polls writable takes some
\* of what it is given, again and again.
WriteSome == HandleWritable /\ conn'.wire # conn.wire
FairSpec == Spec /\ WF_vars(HandleRead) /\ WF_vars(WriteSome) /\ WF_vars(RunPosted)

-----------------------------------------------------------------------------
(* Properties *)

\* The HTTP callback gets exactly the requests the client sent, in their order
\* and with their bodies, however the stream is cut into reads and however often
\* the read buffer grows or moves its bytes, as long as no read ended in the
\* middle of a request (HttpServer::onMessage, HttpContext::parse, Buffer).
Requests == [i \in DOMAIN script |-> Request(script[i])]
HandledAsSent == ~torn => IsPrefix(handled, Requests)

\* When not all of a request has arrived the parser waits for the rest and then
\* hands on the whole of it (README.md:249, HttpContext.h:27).
HandledHoweverSplit == IsPrefix(handled, Requests)

\* What the socket took, what waits in writeBuffer_ and what is left of the file
\* are together all that was accepted, in that order, through every partial
\* write: nothing is lost, doubled or overtaken, and no file stays open behind
\* them; and what the callbacks after a close still write goes on from there.
\* Excepted is what was accepted while a file was being sent (sendInLoop,
\* sendFileInLoop, handleWrite, handleClose, Channel.cc:23-50).
RepliesInOrder ==
  ~conn.overtaken =>
    /\ conn.fds = IF conn.fileOpen THEN 1 ELSE 0
    /\ IF Open THEN conn.promised = conn.wire \o Peek(conn.writeBuffer) \o conn.rest
       ELSE IsPrefix(conn.wire \o Peek(conn.writeBuffer), conn.promised)

\* EPOLLOUT is asked for exactly while something is to be written, so that
\* nothing waits for an event that never comes and no writable socket keeps the
\* loop busy for nothing; only an empty file breaks the second half
\* (enableWriting and disableWriting in TcpConnection.cc).
WriteEventsMatchWork ==
  Open => /\ conn.writing <=> Unsent(conn) \/ conn.sendingFile
          /\ conn.sendingFile => conn.rest # <<>> \/ conn.size = 0

\* A client whose requests each arrive whole and one at a time gets every one of
\* them handled and every byte of the replies, or the connection closes: neither
\* the parser nor the write events ever leave a byte behind (HttpServer.cc:22,
\* TcpConnection.cc:376).
AllAnswered ==
  <>[](\/ ~Open \/ torn \/ piled \/ conn.overtaken
       \/ /\ Len(handled) = Len(script)
          /\ conn.wire = conn.promised)
=============================================================================
