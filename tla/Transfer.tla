------------------------------- MODULE Transfer -------------------------------
(***************************************************************************)
(* The way out of a TcpConnection (src/net/TcpConnection.cc): bytes given  *)
(* to send and files given to sendFile, on their way to the socket.  Each  *)
(* function of the IO loop's thread is a set of connections that a         *)
(* connection may become, one for each answer the kernel may give.  The    *)
(* idle timer, which may close the connection at any time, is the module's *)
(* that uses this one; so is all that other threads do.                    *)
(***************************************************************************)
EXTENDS Buffer

CONSTANT ChunkSize   \* what one call of sendfile is asked for

ASSUME TransferAssumption == ChunkSize \in Nat \ {0}

\* state: state_; writing: EPOLLOUT is asked for; rest: what sendfile has yet to
\* read of the file in fileFd_, size its length, fileOpen: fileFd_ >= 0; fds: how
\* many files are open.  History: wire is what the socket took, promised what was
\* accepted for it, in order; overtaken: bytes or another file were accepted while
\* a file was being sent.
NewTransfer ==
  [state |-> "kConnected", writing |-> FALSE, writeBuffer |-> NewBuffer,
   sendingFile |-> FALSE, fileOpen |-> FALSE, rest |-> <<>>, size |-> 0, fds |-> 0,
   wire |-> <<>>, promised |-> <<>>, overtaken |-> FALSE]

Unsent(c) == ReadableBytes(c.writeBuffer) > 0

Accepted(c, data) ==
  [c EXCEPT !.promised = @ \o data, !.overtaken = @ \/ c.sendingFile]
Taken(c, data) == [c EXCEPT !.wire = @ \o data]

\* close(fileFd_), and the file is over
FileOver(c) == [c EXCEPT !.fileOpen = FALSE, !.sendingFile = FALSE,
                         !.fds = IF c.fileOpen THEN @ - 1 ELSE @]

\* remove() leaves the channel's events_ as they are, and writeBuffer_ stays.
HandleClose(c) ==
  IF c.state = "kDisConnected" THEN c
  ELSE [FileOver(c) EXCEPT !.state = "kDisConnected", !.rest = <<>>, !.size = 0]

ForceCloseInLoop(c) ==
  IF c.state \in {"kConnected", "kDisConnecting"} THEN HandleClose(c) ELSE c

-----------------------------------------------------------------------------
(* send, sendFile *)

\* What write() does not take, an error included, waits in writeBuffer_.
\* Fault: what waits is not asked to be written.
SendInLoopUnarmed(c, data) ==
  IF c.state = "kDisConnected" THEN {c}
  ELSE LET a == Accepted(c, data)
       IN { [Taken(a, SubSeq(data, 1, n)) EXCEPT
               !.writeBuffer = BufferAppend(@, SubSeq(data, n + 1, Len(data)))] :
            n \in IF ~c.writing /\ ~Unsent(c) THEN 0..Len(data) ELSE {0} }

\* Fault: a write goes past what waits.
SendInLoopOvertakes(c, data) ==
  IF c.state = "kDisConnected" THEN {c}
  ELSE LET a == Accepted(c, data)
       IN { IF n = Len(data) THEN Taken(a, data)
            ELSE [Taken(a, SubSeq(data, 1, n)) EXCEPT
                    !.writeBuffer = BufferAppend(@, SubSeq(data, n + 1, Len(data))),
                    !.writing = TRUE] :
            n \in 0..Len(data) }

SendInLoop(c, data) ==
  IF c.state = "kDisConnected" THEN {c}
  ELSE LET a == Accepted(c, data)
       IN { IF n = Len(data) THEN Taken(a, data)
            ELSE [Taken(a, SubSeq(data, 1, n)) EXCEPT
                    !.writeBuffer = BufferAppend(@, SubSeq(data, n + 1, Len(data))),
                    !.writing = TRUE] :
            n \in IF ~c.writing /\ ~Unsent(c) THEN 0..Len(data) ELSE {0} }

\* open or fstat may fail; a file still being sent is forgotten, not closed.
SendFileInLoop(c, contents) ==
  IF c.state = "kDisConnected" THEN {c}
  ELSE { ForceCloseInLoop(c),
         [Accepted(c, contents) EXCEPT
            !.rest = contents, !.size = Len(contents), !.fileOpen = TRUE,
            !.fds = @ + 1, !.sendingFile = TRUE, !.writing = TRUE] }

Send(c, data) == IF c.state = "kConnected" THEN SendInLoop(c, data) ELSE {c}
SendFile(c, contents) ==
  IF c.state = "kConnected" THEN SendFileInLoop(c, contents) ELSE {c}

-----------------------------------------------------------------------------
(* handleWrite *)

\* Fault: the file that is to follow is forgotten.
DrainBufferForgetsFile(c) ==
  { LET w == [Taken(c, SubSeq(Peek(c.writeBuffer), 1, n)) EXCEPT
                !.writeBuffer = Retrieve(@, n)]
    IN IF Unsent(w) THEN w ELSE [w EXCEPT !.writing = FALSE] :
    n \in 1..ReadableBytes(c.writeBuffer) }
  \cup {c, HandleClose(c)}

\* One write() of what waits: some of it, none (EAGAIN), or an error.
DrainBuffer(c) ==
  { LET w == [Taken(c, SubSeq(Peek(c.writeBuffer), 1, n)) EXCEPT
                !.writeBuffer = Retrieve(@, n)]
    IN IF Unsent(w) \/ c.sendingFile THEN w ELSE [w EXCEPT !.writing = FALSE] :
    n \in 1..ReadableBytes(c.writeBuffer) }
  \cup {c, HandleClose(c)}

FileDone(c) == [FileOver(c) EXCEPT !.writing = FALSE]

\* One sendfile(): nothing of an empty file, some of another, EAGAIN or an error.
SendChunk(c) ==
  { LET s == [Taken(c, SubSeq(c.rest, 1, n)) EXCEPT
                !.rest = SubSeq(@, n + 1, Len(@))]
    IN IF s.rest = <<>> THEN FileDone(s) ELSE s :
    n \in 1 .. (IF Len(c.rest) < ChunkSize THEN Len(c.rest) ELSE ChunkSize) }
  \cup {c, HandleClose(FileDone(c))}

\* Needs c.writing: handleWrite() of any other does nothing.  The file's turn comes
\* in the same call once nothing waits; a closed connection has no file.
HandleWrite(c) ==
  LET drained == IF Unsent(c) THEN DrainBuffer(c) ELSE {c}
  IN UNION { IF ~Unsent(d) /\ d.sendingFile /\ d.fileOpen THEN SendChunk(d) ELSE {d} :
             d \in drained }
=============================================================================
