---------------------------- MODULE TcpConnection ----------------------------
(***************************************************************************)
(* One TcpConnection between its creation and its destruction              *)
(* (src/net/TcpConnection.cc): what each of its functions does in the IO   *)
(* loop's thread, as functions from a connection to the connections it may *)
(* become.  The connection's Channel is part of the record.  Bytes are     *)
(* abstracted to whether writeBuffer_ holds any; file transfer and         *)
(* retransmission are not in this module.                                  *)
(***************************************************************************)
EXTENDS Channel, Naturals

States == {"kConnecting", "kConnected", "kDisConnecting", "kDisConnected"}

\* state: state_; unsent: writeBuffer_ is not empty; shut: the write side was
\* shut down; idle: "none" when
\* idleTimerId_ is invalid, "armed" when its timer is in the TimerQueue,
\* "fired" when it has left it; closes and destroys count the calls of
\* closeCallback_ and of connectDestroyed.
Connection ==
  [events : SUBSET {"in", "out"}, added : BOOLEAN, index : Indices,
   state : States, unsent : BOOLEAN, shut : BOOLEAN,
   idle : {"none", "armed", "fired"},
   closes : Nat, destroys : Nat]

NewConnection ==
  [events |-> {}, added |-> FALSE, index |-> "kNew", state |-> "kConnecting",
   unsent |-> FALSE, shut |-> FALSE, idle |-> "none", closes |-> 0, destroys |-> 0]

\* cancel the old timer, runAfter(kTimeoutSeconds_).  Fault: only the cancel.
ResetIdleTimerLost(k) == [k EXCEPT !.idle = "none"]
ResetIdleTimer(k) == [k EXCEPT !.idle = "armed"]
CancelIdleTimer(k) == [k EXCEPT !.idle = "none"]

\* Fault: closeCallback_ is not called.
HandleCloseSilent(k) ==
  IF k.state = "kDisConnected" THEN k
  ELSE CancelIdleTimer(Remove([k EXCEPT !.state = "kDisConnected"]))
HandleClose(k) ==
  IF k.state = "kDisConnected" THEN k
  ELSE CancelIdleTimer(Remove([k EXCEPT !.state = "kDisConnected",
                                        !.closes = @ + 1]))

\* SHUT_WR at once, also over unsent bytes; nothing calls it again for them
ShutdownInLoop(k) ==
  LET shut == [k EXCEPT !.shut = TRUE]
  IN IF isWriting(k) THEN shut ELSE HandleClose(shut)

\* Fault: only a connected one is closed.
ForceCloseIfConnected(k) == IF k.state = "kConnected" THEN HandleClose(k) ELSE k
ForceCloseInLoop(k) ==
  IF k.state \in {"kConnected", "kDisConnecting"} THEN HandleClose(k) ELSE k

\* The tests that shutdown, forceClose and send make before they do anything.
Passes(op, k) ==
  k.state \in IF op = "forceClose" THEN {"kConnected", "kDisConnecting"}
              ELSE {"kConnected"}

\* One call that closes, or none, by a callback in the IO thread: what
\* runInLoop would post runs at once.
Closing(k) ==
  LET disconnecting == [k EXCEPT !.state = "kDisConnecting"]
  IN {k}
     \cup (IF Passes("shutdown", k) THEN {ShutdownInLoop(disconnecting)} ELSE {})
     \cup (IF Passes("forceClose", k) THEN {ForceCloseInLoop(disconnecting)} ELSE {})

\* write() takes all, and writeCompleteCallback_ runs; or the rest goes to
\* writeBuffer_ behind what is there; an error of write() counts as nothing
\* written
SendInLoop(k) ==
  IF k.state = "kDisConnected" THEN {k}
  ELSE (IF ~isWriting(k) /\ ~k.unsent /\ ~k.shut THEN Closing(k) ELSE {})
       \cup {LET q == [k EXCEPT !.unsent = TRUE]
             IN IF isWriting(k) THEN q ELSE EnableWriting(q)}

\* One call of the connection by a callback in the IO thread.
UserCode(k) ==
  Closing(k) \cup (IF Passes("send", k) THEN SendInLoop(k) ELSE {})

ConnectEstablished(k) ==
  UserCode(ResetIdleTimer([EnableReading(k) EXCEPT !.state = "kConnected"]))

Disconnected(k) ==
  [k EXCEPT !.state = IF @ = "kConnected" THEN "kDisConnected" ELSE @,
            !.destroys = @ + 1]
\* Faults: handleClose is thought to have done the one or the other.
ConnectDestroyedNoRemove(k) == CancelIdleTimer(Disconnected(k))
ConnectDestroyedNoCancel(k) == Remove(Disconnected(k))
ConnectDestroyed(k) == Remove(CancelIdleTimer(Disconnected(k)))

\* data arrived; EAGAIN; end of file or an error
HandleRead(k) == UserCode(ResetIdleTimer(k)) \cup {k, HandleClose(k)}

\* writeBuffer_ sent whole, sent in part, EAGAIN, error; after SHUT_WR only the
\* error is left
HandleWrite(k) ==
  LET r == ResetIdleTimer(k)
  IN IF ~isWriting(k) THEN {k}
     ELSE IF ~k.unsent THEN {r}
     ELSE IF k.shut THEN {HandleClose(r)}
     ELSE UserCode(DisableWriting([r EXCEPT !.unsent = FALSE]))
          \cup UserCode(r) \cup {r, HandleClose(r)}

\* the callback that Channel::handleEvent() runs
Handle(cb, k) ==
  CASE cb = "error" -> {HandleClose(k)}
    [] cb = "read"  -> HandleRead(k)
    [] cb = "write" -> HandleWrite(k)
==============================================================================
