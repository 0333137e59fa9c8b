---------------------------- MODULE MCEventLoop ----------------------------
(* EventLoop for TLC: two threads that post functors and quit. *)
EXTENDS EventLoop

CONSTANTS c1, c2

MCCallers == {c1, c2}
=============================================================================
