-------------------------- MODULE MCEventLoopThread --------------------------
(* EventLoopThread for TLC: the owner and one other thread that posts. *)
EXTENDS EventLoopThread

CONSTANTS owner, other

MCCallers == {owner, other}
===============================================================================
