---------------------------- MODULE MCTcpServer ----------------------------
(* TcpServer for TLC: one user thread next to stop() in the base loop. *)
EXTENDS TcpServer

CONSTANT u1

MCUsers == {u1}
=============================================================================
