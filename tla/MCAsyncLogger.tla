--------------------------- MODULE MCAsyncLogger ---------------------------
(* AsyncLogger for TLC: two threads that log, and midnight once. *)
EXTENDS AsyncLogger

CONSTANTS t1, t2

MCThreads == {t1, t2}
=============================================================================
