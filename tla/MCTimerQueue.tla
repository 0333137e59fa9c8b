---------------------------- MODULE MCTimerQueue ----------------------------
(* TimerQueue for TLC: two addresses, so that two timers can live at once
   and a freed address can come back for the second. *)
EXTENDS TimerQueue

MCAddrs == {1, 2}
MCIntervals == {0, 1}
BothThreads == {"loop", "other"}
LoopOnly == {"loop"}
==============================================================================
