------------------------------ MODULE TaskQueue ------------------------------
(***************************************************************************)
(* What EventLoop::runInLoop promises to a caller on another thread: every *)
(* functor handed over is run at most once, by one thread, in the order in *)
(* which the functors were handed over.  Nothing is said about eventfd,    *)
(* the swap of pendingFunc_ or when a batch is taken.                      *)
(***************************************************************************)
EXTENDS Naturals, Sequences

CONSTANT Tasks

VARIABLES
  waiting,  \* handed over and not run yet, oldest first
  done      \* run, in the order in which they ran

aqvars == <<waiting, done>>

Members(s) == {s[i] : i \in 1..Len(s)}

Init ==
  /\ waiting = <<>>
  /\ done = <<>>

Submit(t) ==
  /\ t \notin Members(waiting \o done)
  /\ waiting' = Append(waiting, t)
  /\ UNCHANGED done

Run ==
  /\ waiting # <<>>
  /\ done' = Append(done, Head(waiting))
  /\ waiting' = Tail(waiting)

Next == Run \/ \E t \in Tasks : Submit(t)

Spec == Init /\ [][Next]_aqvars
==============================================================================
