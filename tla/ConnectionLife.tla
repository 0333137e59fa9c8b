---------------------------- MODULE ConnectionLife ----------------------------
(***************************************************************************)
(* What a TcpServer promises of the life of its connections: each goes     *)
(* once through the stages below, in this order, whatever loops and other  *)
(* threads do with it meanwhile, and none begins after stop().  Nothing is *)
(* said about queues, loops, the state_ of a connection or who closes it.  *)
(***************************************************************************)

CONSTANT Conns

VARIABLES
  stage,     \* "none", "accepted", "open", "closed", "removed" or "destroyed"
  accepting  \* connections may begin

lvars == <<stage, accepting>>

Init ==
  /\ stage = [c \in Conns |-> "none"]
  /\ accepting = TRUE

\* Connection c leaves stage s for stage t.
Goes(c, s, t) ==
  /\ stage[c] = s
  /\ stage' = [stage EXCEPT ![c] = t]
  /\ UNCHANGED accepting

\* a socket becomes a connection that the server knows by its name
Accept(c) == accepting /\ Goes(c, "none", "accepted")

\* the user gets it, and may close it at once
Establish(c) == \E t \in {"open", "closed"} : Goes(c, "accepted", t)

\* by the peer, the user, an error, the idle timer or stop()
Close(c) == Goes(c, "open", "closed")

\* the server forgets it
Remove(c) == Goes(c, "closed", "removed")

\* its channel and its timer are gone
Destroy(c) == Goes(c, "removed", "destroyed")

Stop == accepting /\ accepting' = FALSE /\ UNCHANGED stage

Next ==
  \/ Stop
  \/ \E c \in Conns : \/ Accept(c) \/ Establish(c) \/ Close(c)
                      \/ Remove(c) \/ Destroy(c)

Spec == Init /\ [][Next]_lvars
===============================================================================
