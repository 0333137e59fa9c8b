--------------------------- MODULE MCHttpSession ---------------------------
(* HttpSession for TLC: two requests of every kind. *)
EXTENDS HttpSession
=============================================================================
