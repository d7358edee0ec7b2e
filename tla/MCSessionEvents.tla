-------------------------- MODULE MCSessionEvents --------------------------
(* The event log of one session on small instances. *)
EXTENDS SessionEvents, TLC
=============================================================================
