------------------------------- MODULE MCTimer -------------------------------
(* A small instance of Timer for TLC. *)
EXTENDS Timer
=============================================================================
