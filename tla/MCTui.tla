------------------------------- MODULE MCTui -------------------------------
(* Tui for TLC. *)
EXTENDS Tui
=============================================================================
