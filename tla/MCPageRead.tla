----------------------------- MODULE MCPageRead -----------------------------
(* Answers of two bytes; one factory copy and two sectors; two reports that *)
(* nobody asked for and up to two calls of other functions.                 *)
EXTENDS PageRead
=============================================================================
