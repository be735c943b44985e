-------------------------- MODULE MCBaselineStore ---------------------------
(* The baseline store with processes and captures as model values. *)
EXTENDS BaselineStore
=============================================================================
