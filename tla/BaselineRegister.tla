-------------------------- MODULE BaselineRegister --------------------------
(***************************************************************************)
(* What the store of device baselines (baseline.py, private_io.py)         *)
(* promises: the baseline that is there stays there until another one      *)
(* takes its place at once; a replacement that fails may put it back.      *)
(***************************************************************************)
CONSTANT Images

VARIABLES
  baseline,     \* the set that holds the baseline, empty before the first
  before        \* what it was when the last replacement began

vars == <<baseline, before>>

Init == baseline = {} /\ before = {}

Begin == before' = baseline /\ UNCHANGED baseline

Install == \E image \in Images : baseline' = {image} /\ UNCHANGED before

Revert == baseline' = before /\ UNCHANGED before

Next == Begin \/ Install \/ Revert

Spec == Init /\ [][Next]_vars
=============================================================================
