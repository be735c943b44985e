--------------------------- MODULE SectorOutcomes --------------------------
(***************************************************************************)
(* How a call of fresh_write_sector (g502x_onboard/device.py) may return,  *)
(* given what its sector held at entry, what was to be written and what it *)
(* holds afterwards.  SectorWrite implements this contract, Transaction    *)
(* relies on it.                                                           *)
(***************************************************************************)
Outcomes == {"committed", "unchanged", "indeterminate", "raised"}

\* "raised" stands for every other exception and promises nothing.
Permitted(outcome, origin, target, after) ==
  /\ outcome = "committed" => after = target
  /\ outcome = "unchanged" => after = origin
  /\ outcome = "indeterminate" => after \notin {origin, target}
=============================================================================
