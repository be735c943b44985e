--------------------------- MODULE SectorPromise ---------------------------
(***************************************************************************)
(* What one call of fresh_write_sector (g502x_onboard/device.py) promises  *)
(* its caller, whatever the transport did meanwhile.  The sector may pass  *)
(* through any image while the call is pending; the way the call returns   *)
(* says what the sector holds.                                             *)
(***************************************************************************)
EXTENDS SectorOutcomes

CONSTANTS
  Images,         \* what a sector can hold, torn images included
  Programmable,   \* constants.py PROGRAMMABLE_SECTORS
  Own             \* the unit the active baseline is bound to

VARIABLES
  flash,          \* [unit -> [sector -> image]]
  request,        \* the call: its sector, its target and the image it found
  result          \* how the call has returned

vars == <<flash, request, result>>

Init == result = "pending" /\ request.origin = flash[Own][request.sector]

\* Only the requested sector of the bound unit moves, and only when it is
\* programmable.
Touch ==
  \/ UNCHANGED flash
  \/ /\ request.sector \in Programmable
     /\ \E image \in Images :
          flash' = [flash EXCEPT ![Own][request.sector] = image]

Progress == result = "pending" /\ Touch /\ UNCHANGED <<request, result>>

Return ==
  /\ result = "pending"
  /\ Touch
  /\ result' \in Outcomes
  /\ Permitted(result', request.origin, request.target,
               flash'[Own][request.sector])
  /\ UNCHANGED request

Next == Progress \/ Return

Spec == Init /\ [][Next]_vars
=============================================================================
