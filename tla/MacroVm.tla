------------------------------ MODULE MacroVm ------------------------------
(***************************************************************************)
(* decode_instruction and walk_macro: the structural reading of a macro,   *)
(* one instruction a step, until it ends, repeats an address or leaves the *)
(* memory that may hold instructions.                                      *)
(***************************************************************************)
EXTENDS MacroPages

CONSTANT MaxInstructions   \* max_instructions of walk_macro

ASSUME LimitAssumption ==
  MaxInstructions \in Nat /\ Cardinality(Addressable) * SectorSize < MaxInstructions

VARIABLES
  origin,    \* where the macro begins
  at,        \* the address of the next instruction
  seen,      \* the addresses read so far
  chain,     \* src of the instructions so far, the jumps left out
  verdict    \* "idle", "walking", "accepted" or the reason of the refusal

walk == <<origin, at, seen, chain, verdict>>

Verdicts == {"idle", "walking", "accepted", "cycle", "fault", "falls", "limit"}

WalkInit ==
  /\ origin = NoPlace /\ at = NoPlace /\ seen = {} /\ chain = <<>>
  /\ verdict = "idle"

StartWalk(a) ==
  /\ verdict = "idle"
  /\ origin' = a /\ at' = a /\ seen' = {} /\ chain' = <<>>
  /\ verdict' = "walking"

Decodes(a) ==
  /\ InStore(a)
  /\ At(a).op # "BAD"
  /\ At(a).op \in {"THREE", "JUMP"} => a[2] + Size(At(a).op) <= Limit(a[1])
  /\ At(a).op = "JUMP" => InStore(At(a).to)

After(a) ==
  IF At(a).op = "JUMP" THEN At(a).to ELSE <<a[1], a[2] + Size(At(a).op)>>

Falls(a) == At(a).op # "JUMP" /\ After(a)[2] >= Limit(a[1])

Refuse(reason) ==
  verdict' = reason /\ UNCHANGED <<origin, at, seen, chain>>

\* (Mutant of Walk: a jump back into a page already visited is a cycle.)
WalkPages ==
  /\ verdict = "walking"
  /\ IF ~Decodes(at) THEN Refuse("fault")
     ELSE IF At(at).op = "JUMP" /\ \E a \in seen : a[1] = After(at)[1] THEN Refuse("cycle")
     ELSE /\ seen' = seen \union {at}
          /\ chain' = IF At(at).op = "JUMP" THEN chain
                      ELSE Append(chain, At(at).src)
          /\ UNCHANGED origin
          /\ IF At(at).op = "END" THEN verdict' = "accepted" /\ at' = at
             ELSE IF Falls(at) THEN verdict' = "falls" /\ at' = at
             ELSE verdict' = "walking" /\ at' = After(at)

\* One turn of the loop; the bound is looked at before the turn begins.
Walk ==
  /\ verdict = "walking"
  /\ IF Cardinality(seen) = MaxInstructions THEN Refuse("limit")
     ELSE IF at \in seen THEN Refuse("cycle")
     ELSE IF ~Decodes(at) THEN Refuse("fault")
     ELSE /\ seen' = seen \union {at}
          /\ chain' = IF At(at).op = "JUMP" THEN chain
                      ELSE Append(chain, At(at).src)
          /\ UNCHANGED origin
          /\ IF At(at).op = "END" THEN verdict' = "accepted" /\ at' = at
             ELSE IF Falls(at) THEN verdict' = "falls" /\ at' = at
             ELSE verdict' = "walking" /\ at' = After(at)

(***************************************************************************)
(* The machine itself, which remembers nothing: where it stands after n    *)
(* instructions, "end" once it has ended and "fault" once it cannot go on. *)
(***************************************************************************)
Advance(machine) ==
  LET a == machine.at IN
  IF machine.state # "runs" THEN machine
  ELSE IF ~Decodes(a) THEN [state |-> "fault", at |-> a]
  ELSE IF At(a).op = "END" THEN [state |-> "end", at |-> a]
  ELSE IF Falls(a) THEN [state |-> "fault", at |-> a]
  ELSE [state |-> "runs", at |-> After(a)]

MachineSteps == Cardinality(Addressable) * SectorSize
Machine(first) ==
  LET run[n \in 0 .. MachineSteps] ==
        IF n = 0 THEN [state |-> "runs", at |-> first] ELSE Advance(run[n - 1])
  IN  run[MachineSteps].state

\* The walk accepts a macro exactly when the machine would end it, calls a
\* cycle exactly what the machine would repeat for ever, and is never cut
\* short by its bound, whatever jumps into pages already visited or into the
\* middle of an instruction the memory holds (codec.py:1017-1038).
VerdictIsTrue ==
  verdict \in {"idle", "walking"} \/
  verdict = CASE Machine(origin) = "end" -> "accepted"
              [] Machine(origin) = "runs" -> "cycle"
              [] Machine(origin) = "fault" ->
                   IF verdict = "falls" THEN "falls" ELSE "fault"
=============================================================================
