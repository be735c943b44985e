---------------------------- MODULE SectorWrite ----------------------------
(***************************************************************************)
(* One call of fresh_write_sector and of the write_sector it drives        *)
(* (g502x_onboard/device.py): up to Attempts times, connect to the exact   *)
(* unit, read the sector, stream the target in chunks, read it back, and   *)
(* after a failure classify the sector from a fresh connection.            *)
(*                                                                         *)
(* The mouse and the HID transport are external.  Every command can be     *)
(* lost, be executed with its reply lost (call_feature returns None), or   *)
(* make the HID library raise; the mouse can be unplugged, or replaced by  *)
(* another unit, between any two commands.                                 *)
(***************************************************************************)
EXTENDS Naturals, FiniteSets

CONSTANTS
  Units,          \* mice that can be plugged in
  Own,            \* the one the active baseline is bound to
  NoUnit,         \* nothing plugged in / no open handle
  Sectors,        \* sectors of a mouse
  Recovery,       \* RECOVERY_SECTORS
  Programmable,   \* PROGRAMMABLE_SECTORS
  Chunks,         \* WRITE_DATA commands a sector takes (16 in the code)
  Bytes,          \* what a chunk can hold
  Erased,         \* the chunk of an erased flash cell
  Attempts,       \* the attempts parameter (3 in the code)
  InitialFlash    \* the mice a run starts from

Images == [1..Chunks -> Bytes]

ASSUME UnitsAssumption == Own \in Units /\ NoUnit \notin Units
ASSUME SectorsAssumption ==
  Recovery \subseteq Sectors /\ Programmable \subseteq Sectors \ Recovery
ASSUME SizesAssumption ==
  Chunks \in Nat \ {0} /\ Attempts \in Nat \ {0} /\ Erased \in Bytes
ASSUME FlashAssumption == InitialFlash \subseteq [Units -> [Sectors -> Images]]

VARIABLES
  flash,          \* [unit -> [sector -> image]]
  attached,       \* the unit plugged in, or NoUnit
  request,        \* the call's arguments, and the image its sector held at entry
  pc,             \* the code's position in the call
  attempt,        \* the loop variable
  handle,         \* the unit dev reaches, or NoUnit: closed, or unplugged since
  before,         \* the image read at the start of the attempt
  sent,           \* chunks acknowledged in this write session
  result,         \* how the call returned
  observed        \* history: the flash was read since the last command that
                  \* could have changed it

vars == <<flash, attached, request, pc, attempt, handle, before, sent, result,
          observed>>
device == <<flash, attached, request>>

Results == {"pending", "committed", "unchanged", "indeterminate", "raised"}
Positions == {"entry", "connect", "read", "start", "data", "end", "readback",
              "reconcile", "done"}

TypeOK ==
  /\ flash \in [Units -> [Sectors -> Images]]
  /\ attached \in Units \cup {NoUnit}
  /\ request \in [sector : Sectors, target : Images, origin : Images]
  /\ pc \in Positions
  /\ attempt \in 1..Attempts
  /\ handle \in Units \cup {NoUnit}
  /\ before \in Images
  /\ sent \in 0..Chunks
  /\ result \in Results
  /\ observed \in BOOLEAN

Init ==
  /\ flash \in InitialFlash
  /\ attached \in Units \cup {NoUnit}
  /\ \E sector \in Sectors, target \in Images :
       request = [sector |-> sector, target |-> target,
                  origin |-> flash[Own][sector]]
  /\ pc = "entry"
  /\ attempt = 1
  /\ handle = NoUnit
  /\ before = request.origin
  /\ sent = 0
  /\ result = "pending"
  /\ observed = TRUE

-----------------------------------------------------------------------------
(* Helpers *)

Goto(position) == pc' = position /\ UNCHANGED result

\* return, or raise: finally closes the handle.
Return(outcome) == pc' = "done" /\ result' = outcome /\ handle' = NoUnit

\* dev still reaches the mouse it was opened on: an unplugged mouse never
\* answers on an old handle again.
Online == handle # NoUnit

Held == flash[Own][request.sector]

\* Images a sector may hold once k chunks of a session have reached the mouse:
\* a chunk is as it was or erased, and a delivered one may be programmed.
Mixtures(k) ==
  {image \in Images : \A i \in 1..Chunks :
     \/ image[i] \in {flash[handle][request.sector][i], Erased}
     \/ i <= k /\ image[i] = request.target[i]}

Program(image) == flash' = [flash EXCEPT ![handle][request.sector] = image]

\* A write command that has reached the mouse, or has not.
Reaches(images) ==
  \/ UNCHANGED flash
  \/ Online /\ \E image \in images : Program(image)

\* The loop goes round once more, or it was the last attempt.
Retries == attempt < Attempts

\* (Mutant: the loop variable never moves.)
SameAttempt == attempt
NextAttempt == attempt + 1

\* call_feature returned None: write_sector raises RuntimeError, which
\* fresh_write_sector catches; the handle is closed on the way out.
\* (Mutant: straight to the next attempt, without reconciling.)
RetryBlindly ==
  /\ Goto("connect")
  /\ handle' = NoUnit
CaughtFailure ==
  /\ Goto("reconcile")
  /\ handle' = NoUnit

\* The HID library raised, and only RuntimeError is caught.
Escapes == Return("raised")

-----------------------------------------------------------------------------
(* fresh_write_sector *)

\* The two refusals at entry.
RefuseSector ==
  /\ pc = "entry"
  /\ request.sector \notin Programmable
  /\ Return("raised")
  /\ UNCHANGED <<device, attempt, before, sent, observed>>

Accept ==
  /\ pc = "entry"
  /\ request.sector \in Programmable
  /\ Goto("connect")
  /\ UNCHANGED <<device, attempt, handle, before, sent, observed>>

\* The manifest forbids writes, or require_ghub_closed or connect_manifest_unit
\* raises: nothing or another unit is plugged in, or it does not answer.
ConnectFails ==
  /\ pc = "connect"
  /\ Return("raised")
  /\ UNCHANGED <<device, attempt, before, sent, observed>>

\* (Mutant: any compatible mouse will do.)
ConnectToAny ==
  /\ pc = "connect"
  /\ attached # NoUnit
  /\ handle' = attached
  /\ Goto("read")
  /\ UNCHANGED <<device, attempt, before, sent, observed>>
Connect ==
  /\ pc = "connect"
  /\ attached = Own
  /\ handle' = Own
  /\ Goto("read")
  /\ UNCHANGED <<device, attempt, before, sent, observed>>

ReadBefore ==
  /\ pc = "read"
  /\ \/ /\ Online
        /\ before' = Held
        /\ observed' = TRUE
        /\ IF Held = request.target
             THEN Return("committed")
             ELSE Goto("start") /\ UNCHANGED handle
     \/ Return("raised") /\ UNCHANGED <<before, observed>>
  /\ UNCHANGED <<device, attempt, sent>>

\* The second require_ghub_closed may raise; WRITE_START may fail.
StartRefused ==
  /\ pc = "start"
  /\ Return("raised")
  /\ UNCHANGED <<device, attempt, before, sent, observed>>

WriteStart ==
  /\ pc = "start"
  /\ Reaches(Mixtures(0))
  /\ sent' = 0
  /\ observed' = FALSE
  /\ \/ Online /\ Goto("data") /\ UNCHANGED handle
     \/ CaughtFailure
     \/ Escapes
  /\ UNCHANGED <<attached, request, attempt, before>>

WriteData ==
  /\ pc = "data"
  /\ Reaches(Mixtures(sent + 1))
  /\ \/ /\ Online
        /\ sent' = sent + 1
        /\ Goto(IF sent + 1 = Chunks THEN "end" ELSE "data")
        /\ UNCHANGED handle
     \/ CaughtFailure /\ UNCHANGED sent
     \/ Escapes /\ UNCHANGED sent
  /\ UNCHANGED <<attached, request, attempt, before, observed>>

\* A missing acknowledgement is not an error: the readback decides.
WriteEnd ==
  /\ pc = "end"
  /\ Reaches({request.target})
  /\ \/ Goto("readback") /\ UNCHANGED handle
     \/ Escapes
  /\ UNCHANGED <<attached, request, attempt, before, sent, observed>>

Readback ==
  /\ pc = "readback"
  /\ \/ /\ Online
        /\ observed' = TRUE
        /\ IF Held = request.target THEN Return("committed") ELSE CaughtFailure
     \/ (CaughtFailure \/ Escapes) /\ UNCHANGED observed
  /\ UNCHANGED <<device, attempt, before, sent>>

\* _fresh_read_sector could not reach the exact unit, or not read it.
ReconcileFails ==
  /\ pc = "reconcile"
  /\ Return("raised")
  /\ UNCHANGED <<device, attempt, before, sent, observed>>

\* The sector is classified from a fresh readback of the exact unit.
Reconcile ==
  /\ pc = "reconcile"
  /\ attached = Own
  /\ observed' = TRUE
  /\ \/ Held = request.target /\ Return("committed") /\ UNCHANGED attempt
     \/ /\ Held # request.target
        /\ Held = before
        /\ IF Retries
             THEN /\ attempt' = NextAttempt
                  /\ Goto("connect")
                  /\ UNCHANGED handle
             ELSE Return("unchanged") /\ UNCHANGED attempt
     \/ /\ Held \notin {request.target, before}
        /\ Return("indeterminate")
        /\ UNCHANGED attempt
  /\ UNCHANGED <<device, before, sent>>

-----------------------------------------------------------------------------
(* The user: unplugs the mouse, plugs it or another one in. *)

Replug ==
  /\ attached' \in (Units \cup {NoUnit}) \ {attached}
  /\ handle' = NoUnit
  /\ UNCHANGED <<flash, request, pc, attempt, before, sent, result, observed>>

Step ==
  \/ RefuseSector \/ Accept \/ ConnectFails \/ Connect \/ ReadBefore
  \/ StartRefused \/ WriteStart \/ WriteData \/ WriteEnd \/ Readback
  \/ ReconcileFails \/ Reconcile

Next == Step \/ Replug

Spec == Init /\ [][Next]_vars

\* The call runs in a thread of its own and every command has a timeout.
FairSpec == Spec /\ WF_vars(Step)

-----------------------------------------------------------------------------
(* Properties *)

\* The call keeps the promise of SectorPromise: nothing but the requested,
\* programmable sector of the bound unit changes, whatever is plugged in
\* meanwhile, and each way to return tells the truth about that sector.
Promise == INSTANCE SectorPromise
ImplementsPromise == Promise!Spec

\* "No blind retry": a write session is only ever opened over the image the
\* sector held when the call began, however often the loop comes round.
NoBlindRetry ==
  [][(pc = "start" /\ ~observed') =>
       flash[Own][request.sector] = request.origin]_vars

\* docs/SAFETY.md: an error from WRITE_END on is classified from observed bytes
\* on a fresh connection.  (It does not hold when the HID library raises.)
WriteFailuresReconciled ==
  [][(pc \in {"end", "readback"} /\ pc' = "done") => observed']_vars

\* The retry loop ends, however the mouse is unplugged and plugged in again.
CallReturns == <>(pc = "done")
=============================================================================
