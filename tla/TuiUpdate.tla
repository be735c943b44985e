----------------------------- MODULE TuiUpdate -----------------------------
(***************************************************************************)
(* The reducer of the terminal user interface: update (tui/update.py) on   *)
(* the TuiModel of tui/model.py, one operator per event.  An operator      *)
(* returns the next model and the effects the shell must dispatch.         *)
(*                                                                         *)
(* What only decides how a state is drawn is left out: the route, the      *)
(* focus, the help, notices, the started flag and the texts.  Of the inputs the      *)
(* model keeps what a guard reads: whether a path is entered and whether   *)
(* the typed phrase is the required one.  PreparationInvalidated has no    *)
(* operator, since no code emits it.                                       *)
(***************************************************************************)
EXTENDS Naturals

\* PrivacyClass, ordered by what a surface of that class may show.
Shareable == 0
Local == 1
Private == 2
Levels == {Shareable, Local, Private}

Visible(payloads, surface) == {p \in payloads : p <= surface}

PreExecution == {"preparing", "prepared", "reviewing", "confirming"}
WritePhases == {"writing", "reconciling", "post"}
Kinds == {"probe", "read", "switch", "persistent"}

\* The phase PersistentProgress may report after the one shown.
Follows(phase) ==
  CASE phase = "confirming"   -> "revalidating"
    [] phase = "revalidating" -> "armed"
    [] phase = "armed"        -> "writing"
    [] phase = "writing"      -> "reconciling"
    [] phase = "reconciling"  -> "post"
    [] OTHER                  -> "none"

\* model.active; op is the issuance of its OperationId.
Begin(op, kind) ==
  [op |-> op, kind |-> kind,
   phase |-> IF kind = "persistent" THEN "preparing" ELSE "none",
   exec |-> FALSE,         \* execution_requested
   cancel |-> "no",        \* cancellation asked for, or acknowledged
   deferred |-> FALSE,     \* cancellation_deferred
   fault |-> FALSE]        \* worker_fault_unresolved
Idle == [Begin(0, "read") EXCEPT !.kind = "none"]

\* model.terminal, with the operation it is about.
NoTerminal == [op |-> 0, outcome |-> "none", wrote |-> FALSE]

InitialModel ==
  [active |-> Idle, terminal |-> NoTerminal,
   prepared |-> 0,          \* the operation whose preparation is held
   reviewed |-> FALSE,      \* review_acknowledged
   exact |-> FALSE,         \* confirmation_input is the required phrase
   paths |-> FALSE,         \* a path input holds a value
   surface |-> Shareable,
   message |-> {},          \* class of last_result or last_error, if there is one
   disclosure |-> {},
   readOnly |-> FALSE]

Keep(m) == [m |-> m, fx |-> {}]
Do(m, type) ==
  [m |-> m, fx |-> {[type |-> type, op |-> m.active.op, kind |-> m.active.kind]}]

IsCurrent(m, op) == op # 0 /\ m.active.op = op
NonCancellable(m) == m.active.phase \in WritePhases

\* A preparation is held and its execution has not been asked for.
AwaitsUser(m, op) ==
  /\ IsCurrent(m, op) /\ m.prepared # 0
  /\ ~m.active.exec /\ m.active.phase \in PreExecution

-----------------------------------------------------------------------------
(* Surface and inputs *)

\* (Mutant: an operation whose execution has been asked for is given up too.)
AbandonExecution(m, surface) ==
  LET cleared == m.prepared # 0 /\ Local > surface
      held == m.prepared # 0 /\ ~cleared
  IN  [m EXCEPT !.active = IF cleared /\ @.phase \in {"prepared", "reviewing", "confirming"}
                           THEN Idle ELSE @,
                !.surface = surface,
                !.prepared = IF held THEN @ ELSE 0,
                !.reviewed = held /\ @,
                !.exact = held /\ @,
                !.paths = surface # Shareable /\ @,
                !.message = Visible(@, surface),
                !.disclosure = Visible(@, surface)]

\* _clear_disallowed; a preparation is LOCAL_SENSITIVE.
ChangePrivacySurface(m, surface) ==
  LET cleared == m.prepared # 0 /\ Local > surface
      abandoned == /\ cleared /\ ~m.active.exec
                   /\ m.active.phase \in {"prepared", "reviewing", "confirming"}
      held == m.prepared # 0 /\ ~cleared
  IN  [m EXCEPT !.active = IF abandoned THEN Idle ELSE @,
                !.surface = surface,
                !.prepared = IF held THEN @ ELSE 0,
                !.reviewed = held /\ @,
                !.exact = held /\ @,
                !.paths = surface # Shareable /\ @,
                !.message = Visible(@, surface),
                !.disclosure = Visible(@, surface)]

SetDisclosure(m, payload) == [m EXCEPT !.disclosure = Visible(payload, m.surface)]

\* ConfigPathChanged and BackupPathChanged: a path makes the surface local.
PathChanged(m, entered) ==
  IF m.active # Idle THEN m
  ELSE [m EXCEPT !.paths = entered,
                 !.surface = IF entered /\ @ = Shareable THEN Local ELSE @]

CompatibilityChanged(m, readOnly) == [m EXCEPT !.readOnly = readOnly]

-----------------------------------------------------------------------------
(* Starting, reviewing and confirming *)

\* (Mutant: a second operation replaces the first.)
ReplacingRequest(m, op, kind) ==
  Do([m EXCEPT !.active = Begin(op, kind), !.terminal = NoTerminal, !.message = {}],
     IF kind = "persistent" THEN "prepare" ELSE "start")

OperationRequested(m, op, kind) ==
  IF m.active # Idle THEN Keep(m)
  ELSE Do([m EXCEPT !.active = Begin(op, kind), !.terminal = NoTerminal,
                    !.message = {}],
          IF kind = "persistent" THEN "prepare" ELSE "start")

\* Unlike OperationRequested it leaves the last outcome on the screen.
RefreshRequested(m, op) ==
  IF m.active # Idle THEN Keep(m)
  ELSE Do([m EXCEPT !.active = Begin(op, "read")], "refresh")

\* (Mutant: the review is kept whatever the surface may show.)
UnshownPrepared(m, op) ==
  IF /\ IsCurrent(m, op)
     /\ ~m.active.exec /\ m.active.phase \in PreExecution
  THEN [m EXCEPT !.active.phase = "prepared",
                 !.prepared = op, !.reviewed = FALSE, !.exact = FALSE]
  ELSE m

PreparedReceived(m, op) ==
  IF /\ IsCurrent(m, op)
     /\ ~m.active.exec /\ m.active.phase \in PreExecution
  THEN [m EXCEPT !.active.phase = "prepared",
                 !.surface = IF @ < Local THEN Local ELSE @,
                 !.prepared = op, !.reviewed = FALSE, !.exact = FALSE]
  ELSE m

EnterReview(m, op) ==
  IF AwaitsUser(m, op) THEN [m EXCEPT !.active.phase = "reviewing"] ELSE m

ReviewAcknowledged(m, op, acknowledged) ==
  IF AwaitsUser(m, op) THEN [m EXCEPT !.reviewed = acknowledged] ELSE m

ConfirmationChanged(m, op, exact) ==
  IF AwaitsUser(m, op)
  THEN [m EXCEPT !.active.phase = "confirming", !.exact = exact] ELSE m

ConfirmationSubmitted(m, op) ==
  IF /\ AwaitsUser(m, op) /\ m.active.phase = "confirming"
     /\ m.reviewed /\ m.exact /\ m.active.cancel = "no"
  THEN Do([m EXCEPT !.active.exec = TRUE], "execute")
  ELSE Keep(m)

-----------------------------------------------------------------------------
(* Execution and cancellation *)

PersistentProgress(m, op, phase) ==
  IF /\ IsCurrent(m, op) /\ m.active.exec
     /\ phase = m.active.phase \/ phase = Follows(m.active.phase)
  THEN [m EXCEPT !.active.phase = phase] ELSE m

\* The application's own flag denies cancellation in the same phases.
CancellationRequested(m, op) ==
  IF ~IsCurrent(m, op) THEN Keep(m)
  ELSE IF NonCancellable(m) THEN Keep([m EXCEPT !.active.deferred = TRUE])
  ELSE Do([m EXCEPT !.active.cancel = IF @ = "acked" THEN @ ELSE "asked"], "cancel")

CancellationAcknowledged(m, op) ==
  IF /\ IsCurrent(m, op) /\ m.active.cancel # "no"
     /\ ~NonCancellable(m) /\ ~m.active.deferred
  THEN [m EXCEPT !.active.cancel = "acked"] ELSE m

-----------------------------------------------------------------------------
(* Ends *)

\* The fields an end of a persistent operation clears.
Released(m) ==
  [m EXCEPT !.active = Idle, !.prepared = 0, !.reviewed = FALSE,
            !.exact = FALSE, !.paths = FALSE]

End(m, outcome, wrote, privacy) ==
  LET m1 == IF m.active.kind = "persistent" THEN Released(m)
            ELSE [m EXCEPT !.active = Idle]
  IN  [m1 EXCEPT
        !.terminal = [op |-> m.active.op, outcome |-> outcome, wrote |-> wrote],
        !.message = Visible({privacy}, m.surface)]

ApplicationCompleted(m, op, privacy) ==
  IF IsCurrent(m, op) /\ m.active.kind # "persistent"
  THEN End(m, "success", FALSE, privacy) ELSE m

ApplicationFailed(m, op, privacy) ==
  IF /\ IsCurrent(m, op) /\ ~NonCancellable(m)
     /\ ~ /\ m.active.kind = "persistent"
          /\ ~m.active.exec /\ m.active.phase # "preparing"
  THEN End(m, "failure", FALSE, privacy) ELSE m

\* (Mutant: a fault is a failure, also when the memory is being written.)
FaultIsFailure(m, op) ==
  IF IsCurrent(m, op) THEN End(m, "failure", FALSE, Shareable) ELSE m

WorkerTransportFault(m, op) ==
  IF /\ IsCurrent(m, op) /\ m.active.kind = "persistent"
     /\ m.active.exec /\ NonCancellable(m)
  THEN [m EXCEPT !.active.fault = TRUE, !.terminal = NoTerminal,
                 !.message = {Shareable}]
  ELSE ApplicationFailed(m, op, Shareable)

\* (Mutant: the result of an operation that was asked to stop is ignored.)
UncancelledCompletion(m, op, r) ==
  IF IsCurrent(m, op) /\ m.active.exec /\ m.active.cancel = "no"
  THEN End(m, IF r.success /\ r.wrote /\ r.checked THEN "success" ELSE "failure",
           r.wrote, Local)
  ELSE m

\* r: success, writing_started, and whether the result says that the memory
\* was reconciled and validated.
PersistentCompleted(m, op, r) ==
  IF IsCurrent(m, op) /\ m.active.exec
  THEN End(m, IF r.success /\ r.wrote /\ r.checked THEN "success" ELSE "failure",
           r.wrote, Local)
  ELSE m
=============================================================================
