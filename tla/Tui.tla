-------------------------------- MODULE Tui --------------------------------
(***************************************************************************)
(* The terminal user interface at work: the event loop of tui/app.py,      *)
(* which owns the model of TuiUpdate, and the worker threads in which the  *)
(* EffectRunner of tui/runner.py performs its effects on the application   *)
(* facade.                                                                 *)
(*                                                                         *)
(* A worker hands an event over with call_from_thread, which waits until   *)
(* the event loop has handled it: one step of both.  Between two hand-overs*)
(* workers, and the user's keys, interleave freely.                        *)
(*                                                                         *)
(* The facade is what the other modules describe; here it answers or fails *)
(* in every way the runner distinguishes.                                  *)
(***************************************************************************)
EXTENDS TuiUpdate, FiniteSets

CONSTANTS
  Requests,   \* kinds of operation the user asks for
  MaxOps      \* bound: operation identities issued in a behaviour

ASSUME RequestsAssumption == Requests \subseteq Kinds
ASSUME BoundAssumption == MaxOps \in Nat

Ops == 1..MaxOps
Types == {"start", "refresh", "prepare", "execute", "cancel"}
Pcs == {"queued", "lock", "ack", "register", "call", "finish",
        "running", "cleared", "pop", "retire"}

VARIABLES
  model,        \* App._model
  issued,       \* operation identities issued
  jobs,         \* workers, one for each dispatched effect
  retired,      \* _retired_issuance
  dispatched,   \* _dispatched: the effects claimed, by type and operation
  token,        \* _tokens: none, live or cancelled
  pending,      \* _pending_cancellation
  exited,       \* the user has left the program
  wrote         \* history: operations that have written to the mouse

runner == <<retired, dispatched, token, pending>>
vars == <<model, issued, jobs, runner, exited, wrote>>

Jobs == [type : Types, op : Ops, kind : Kinds, pc : Pcs,
         phase : {"none", "confirming", "revalidating", "armed"} \cup WritePhases]

TypeOK ==
  /\ model \in
       [active : [op : 0..MaxOps, kind : Kinds \cup {"none"},
                  phase : PreExecution \cup WritePhases
                            \cup {"none", "revalidating", "armed"},
                  exec : BOOLEAN, cancel : {"no", "asked", "acked"},
                  deferred : BOOLEAN, fault : BOOLEAN],
        terminal : [op : 0..MaxOps, outcome : {"none", "success", "failure"},
                    wrote : BOOLEAN],
        prepared : 0..MaxOps, reviewed : BOOLEAN, exact : BOOLEAN,
        paths : BOOLEAN, surface : Levels, message : SUBSET Levels,
        disclosure : SUBSET Levels, readOnly : BOOLEAN]
  /\ issued \in 0..MaxOps /\ jobs \subseteq Jobs
  /\ retired \in 0..MaxOps /\ dispatched \subseteq Types \X Ops
  /\ token \in [Ops -> {"none", "live", "cancelled"}] /\ pending \subseteq Ops
  /\ exited \in BOOLEAN /\ wrote \subseteq Ops

Init ==
  /\ model = InitialModel
  /\ issued = 0 /\ jobs = {} /\ retired = 0 /\ dispatched = {}
  /\ token = [op \in Ops |-> "none"] /\ pending = {}
  /\ exited = FALSE /\ wrote = {}

-----------------------------------------------------------------------------
(* The event loop *)

RetireOperation(op) ==
  /\ retired' = IF op > retired THEN op ELSE retired
  /\ dispatched' = {d \in dispatched : d[2] > retired'}
  /\ token' = [token EXCEPT ![op] = "none"]
  /\ pending' = pending \ {op}

Dispatch(fx) ==
  {[type |-> e.type, op |-> e.op, kind |-> e.kind, pc |-> "queued",
    phase |-> "none"] : e \in fx}

\* (Mutant: an acknowledged cancellation leaves the preparation alone.)
NeverAbandons(m) == m

\* A preparation whose cancellation is acknowledged is given up.
Abandon(m) ==
  IF /\ m.active.kind = "persistent" /\ ~m.active.exec
     /\ m.active.cancel = "acked" /\ m.prepared # 0
  THEN ChangePrivacySurface(m, Shareable) ELSE m

\* _accept_event, for the result r of the reducer and the other workers.
AcceptEvent(r, workers) ==
  LET m == Abandon(r.m)
      previous == model.active.op
  IN  /\ model' = m
      /\ jobs' = workers \cup Dispatch(r.fx)
      /\ IF previous # 0 /\ m.active.op # previous
         THEN RetireOperation(previous) ELSE UNCHANGED runner

\* What the user does; nobody is left to do it after exit.
User(r) == ~exited /\ AcceptEvent(r, jobs) /\ UNCHANGED <<exited, wrote>>

RequestOperation(kind) ==
  /\ issued < MaxOps /\ issued' = issued + 1
  /\ ~(model.readOnly /\ kind \in {"switch", "persistent"})
  /\ User(OperationRequested(model, issued', kind))

Refresh ==
  /\ issued < MaxOps /\ issued' = issued + 1
  /\ User(RefreshRequested(model, issued'))

EnterPath(entered) == User(Keep(PathChanged(model, entered))) /\ UNCHANGED issued

\* on_checkbox_changed: three events in one handler.
CheckReview(acknowledged) ==
  LET op == model.active.op
      m == ReviewAcknowledged(EnterReview(model, op), op, acknowledged)
  IN  /\ op # 0
      /\ User(Keep(IF acknowledged THEN ConfirmationChanged(m, op, m.exact) ELSE m))
      /\ UNCHANGED issued

TypeConfirmation(exact) ==
  /\ model.active.op # 0
  /\ User(Keep(ConfirmationChanged(model, model.active.op, exact)))
  /\ UNCHANGED issued

SubmitConfirmation ==
  /\ model.active.op # 0
  /\ User(ConfirmationSubmitted(model, model.active.op))
  /\ UNCHANGED issued

CancelButton ==
  /\ model.active.op # 0
  /\ User(CancellationRequested(model, model.active.op))
  /\ UNCHANGED issued

\* action_privacy goes round the three surfaces.
CyclePrivacy ==
  LET target == (model.surface + 1) % 3
      m == ChangePrivacySurface(model, target)
  IN  /\ User(Keep(CASE target = Private   -> SetDisclosure(m, {Private})
                     [] target = Shareable -> SetDisclosure(m, {})
                     [] OTHER              -> m))
      /\ UNCHANGED issued

\* The fresh model keeps what the device was found to allow.
Back ==
  [InitialModel EXCEPT !.surface = Shareable, !.readOnly = model.readOnly]

\* Esc: cancel, else go home; with the help open and nothing active it only
\* closes the help.
CancelOrBack ==
  /\ User(IF model.active.op # 0 THEN CancellationRequested(model, model.active.op)
          ELSE Keep(Back))
  /\ UNCHANGED issued

Executing == model.active.kind = "persistent" /\ model.active.exec

\* (Mutant: only the write phases keep the program open.)
QuitBeforeWriting ==
  /\ UNCHANGED issued
  /\ IF Executing /\ NonCancellable(model)
     THEN User(CancellationRequested(model, model.active.op))
     ELSE ~exited /\ exited' = TRUE /\ UNCHANGED <<model, jobs, runner, wrote>>

SafeQuit ==
  /\ UNCHANGED issued
  /\ IF Executing THEN User(CancellationRequested(model, model.active.op))
     ELSE ~exited /\ exited' = TRUE /\ UNCHANGED <<model, jobs, runner, wrote>>

-----------------------------------------------------------------------------
(* The effect runner *)

Without(j) == jobs \ {j}
Become(j, pc) == Without(j) \cup {[j EXCEPT !.pc = pc]}

\* A step of a worker that hands over an event, and one that does not.
Emit(r, workers) == AcceptEvent(r, workers) /\ UNCHANGED <<issued, exited>>
Silent(workers) == jobs' = workers /\ UNCHANGED <<model, issued, exited>>

AfterClaim(type) ==
  CASE type = "cancel"  -> "lock"
    [] type = "execute" -> "register"
    [] OTHER            -> "call"

\* An effect of a retired operation, or one already claimed, is dropped.
ClaimEffect(j) ==
  /\ j.pc = "queued"
  /\ LET fresh == j.op > retired /\ <<j.type, j.op>> \notin dispatched
     IN  /\ dispatched' = dispatched \cup (IF fresh THEN {<<j.type, j.op>>} ELSE {})
         /\ Silent(IF fresh THEN Become(j, AfterClaim(j.type)) ELSE Without(j))
  /\ UNCHANGED <<retired, token, pending, wrote>>

\* _request_cancellation, under the lock.
RequestCancellation(j) ==
  /\ j.pc = "lock"
  /\ Silent(Become(j, "ack"))
  /\ IF token[j.op] = "none"
     THEN pending' = pending \cup {j.op} /\ UNCHANGED token
     ELSE token' = [token EXCEPT ![j.op] = "cancelled"] /\ UNCHANGED pending
  /\ UNCHANGED <<retired, dispatched, wrote>>

Acknowledge(j) ==
  /\ j.pc = "ack"
  /\ Emit(Keep(CancellationAcknowledged(model, j.op)), Without(j))
  /\ UNCHANGED wrote

\* A probe reports first whether the device may be changed.
ReportCompatibility(j) ==
  /\ j.pc = "call" /\ j.kind = "probe"
  /\ \E readOnly \in BOOLEAN :
       Emit(Keep(CompatibilityChanged(model, readOnly)), Become(j, "finish"))
  /\ UNCHANGED wrote

\* _run_foreground and _run_refresh: the end of an ordinary operation.
FinishOrdinary(j) ==
  /\ j.type \in {"start", "refresh"} /\ j.pc \in {"call", "finish"}
  /\ \/ /\ j.kind = "probe" => j.pc = "finish"
        /\ \E p \in {Shareable, Local} :
             Emit(Keep(ApplicationCompleted(model, j.op, p)), Become(j, "retire"))
     \/ /\ j.pc = "call"
        /\ \E p \in Levels :
             Emit(Keep(ApplicationFailed(model, j.op, p)), Become(j, "retire"))
     \/ Emit(Keep(WorkerTransportFault(model, j.op)), Become(j, "retire"))
  /\ UNCHANGED wrote

\* (Mutant: the operation is retired as soon as it is prepared.)
RetiringPrepare(j) ==
  /\ j.type = "prepare" /\ j.pc = "call"
  /\ \/ Emit(Keep(PreparedReceived(model, j.op)), Become(j, "retire"))
     \/ Emit(Keep(WorkerTransportFault(model, j.op)), Become(j, "retire"))
  /\ UNCHANGED wrote

\* A preparation that succeeds stays in service for its execution.
RunPrepare(j) ==
  /\ j.type = "prepare" /\ j.pc = "call"
  /\ \/ Emit(Keep(PreparedReceived(model, j.op)), Without(j))
     \/ \E p \in Levels :
          Emit(Keep(ApplicationFailed(model, j.op, p)), Become(j, "retire"))
     \/ Emit(Keep(WorkerTransportFault(model, j.op)), Become(j, "retire"))
  /\ UNCHANGED wrote

\* (Mutant: a cancellation that came before the token is forgotten.)
FreshToken(j) ==
  /\ j.pc = "register"
  /\ Silent(Without(j) \cup {[j EXCEPT !.pc = "running", !.phase = "confirming"]})
  /\ token' = [token EXCEPT ![j.op] = "live"] /\ pending' = pending \ {j.op}
  /\ UNCHANGED <<retired, dispatched, wrote>>

RegisterToken(j) ==
  /\ j.pc = "register"
  /\ Silent(Without(j) \cup {[j EXCEPT !.pc = "running", !.phase = "confirming"]})
  /\ token' = [token EXCEPT ![j.op] =
                 IF j.op \in pending THEN "cancelled" ELSE "live"]
  /\ pending' = pending \ {j.op}
  /\ UNCHANGED <<retired, dispatched, wrote>>

\* The application looks at the token before each phase up to WRITING.
CheckToken(j) ==
  /\ j.pc = "running" /\ j.phase \notin WritePhases
  /\ token[j.op] # "cancelled"
  /\ Silent(Become(j, "cleared")) /\ UNCHANGED <<runner, wrote>>

\* Once WRITING is reported the first sector is written.
WriteMemory(j) ==
  /\ j.pc = "running" /\ j.phase = "writing"
  /\ wrote' = wrote \cup {j.op}
  /\ Silent(Become(j, "cleared")) /\ UNCHANGED runner

\* The observer: the next phase, handed over before the work of the phase.
ReportProgress(j) ==
  /\ j.pc = "cleared" \/ (j.pc = "running" /\ j.phase = "reconciling")
  /\ j.phase # "post"
  /\ LET next == Follows(j.phase)
     IN  Emit(Keep(PersistentProgress(model, j.op, next)),
              Without(j) \cup {[j EXCEPT !.pc = "running", !.phase = next]})
  /\ UNCHANGED wrote

\* execute_prepared returns a result.
CompleteExecution(j) ==
  /\ j.pc \in {"running", "cleared"}
  /\ \E success, checked \in BOOLEAN :
       /\ success => checked
       /\ checked => j.phase = "post"
       /\ Emit(Keep(PersistentCompleted(model, j.op,
                      [success |-> success, checked |-> checked,
                       wrote |-> j.phase \in WritePhases])),
               Become(j, "pop"))
  /\ UNCHANGED wrote

\* It returns an error, or raises: unresolved once WRITING was reported.
BreakExecution(j) ==
  /\ j.pc \in {"running", "cleared"}
  /\ \/ /\ j.phase \notin WritePhases
        /\ \E p \in Levels :
             Emit(Keep(ApplicationFailed(model, j.op, p)), Become(j, "pop"))
     \/ Emit(Keep(WorkerTransportFault(model, j.op)), Become(j, "pop"))
  /\ UNCHANGED wrote

PopToken(j) ==
  /\ j.pc = "pop"
  /\ Silent(Become(j, "retire"))
  /\ token' = [token EXCEPT ![j.op] = "none"] /\ pending' = pending \ {j.op}
  /\ UNCHANGED <<retired, dispatched, wrote>>

RetireWorker(j) ==
  /\ j.pc = "retire"
  /\ Silent(Without(j)) /\ RetireOperation(j.op) /\ UNCHANGED wrote

Work(j) ==
  \/ ClaimEffect(j) \/ RequestCancellation(j) \/ Acknowledge(j)
  \/ ReportCompatibility(j) \/ FinishOrdinary(j) \/ RunPrepare(j)
  \/ RegisterToken(j) \/ CheckToken(j) \/ WriteMemory(j) \/ ReportProgress(j)
  \/ CompleteExecution(j) \/ BreakExecution(j) \/ PopToken(j) \/ RetireWorker(j)

-----------------------------------------------------------------------------

Worker == ~exited /\ \E j \in jobs : Work(j)

Exited == exited /\ UNCHANGED vars

Next ==
  \/ \E kind \in Requests : RequestOperation(kind)
  \/ Refresh
  \/ \E b \in BOOLEAN : EnterPath(b) \/ CheckReview(b) \/ TypeConfirmation(b)
  \/ SubmitConfirmation \/ CancelButton \/ CancelOrBack
  \/ CyclePrivacy \/ SafeQuit
  \/ Worker \/ Exited

\* Every thread runs; a worker that drops a repeated cancellation does not
\* stand for the one in service.  The user owes nothing.
Fairness ==
  \A op \in Ops :
    /\ WF_vars(/\ ~exited
               /\ \E j \in jobs : j.op = op /\ j.type # "cancel" /\ Work(j))
    /\ \A pc \in {"queued", "lock", "ack"} :
         WF_vars(/\ ~exited
                 /\ \E j \in jobs :
                      j.op = op /\ j.type = "cancel" /\ j.pc = pc /\ Work(j))

Spec == Init /\ [][Next]_vars /\ Fairness

-----------------------------------------------------------------------------
(* Properties *)

Active == model.active

\* Workers inside the facade.
InFacade == {j \in jobs : j.pc \in {"call", "running", "cleared"}}

\* From the report of WRITING on, the screen shows the operation that writes,
\* in the phase the worker is in, whatever the user pressed: privacy changes,
\* cancellations and other operations included (update.py, app.py:437).
WritesAreShown ==
  \A j \in InFacade :
    j.phase \in WritePhases =>
      Active.op = j.op /\ Active.phase = j.phase /\ Active.exec

\* An operation that has written to the mouse never ends on the screen as one
\* that has not, by whatever way its worker fails (update.py:548,
\* runner.py:303).
HonestTerminal ==
  model.terminal.op \in wrote => model.terminal.wrote

\* While an execution is in the facade, a cancellation the screen calls
\* acknowledged has reached the token the application looks at, or waits for
\* that token, however the request and the worker interleave (runner.py:114).
AckIsKept ==
  (Active.exec /\ Active.cancel = "acked") =>
    \A j \in jobs :
      (j.type = "execute" /\ j.op = Active.op /\ j.pc \in {"register", "running", "cleared"}) =>
        token[j.op] = "cancelled" \/ (j.pc = "register" /\ j.op \in pending)

\* One worker at a time is inside the facade, and it is the operation the
\* screen shows; and that one changes nothing while the screen says read-only,
\* which a probe may find at any time (update.py:240, app.py:404-425).
OneForegroundOperation ==
  /\ Cardinality(InFacade) <= 1
  /\ \A j \in InFacade : j.op = Active.op
  /\ model.readOnly => Active.kind \notin {"switch", "persistent"}

\* The operation on the screen is one the runner still serves: a worker is on
\* it, or it waits for the user, or its fault is unresolved (runner.py:98).
ServesTheScreen ==
  (Active.op # 0 /\ ~Active.fault) =>
    /\ Active.op > retired
    /\ \/ AwaitsUser(model, Active.op)
       \/ \E j \in jobs : /\ j.op = Active.op /\ j.type # "cancel"
                          /\ j.pc \notin {"pop", "retire"}

\* Nothing above the privacy class of the surface stays in the model: no
\* payload, no preparation, no path; and a preparation that is held is the one
\* of the operation on the screen (update.py:101).
NothingHidden ==
  /\ model.message \cup model.disclosure \subseteq Visible(Levels, model.surface)
  /\ model.surface = Shareable => model.prepared = 0 /\ ~model.paths
  /\ model.prepared # 0 => model.prepared = Active.op

\* Leaving the program abandons no execution (app.py:393).
QuitLeavesNoExecution ==
  exited => \A j \in jobs : j.type = "execute" => j.pc \in {"pop", "retire"}

\* An execution the user asked for ends, or is shown as unresolved.
ExecutionEnds ==
  \A op \in Ops :
    (Active.op = op /\ Active.exec) ~> (Active.op # op \/ Active.fault \/ exited)

\* A cancellation asked for before execution gives the preparation up.
CancelledPreparationEnds ==
  \A op \in Ops :
    (/\ Active.op = op /\ Active.kind = "persistent"
     /\ ~Active.exec /\ Active.cancel # "no") ~> (Active.op # op \/ exited)
=============================================================================
