---------------------------- MODULE Transaction ----------------------------
(***************************************************************************)
(* One persistent operation on the exact mouse the baseline is bound to:   *)
(* execute_real_persistent (application/_persistent_backend.py) and the    *)
(* device operation it calls, apply_plan, restore_backup or                *)
(* restore_baseline (device.py).                                           *)
(*                                                                         *)
(* The three device operations write the same sectors in the same order:   *)
(* a staging directory that enables no optional profile, the macro store,  *)
(* the profiles, the final directory; after each write they revalidate the *)
(* recovery state on a fresh connection.  A sector write is one step, with *)
(* the outcomes SectorOutcomes permits and SectorWrite implements.         *)
(*                                                                         *)
(* Around the operation the user unplugs the mouse, switches profile on    *)
(* it, edits the reviewed source and asks for cancellation, and the        *)
(* process dies at any point.                                              *)
(***************************************************************************)
EXTENDS Naturals, Sequences, SectorOutcomes

CONSTANTS
  Dir,              \* sector 0, the profile directory
  Recovery,         \* RECOVERY_SECTORS
  MacroOrder,       \* GLOBAL_MACRO_SECTORS, in the order they are written
  ProfileOrder,     \* the profiles in the order they are written: 3, 4, 5, 2
  Optional,         \* the profiles the directory can disable: 3, 4, 5
  Generations,      \* consistent programmings a sector can belong to
  Torn,             \* a sector, or directory, left partially written
  NoCheckpoint,     \* no safety backup on disk
  Safe,             \* SAFE_PROFILE
  Profiles,         \* profiles the mouse can be switched to
  Baseline,         \* the images of the active baseline
  InitialMice,      \* the images a run starts from
  Plans,            \* targets a configuration can compile to
  MaxOperations     \* bound: operations begun in a behaviour

Elements(seq) == {seq[i] : i \in 1..Len(seq)}
Macros == Elements(MacroOrder)
Programmable == {Dir} \cup Macros \cup Elements(ProfileOrder)
Sectors == Programmable \cup Recovery

\* A directory holds one enable flag for every optional profile.
Directories == [Optional -> BOOLEAN]
Contents(sector) ==
  {Torn} \cup (IF sector = Dir THEN Directories ELSE Generations)
AnyContent == {Torn} \cup Directories \cup Generations

Mice == {f \in [Sectors -> AnyContent] : \A s \in Sectors : f[s] \in Contents(s)}
Targets ==
  {f \in [Programmable -> AnyContent] :
     \A s \in Programmable :
       f[s] \in Contents(s) \ (IF s \in Macros THEN {} ELSE {Torn})}

Kinds == {"apply", "backup", "baseline"}

ASSUME OrderAssumption ==
  /\ MacroOrder \in Seq(Macros) /\ ProfileOrder \in Seq(Elements(ProfileOrder))
  /\ Dir \notin Macros \cup Elements(ProfileOrder)
  /\ Recovery \cap Programmable = {}
  /\ Optional \subseteq Elements(ProfileOrder)
ASSUME ImagesAssumption ==
  /\ Torn \notin Generations \cup Directories
  /\ Baseline \in Mice /\ \A s \in Sectors : Baseline[s] # Torn
  /\ InitialMice \subseteq Mice /\ Plans \subseteq Targets
  /\ NoCheckpoint \notin Mice
ASSUME ProfilesAssumption == Safe \in Profiles
ASSUME BoundAssumption == MaxOperations \in Nat

VARIABLES
  flash,        \* sector images of the mouse
  active,       \* its active profile
  attached,     \* this exact mouse is plugged in
  checkpoint,   \* the last safety backup committed to disk
  source,       \* what the operation's source on disk holds now
  cancelled,    \* the cancellation token
  kind,         \* operation in execution
  reviewed,     \* the target whose digest the user has confirmed
  loaded,       \* the target the device operation writes
  pc,           \* the code's position
  step,         \* index of the sector write in Order
  phase,        \* the last PersistentPhase reported
  reconciled,   \* reconciliation_completed
  validated,    \* post_validation_completed
  result,       \* how the last operation ended
  operations,   \* operations begun (bound)
  began,        \* history: flash when the operation began
  switched,     \* history: the operation has switched the active profile
  strayWrites   \* history: sectors written since the mouse left SAFE

mouse == <<flash, active, attached>>
disk == <<checkpoint, source>>
intent == <<kind, reviewed>>
flags == <<reconciled, validated>>
bounds == <<operations, began>>
vars == <<mouse, disk, cancelled, intent, loaded, pc, step, phase, flags,
          result, bounds, switched, strayWrites>>

-----------------------------------------------------------------------------
(* The writes *)

\* (Mutant: the final directory right after the staging one.)
DirectoryFirst == <<Dir, Dir>> \o MacroOrder \o ProfileOrder
Order == <<Dir>> \o MacroOrder \o ProfileOrder \o <<Dir>>

\* build_directory(baseline[0], {1, 2})
Staging == [p \in Optional |-> FALSE]

Payload(i) == IF i = 1 THEN Staging ELSE loaded[Order[i]]

\* validate_recovery_images: recovery sectors as in the baseline, and a
\* directory that validate_directory accepts.
RecoveryValid(f) ==
  /\ \A r \in Recovery : f[r] = Baseline[r]
  /\ f[Dir] # Torn

ProgrammablePart(f) == [s \in Programmable |-> f[s]]

\* What validate_images is sure to reject in a stored backup; a torn macro
\* page that no enabled profile reaches only draws a warning.
Restorable(f) == RecoveryValid(f) /\ ProgrammablePart(f) \in Targets

\* An optional profile the directory enables finds its own sector and the whole
\* macro store in one generation.
Usable(f) ==
  f[Dir] # Torn =>
    \A p \in Optional : f[Dir][p] =>
      \E g \in Generations : \A s \in Macros \cup {p} : f[s] = g

\* validate_images accepts nothing else as a baseline or a compiled plan.
ASSUME UsableAssumption ==
  \A f \in InitialMice \cup Plans \cup {Baseline} : Usable(f)

-----------------------------------------------------------------------------
(* Control *)

Goto(position) == pc' = position /\ UNCHANGED result

End(outcome) == pc' = "idle" /\ result' = outcome

\* Any exception but a cancellation: PersistentBackendFailure.
\* (Mutant: a failure is reported as the cancellation that was asked for.)
FailAsCancelled == End(IF cancelled THEN "cancelled" ELSE "failed")
Fail == End("failed")

\* _check_cancel
CancelOr(continue) == IF cancelled THEN End("cancelled") ELSE continue

Init ==
  /\ flash \in InitialMice
  /\ active \in Profiles
  /\ attached \in BOOLEAN
  /\ checkpoint = NoCheckpoint
  /\ source \in Plans
  /\ cancelled = FALSE
  /\ kind = "apply"
  /\ reviewed = source
  /\ loaded = source
  /\ pc = "idle"
  /\ step = 1
  /\ phase = "REVALIDATING"
  /\ reconciled = FALSE /\ validated = FALSE
  /\ result = "none"
  /\ operations = 0
  /\ began = flash
  /\ switched = FALSE
  /\ strayWrites = 0

-----------------------------------------------------------------------------
(* execute_real_persistent, before the device operation *)

\* The user has reviewed and confirmed a target prepared from the source.
Begin(k, target) ==
  /\ pc = "idle"
  /\ operations < MaxOperations
  /\ kind' = k
  /\ reviewed' = target /\ loaded' = target /\ source' = target
  /\ cancelled' = FALSE
  /\ pc' = "authorize" /\ step' = 1 /\ result' = "none"
  /\ phase' = "REVALIDATING"
  /\ reconciled' = FALSE /\ validated' = FALSE
  /\ operations' = operations + 1
  /\ began' = flash /\ switched' = FALSE
  /\ UNCHANGED <<mouse, checkpoint, strayWrites>>

BeginApply == \E target \in Plans : Begin("apply", target)

BeginBackup ==
  /\ checkpoint # NoCheckpoint /\ Restorable(checkpoint)
  /\ Begin("backup", ProgrammablePart(checkpoint))

BeginBaseline == Begin("baseline", ProgrammablePart(Baseline))

\* Lock, host guard, baseline binding, exact unit, validate_recovery.
Authorize ==
  /\ pc = "authorize"
  /\ CancelOr(IF attached /\ RecoveryValid(flash) THEN Goto("target") ELSE Fail)
  /\ UNCHANGED <<mouse, disk, cancelled, intent, loaded, step, phase, flags,
                 bounds, switched, strayWrites>>

\* ensure_safe_profile: switches the mouse to SAFE unless it is there already.
\* (The switch may take effect although its confirmation fails.)
EnsureSafe ==
  /\ attached
  /\ active' = Safe
  /\ switched' = (switched \/ active # Safe)
  /\ strayWrites' = 0

\* The digests of what was reviewed and of what the source now yields agree.
\* (Mutant: they are not compared.)
SourceTrusted == TRUE
SourceReviewed == source = reviewed

\* The source is compiled or loaded again and compared with what was reviewed.
\* Apply then demands SAFE, the restores switch to it.
CheckTarget ==
  /\ pc = "target"
  /\ \/ /\ cancelled \/ ~SourceReviewed \/ ~attached
        /\ CancelOr(Fail)
        /\ UNCHANGED <<active, switched, strayWrites>>
     \/ /\ ~cancelled /\ SourceReviewed /\ kind = "apply"
        /\ IF active = Safe THEN Goto("arm") ELSE Fail
        /\ UNCHANGED <<active, switched, strayWrites>>
     \/ /\ ~cancelled /\ SourceReviewed /\ kind # "apply"
        /\ EnsureSafe
        /\ Goto("recheck") \/ Fail
  /\ UNCHANGED <<flash, attached, disk, cancelled, intent, loaded, step, phase,
                 flags, bounds>>

\* validate_recovery after the switch to SAFE
Recheck ==
  /\ pc = "recheck"
  /\ IF attached /\ RecoveryValid(flash) THEN Goto("arm") ELSE Fail
  /\ UNCHANGED <<mouse, disk, cancelled, intent, loaded, step, phase, flags,
                 bounds, switched, strayWrites>>

Arm ==
  /\ pc = "arm"
  /\ IF cancelled THEN End("cancelled") /\ UNCHANGED phase
                  ELSE Goto("open") /\ phase' = "ARMED"
  /\ UNCHANGED <<mouse, disk, cancelled, intent, loaded, step, flags, bounds,
                 switched, strayWrites>>

-----------------------------------------------------------------------------
(* apply_plan, restore_backup, restore_baseline *)

\* Everything before create_backup: the unit, the recovery state, SAFE, and
\* for a backup the second load of its images.
Open ==
  /\ pc = "open"
  /\ \/ /\ \/ cancelled \/ ~attached \/ ~RecoveryValid(flash)
           \/ (kind = "backup" /\ ~SourceReviewed)
        /\ CancelOr(Fail)
        /\ UNCHANGED <<active, switched, strayWrites, loaded>>
     \/ /\ ~cancelled /\ attached /\ RecoveryValid(flash) /\ kind = "apply"
        /\ IF active = Safe THEN Goto("backup") ELSE Fail
        /\ UNCHANGED <<active, switched, strayWrites, loaded>>
     \/ /\ ~cancelled /\ RecoveryValid(flash) /\ kind # "apply"
        /\ kind = "backup" => SourceReviewed
        /\ EnsureSafe
        /\ loaded' = source
        /\ Goto("backup") \/ Fail
  /\ UNCHANGED <<flash, attached, disk, cancelled, intent, step, phase, flags,
                 bounds>>

\* What the directory committed as safety backup holds.
\* (Mutant: a backup that exists already is kept.)
CapturedBefore == IF checkpoint = NoCheckpoint THEN flash ELSE checkpoint
Captured == flash

\* create_backup reads every sector, then commits the directory at once;
\* restore_baseline loads and checks its target only now.
CreateBackup ==
  /\ pc = "backup"
  /\ attached
  /\ checkpoint' = Captured
  /\ IF kind = "baseline"
       THEN /\ loaded' = source
            /\ IF SourceReviewed THEN Goto("first") ELSE Fail
       ELSE Goto("first") /\ UNCHANGED loaded
  /\ UNCHANGED <<mouse, source, cancelled, intent, step, phase, flags, bounds,
                 switched, strayWrites>>

\* before_first_write: the last look at the cancellation token
BeforeFirstWrite ==
  /\ pc = "first"
  /\ IF cancelled THEN End("cancelled") /\ UNCHANGED phase
                  ELSE Goto("write") /\ phase' = "WRITING"
  /\ UNCHANGED <<mouse, disk, cancelled, intent, loaded, step, flags, bounds,
                 switched, strayWrites>>

\* What the sector may hold when a write of t over o has been cut short.
Remnants(o, t) == IF o = t THEN {o} ELSE {o, t, Torn}

CountStray(sector, after) ==
  strayWrites' = IF active # Safe /\ after # flash[sector]
                   THEN strayWrites + 1 ELSE strayWrites

\* fresh_write_sector
WriteSector ==
  /\ pc = "write"
  /\ LET sector == Order[step]
         origin == flash[sector]
         target == Payload(step)
     IN \E outcome \in Outcomes, after \in Remnants(origin, target) :
          /\ ~attached => outcome = "raised" /\ after = origin
          /\ Permitted(outcome, origin, target, after)
          /\ flash' = [flash EXCEPT ![sector] = after]
          /\ CountStray(sector, after)
          /\ IF outcome = "committed" THEN Goto("verify") ELSE Fail
  /\ UNCHANGED <<active, attached, disk, cancelled, intent, loaded, step,
                 phase, flags, bounds, switched>>

\* _validate_recovery_fresh
\* (Mutant: it does not look at the active profile.)
RecoveryOnly == attached /\ RecoveryValid(flash)
RecoveryFresh == attached /\ RecoveryValid(flash) /\ active = Safe

MoreWrites == step < Len(Order)

\* (Mutant: the same sector again.)
SameStep == step
NextStep == step + 1

\* After every write
VerifyRecovery ==
  /\ pc = "verify"
  /\ IF RecoveryFresh
       THEN IF MoreWrites
              THEN step' = NextStep /\ Goto("write") /\ UNCHANGED phase
              ELSE UNCHANGED step /\ Goto("reconcile") /\ phase' = "RECONCILING"
       ELSE Fail /\ UNCHANGED <<step, phase>>
  /\ UNCHANGED <<mouse, disk, cancelled, intent, loaded, flags, bounds,
                 switched, strayWrites>>

\* The final read_all and its comparison with the target
Reconcile ==
  /\ pc = "reconcile"
  /\ IF attached /\ ProgrammablePart(flash) = loaded
       THEN reconciled' = TRUE /\ Goto("validate") /\ phase' = "POST_VALIDATING"
       ELSE Fail /\ UNCHANGED <<reconciled, phase>>
  /\ UNCHANGED <<mouse, disk, cancelled, intent, loaded, step, validated,
                 bounds, switched, strayWrites>>

\* validate_device; the flag is set before its report is looked at
PostValidate ==
  /\ pc = "validate"
  /\ attached
  /\ validated' = TRUE
  /\ \/ RecoveryValid(flash) /\ Goto("save")
     \/ (\E m \in Macros : flash[m] = Torn) /\ Fail
  /\ UNCHANGED <<mouse, disk, cancelled, intent, loaded, step, phase,
                 reconciled, bounds, switched, strayWrites>>

\* An apply keeps its plan and its configuration beside the safety backup.
Succeed ==
  /\ pc = "save"
  /\ End("succeeded")
  /\ UNCHANGED <<mouse, disk, cancelled, intent, loaded, step, phase, flags,
                 bounds, switched, strayWrites>>

\* The host guard, the transport, the disk or a validation raises.
Raise ==
  /\ pc \notin {"idle", "write", "first"}
  /\ pc = "save" => kind = "apply"
  /\ Fail
  /\ UNCHANGED <<mouse, disk, cancelled, intent, loaded, step, phase, flags,
                 bounds, switched, strayWrites>>

-----------------------------------------------------------------------------
(* The environment *)

\* The process is killed, or the machine stops.
Crash ==
  /\ pc # "idle"
  /\ IF pc = "write" /\ attached
       THEN LET sector == Order[step]
            IN \E after \in Remnants(flash[sector], Payload(step)) :
                 /\ flash' = [flash EXCEPT ![sector] = after]
                 /\ CountStray(sector, after)
       ELSE UNCHANGED <<flash, strayWrites>>
  /\ End("crashed")
  /\ UNCHANGED <<active, attached, disk, cancelled, intent, loaded, step,
                 phase, flags, bounds, switched>>

\* The profile button of the mouse
SwitchProfile ==
  /\ active' \in Profiles \ {active}
  /\ strayWrites' = IF Safe \in {active, active'} THEN 0 ELSE strayWrites
  /\ UNCHANGED <<flash, attached, disk, cancelled, intent, loaded, pc, step,
                 phase, flags, result, bounds, switched>>

Replug ==
  /\ attached' = ~attached
  /\ UNCHANGED <<flash, active, disk, cancelled, intent, loaded, pc, step,
                 phase, flags, result, bounds, switched, strayWrites>>

EditSource ==
  /\ pc # "idle"
  /\ source' \in Plans \ {source}
  /\ UNCHANGED <<mouse, checkpoint, cancelled, intent, loaded, pc, step, phase,
                 flags, result, bounds, switched, strayWrites>>

RequestCancel ==
  /\ pc # "idle" /\ ~cancelled
  /\ cancelled' = TRUE
  /\ UNCHANGED <<mouse, disk, intent, loaded, pc, step, phase, flags, result,
                 bounds, switched, strayWrites>>

Run ==
  \/ Authorize \/ CheckTarget \/ Recheck \/ Arm \/ Open \/ CreateBackup
  \/ BeforeFirstWrite \/ WriteSector \/ VerifyRecovery \/ Reconcile
  \/ PostValidate \/ Succeed \/ Raise

Environment ==
  Crash \/ SwitchProfile \/ Replug \/ EditSource \/ RequestCancel

Next ==
  \/ BeginApply \/ BeginBackup \/ BeginBaseline
  \/ Run
  \/ Environment

Spec == Init /\ [][Next]_vars

\* Every device call has a timeout and the executing thread is scheduled.
FairSpec == Spec /\ WF_vars(Run)

-----------------------------------------------------------------------------
(* Properties *)

Positions == {"idle", "authorize", "target", "recheck", "arm", "open", "backup",
              "first", "write", "verify", "reconcile", "validate", "save"}
Phases == {"REVALIDATING", "ARMED", "WRITING", "RECONCILING", "POST_VALIDATING"}
WritingPhases == {"WRITING", "RECONCILING", "POST_VALIDATING"}
Results == {"none", "succeeded", "failed", "cancelled", "crashed"}

TypeOK ==
  /\ flash \in Mice /\ active \in Profiles /\ attached \in BOOLEAN
  /\ checkpoint \in Mice \cup {NoCheckpoint} /\ source \in Targets
  /\ cancelled \in BOOLEAN
  /\ kind \in Kinds /\ reviewed \in Targets /\ loaded \in Targets
  /\ pc \in Positions /\ step \in 1..Len(Order)
  /\ phase \in Phases /\ reconciled \in BOOLEAN /\ validated \in BOOLEAN
  /\ result \in Results
  /\ operations \in 0..MaxOperations /\ began \in Mice
  /\ switched \in BOOLEAN /\ strayWrites \in Nat

\* In every state, those a crash or an unplugged mouse leaves behind included,
\* no optional profile is enabled over a half-written profile or macro store:
\* the point of the staging directory and of the order of the writes.
EnabledProfilesUsable == Usable(flash)

\* From the first sector write on, the safety backup on disk is the exact image
\* of the mouse before it, whichever operation runs and wherever it stops.  Its
\* recovery state is valid, and so is that of the mouse, without which no restore
\* begins, unless the directory itself was cut short (device.py:624-648).
BackupIsRestorePoint ==
  phase \in WritingPhases =>
    /\ checkpoint = began /\ RecoveryValid(checkpoint)
    /\ flash[Dir] # Torn => RecoveryValid(flash)

\* An operation that ends as cancelled has changed no sector, however late the
\* request came and whatever failed meanwhile (docs/TUI_SAFETY_MODEL.md:133).
CancelledWroteNothing == result = "cancelled" => flash = began

\* Only reviewed bytes reach the mouse, although the source can be edited
\* between review, revalidation and the last load.
OnlyReviewedWritten ==
  \A s \in Sectors :
    \/ flash[s] \in {began[s], Torn}
    \/ s \in Programmable /\ flash[s] = reviewed[s]
    \/ s = Dir /\ flash[s] = Staging

\* When the mouse leaves SAFE during the writes, at most one more sector is
\* written before the operation stops.
AtMostOneStrayWrite == strayWrites <= 1

\* What the two flags and SUCCEEDED say of the mouse, also after a failure.
ReportIsTrue ==
  /\ reconciled => ProgrammablePart(flash) = reviewed
  /\ validated => reconciled
  /\ result = "succeeded" => validated /\ phase = "POST_VALIDATING"

\* An operation always ends, however the user interferes.
OperationEnds == pc # "idle" ~> pc = "idle"

\* docs/TUI_SAFETY_MODEL.md: a cancellation before WRITING abandons the
\* operation without hardware mutation.  (It does not hold.)
CancelLeavesProfile == result = "cancelled" => ~switched
=============================================================================
