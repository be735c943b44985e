-------------------------- MODULE Transaction_proofs --------------------------
(***************************************************************************)
(* Proofs about Transaction, for any number of macro sectors, profiles,    *)
(* plans and operations: every safety property its run checks follows from *)
(* one inductive invariant.                                                *)
(***************************************************************************)
EXTENDS Transaction, Integers, TLAPS

USE OrderAssumption, ImagesAssumption, ProfilesAssumption, BoundAssumption

-----------------------------------------------------------------------------
(* The order of the writes *)

\* The two directories, and what is between them.
LEMMA OrderLength ==
  /\ Len(Order) \in Nat
  /\ Len(Order) = Len(MacroOrder) + Len(ProfileOrder) + 2
  /\ Len(Order) >= 2
BY DEF Order

\* Dir is written first and last, and nowhere else.
LEMMA OrderEnds ==
  /\ Order[1] = Dir /\ Order[Len(Order)] = Dir
  /\ \A i \in 2..(Len(Order) - 1) :
       Order[i] \in Macros \cup Elements(ProfileOrder)
<1>1. Order[1] = Dir
  BY DEF Order
<1>2. Order[Len(Order)] = Dir
  BY OrderLength DEF Order
<1>3. ASSUME NEW i \in 2..(Len(Order) - 1)
      PROVE  Order[i] \in Macros \cup Elements(ProfileOrder)
  <2>1. CASE i <= Len(MacroOrder) + 1
    <3>1. Order[i] = MacroOrder[i - 1] /\ i - 1 \in 1..Len(MacroOrder)
      BY <2>1, OrderLength DEF Order
    <3> QED
      BY <3>1 DEF Macros, Elements
  <2>2. CASE i > Len(MacroOrder) + 1
    <3> DEFINE j == i - 1 - Len(MacroOrder)
    <3>1. Order[i] = ProfileOrder[j] /\ j \in 1..Len(ProfileOrder)
      BY <2>2, OrderLength DEF Order
    <3> QED
      BY <3>1 DEF Elements
  <2> QED
    BY <2>1, <2>2, OrderLength
<1> QED
  BY <1>1, <1>2, <1>3

\* Every macro sector and profile is written in between.
LEMMA OrderCovers ==
  ASSUME NEW s \in Macros \cup Elements(ProfileOrder)
  PROVE  \E i \in 2..(Len(Order) - 1) : Order[i] = s
<1>1. CASE s \in Macros
  <2>1. PICK i \in 1..Len(MacroOrder) : s = MacroOrder[i]
    BY <1>1 DEF Macros, Elements
  <2>2. Order[i + 1] = s /\ i + 1 \in 2..(Len(Order) - 1)
    BY <2>1, OrderLength DEF Order
  <2> QED
    BY <2>2
<1>2. CASE s \in Elements(ProfileOrder)
  <2>1. PICK i \in 1..Len(ProfileOrder) : s = ProfileOrder[i]
    BY <1>2 DEF Elements
  <2> DEFINE j == i + 1 + Len(MacroOrder)
  <2>2. Order[j] = s /\ j \in 2..(Len(Order) - 1)
    BY <2>1, OrderLength DEF Order
  <2> QED
    BY <2>2
<1> QED
  BY <1>1, <1>2

\* Only programmable sectors are written.
LEMMA OrderProgrammable ==
  ASSUME NEW i \in 1..Len(Order)
  PROVE  Order[i] \in Programmable /\ Order[i] \in Sectors
BY OrderEnds, OrderLength DEF Programmable, Sectors

-----------------------------------------------------------------------------
(* The inductive invariant *)

\* What the position of the code says of the phase last reported.
PhaseInv ==
  /\ pc \in {"authorize", "target", "recheck", "arm"} => phase = "REVALIDATING"
  /\ pc \in {"open", "backup", "first"} => phase = "ARMED"
  /\ pc \in {"write", "verify"} => phase = "WRITING"
  /\ pc = "reconcile" => phase = "RECONCILING"
  /\ pc \in {"validate", "save"} => phase = "POST_VALIDATING"
  /\ pc # "idle" => result = "none"
  /\ pc # "idle" /\ phase \in {"REVALIDATING", "ARMED"} => step = 1

\* What is loaded is what was reviewed, whenever it may be written or compared.
LoadedInv ==
  /\ kind = "apply" => loaded = reviewed
  /\ pc = "backup" /\ kind # "baseline" => loaded = reviewed
  /\ pc \in {"first", "write", "verify", "reconcile", "validate", "save"} =>
       loaded = reviewed

\* The number of sectors this operation has committed.
Done == IF pc = "verify" THEN step ELSE step - 1

\* While it writes, the staging directory stays in place until the last write,
\* and every sector passed holds its target.
WrittenInv ==
  pc \in {"write", "verify"} =>
    /\ 1 <= Done /\ Done < Len(Order) => flash[Dir] = Staging
    /\ Done = Len(Order) => flash[Dir] = loaded[Dir]
    /\ \A i \in 2..(Len(Order) - 1) :
         i <= Done => flash[Order[i]] = loaded[Order[i]]

\* Nothing enables a profile over half-written sectors: the mouse, the backup
\* on disk, the target.
UsableInv ==
  /\ Usable(flash)
  /\ checkpoint # NoCheckpoint => Usable(checkpoint)
  /\ Usable(reviewed)

ReportInv ==
  /\ reconciled => pc \in {"validate", "save", "idle"}
  /\ pc \in {"validate", "save"} => reconciled
  /\ pc = "save" => validated

BackupInv ==
  /\ pc = "first" => checkpoint = began
  /\ phase \in WritingPhases => checkpoint = began

StrayInv ==
  /\ active = Safe => strayWrites = 0
  /\ pc \in {"recheck", "arm", "open", "backup", "first", "write"} =>
       strayWrites = 0

\* Nothing changes before WRITING is reported, and no cancellation ends an
\* operation from then on.
UnwrittenBeforeWriting == phase \notin WritingPhases => flash = began
CancelInv == result = "cancelled" => phase \notin WritingPhases /\ pc = "idle"

Safety ==
  /\ CancelInv /\ EnabledProfilesUsable /\ UnwrittenBeforeWriting
  /\ OnlyReviewedWritten /\ AtMostOneStrayWrite /\ ReportIsTrue

Inv ==
  /\ TypeOK /\ PhaseInv /\ LoadedInv /\ WrittenInv /\ UsableInv /\ ReportInv
  /\ BackupInv /\ StrayInv /\ Safety

-----------------------------------------------------------------------------
(* Types *)

\* A target gives each programmable sector something it can hold.
LEMMA TargetsAreContents ==
  ASSUME NEW f \in Targets, NEW s \in Programmable
  PROVE  f[s] \in Contents(s)
BY DEF Targets

\* The baseline and a restorable backup can be written back.
LEMMA PartIsTarget ==
  /\ ProgrammablePart(Baseline) \in Targets
  /\ \A f \in Mice : Restorable(f) => ProgrammablePart(f) \in Targets
<1>1. ProgrammablePart(Baseline) \in Targets
  BY DEF ProgrammablePart, Targets, Mice, Sectors, Contents, AnyContent
<1> QED
  BY <1>1 DEF Restorable

\* What a sector write leaves is something that sector can hold.
LEMMA WriteType ==
  ASSUME TypeOK, NEW after \in Remnants(flash[Order[step]], Payload(step)),
         flash' = [flash EXCEPT ![Order[step]] = after]
  PROVE  flash' \in Mice
<1>1. Order[step] \in Programmable /\ Order[step] \in Sectors
  BY OrderProgrammable DEF TypeOK
<1>2. Payload(step) \in Contents(Order[step])
  <2>1. Staging \in Contents(Dir)
    BY DEF Staging, Contents, Directories
  <2>2. loaded[Order[step]] \in Contents(Order[step])
    BY <1>1, TargetsAreContents DEF TypeOK
  <2> QED
    BY <2>1, <2>2, OrderEnds DEF Payload
<1>3. flash[Order[step]] \in Contents(Order[step])
  BY <1>1 DEF TypeOK, Mice
<1>4. after \in Contents(Order[step])
  BY <1>2, <1>3 DEF Remnants, Contents
<1>5. Contents(Order[step]) \subseteq AnyContent
  BY DEF Contents, AnyContent
<1> QED
  BY <1>1, <1>4, <1>5 DEF TypeOK, Mice

\* The invariant holds initially.
LEMMA InitInv == Init => Inv
<1> SUFFICES ASSUME Init PROVE Inv
  OBVIOUS
<1>1. TypeOK
  <2>1. step \in 1..Len(Order) /\ operations \in 0..MaxOperations
    BY OrderLength DEF Init
  <2> QED
    BY <2>1 DEF Init, TypeOK, Kinds, Positions, Phases, Results
<1>2. UsableInv
  BY UsableAssumption DEF Init, UsableInv
<1>3. OnlyReviewedWritten
  BY DEF Init, OnlyReviewedWritten
<1> QED
  BY <1>1, <1>2, <1>3
  DEF Init, Inv, PhaseInv, LoadedInv, WrittenInv, ReportInv, BackupInv,
      StrayInv, Safety, UsableInv, EnabledProfilesUsable, UnwrittenBeforeWriting,
      CancelInv, AtMostOneStrayWrite, ReportIsTrue, WritingPhases

-----------------------------------------------------------------------------
(* The steps *)

\* Usable speaks of programmable sectors only.
LEMMA PartIsUsable ==
  ASSUME NEW f \in Mice, Usable(f)
  PROVE  Usable(ProgrammablePart(f))
BY DEF Usable, ProgrammablePart, Programmable

\* What is begun is a target that enables no profile over half-written sectors.
LEMMA BeginTarget ==
  ASSUME Inv
  PROVE  /\ \A target \in Plans : target \in Targets /\ Usable(target)
         /\ checkpoint # NoCheckpoint /\ Restorable(checkpoint) =>
              /\ ProgrammablePart(checkpoint) \in Targets
              /\ Usable(ProgrammablePart(checkpoint))
         /\ ProgrammablePart(Baseline) \in Targets
         /\ Usable(ProgrammablePart(Baseline))
BY UsableAssumption, PartIsTarget, PartIsUsable DEF Inv, TypeOK, UsableInv

Beginning ==
  \E k \in Kinds, target \in Targets : Usable(target) /\ Begin(k, target)

\* A step begins an operation with a well-formed target, runs it, or is the
\* environment's.
LEMMA NextSplit ==
  ASSUME Inv, [Next]_vars
  PROVE  \/ Beginning
         \/ Authorize \/ CheckTarget \/ Recheck \/ Arm
         \/ Open \/ CreateBackup \/ BeforeFirstWrite \/ WriteSector
         \/ VerifyRecovery \/ Reconcile \/ PostValidate \/ Succeed \/ Raise
         \/ Environment \/ UNCHANGED vars
BY BeginTarget
DEF Next, Run, Beginning, BeginApply, BeginBackup, BeginBaseline, Kinds

\* The phase reported follows the position of the code.
LEMMA StepPhase == Inv /\ [Next]_vars => PhaseInv'
<1> SUFFICES ASSUME Inv, [Next]_vars PROVE PhaseInv'
  OBVIOUS
<1> USE DEF mouse, disk, intent, flags, bounds, Goto, End, Fail, CancelOr,
        SourceReviewed, Captured, RecoveryFresh, MoreWrites, NextStep,
        EnsureSafe, CountStray, Inv, PhaseInv
<1>1. CASE Beginning
  BY <1>1 DEF Beginning, Begin
<1>2. CASE Authorize \/ CheckTarget \/ Recheck \/ Arm
  BY <1>2 DEF Authorize, CheckTarget, Recheck, Arm
<1>3. CASE Open \/ CreateBackup \/ BeforeFirstWrite \/ WriteSector
  BY <1>3 DEF Open, CreateBackup, BeforeFirstWrite, WriteSector
<1>4. CASE VerifyRecovery \/ Reconcile \/ PostValidate \/ Succeed \/ Raise
  BY <1>4 DEF VerifyRecovery, Reconcile, PostValidate, Succeed, Raise
<1>5. CASE Environment \/ UNCHANGED vars
  BY <1>5 DEF Environment, Crash, SwitchProfile, Replug, EditSource,
              RequestCancel, vars
<1> QED
  BY <1>1, <1>2, <1>3, <1>4, <1>5, NextSplit

\* What was reviewed stays loaded.
LEMMA StepLoaded == Inv /\ [Next]_vars => LoadedInv'
<1> SUFFICES ASSUME Inv, [Next]_vars PROVE LoadedInv'
  OBVIOUS
<1> USE DEF mouse, disk, intent, flags, bounds, Goto, End, Fail, CancelOr,
        SourceReviewed, Captured, RecoveryFresh, MoreWrites, NextStep,
        EnsureSafe, CountStray, Inv, PhaseInv, LoadedInv, TypeOK, Kinds
<1>1. CASE Beginning
  BY <1>1 DEF Beginning, Begin
<1>2. CASE Authorize \/ CheckTarget \/ Recheck \/ Arm
  BY <1>2 DEF Authorize, CheckTarget, Recheck, Arm
<1>3. CASE Open \/ CreateBackup \/ BeforeFirstWrite \/ WriteSector
  BY <1>3 DEF Open, CreateBackup, BeforeFirstWrite, WriteSector
<1>4. CASE VerifyRecovery \/ Reconcile \/ PostValidate \/ Succeed \/ Raise
  BY <1>4 DEF VerifyRecovery, Reconcile, PostValidate, Succeed, Raise
<1>5. CASE Environment \/ UNCHANGED vars
  BY <1>5 DEF Environment, Crash, SwitchProfile, Replug, EditSource,
              RequestCancel, vars
<1> QED
  BY <1>1, <1>2, <1>3, <1>4, <1>5, NextSplit

\* The flags follow the comparison and the validation.
LEMMA StepReport == Inv /\ [Next]_vars => (ReportInv /\ ReportIsTrue)'
<1> SUFFICES ASSUME Inv, [Next]_vars PROVE (ReportInv /\ ReportIsTrue)'
  OBVIOUS
<1> USE DEF mouse, disk, intent, flags, bounds, Goto, End, Fail, CancelOr,
        SourceReviewed, Captured, RecoveryFresh, MoreWrites, NextStep,
        EnsureSafe, CountStray, Inv, PhaseInv, ReportInv, LoadedInv,
        Safety, ReportIsTrue
<1>1. CASE Beginning
  BY <1>1 DEF Beginning, Begin
<1>2. CASE Authorize \/ CheckTarget \/ Recheck \/ Arm
  BY <1>2 DEF Authorize, CheckTarget, Recheck, Arm
<1>3. CASE Open \/ CreateBackup \/ BeforeFirstWrite \/ WriteSector
  BY <1>3 DEF Open, CreateBackup, BeforeFirstWrite, WriteSector
<1>4. CASE VerifyRecovery \/ Reconcile \/ PostValidate \/ Succeed \/ Raise
  BY <1>4 DEF VerifyRecovery, Reconcile, PostValidate, Succeed, Raise
<1>5. CASE Environment \/ UNCHANGED vars
  BY <1>5 DEF Environment, Crash, SwitchProfile, Replug, EditSource,
              RequestCancel, vars
<1> QED
  BY <1>1, <1>2, <1>3, <1>4, <1>5, NextSplit

\* The writes stop soon after the mouse leaves SAFE.
LEMMA StepStray == Inv /\ [Next]_vars => (StrayInv /\ AtMostOneStrayWrite)'
<1> SUFFICES ASSUME Inv, [Next]_vars PROVE (StrayInv /\ AtMostOneStrayWrite)'
  OBVIOUS
<1> USE DEF mouse, disk, intent, flags, bounds, Goto, End, Fail, CancelOr,
        SourceReviewed, Captured, RecoveryFresh, MoreWrites, NextStep,
        EnsureSafe, CountStray, Inv, PhaseInv, StrayInv, Safety,
        AtMostOneStrayWrite
<1>1. CASE Beginning
  BY <1>1 DEF Beginning, Begin
<1>2. CASE Authorize \/ CheckTarget \/ Recheck \/ Arm
  BY <1>2 DEF Authorize, CheckTarget, Recheck, Arm
<1>3. CASE Open \/ CreateBackup \/ BeforeFirstWrite \/ WriteSector
  BY <1>3 DEF Open, CreateBackup, BeforeFirstWrite, WriteSector
<1>4. CASE VerifyRecovery \/ Reconcile \/ PostValidate \/ Succeed \/ Raise
  BY <1>4 DEF VerifyRecovery, Reconcile, PostValidate, Succeed, Raise
<1>5. CASE Environment \/ UNCHANGED vars
  BY <1>5 DEF Environment, Crash, SwitchProfile, Replug, EditSource,
              RequestCancel, vars
<1> QED
  BY <1>1, <1>2, <1>3, <1>4, <1>5, NextSplit

\* Nothing is written before the backup of what was there is on disk.
LEMMA StepBackup ==
  Inv /\ [Next]_vars =>
    (BackupInv /\ UnwrittenBeforeWriting /\ CancelInv)'
<1> SUFFICES ASSUME Inv, [Next]_vars
             PROVE  (BackupInv /\ UnwrittenBeforeWriting /\ CancelInv)'
  OBVIOUS
<1> USE DEF mouse, disk, intent, flags, bounds, Goto, End, Fail, CancelOr,
        SourceReviewed, Captured, RecoveryFresh, MoreWrites, NextStep,
        EnsureSafe, CountStray, Inv, PhaseInv, BackupInv, Safety,
        UnwrittenBeforeWriting, CancelInv, WritingPhases
<1>1. CASE Beginning
  BY <1>1 DEF Beginning, Begin
<1>2. CASE Authorize \/ CheckTarget \/ Recheck \/ Arm
  BY <1>2 DEF Authorize, CheckTarget, Recheck, Arm
<1>3. CASE Open \/ CreateBackup \/ BeforeFirstWrite \/ WriteSector
  BY <1>3 DEF Open, CreateBackup, BeforeFirstWrite, WriteSector
<1>4. CASE VerifyRecovery \/ Reconcile \/ PostValidate \/ Succeed \/ Raise
  BY <1>4 DEF VerifyRecovery, Reconcile, PostValidate, Succeed, Raise
<1>5. CASE Environment \/ UNCHANGED vars
  BY <1>5 DEF Environment, Crash, SwitchProfile, Replug, EditSource,
              RequestCancel, vars
<1> QED
  BY <1>1, <1>2, <1>3, <1>4, <1>5, NextSplit

-----------------------------------------------------------------------------
(* The steps that write *)

\* A sector is written, or its write cut short.
Written ==
  /\ pc = "write"
  /\ \E after \in Remnants(flash[Order[step]], Payload(step)) :
       flash' = [flash EXCEPT ![Order[step]] = after]

\* Only a sector write, or a crash in one, changes the mouse.
LEMMA FlashSplit ==
  ASSUME Inv, [Next]_vars
  PROVE  UNCHANGED flash \/ (Written /\ UNCHANGED <<began, reviewed, checkpoint>>)
<1> USE DEF mouse, disk, intent, bounds
<1>1. CASE WriteSector \/ Crash
  BY <1>1 DEF WriteSector, Crash, Written
<1> QED
  BY <1>1, NextSplit
  DEF Beginning, Begin, Authorize, CheckTarget, Recheck, Arm, Open, CreateBackup,
      BeforeFirstWrite, VerifyRecovery, Reconcile, PostValidate, Succeed, Raise,
      Environment, SwitchProfile, Replug, EditSource, RequestCancel, vars

\* A write leaves a well-formed mouse.
LEMMA WrittenType ==
  ASSUME Inv, Written
  PROVE  flash' \in Mice
BY WriteType DEF Inv, Written

\* Types are kept.
LEMMA StepType == Inv /\ [Next]_vars => TypeOK'
<1> SUFFICES ASSUME Inv, [Next]_vars PROVE TypeOK'
  OBVIOUS
<1>1. flash' \in Mice
  BY FlashSplit, WrittenType DEF Inv, TypeOK
<1> USE <1>1 DEF mouse, disk, intent, flags, bounds, Goto, End, Fail, CancelOr,
        SourceReviewed, Captured, RecoveryFresh, MoreWrites, NextStep,
        EnsureSafe, Inv, TypeOK, Positions, Phases, Results
<1>2. CASE Beginning
  <2>1. operations' \in 0..MaxOperations /\ step' \in 1..Len(Order)
    BY <1>2, OrderLength DEF Beginning, Begin
  <2> QED
    BY <1>2, <2>1 DEF Beginning, Begin
<1>3. CASE Authorize \/ CheckTarget \/ Recheck \/ Arm
  <2>1. CASE Authorize
    BY <2>1 DEF Authorize
  <2>2. CASE CheckTarget
    BY <2>2 DEF CheckTarget
  <2>3. CASE Recheck
    BY <2>3 DEF Recheck
  <2>4. CASE Arm
    BY <2>4 DEF Arm
  <2> QED
    BY <1>3, <2>1, <2>2, <2>3, <2>4
<1>4. CASE Open \/ CreateBackup \/ BeforeFirstWrite
  <2>1. CASE Open
    BY <2>1 DEF Open
  <2>2. CASE CreateBackup
    BY <2>2 DEF CreateBackup
  <2>3. CASE BeforeFirstWrite
    BY <2>3 DEF BeforeFirstWrite
  <2> QED
    BY <1>4, <2>1, <2>2, <2>3
<1>5. CASE WriteSector \/ Crash
  <2>1. CASE WriteSector
    BY <2>1 DEF WriteSector, CountStray
  <2>2. CASE Crash
    BY <2>2 DEF Crash, CountStray
  <2> QED
    BY <1>5, <2>1, <2>2
<1>6. CASE VerifyRecovery
  <2>1. step' \in 1..Len(Order)
    BY <1>6, OrderLength DEF VerifyRecovery
  <2> QED
    BY <1>6, <2>1 DEF VerifyRecovery
<1>7. CASE Reconcile \/ PostValidate \/ Succeed \/ Raise
  <2>1. CASE Reconcile
    BY <2>1 DEF Reconcile
  <2>2. CASE PostValidate
    BY <2>2 DEF PostValidate
  <2>3. CASE Succeed
    BY <2>3 DEF Succeed
  <2>4. CASE Raise
    BY <2>4 DEF Raise
  <2> QED
    BY <1>7, <2>1, <2>2, <2>3, <2>4
<1>8. CASE SwitchProfile
  <2>1. active' \in Profiles /\ strayWrites' \in Nat
    BY <1>8 DEF SwitchProfile
  <2> QED
    BY <1>8, <2>1 DEF SwitchProfile
<1>9. CASE Replug
  <2>1. attached' \in BOOLEAN
    BY <1>9 DEF Replug
  <2> QED
    BY <1>9, <2>1 DEF Replug
<1>10. CASE EditSource
  BY <1>10 DEF EditSource
<1>11. CASE RequestCancel
  <2>1. cancelled' \in BOOLEAN
    BY <1>11 DEF RequestCancel
  <2> QED
    BY <1>11, <2>1 DEF RequestCancel
<1>12. CASE UNCHANGED vars
  BY <1>12 DEF vars
<1> QED
  BY <1>2, <1>3, <1>4, <1>5, <1>6, <1>7, <1>8, <1>9, <1>10, <1>11, <1>12,
     NextSplit
  DEF Environment

\* A sector that moves moves to its target, which was reviewed, or is torn.
LEMMA StepReviewed == Inv /\ [Next]_vars => OnlyReviewedWritten'
<1> SUFFICES ASSUME Inv, [Next]_vars, NEW s \in Sectors
             PROVE  \/ flash'[s] \in {began'[s], Torn}
                    \/ s \in Programmable /\ flash'[s] = reviewed'[s]
                    \/ s = Dir /\ flash'[s] = Staging
  BY DEF OnlyReviewedWritten
<1>1. CASE Beginning
  BY <1>1 DEF Beginning, Begin, mouse
<1>2. CASE UNCHANGED <<flash, began, reviewed>>
  BY <1>2 DEF Inv, Safety, OnlyReviewedWritten
<1>3. CASE Written /\ UNCHANGED <<began, reviewed>>
  <2>1. Order[step] \in Programmable /\ Order[step] \in Sectors
    BY OrderProgrammable DEF Inv, TypeOK
  <2>2. loaded = reviewed
    BY <1>3 DEF Inv, LoadedInv, Written
  <2>3. Payload(step) = reviewed[Order[step]]
        \/ (Order[step] = Dir /\ Payload(step) = Staging)
    BY <2>2, OrderEnds DEF Payload
  <2>4. flash \in [Sectors -> AnyContent]
    BY DEF Inv, TypeOK, Mice
  <2> QED
    BY <1>3, <2>1, <2>3, <2>4
    DEF Written, Remnants, Inv, Safety, OnlyReviewedWritten
<1>4. UNCHANGED <<began, reviewed>> \/ Beginning
  BY NextSplit
  DEF Authorize, CheckTarget, Recheck, Arm, Open, CreateBackup,
      BeforeFirstWrite, WriteSector, VerifyRecovery, Reconcile, PostValidate,
      Succeed, Raise, Environment, Crash, SwitchProfile, Replug, EditSource,
      RequestCancel, vars, intent, bounds
<1> QED
  BY <1>1, <1>2, <1>3, <1>4, FlashSplit

\* No write enables a profile over sectors it has not reached yet.
LEMMA WrittenUsable ==
  ASSUME Inv, Written
  PROVE  Usable(flash')
<1> DEFINE N == Len(Order)
<1>1. PICK after \in Remnants(flash[Order[step]], Payload(step)) :
        flash' = [flash EXCEPT ![Order[step]] = after]
  BY DEF Written
<1>2. pc = "write" /\ step \in 1..N /\ Done = step - 1
  BY DEF Inv, TypeOK, Written, Done
<1>3. /\ flash \in [Sectors -> AnyContent]
      /\ Order[step] \in Sectors /\ Dir \in Sectors
  BY <1>2, OrderProgrammable DEF Inv, TypeOK, Mice, Sectors, Programmable
<1>4. Usable(flash) /\ after \in {flash[Order[step]], Payload(step), Torn}
  BY DEF Inv, UsableInv, Remnants
<1>5. ASSUME flash'[Dir] = Staging
      PROVE  Usable(flash')
  BY <1>5 DEF Usable, Staging
<1>6. CASE after = flash[Order[step]]
  BY <1>1, <1>3, <1>4, <1>6
<1>7. CASE step = 1 /\ after # flash[Order[step]]
  <2>1. flash'[Dir] = after /\ after \in {Staging, Torn}
    BY <1>1, <1>3, <1>4, <1>7, OrderEnds DEF Payload
  <2> QED
    BY <2>1, <1>5 DEF Usable
<1>8. CASE step \in 2..(N - 1)
  <2>1. flash[Dir] = Staging
    BY <1>2, <1>8, OrderLength DEF Inv, WrittenInv
  <2>2. Order[step] # Dir
    BY <1>8, OrderEnds
  <2> QED
    BY <1>1, <1>3, <2>1, <2>2, <1>5
<1>9. CASE step = N /\ step # 1 /\ after # flash[Order[step]]
  <2>1. Order[step] = Dir /\ flash'[Dir] = after /\ after \in {loaded[Dir], Torn}
    BY <1>1, <1>3, <1>4, <1>9, OrderEnds DEF Payload
  <2>2. ASSUME NEW s \in Macros \cup Optional
        PROVE  flash'[s] = loaded[s]
    <3>1. PICK i \in 2..(N - 1) : Order[i] = s
      BY OrderCovers
    <3>2. i <= Done
      BY <1>2, <1>9, OrderLength
    <3>3. flash[s] = loaded[s]
      BY <1>2, <3>1, <3>2 DEF Inv, WrittenInv
    <3>4. s # Dir
      BY <3>1, OrderEnds
    <3> QED
      BY <1>1, <1>3, <2>1, <3>3, <3>4
  <2>3. Usable(loaded)
    BY <1>2 DEF Inv, UsableInv, LoadedInv
  <2>4. CASE after = Torn
    BY <2>1, <2>4 DEF Usable
  <2>5. CASE after = loaded[Dir]
    BY <2>1, <2>2, <2>3, <2>5 DEF Usable
  <2> QED
    BY <2>1, <2>4, <2>5
<1> QED
  BY <1>2, <1>6, <1>7, <1>8, <1>9

\* The mouse, the backup and the target stay usable.
LEMMA StepUsable == Inv /\ [Next]_vars => UsableInv'
<1> SUFFICES ASSUME Inv, [Next]_vars PROVE UsableInv'
  OBVIOUS
<1>1. Usable(flash')
  BY FlashSplit, WrittenUsable DEF Inv, UsableInv
<1>2. checkpoint' \in {checkpoint, flash}
  BY NextSplit
  DEF Beginning, Begin, Authorize, CheckTarget, Recheck, Arm, Open, CreateBackup,
      BeforeFirstWrite, WriteSector, VerifyRecovery, Reconcile, PostValidate,
      Succeed, Raise, Environment, Crash, SwitchProfile, Replug, EditSource,
      RequestCancel, vars, disk, Captured
<1>3. reviewed' = reviewed \/ Usable(reviewed')
  BY NextSplit
  DEF Beginning, Begin, Authorize, CheckTarget, Recheck, Arm, Open, CreateBackup,
      BeforeFirstWrite, WriteSector, VerifyRecovery, Reconcile, PostValidate,
      Succeed, Raise, Environment, Crash, SwitchProfile, Replug, EditSource,
      RequestCancel, vars, intent
<1> QED
  BY <1>1, <1>2, <1>3 DEF Inv, UsableInv

\* The sectors passed hold their targets.
LEMMA StepWritten == Inv /\ [Next]_vars => WrittenInv'
<1> SUFFICES ASSUME Inv, [Next]_vars, pc' \in {"write", "verify"}
             PROVE  WrittenInv'
  BY DEF WrittenInv
<1> DEFINE N == Len(Order)
<1>1. step \in 1..N /\ N \in Nat /\ N >= 2
  BY OrderLength DEF Inv, TypeOK
<1> USE DEF mouse, disk, intent, flags, bounds, Goto, End, Fail, CancelOr,
        SourceReviewed, Captured, RecoveryFresh, MoreWrites, NextStep
<1>2. CASE BeforeFirstWrite
  <2>1. step' = 1 /\ pc' = "write"
    BY <1>2 DEF BeforeFirstWrite, Inv, PhaseInv
  <2> QED
    BY <1>1, <2>1 DEF WrittenInv, Done
<1>3. CASE WriteSector
  <2>1. /\ pc = "write" /\ pc' = "verify" /\ step' = step /\ loaded' = loaded
        /\ Done = step - 1 /\ Done' = step
        /\ flash' = [flash EXCEPT ![Order[step]] = Payload(step)]
    BY <1>3 DEF WriteSector, Permitted, Done
  <2>2. /\ flash \in [Sectors -> AnyContent]
        /\ Order[step] \in Sectors /\ Dir \in Sectors
    BY <1>1, OrderProgrammable DEF Inv, TypeOK, Mice, Sectors, Programmable
  <2>3. flash'[Order[step]] = Payload(step)
    BY <2>1, <2>2
  <2>4. step < N => flash'[Dir] = Staging
    BY <1>1, <2>1, <2>2, <2>3, OrderEnds DEF Payload, Inv, WrittenInv
  <2>5. step = N => flash'[Dir] = loaded[Dir]
    BY <1>1, <2>3, OrderEnds DEF Payload
  <2>6. ASSUME NEW i \in 2..(N - 1), i <= step
        PROVE  flash'[Order[i]] = loaded[Order[i]]
    <3>1. Order[i] \in Sectors /\ Order[i] # Dir
      BY <1>1, OrderEnds, OrderProgrammable
    <3>2. i < step => flash[Order[i]] = loaded[Order[i]]
      BY <1>1, <2>1 DEF Inv, WrittenInv
    <3>3. Order[step] = Order[i] => Payload(step) = loaded[Order[i]]
      BY <3>1, OrderEnds DEF Payload
    <3> QED
      BY <1>1, <2>1, <2>2, <2>6, <3>1, <3>2, <3>3
  <2> QED
    BY <2>1, <2>4, <2>5, <2>6 DEF WrittenInv
<1>4. CASE VerifyRecovery
  <2>1. /\ pc = "verify" /\ pc' = "write"
        /\ Done' = Done /\ UNCHANGED <<flash, loaded>>
    BY <1>1, <1>4 DEF VerifyRecovery, Done
  <2> QED
    BY <2>1 DEF Inv, WrittenInv
<1>5. CASE SwitchProfile \/ Replug \/ EditSource \/ RequestCancel \/ UNCHANGED vars
  BY <1>5 DEF SwitchProfile, Replug, EditSource, RequestCancel, vars,
              Inv, WrittenInv, Done
<1> QED
  BY <1>2, <1>3, <1>4, <1>5, NextSplit
  DEF Beginning, Begin, Authorize, CheckTarget, Recheck, Arm, Open, CreateBackup,
      Reconcile, PostValidate, Succeed, Raise, Environment, Crash, EnsureSafe

\* Every step preserves the invariant.
LEMMA StepInv == Inv /\ [Next]_vars => Inv'
BY StepType, StepPhase, StepLoaded, StepWritten, StepUsable, StepReport,
   StepBackup, StepStray, StepReviewed
DEF Inv, Safety, EnabledProfilesUsable, UsableInv

-----------------------------------------------------------------------------
(* The theorems *)

\* The invariant holds throughout.
THEOREM Invariance == Spec => []Inv
BY InitInv, StepInv, PTL DEF Spec

\* Every variable of an operation keeps its type.
THEOREM TypeCorrect == Spec => []TypeOK
<1>1. Inv => TypeOK
  BY DEF Inv, Safety
<1> QED
  BY <1>1, Invariance, PTL

\* In every state, after any crash and any number of operations, an optional
\* profile the directory enables finds its sector and the macro store whole.
THEOREM ProfilesStayUsable == Spec => []EnabledProfilesUsable
<1>1. Inv => EnabledProfilesUsable
  BY DEF Inv, Safety
<1> QED
  BY <1>1, Invariance, PTL

\* An operation that ends as cancelled has written nothing.
THEOREM CancellationIsClean == Spec => []CancelledWroteNothing
<1>1. Inv => CancelledWroteNothing
  BY DEF Inv, Safety, UnwrittenBeforeWriting, CancelInv, CancelledWroteNothing
<1> QED
  BY <1>1, Invariance, PTL

\* Whatever happens to the source, only reviewed bytes reach the mouse.
THEOREM OnlyReviewed == Spec => []OnlyReviewedWritten
<1>1. Inv => OnlyReviewedWritten
  BY DEF Inv, Safety
<1> QED
  BY <1>1, Invariance, PTL

\* At most one sector is written after the mouse has left SAFE.
THEOREM WritesStopOutsideSafe == Spec => []AtMostOneStrayWrite
<1>1. Inv => AtMostOneStrayWrite
  BY DEF Inv, Safety
<1> QED
  BY <1>1, Invariance, PTL

\* The flags of a result tell the truth about the mouse.
THEOREM ReportsAreTrue == Spec => []ReportIsTrue
<1>1. Inv => ReportIsTrue
  BY DEF Inv, Safety
<1> QED
  BY <1>1, Invariance, PTL

-----------------------------------------------------------------------------
(* What is written onto, and the way back *)

\* Past the first check the mouse passes it, and a mouse that is written passed
\* it before; the recovery sectors are never written.
GateInv ==
  /\ pc \notin {"idle", "authorize"} => RecoveryValid(flash)
  /\ phase \in WritingPhases => RecoveryValid(began)
  /\ \A r \in Recovery : flash[r] = began[r]

\* Bytes are written onto no mouse but one whose recovery sectors are the
\* baseline's and whose directory is whole.
OnlyValidatedWritten == [][flash' # flash => RecoveryValid(flash)]_vars

RecoveryUntouched == [][\A r \in Recovery : flash'[r] = flash[r]]_vars

\* A sector write passes the recovery sectors by.
LEMMA WrittenKeepsRecovery ==
  ASSUME Inv, Written
  PROVE  \A r \in Recovery : flash'[r] = flash[r]
<1>1. Order[step] \in Programmable
  BY OrderProgrammable DEF Inv, TypeOK
<1> QED
  BY <1>1 DEF Written, Inv, TypeOK, Mice, Sectors

\* No step touches them.
LEMMA StepKeepsRecovery ==
  ASSUME Inv, [Next]_vars
  PROVE  \A r \in Recovery : flash'[r] = flash[r]
BY FlashSplit, WrittenKeepsRecovery

\* A directory that was written completely is whole.
LEMMA PayloadIsWhole ==
  ASSUME Inv, Order[step] = Dir
  PROVE  Payload(step) # Torn
<1>1. Staging \in Directories
  BY DEF Staging, Directories
<1>2. loaded[Dir] # Torn
  BY DEF Inv, TypeOK, Targets, Programmable, Macros
<1> QED
  BY <1>1, <1>2 DEF Payload

\* The mouse passes the recovery check from the first one on.
LEMMA StepGate == Inv /\ GateInv /\ [Next]_vars => GateInv'
<1> SUFFICES ASSUME Inv, GateInv, [Next]_vars PROVE GateInv'
  OBVIOUS
<1>1. \A r \in Recovery : flash'[r] = flash[r]
  BY StepKeepsRecovery
<1> USE DEF mouse, disk, intent, flags, bounds, Goto, End, Fail, CancelOr,
        SourceReviewed, Captured, RecoveryFresh, MoreWrites, NextStep, EnsureSafe
<1>2. CASE Beginning
  BY <1>2 DEF Beginning, Begin, GateInv, WritingPhases
<1>3. ASSUME UNCHANGED began
      PROVE  /\ \A r \in Recovery : flash'[r] = began'[r]
             /\ phase' \in WritingPhases => RecoveryValid(began')
  <2>1. \A r \in Recovery : flash'[r] = began'[r]
    BY <1>1, <1>3 DEF GateInv
  <2>2. phase' \in WritingPhases => phase \in WritingPhases \/ BeforeFirstWrite
    BY NextSplit
    DEF Beginning, Begin, Authorize, CheckTarget, Recheck, Arm, Open, CreateBackup,
        WriteSector, VerifyRecovery, Reconcile, PostValidate, Succeed,
        Raise, Environment, Crash, SwitchProfile, Replug, EditSource, RequestCancel,
        vars, WritingPhases, Inv, PhaseInv
  <2>3. BeforeFirstWrite => RecoveryValid(began')
    BY <1>3 DEF BeforeFirstWrite, GateInv, Inv, Safety, UnwrittenBeforeWriting,
               PhaseInv, WritingPhases
  <2> QED
    BY <1>3, <2>1, <2>2, <2>3 DEF GateInv
<1>4. CASE WriteSector
  <2>1. CASE pc' = "verify"
    <3>1. flash' = [flash EXCEPT ![Order[step]] = Payload(step)]
      BY <1>4, <2>1 DEF WriteSector, Permitted
    <3>2. flash \in [Sectors -> AnyContent] /\ Order[step] \in Sectors
      BY OrderProgrammable DEF Inv, TypeOK, Mice
    <3>3. RecoveryValid(flash)
      BY <1>4 DEF WriteSector, GateInv
    <3>4. flash'[Dir] # Torn
      BY <3>1, <3>2, <3>3, PayloadIsWhole DEF RecoveryValid
    <3>5. RecoveryValid(flash')
      BY <1>1, <3>3, <3>4 DEF RecoveryValid
    <3> QED
      BY <1>3, <1>4, <3>5 DEF WriteSector, GateInv
  <2>2. CASE pc' = "idle"
    BY <1>3, <1>4, <2>2 DEF WriteSector, GateInv
  <2> QED
    BY <1>4, <2>1, <2>2 DEF WriteSector
<1>5. CASE Crash
  BY <1>3, <1>5 DEF Crash, GateInv
<1>6. CASE Authorize
  BY <1>3, <1>6 DEF Authorize, GateInv
<1>7. CASE CheckTarget \/ Recheck \/ Arm \/ Open \/ CreateBackup \/ BeforeFirstWrite
  BY <1>3, <1>7
  DEF CheckTarget, Recheck, Arm, Open, CreateBackup, BeforeFirstWrite, GateInv
<1>8. CASE VerifyRecovery \/ Reconcile \/ PostValidate \/ Succeed \/ Raise
  BY <1>3, <1>8
  DEF VerifyRecovery, Reconcile, PostValidate, Succeed, Raise, GateInv
<1>9. CASE SwitchProfile \/ Replug \/ EditSource \/ RequestCancel \/ UNCHANGED vars
  BY <1>3, <1>9
  DEF SwitchProfile, Replug, EditSource, RequestCancel, vars, GateInv
<1> QED
  BY <1>2, <1>4, <1>5, <1>6, <1>7, <1>8, <1>9, NextSplit DEF Environment

\* The invariant of the gate holds throughout.
LEMMA Gate == Spec => [](Inv /\ GateInv)
<1>1. Init => GateInv
  BY DEF Init, GateInv, WritingPhases
<1> QED
  BY <1>1, StepGate, Invariance, PTL DEF Spec

\* Once the writes begin, the safety backup on disk is the mouse before them; it
\* passes the recovery check, and unless its directory is torn so does the mouse.
THEOREM BackupIsExact == Spec => []BackupIsRestorePoint
<1>1. Inv /\ GateInv => BackupIsRestorePoint
  BY DEF Inv, BackupInv, GateInv, BackupIsRestorePoint, RecoveryValid
<1> QED
  BY <1>1, Gate, PTL

\* Every operation passes the recovery sectors by, whatever it writes, in
\* whichever order and wherever it is cut short.
THEOREM RecoveryIsUntouched == Spec => RecoveryUntouched
<1>1. Inv /\ [Next]_vars => [\A r \in Recovery : flash'[r] = flash[r]]_vars
  BY StepKeepsRecovery
<1> QED
  BY <1>1, Invariance, PTL DEF Spec, RecoveryUntouched

\* No operation writes a mouse, and no crash leaves one changed, but after the
\* recovery check has passed on it: a mouse whose directory was left torn, or
\* whose recovery sectors differ from the baseline, stays as it is.
THEOREM OthersAreLeftAlone == Spec => OnlyValidatedWritten
<1>1. Inv /\ GateInv /\ [Next]_vars => [flash' # flash => RecoveryValid(flash)]_vars
  BY FlashSplit DEF Written, GateInv
<1> QED
  BY <1>1, Gate, PTL DEF Spec, OnlyValidatedWritten

-----------------------------------------------------------------------------
(* An operation is bounded *)

\* The steps an operation may still take: each sector is written and verified,
\* and what comes before and after the writes comes once.
Places ==
  [idle |-> 0, save |-> 1, validate |-> 2, reconcile |-> 3, verify |-> 4,
   write |-> 5, first |-> 6, backup |-> 7, open |-> 8, arm |-> 9,
   recheck |-> 10, target |-> 11, authorize |-> 12]

StepsLeft ==
  Places[pc] + IF pc \in {"idle", "save", "validate", "reconcile"}
                 THEN 0 ELSE 2 * (Len(Order) - step)

StepsBounded ==
  /\ StepsLeft \in 0 .. 2 * Len(Order) + 10
  /\ StepsLeft = 0 <=> pc = "idle"

StepsFall ==
  [][/\ Run \/ Crash => StepsLeft' < StepsLeft
     /\ SwitchProfile \/ Replug \/ EditSource \/ RequestCancel =>
          StepsLeft' = StepsLeft]_vars

LEMMA LeftBounded == Inv => StepsBounded
<1> SUFFICES ASSUME Inv PROVE StepsBounded
  OBVIOUS
<1>1. PICK n \in Nat : n = Len(Order) /\ n >= 2 /\ step \in 1..n
  BY OrderLength DEF Inv, TypeOK
<1>2. /\ Places[pc] \in 0..12
      /\ Places[pc] = 0 <=> pc = "idle"
  BY DEF Places, Inv, TypeOK, Positions
<1>3. PICK k \in 0..12 : k = Places[pc]
  BY <1>2
<1>4. PICK w \in 0 .. 2 * n - 2 :
        w = IF pc \in {"idle", "save", "validate", "reconcile"}
              THEN 0 ELSE 2 * (n - step)
  BY <1>1
<1>5. StepsLeft = k + w
  BY <1>1, <1>3, <1>4 DEF StepsLeft
<1>6. k = 0 => w = 0
  BY <1>2, <1>3, <1>4
<1>7. k + w \in 0 .. 2 * n + 10 /\ (k + w = 0 <=> k = 0)
  BY <1>1, <1>6
<1> QED
  BY <1>1, <1>2, <1>3, <1>5, <1>7 DEF StepsBounded

\* Each step of the code moves on, in the one loop to the next sector.
LEMMA StepMoves ==
  ASSUME Inv, Run
  PROVE  \/ pc # "idle" /\ pc' = "idle"
         \/ /\ step' = step
            /\ \/ pc = "authorize" /\ pc' = "target"
               \/ pc = "target" /\ pc' \in {"recheck", "arm"}
               \/ pc = "recheck" /\ pc' = "arm"
               \/ pc = "arm" /\ pc' = "open"
               \/ pc = "open" /\ pc' = "backup"
               \/ pc = "backup" /\ pc' = "first"
               \/ pc = "first" /\ pc' = "write"
               \/ pc = "write" /\ pc' = "verify"
               \/ pc = "verify" /\ pc' = "reconcile"
               \/ pc = "reconcile" /\ pc' = "validate"
               \/ pc = "validate" /\ pc' = "save"
         \/ pc = "verify" /\ pc' = "write" /\ step < Len(Order) /\ step' = step + 1
<1> USE DEF Goto, End, Fail, CancelOr, MoreWrites, NextStep
<1>1. CASE Authorize \/ CheckTarget \/ Recheck \/ Arm
  BY <1>1 DEF Authorize, CheckTarget, Recheck, Arm
<1>2. CASE Open \/ CreateBackup \/ BeforeFirstWrite \/ WriteSector
  BY <1>2 DEF Open, CreateBackup, BeforeFirstWrite, WriteSector
<1>3. CASE VerifyRecovery \/ Reconcile \/ PostValidate \/ Succeed \/ Raise
  BY <1>3 DEF VerifyRecovery, Reconcile, PostValidate, Succeed, Raise, flags
<1> QED
  BY <1>1, <1>2, <1>3 DEF Run

LEMMA StepLowers ==
  ASSUME Inv, Inv', Run \/ Crash
  PROVE  StepsLeft' < StepsLeft
<1>1. PICK n \in Nat : n = Len(Order) /\ step \in 1..n
  BY OrderLength DEF Inv, TypeOK
<1>2. Len(Order)' = n
  BY <1>1 DEF Order
<1>3. CASE pc # "idle" /\ pc' = "idle"
  <2>1. StepsLeft' = 0
    BY <1>3 DEF StepsLeft, Places
  <2> QED
    BY <1>1, <1>3, <2>1, LeftBounded DEF StepsBounded
<1>4. Crash => pc # "idle" /\ pc' = "idle"
  BY DEF Crash, End
<1>5. CASE Run /\ ~(pc # "idle" /\ pc' = "idle")
  <2>1. PICK k \in 0..12, j \in 0..12 : k = Places[pc] /\ j = Places[pc']
    <3>1. pc \in Positions /\ pc' \in Positions
      BY DEF Inv, TypeOK
    <3>2. \A p \in Positions : Places[p] \in 0..12
      BY DEF Places, Positions
    <3> QED
      BY <3>1, <3>2
  <2>2. PICK w \in Int :
          w = IF pc \in {"idle", "save", "validate", "reconcile"}
                THEN 0 ELSE 2 * (n - step)
    BY <1>1
  <2>3. PICK v \in Int :
          v = IF pc' \in {"idle", "save", "validate", "reconcile"}
                THEN 0 ELSE 2 * (n - step')
    BY <1>1, <1>2 DEF Inv, TypeOK
  <2>4. \/ j < k /\ v <= w
        \/ k = 4 /\ j = 5 /\ v = w - 2
    <3>1. CASE pc = "verify" /\ pc' = "write" /\ step' = step + 1
      BY <1>1, <2>1, <2>2, <2>3, <3>1 DEF Places
    <3>2. CASE step' = step /\ ~(pc = "verify" /\ pc' = "write")
      <4>1. j < k
        BY <1>5, <2>1, <3>2, StepMoves DEF Places
      <4>2. v <= w
        BY <1>1, <1>5, <2>2, <2>3, <3>2, StepMoves
      <4> QED
        BY <4>1, <4>2
    <3> QED
      BY <1>5, <3>1, <3>2, StepMoves
  <2>5. StepsLeft = k + w /\ StepsLeft' = j + v
    BY <1>1, <1>2, <2>1, <2>2, <2>3 DEF StepsLeft, Places
  <2> QED
    BY <2>4, <2>5
<1> QED
  BY <1>3, <1>4, <1>5

\* An operation takes at most twice as many steps as it writes sectors, and ten
\* more: each brings it nearer to its end, and neither the user at the mouse
\* nor an edit nor a request to cancel takes it back.
THEOREM OperationIsBounded == Spec => []StepsBounded /\ StepsFall
<1>1. Inv /\ Inv' =>
        [ /\ Run \/ Crash => StepsLeft' < StepsLeft
          /\ SwitchProfile \/ Replug \/ EditSource \/ RequestCancel =>
               StepsLeft' = StepsLeft]_vars
  <2>1. SwitchProfile \/ Replug \/ EditSource \/ RequestCancel =>
          StepsLeft' = StepsLeft
    BY DEF SwitchProfile, Replug, EditSource, RequestCancel, StepsLeft, Order
  <2> QED
    BY <2>1, StepLowers
<1> QED
  BY <1>1, LeftBounded, Invariance, PTL DEF StepsFall
=============================================================================
