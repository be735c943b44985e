--------------------------- MODULE BaselineStore ----------------------------
(***************************************************************************)
(* The store of one unit's baseline (baseline.py over private_io.py):      *)
(* `setup` stages a captured image and commits it, or replaces the         *)
(* directory that is there by two renames; whoever asks for the active     *)
(* baseline recovers a renamed copy when the directory is missing.         *)
(*                                                                         *)
(* Processes share the file system.  setup, use and most readers hold the  *)
(* operation lock, `baseline show` and others (kind "show") do not.  A     *)
(* process dies at any point; a rename, a removal or the fsync after them  *)
(* may fail; rmtree leaves a half-removed directory meanwhile.             *)
(*                                                                         *)
(* Staging directories are never read and are left out, and so are the     *)
(* baselines of other units, in directories of their own.                  *)
(***************************************************************************)
EXTENDS Naturals, Sequences, FiniteSets

CONSTANTS
  Processes,
  NoProcess,      \* the operation lock is free
  Images,         \* captures of the unit that setup can make
  Absent,         \* no directory
  Broken,         \* a directory its manifest hashes do not validate
  MaxSetups       \* bound: setups begun in a behaviour

ASSUME ContentsAssumption ==
  Absent \notin Images /\ Broken \notin Images /\ Absent # Broken
ASSUME ProcessesAssumption == NoProcess \notin Processes
ASSUME BoundAssumption == MaxSetups \in Nat

VARIABLES
  root,           \* the baseline directory
  previous,       \* .previous-* directories, in the order of their creation
  active,         \* the active pointer names this baseline
  lock,           \* holder of exclusive_operation_lock
  pc,             \* position of every process
  call,           \* what it was asked to do
  slot,           \* the .previous directory it displaced or has chosen
  outcome,        \* how its last call ended
  setups,         \* setups begun (bound)
  replaced,       \* history: the baseline before the last replacement
  accidents       \* history: replacements disturbed so far, up to 2

store == <<root, previous, active>>
history == <<setups, replaced, accidents>>
vars == <<store, lock, pc, call, slot, outcome, history>>

Calls ==
  [kind : {"setup"}, replace : BOOLEAN, image : Images]
    \cup [kind : {"use", "read", "show"}]

Positions == {"idle", "check", "stage", "publish", "unpublish", "rollback",
              "cleanup", "activate", "look", "choose", "recover", "load"}
Replacing == {"publish", "unpublish", "rollback", "cleanup"}
Outcomes == {"none", "busy", "failed", "crashed", "refused", "installed",
             "used", "loaded"}

TypeOK ==
  /\ root \in Images \cup {Absent, Broken}
  /\ previous \in Seq(Images \cup {Absent, Broken})
  /\ active \in BOOLEAN
  /\ lock \in Processes \cup {NoProcess}
  /\ pc \in [Processes -> Positions]
  /\ call \in [Processes -> Calls]
  /\ slot \in [Processes -> Nat]
  /\ outcome \in [Processes -> Outcomes]
  /\ setups \in 0..MaxSetups
  /\ replaced \subseteq Images
  /\ accidents \in 0..2
  /\ lock # NoProcess => pc[lock] # "idle"

Init ==
  /\ root = Absent /\ previous = << >> /\ active = FALSE
  /\ lock = NoProcess
  /\ pc = [p \in Processes |-> "idle"]
  /\ call = [p \in Processes |-> [kind |-> "read"]]
  /\ slot = [p \in Processes |-> 0]
  /\ outcome = [p \in Processes |-> "none"]
  /\ setups = 0 /\ replaced = {} /\ accidents = 0

-----------------------------------------------------------------------------
(* What is on disk *)

\* The .previous directories that _load_baseline_for_fingerprint accepts
Intact == {i \in 1..Len(previous) : previous[i] \in Images}
Newest == {i \in Intact : \A j \in Intact : j <= i}

\* The baseline a reader should find: the directory, or the copy a replacement
\* put aside.  (A set of at most one image.)
Designated ==
  IF root \in Images THEN {root} ELSE {previous[i] : i \in Newest}

-----------------------------------------------------------------------------
(* Control *)

Goto(p, position) ==
  /\ pc' = [pc EXCEPT ![p] = position]
  /\ UNCHANGED <<lock, outcome>>

\* return or raise: the context manager of the lock is left
Return(p, status) ==
  /\ pc' = [pc EXCEPT ![p] = "idle"]
  /\ outcome' = [outcome EXCEPT ![p] = status]
  /\ lock' = IF lock = p THEN NoProcess ELSE lock

\* The operating system refuses, in the middle of a replacement.
Accident == accidents' = IF accidents = 2 THEN 2 ELSE accidents + 1
Smooth == UNCHANGED accidents

Move(i, content) ==
  /\ root' = content
  /\ previous' = [previous EXCEPT ![i] = Absent]

-----------------------------------------------------------------------------
(* Calls *)

Entry(kind) ==
  CASE kind = "setup" -> "check"
    [] kind = "use" -> "activate"
    [] OTHER -> "look"

\* The OS lock is tried once; "show" goes without.
Start(p, c) ==
  /\ pc[p] = "idle"
  /\ call' = [call EXCEPT ![p] = c]
  /\ IF c.kind = "show" \/ lock = NoProcess
       THEN /\ pc' = [pc EXCEPT ![p] = Entry(c.kind)]
            /\ outcome' = [outcome EXCEPT ![p] = "none"]
            /\ lock' = IF c.kind = "show" THEN lock ELSE p
       ELSE Return(p, "busy")
  /\ UNCHANGED <<store, slot, replaced, accidents>>

StartSetup(p) ==
  /\ setups < MaxSetups
  /\ setups' = setups + 1
  /\ \E c \in Calls : c.kind = "setup" /\ Start(p, c)

StartUse(p) == Start(p, [kind |-> "use"]) /\ UNCHANGED setups

StartRead(p) == Start(p, [kind |-> "read"]) /\ UNCHANGED setups

StartShow(p) == Start(p, [kind |-> "show"]) /\ UNCHANGED setups

-----------------------------------------------------------------------------
(* create_baseline, with the lock held *)

\* A baseline that exists is compared, unless it is to be replaced.
\* (Mutant: it is taken for the captured one.)
CheckExists(p) ==
  /\ pc[p] = "check"
  /\ Goto(p, IF root = Absent \/ call[p].replace THEN "stage" ELSE "activate")
  /\ UNCHANGED <<store, call, slot, history>>
Check(p) ==
  /\ pc[p] = "check"
  /\ IF root = Absent \/ call[p].replace THEN Goto(p, "stage")
     ELSE IF root = call[p].image THEN Goto(p, "activate")
     ELSE Return(p, "refused")
  /\ UNCHANGED <<store, call, slot, history>>

\* The stage is complete: private_commit_dir.
Commit(p) ==
  /\ pc[p] = "stage" /\ root = Absent
  /\ root' = call[p].image
  /\ Goto(p, "activate") \/ Return(p, "failed")
  /\ UNCHANGED <<previous, active, call, slot, history>>

\* private_replace_dir puts the old directory aside; an error of the fsync that
\* follows is not rolled back.
\* (Mutant: the old directory is removed instead.)
DisplaceByRemoving(p) ==
  /\ pc[p] = "stage" /\ root # Absent
  /\ root' = Absent
  /\ previous' = Append(previous, Broken)
  /\ slot' = [slot EXCEPT ![p] = Len(previous) + 1]
  /\ replaced' = Designated
  /\ \/ Goto(p, "publish") /\ Smooth
     \/ Return(p, "failed") /\ Accident
  /\ UNCHANGED <<active, call, setups>>
Displace(p) ==
  /\ pc[p] = "stage" /\ root # Absent
  /\ root' = Absent
  /\ previous' = Append(previous, root)
  /\ slot' = [slot EXCEPT ![p] = Len(previous) + 1]
  /\ replaced' = Designated
  /\ \/ Goto(p, "publish") /\ Smooth
     \/ Return(p, "failed") /\ Accident
  /\ UNCHANGED <<active, call, setups>>

\* The stage is renamed into place, unless something is there or the rename
\* fails; what follows the rename may fail as well.
Publish(p) ==
  /\ pc[p] = "publish"
  /\ \/ /\ root = Absent
        /\ root' = call[p].image
        /\ \/ Goto(p, "cleanup") /\ Smooth
           \/ Goto(p, "unpublish") /\ Accident
     \/ /\ UNCHANGED root
        /\ Goto(p, "unpublish")
        /\ IF root = Absent THEN Accident ELSE Smooth
  /\ UNCHANGED <<previous, active, call, slot, setups, replaced>>

\* Whatever is in place is removed, in steps that may fail half-way.
\* (Mutant: the rename is tried again instead.)
PublishAgain(p) ==
  /\ pc[p] = "unpublish"
  /\ Goto(p, "publish")
  /\ UNCHANGED <<store, call, slot, history>>
Unpublish(p) ==
  /\ pc[p] = "unpublish"
  /\ \/ root = Absent /\ UNCHANGED root /\ Goto(p, "rollback") /\ Smooth
     \/ root \in Images /\ root' = Broken /\ Goto(p, "unpublish") /\ Smooth
     \/ root = Broken /\ root' = Absent /\ Goto(p, "rollback") /\ Smooth
     \/ root # Absent /\ UNCHANGED root /\ Return(p, "failed") /\ Accident
  /\ UNCHANGED <<previous, active, call, slot, setups, replaced>>

\* The directory put aside is renamed back.
Rollback(p) ==
  /\ pc[p] = "rollback"
  /\ \/ /\ root = Absent /\ previous[slot[p]] # Absent
        /\ Move(slot[p], previous[slot[p]])
        /\ Smooth
     \/ UNCHANGED <<root, previous>> /\ Accident
  /\ Return(p, "failed")
  /\ UNCHANGED <<active, call, slot, setups, replaced>>

\* The directory put aside is removed, in steps that may fail half-way.
Cleanup(p) ==
  /\ pc[p] = "cleanup"
  /\ \/ /\ previous[slot[p]] \in Images
        /\ previous' = [previous EXCEPT ![slot[p]] = Broken]
        /\ Goto(p, "cleanup") /\ Smooth
     \/ /\ previous[slot[p]] = Broken
        /\ previous' = [previous EXCEPT ![slot[p]] = Absent]
        /\ Goto(p, "activate") /\ Smooth
     \/ UNCHANGED previous /\ Return(p, "failed") /\ Accident
  /\ UNCHANGED <<root, active, call, slot, setups, replaced>>

\* activate, for setup and for `baseline use`; setup then completes the
\* manifest, which may fail.
Activate(p) ==
  /\ pc[p] = "activate"
  /\ \/ /\ root \in Images
        /\ active' = TRUE
        /\ \/ Return(p, IF call[p].kind = "setup" THEN "installed" ELSE "used")
           \/ call[p].kind = "setup" /\ Return(p, "failed")
     \/ /\ root \notin Images
        /\ Return(p, "refused")
        /\ UNCHANGED active
  /\ UNCHANGED <<root, previous, call, slot, history>>

-----------------------------------------------------------------------------
(* active_baseline_root *)

Look(p) ==
  /\ pc[p] = "look"
  /\ IF ~active THEN Return(p, "refused")
     ELSE Goto(p, IF root = Absent THEN "choose" ELSE "load")
  /\ UNCHANGED <<store, call, slot, history>>

\* Exactly one .previous directory must validate.
Choose(p) ==
  /\ pc[p] = "choose"
  /\ \/ /\ \E i \in Intact : Intact = {i} /\ slot' = [slot EXCEPT ![p] = i]
        /\ Goto(p, "recover")
     \/ /\ Cardinality(Intact) # 1
        /\ Return(p, "refused")
        /\ UNCHANGED slot
  /\ UNCHANGED <<store, call, history>>

\* private_commit_dir moves the copy, unless a directory has appeared.
Recover(p) ==
  /\ pc[p] = "recover"
  /\ IF root = Absent /\ previous[slot[p]] # Absent
       THEN Move(slot[p], previous[slot[p]]) /\ Goto(p, "load")
       ELSE UNCHANGED <<root, previous>> /\ Return(p, "failed")
  /\ UNCHANGED <<active, call, slot, history>>

\* Nothing is returned that its manifest does not validate.
Load(p) ==
  /\ pc[p] = "load"
  /\ Return(p, IF root \in Images THEN "loaded" ELSE "refused")
  /\ UNCHANGED <<store, call, slot, history>>

\* Any other exception, with nothing changed on disk
Raise(p) ==
  /\ pc[p] \in Positions \ (Replacing \cup {"idle"})
  /\ Return(p, "failed")
  /\ UNCHANGED <<store, call, slot, history>>

-----------------------------------------------------------------------------
\* The process dies; the operating system frees its lock.
Crash(p) ==
  /\ pc[p] # "idle"
  /\ Return(p, "crashed")
  /\ IF pc[p] \in Replacing THEN Accident ELSE Smooth
  /\ UNCHANGED <<store, call, slot, setups, replaced>>

Work(p) ==
  \/ Check(p) \/ Commit(p) \/ Displace(p) \/ Publish(p) \/ Unpublish(p)
  \/ Rollback(p) \/ Cleanup(p) \/ Activate(p)
  \/ Look(p) \/ Choose(p) \/ Recover(p) \/ Load(p) \/ Raise(p)

\* Everything that is done with the operation lock held
LockedNext ==
  \E p \in Processes :
    StartSetup(p) \/ StartUse(p) \/ StartRead(p) \/ Work(p) \/ Crash(p)

Next == LockedNext \/ \E p \in Processes : StartShow(p)

LockedSpec == Init /\ [][LockedNext]_vars
FairLockedSpec == LockedSpec /\ \A p \in Processes : WF_vars(Work(p))

Spec == Init /\ [][Next]_vars

\* No call blocks, so a process that lives on returns.
FairSpec == Spec /\ \A p \in Processes : WF_vars(Work(p))

-----------------------------------------------------------------------------
(* Properties *)

\* As long as readers hold the lock, the baseline is never lost: it changes in
\* one step to the capture of a setup, or back to what that setup displaced,
\* whatever fails and wherever processes die.
Register == INSTANCE BaselineRegister
              WITH baseline <- Designated, before <- replaced
KeepsBaseline == Register!Spec

\* One accident in all replacements so far leaves the active baseline in its
\* directory, or in exactly one copy that the next reader recovers.
RecoversFromOneAccident ==
  (active /\ accidents <= 1 /\ \A p \in Processes : pc[p] \notin Replacing) =>
    root \in Images \/ (root = Absent /\ Cardinality(Intact) = 1)

\* A setup that reports success has installed the image it captured and made it
\* active, also beside readers that recover without the lock.
SetupTellsTruth ==
  [][\A p \in Processes :
       (outcome[p] # "installed" /\ outcome'[p] = "installed") =>
         root' = call[p].image /\ active']_vars

\* Every call returns.
CallsReturn == \A p \in Processes : pc[p] # "idle" ~> pc[p] = "idle"

\* private_io.py: normal exceptions roll the old directory back.  Here nothing
\* fails but the rename onto a directory that a reader has recovered meanwhile,
\* without the lock.  (It does not hold.)
BaselineNotLost ==
  [][(Designated # {} /\ accidents' = 0) => Designated' # {}]_vars

\* baseline.py: a baseline that differs is replaced only with --replace.  (It
\* does not hold when an interrupted replacement has left only the copy.)
ReplacedOnRequest ==
  [][\A p \in Processes :
       (call[p].kind = "setup" /\ ~call[p].replace /\ pc[p] = "stage"
          /\ Designated # {}) => Designated' = Designated]_vars
=============================================================================
