------------------------ MODULE BaselineStore_proofs ------------------------
(***************************************************************************)
(* Proofs about the baseline store, for any number of processes, captures  *)
(* and setups.                                                             *)
(*                                                                         *)
(*   - TypeOK and WorkInv (what a position says of slot and call) hold of  *)
(*     every behaviour, unlocked readers included.                         *)
(*   - LockInv (setup holds the operation lock) and InstalledInv (what it  *)
(*     has renamed into place is still there) give SetupTellsTruth.        *)
(*   - When every reader holds the lock too, ReplaceInv ties the copies to *)
(*     the baseline under replacement; the store then implements the       *)
(*     register that never loses its baseline.                             *)
(*   - AccidentInv counts the intact copies through a replacement and one  *)
(*     accident: none before it, exactly one while the directory is        *)
(*     missing after it. The next command then finds the one to put back.  *)
(***************************************************************************)
EXTENDS BaselineStore, Integers, SequenceTheorems, FiniteSetTheorems, TLAPS

Contents == Images \cup {Absent, Broken}

\* setup positions: the lock is held and the call is a setup
Writing == {"check", "stage"} \cup Replacing

\* The slot is a directory that exists, the call the one the position is of.
WorkInv ==
  \A p \in Processes :
    /\ pc[p] \in Replacing \cup {"recover"} => slot[p] \in 1..Len(previous)
    /\ pc[p] \in Writing => call[p].kind = "setup"

Inv == TypeOK /\ WorkInv

-----------------------------------------------------------------------------
(* Copies put aside *)

IntactIn(s) == {i \in 1..Len(s) : s[i] \in Images}
NewestIn(s) == {s[i] : i \in {k \in IntactIn(s) : \A j \in IntactIn(s) : j <= k}}

\* The baseline read off the directory and the copies
LEMMA DesignatedIs ==
  /\ Intact = IntactIn(previous)
  /\ {previous[i] : i \in Newest} = NewestIn(previous)
  /\ Designated = IF root \in Images THEN {root} ELSE NewestIn(previous)
  BY DEF Designated, Newest, Intact, IntactIn, NewestIn

\* A copy put aside last is the newest one, when it is intact.
LEMMA NewestAppend ==
  ASSUME NEW s \in Seq(Contents), NEW x \in Contents
  PROVE  NewestIn(Append(s, x)) = IF x \in Images THEN {x} ELSE NewestIn(s)
<1> DEFINE t == Append(s, x)
<1>1. /\ Len(t) = Len(s) + 1 /\ t[Len(s) + 1] = x
      /\ \A i \in 1..Len(s) : t[i] = s[i]
      /\ Len(s) \in Nat
  OBVIOUS
<1> HIDE DEF t
<1>2. CASE x \in Images
  <2>1. /\ Len(s) + 1 \in IntactIn(t)
        /\ \A i \in IntactIn(t) : i \in 1..(Len(s) + 1)
    BY <1>1, <1>2 DEF IntactIn
  <2>2. {k \in IntactIn(t) : \A j \in IntactIn(t) : j <= k} = {Len(s) + 1}
    BY <1>1, <2>1
  <2>3. NewestIn(t) = {x}
    BY <1>1, <2>2 DEF NewestIn
  <2> QED BY <1>2, <2>3 DEF t
<1>3. CASE x \notin Images
  <2>1. IntactIn(t) = IntactIn(s)
    BY <1>1, <1>3 DEF IntactIn
  <2>2. \A i \in IntactIn(s) : t[i] = s[i]
    BY <1>1 DEF IntactIn
  <2>3. NewestIn(t) = NewestIn(s)
    BY <2>1, <2>2 DEF NewestIn
  <2> QED BY <1>3, <2>3 DEF t
<1> QED BY <1>2, <1>3

\* Losing a directory that was not intact changes nothing.
LEMMA NewestExcept ==
  ASSUME NEW s \in Seq(Contents), NEW i \in 1..Len(s), NEW y,
         s[i] \notin Images, y \notin Images
  PROVE  NewestIn([s EXCEPT ![i] = y]) = NewestIn(s)
<1> DEFINE t == [s EXCEPT ![i] = y]
<1>1. /\ Len(t) = Len(s) /\ t[i] = y
      /\ \A j \in 1..Len(s) : j # i => t[j] = s[j]
  OBVIOUS
<1> HIDE DEF t
<1>2. IntactIn(t) = IntactIn(s)
  BY <1>1 DEF IntactIn
<1>3. \A j \in IntactIn(s) : t[j] = s[j]
  BY <1>1 DEF IntactIn
<1>4. NewestIn(t) = NewestIn(s)
  BY <1>2, <1>3 DEF NewestIn
<1> QED BY <1>4 DEF t

\* The last directory, when intact, is the newest copy.
LEMMA NewestLast ==
  ASSUME NEW s \in Seq(Contents), Len(s) >= 1, s[Len(s)] \in Images
  PROVE  NewestIn(s) = {s[Len(s)]}
<1>1. Len(s) \in IntactIn(s) /\ \A i \in IntactIn(s) : i \in 1..Len(s)
  BY DEF IntactIn
<1>2. {k \in IntactIn(s) : \A j \in IntactIn(s) : j <= k} = {Len(s)}
  BY <1>1
<1> QED BY <1>2 DEF NewestIn

\* A single intact copy is the newest one.
LEMMA NewestOnly ==
  ASSUME NEW s \in Seq(Contents), NEW i \in 1..Len(s), IntactIn(s) = {i}
  PROVE  NewestIn(s) = {s[i]} /\ s[i] \in Images
<1>1. i \in IntactIn(s)
  OBVIOUS
<1>2. s[i] \in Images
  BY <1>1 DEF IntactIn
<1>3. {k \in IntactIn(s) : \A j \in IntactIn(s) : j <= k} = {i}
  OBVIOUS
<1> QED BY <1>2, <1>3 DEF NewestIn

-----------------------------------------------------------------------------
(* Type correctness *)

\* A directory moved or damaged leaves a sequence of contents.
LEMMA ExceptType ==
  ASSUME NEW s \in Seq(Contents), NEW i \in 1..Len(s), NEW y \in Contents
  PROVE  /\ [s EXCEPT ![i] = y] \in Seq(Contents)
         /\ Len([s EXCEPT ![i] = y]) = Len(s)
  BY ExceptSeq

LEMMA ContentType == Absent \in Contents /\ Broken \in Contents
  BY DEF Contents

\* What Goto and Return do to the types
LEMMA GotoType ==
  ASSUME Inv, NEW p \in Processes, NEW position \in Positions \ {"idle"},
         Goto(p, position)
  PROVE  /\ pc' \in [Processes -> Positions] /\ pc'[p] = position
         /\ \A q \in Processes : q # p => pc'[q] = pc[q]
         /\ lock' = lock
         /\ outcome' \in [Processes -> Outcomes] /\ outcome' = outcome
         /\ lock' \in Processes \cup {NoProcess}
         /\ lock' # NoProcess => pc'[lock'] # "idle"
  BY DEF Inv, TypeOK, Goto

LEMMA ReturnType ==
  ASSUME Inv, NEW p \in Processes, NEW status \in Outcomes, Return(p, status)
  PROVE  /\ pc' \in [Processes -> Positions] /\ pc'[p] = "idle"
         /\ \A q \in Processes : q # p => pc'[q] = pc[q]
         /\ lock' = IF lock = p THEN NoProcess ELSE lock
         /\ outcome' \in [Processes -> Outcomes] /\ outcome'[p] = status
         /\ \A q \in Processes : q # p => outcome'[q] = outcome[q]
         /\ lock' \in Processes \cup {NoProcess}
         /\ lock' # NoProcess => pc'[lock'] # "idle"
<1>1. /\ pc' \in [Processes -> Positions] /\ pc'[p] = "idle"
      /\ \A q \in Processes : q # p => pc'[q] = pc[q]
  BY DEF Inv, TypeOK, Return, Positions
<1>2. /\ outcome' \in [Processes -> Outcomes] /\ outcome'[p] = status
      /\ \A q \in Processes : q # p => outcome'[q] = outcome[q]
  BY DEF Inv, TypeOK, Return
<1>3. lock' = IF lock = p THEN NoProcess ELSE lock
  BY DEF Return
<1>4. /\ lock' \in Processes \cup {NoProcess}
      /\ lock' # NoProcess => pc'[lock'] # "idle"
  BY <1>1, <1>3 DEF Inv, TypeOK
<1> QED BY <1>1, <1>2, <1>3, <1>4

LEMMA AccidentType ==
  ASSUME Inv, Accident \/ Smooth
  PROVE  accidents' \in 0..2
  BY DEF Inv, TypeOK, Accident, Smooth

\* A call that starts, or finds the lock taken
LEMMA StartInv ==
  ASSUME Inv, NEW p \in Processes, NEW c \in Calls, Start(p, c),
         setups' \in 0..MaxSetups
  PROVE  Inv'
<1>1. /\ pc[p] = "idle" /\ call' = [call EXCEPT ![p] = c]
      /\ UNCHANGED <<root, previous, active, slot, replaced, accidents>>
  BY DEF Start, store
<1>2. Entry(c.kind) \in {"check", "activate", "look"}
      /\ (Entry(c.kind) = "check" => c.kind = "setup")
  BY DEF Entry, Calls
<1>3. /\ call' \in [Processes -> Calls] /\ call'[p] = c
      /\ \A q \in Processes : q # p => call'[q] = call[q]
  BY <1>1 DEF Inv, TypeOK
<1>4. /\ pc' \in [Processes -> Positions]
      /\ \A q \in Processes : q # p => pc'[q] = pc[q]
      /\ pc'[p] \in {"idle", Entry(c.kind)}
      /\ outcome' \in [Processes -> Outcomes]
      /\ lock' \in Processes \cup {NoProcess}
      /\ lock' # NoProcess => pc'[lock'] # "idle"
  <2>1. CASE c.kind = "show" \/ lock = NoProcess
    <3>1. /\ pc' = [pc EXCEPT ![p] = Entry(c.kind)]
          /\ outcome' = [outcome EXCEPT ![p] = "none"]
          /\ lock' = IF c.kind = "show" THEN lock ELSE p
      BY <2>1 DEF Start
    <3>2. Entry(c.kind) \in Positions \ {"idle"} /\ "none" \in Outcomes
      BY <1>2 DEF Positions, Outcomes
    <3> QED BY <1>1, <3>1, <3>2 DEF Inv, TypeOK
  <2>2. CASE ~(c.kind = "show" \/ lock = NoProcess)
    <3>1. Return(p, "busy") /\ "busy" \in Outcomes
      BY <2>2 DEF Start, Outcomes
    <3> QED BY <3>1, ReturnType
  <2> QED BY <2>1, <2>2
<1>5. TypeOK'
  BY <1>1, <1>3, <1>4 DEF Inv, TypeOK
<1>6. WorkInv'
  <2> SUFFICES ASSUME NEW q \in Processes
      PROVE  /\ pc'[q] \in Replacing \cup {"recover"} => slot'[q] \in 1..Len(previous')
             /\ pc'[q] \in Writing => call'[q].kind = "setup"
    BY DEF WorkInv
  <2>1. CASE q = p
    BY <2>1, <1>2, <1>3, <1>4 DEF Replacing, Writing
  <2>2. CASE q # p
    BY <2>2, <1>1, <1>3, <1>4 DEF Inv, WorkInv
  <2> QED BY <2>1, <2>2
<1> QED BY <1>5, <1>6 DEF Inv

\* A step of the process p that is not idle: what it must leave behind.  The
\* other processes keep their positions, calls and slots, and no copy vanishes
\* from the sequence.
LEMMA StepInv ==
  ASSUME Inv, NEW p \in Processes,
         root' \in Contents, previous' \in Seq(Contents),
         Len(previous') >= Len(previous), active' \in BOOLEAN,
         call' = call, setups' = setups, replaced' \subseteq Images,
         accidents' \in 0..2,
         slot' \in [Processes -> Nat],
         \A q \in Processes : q # p => slot'[q] = slot[q],
         (\E position \in Positions \ {"idle"} :
              /\ Goto(p, position)
              /\ position \in Replacing \cup {"recover"} =>
                   slot'[p] \in 1..Len(previous')
              /\ position \in Writing => call[p].kind = "setup")
           \/ \E status \in Outcomes : Return(p, status)
  PROVE  Inv'
<1>1. /\ pc' \in [Processes -> Positions]
      /\ \A q \in Processes : q # p => pc'[q] = pc[q]
      /\ outcome' \in [Processes -> Outcomes]
      /\ lock' \in Processes \cup {NoProcess}
      /\ lock' # NoProcess => pc'[lock'] # "idle"
      /\ pc'[p] \in Replacing \cup {"recover"} => slot'[p] \in 1..Len(previous')
      /\ pc'[p] \in Writing => call[p].kind = "setup"
  <2>1. CASE \E status \in Outcomes : Return(p, status)
    <3>1. PICK status \in Outcomes : Return(p, status)
      BY <2>1
    <3>2. "idle" \notin Replacing \cup {"recover"} \cup Writing
      BY DEF Replacing, Writing
    <3> QED BY <3>1, <3>2, ReturnType
  <2>2. CASE \E position \in Positions \ {"idle"} :
                /\ Goto(p, position)
                /\ position \in Replacing \cup {"recover"} =>
                     slot'[p] \in 1..Len(previous')
                /\ position \in Writing => call[p].kind = "setup"
    <3>1. PICK position \in Positions \ {"idle"} :
                /\ Goto(p, position)
                /\ position \in Replacing \cup {"recover"} =>
                     slot'[p] \in 1..Len(previous')
                /\ position \in Writing => call[p].kind = "setup"
      BY <2>2
    <3> QED BY <3>1, GotoType
  <2> QED BY <2>1, <2>2
<1>2. TypeOK'
  BY <1>1 DEF Inv, TypeOK, Contents
<1>3. WorkInv'
  <2> SUFFICES ASSUME NEW q \in Processes
      PROVE  /\ pc'[q] \in Replacing \cup {"recover"} => slot'[q] \in 1..Len(previous')
             /\ pc'[q] \in Writing => call'[q].kind = "setup"
    BY DEF WorkInv
  <2>1. CASE q = p
    BY <2>1, <1>1
  <2>2. CASE q # p
    <3>1. /\ pc[q] \in Replacing \cup {"recover"} => slot[q] \in 1..Len(previous)
          /\ pc[q] \in Writing => call[q].kind = "setup"
      BY DEF Inv, WorkInv
    <3>2. 1..Len(previous) \subseteq 1..Len(previous')
      BY DEF Inv, TypeOK, Contents
    <3> QED BY <2>2, <1>1, <3>1, <3>2
  <2> QED BY <2>1, <2>2
<1> QED BY <1>2, <1>3 DEF Inv

\* What the invariant says of the store, in the terms of the lemmas above
LEMMA StoreType ==
  ASSUME Inv
  PROVE  /\ root \in Contents /\ previous \in Seq(Contents)
         /\ Len(previous) \in Nat /\ active \in BOOLEAN
         /\ call \in [Processes -> Calls]
         /\ slot \in [Processes -> Nat] /\ replaced \subseteq Images
         /\ accidents \in 0..2 /\ Images \subseteq Contents
         /\ \A p \in Processes : call[p].kind = "setup" => call[p].image \in Images
  BY DEF Inv, TypeOK, Contents, Calls

LEMMA DesignatedType == ASSUME Inv PROVE Designated \subseteq Images
  BY DEF Designated, Newest, Intact

LEMMA WorkKeepsInv ==
  ASSUME Inv, NEW p \in Processes, Work(p)
  PROVE  Inv'
<1> USE StoreType, ContentType DEF store, history
<1> DEFINE Moves(position) ==
             /\ position \in Positions \ {"idle"} /\ Goto(p, position)
             /\ position \in Replacing \cup {"recover"} =>
                  slot'[p] \in 1..Len(previous')
             /\ position \in Writing => call[p].kind = "setup"
           Leaves(status) == status \in Outcomes /\ Return(p, status)
<1>1. /\ pc[p] \in Replacing \cup {"recover"} => slot[p] \in 1..Len(previous)
      /\ pc[p] \in Writing => call[p].kind = "setup"
  BY DEF Inv, WorkInv
<1>2. /\ {"stage", "activate", "choose", "recover", "load"} \cup Replacing
             \subseteq Positions \ {"idle"}
      /\ {"refused", "failed", "installed", "used", "loaded"} \subseteq Outcomes
      /\ {"activate", "choose", "load"} \cap (Replacing \cup {"recover"} \cup Writing) = {}
      /\ "recover" \notin Writing /\ "stage" \notin Replacing \cup {"recover"}
      /\ {"check", "stage"} \cup Replacing \subseteq Writing
      /\ {"publish", "unpublish", "rollback", "cleanup"} \subseteq Replacing
  BY DEF Positions, Outcomes, Replacing, Writing
<1>3. CASE Check(p)
  <2>1. (\E position : Moves(position)) \/ \E status : Leaves(status)
    <3>1. CASE root = Absent \/ call[p].replace
      <4> Moves("stage") BY <1>1, <1>2, <1>3, <3>1 DEF Check
      <4> QED OBVIOUS
    <3>2. CASE ~(root = Absent \/ call[p].replace) /\ root = call[p].image
      <4> Moves("activate") BY <1>1, <1>2, <1>3, <3>2 DEF Check
      <4> QED OBVIOUS
    <3>3. CASE ~(root = Absent \/ call[p].replace) /\ root # call[p].image
      <4> Leaves("refused") BY <1>2, <1>3, <3>3 DEF Check
      <4> QED OBVIOUS
    <3> QED BY <3>1, <3>2, <3>3
  <2> QED BY <1>3, <2>1, StepInv DEF Check
<1>4. CASE Commit(p)
  <2>1. Moves("activate") \/ Leaves("failed")
    BY <1>2, <1>4 DEF Commit
  <2>2. root' \in Contents
    BY <1>1, <1>2, <1>4 DEF Commit
  <2> QED BY <1>4, <2>1, <2>2, StepInv DEF Commit
<1>5. CASE Displace(p)
  <2>1. /\ previous' \in Seq(Contents) /\ Len(previous') = Len(previous) + 1
        /\ slot' \in [Processes -> Nat] /\ slot'[p] \in 1..Len(previous')
        /\ \A q \in Processes : q # p => slot'[q] = slot[q]
    BY <1>5 DEF Displace
  <2>2. Moves("publish") \/ Leaves("failed")
    BY <1>1, <1>2, <1>5, <2>1 DEF Displace
  <2>3. accidents' \in 0..2 /\ replaced' \subseteq Images
    BY <1>5, AccidentType, DesignatedType DEF Displace
  <2>4. /\ root' \in Contents /\ active' \in BOOLEAN
        /\ call' = call /\ setups' = setups
    BY <1>5 DEF Displace
  <2>5. Len(previous') >= Len(previous)
    BY <2>1
  <2> HIDE StoreType, ContentType
  <2> QED BY <2>1, <2>2, <2>3, <2>4, <2>5, StepInv
<1>6. CASE Publish(p)
  <2>1. Moves("cleanup") \/ Moves("unpublish")
    BY <1>1, <1>2, <1>6 DEF Publish
  <2>2. accidents' \in 0..2
    BY <1>6, AccidentType DEF Publish
  <2>3. root' \in Contents
    BY <1>1, <1>2, <1>6 DEF Publish
  <2> QED BY <1>6, <2>1, <2>2, <2>3, StepInv DEF Publish
<1>7. CASE Unpublish(p)
  <2>1. Moves("rollback") \/ Moves("unpublish") \/ Leaves("failed")
    BY <1>1, <1>2, <1>7 DEF Unpublish
  <2>2. accidents' \in 0..2
    BY <1>7, AccidentType DEF Unpublish
  <2>3. root' \in Contents
    BY <1>7 DEF Unpublish
  <2> QED BY <1>7, <2>1, <2>2, <2>3, StepInv DEF Unpublish
<1>8. CASE Rollback(p)
  <2>1. slot[p] \in 1..Len(previous) /\ previous[slot[p]] \in Contents
    BY <1>1, <1>2, <1>8 DEF Rollback
  <2>2. /\ root' \in Contents /\ previous' \in Seq(Contents)
        /\ Len(previous') = Len(previous)
    BY <1>8, <2>1, ExceptType DEF Rollback, Move
  <2>3. Leaves("failed") /\ accidents' \in 0..2
    BY <1>2, <1>8, AccidentType DEF Rollback
  <2> QED BY <1>8, <2>2, <2>3, StepInv DEF Rollback
<1>9. CASE Cleanup(p)
  <2>1. slot[p] \in 1..Len(previous)
    BY <1>1, <1>2, <1>9 DEF Cleanup
  <2>2. previous' \in Seq(Contents) /\ Len(previous') = Len(previous)
    <3>1. \E y \in Contents :
             previous' = [previous EXCEPT ![slot[p]] = y] \/ previous' = previous
      BY <1>9 DEF Cleanup
    <3> QED BY <2>1, <3>1, ExceptType
  <2>3. Moves("cleanup") \/ Moves("activate") \/ Leaves("failed")
    BY <1>1, <1>2, <1>9, <2>1, <2>2 DEF Cleanup
  <2>4. accidents' \in 0..2
    BY <1>9, AccidentType DEF Cleanup
  <2> QED BY <1>9, <2>2, <2>3, <2>4, StepInv DEF Cleanup
<1>10. CASE Activate(p)
  <2>1. Leaves("installed") \/ Leaves("used") \/ Leaves("failed") \/ Leaves("refused")
    BY <1>2, <1>10 DEF Activate
  <2>2. /\ root' = root /\ previous' = previous /\ active' \in BOOLEAN
        /\ call' = call /\ slot' = slot /\ setups' = setups
        /\ replaced' = replaced /\ accidents' = accidents
    BY <1>10 DEF Activate
  <2> QED BY <2>1, <2>2, StepInv
<1>11. CASE Look(p)
  <2>1. Leaves("refused") \/ Moves("choose") \/ Moves("load")
    BY <1>2, <1>11 DEF Look
  <2> QED BY <1>11, <2>1, StepInv DEF Look
<1>12. CASE Choose(p)
  <2>1. \/ Leaves("refused") /\ slot' = slot
        \/ /\ Moves("recover") /\ slot' \in [Processes -> Nat]
           /\ \A q \in Processes : q # p => slot'[q] = slot[q]
    <3>1. CASE \E k \in Intact : slot' = [slot EXCEPT ![p] = k] /\ Goto(p, "recover")
      <4>1. PICK k \in Intact : slot' = [slot EXCEPT ![p] = k]
        BY <3>1
      <4>2. k \in 1..Len(previous) /\ previous' = previous
        BY <1>12 DEF Intact, Choose
      <4> QED BY <1>2, <3>1, <4>1, <4>2
    <3>2. CASE slot' = slot /\ Return(p, "refused")
      BY <1>2, <3>2
    <3> QED BY <1>12, <3>1, <3>2 DEF Choose
  <2> QED BY <1>12, <2>1, StepInv DEF Choose
<1>13. CASE Recover(p)
  <2>1. slot[p] \in 1..Len(previous) /\ previous[slot[p]] \in Contents
    BY <1>1, <1>2, <1>13 DEF Recover
  <2>2. /\ root' \in Contents /\ previous' \in Seq(Contents)
        /\ Len(previous') = Len(previous)
    BY <1>13, <2>1, ExceptType DEF Recover, Move
  <2>3. Moves("load") \/ Leaves("failed")
    BY <1>2, <1>13 DEF Recover
  <2> QED BY <1>13, <2>2, <2>3, StepInv DEF Recover
<1>14. CASE Load(p)
  <2>1. Leaves("loaded") \/ Leaves("refused")
    BY <1>2, <1>14 DEF Load
  <2> QED BY <1>14, <2>1, StepInv DEF Load
<1>15. CASE Raise(p)
  <2>1. Leaves("failed")
    BY <1>2, <1>15 DEF Raise
  <2> QED BY <1>15, <2>1, StepInv DEF Raise
<1> QED
  BY <1>3, <1>4, <1>5, <1>6, <1>7, <1>8, <1>9, <1>10, <1>11, <1>12, <1>13,
     <1>14, <1>15 DEF Work

\* The invariant holds in every behaviour, unlocked readers included.
LEMMA InvInit == Init => Inv
<1> SUFFICES ASSUME Init PROVE Inv
  OBVIOUS
<1>1. TypeOK
  <2>1. call \in [Processes -> Calls]
    BY DEF Init, Calls
  <2>2. /\ previous \in Seq(Images \cup {Absent, Broken})
        /\ setups \in 0..MaxSetups /\ accidents \in 0..2 /\ replaced \subseteq Images
    BY BoundAssumption DEF Init
  <2>3. pc \in [Processes -> Positions] /\ outcome \in [Processes -> Outcomes]
    BY DEF Init, Positions, Outcomes
  <2> QED BY <2>1, <2>2, <2>3 DEF Init, TypeOK
<1>2. WorkInv
  BY DEF Init, WorkInv, Replacing, Writing
<1> QED BY <1>1, <1>2 DEF Inv

LEMMA InvNext == Inv /\ [Next]_vars => Inv'
<1> SUFFICES ASSUME Inv, [Next]_vars PROVE Inv'
  OBVIOUS
<1>1. ASSUME NEW p \in Processes, StartSetup(p) PROVE Inv'
  <2>1. setups' \in 0..MaxSetups
    BY <1>1, BoundAssumption DEF Inv, TypeOK, StartSetup
  <2>2. PICK c \in Calls : Start(p, c)
    BY <1>1 DEF StartSetup
  <2> QED BY <2>1, <2>2, StartInv
<1>2. ASSUME NEW p \in Processes, StartUse(p) \/ StartRead(p) \/ StartShow(p)
      PROVE  Inv'
  <2>1. setups' \in 0..MaxSetups
    BY <1>2 DEF Inv, TypeOK, StartUse, StartRead, StartShow
  <2>2. \E c \in Calls : Start(p, c)
    BY <1>2 DEF StartUse, StartRead, StartShow, Calls
  <2> QED BY <2>1, <2>2, StartInv
<1>3. ASSUME NEW p \in Processes, Crash(p) PROVE Inv'
  <2>1. accidents' \in 0..2
    BY <1>3, AccidentType DEF Crash
  <2>2. Return(p, "crashed") /\ "crashed" \in Outcomes
    BY <1>3 DEF Crash, Outcomes
  <2>3. UNCHANGED <<root, previous, active, call, slot, setups, replaced>>
    BY <1>3 DEF Crash, store
  <2> QED BY <2>1, <2>2, <2>3, StoreType, StepInv
<1>4. ASSUME UNCHANGED vars PROVE Inv'
  BY <1>4 DEF Inv, TypeOK, WorkInv, vars, store, history
<1> QED BY <1>1, <1>2, <1>3, <1>4, WorkKeepsInv DEF Next, LockedNext

\* Type correctness: whatever readers do without the lock, every directory holds
\* a capture, nothing or a damaged copy, and a lock that is held has a holder at
\* work.
THEOREM TypeCorrect == Spec => []TypeOK
<1>1. Inv => TypeOK
  BY DEF Inv
<1> QED BY <1>1, InvInit, InvNext, PTL DEF Spec

LEMMA LockedSpecIsSpec == [LockedNext]_vars => [Next]_vars
  BY DEF Next

-----------------------------------------------------------------------------
(* A setup that reports success has installed its capture *)

\* A setup at work on the store
Setting(p) == pc[p] \in Writing \cup {"activate"} /\ call[p].kind = "setup"

\* It holds the lock; after its rename, or when it has found its capture there,
\* the directory is its capture.
Installed(p) ==
  /\ Setting(p) => lock = p
  /\ Setting(p) /\ pc[p] \in {"cleanup", "activate"} => root = call[p].image

InstalledInv == \A p \in Processes : Installed(p)

\* Another process leaves it alone, because it does not hold the lock.
LEMMA OthersKeepInstalled ==
  ASSUME Inv, InstalledInv, NEW p \in Processes, NEW q \in Processes, q # p,
         pc'[q] = pc[q], call'[q] = call[q],
         \/ lock' = lock
         \/ lock' = IF lock = p THEN NoProcess ELSE lock
         \/ lock = NoProcess,
         root' = root \/ Setting(p) \/ root = Absent
  PROVE  Installed(q)'
<1> SUFFICES ASSUME Setting(q)
    PROVE  lock' = q /\ (pc[q] \in {"cleanup", "activate"} => root' = call[q].image)
  BY DEF Installed, Setting
<1>1. lock = q /\ ~Setting(p)
  BY DEF InstalledInv, Installed
<1>2. lock' = q
  BY <1>1, ProcessesAssumption
<1>3. ASSUME pc[q] \in {"cleanup", "activate"} PROVE root' = call[q].image
  <2>1. root = call[q].image
    BY <1>3 DEF InstalledInv, Installed
  <2>2. call[q].image \in Images
    BY StoreType DEF Setting
  <2> QED BY <1>1, <2>1, <2>2, ContentsAssumption
<1> QED BY <1>2, <1>3

LEMMA InstalledNext ==
  ASSUME Inv, InstalledInv, [Next]_vars
  PROVE  InstalledInv'
<1>1. ASSUME NEW p \in Processes, NEW c \in Calls, Start(p, c)
      PROVE  InstalledInv'
  <2>1. /\ pc[p] = "idle" /\ call' = [call EXCEPT ![p] = c] /\ root' = root
    BY <1>1 DEF Start, store
  <2>2. /\ call'[p] = c
        /\ \A q \in Processes : q # p => call'[q] = call[q]
    BY <2>1, StoreType
  <2>3. CASE c.kind = "show" \/ lock = NoProcess
    <3>1. /\ pc' = [pc EXCEPT ![p] = Entry(c.kind)]
          /\ lock' = IF c.kind = "show" THEN lock ELSE p
      BY <1>1, <2>3 DEF Start
    <3>2. /\ pc'[p] = Entry(c.kind)
          /\ \A q \in Processes : q # p => pc'[q] = pc[q]
      BY <3>1 DEF Inv, TypeOK
    <3>3. Installed(p)'
      BY <2>1, <2>2, <3>1, <3>2 DEF Installed, Setting, Entry, Writing, Replacing
    <3>4. lock' = lock \/ lock = NoProcess
      BY <2>3, <3>1
    <3>5. \A q \in Processes : q # p => Installed(q)'
      BY <2>1, <2>2, <3>2, <3>4, OthersKeepInstalled
    <3> QED BY <3>3, <3>5 DEF InstalledInv
  <2>4. CASE ~(c.kind = "show" \/ lock = NoProcess)
    <3>1. Return(p, "busy") /\ "busy" \in Outcomes
      BY <1>1, <2>4 DEF Start, Outcomes
    <3>2. /\ pc'[p] = "idle" /\ lock' = IF lock = p THEN NoProcess ELSE lock
          /\ \A q \in Processes : q # p => pc'[q] = pc[q]
      BY <3>1, ReturnType
    <3>3. Installed(p)'
      BY <3>2 DEF Installed, Setting, Writing, Replacing
    <3>4. \A q \in Processes : q # p => Installed(q)'
      BY <2>1, <2>2, <3>2, OthersKeepInstalled
    <3> QED BY <3>3, <3>4 DEF InstalledInv
  <2> QED BY <2>3, <2>4
<1>2. ASSUME NEW p \in Processes, NEW status \in Outcomes, Return(p, status),
             call' = call, root' = root \/ Setting(p) \/ root = Absent
      PROVE  InstalledInv'
  <2>1. /\ pc'[p] = "idle" /\ lock' = IF lock = p THEN NoProcess ELSE lock
        /\ \A q \in Processes : q # p => pc'[q] = pc[q]
    BY <1>2, ReturnType
  <2>2. Installed(p)'
    BY <2>1 DEF Installed, Setting, Writing, Replacing
  <2>3. \A q \in Processes : q # p => Installed(q)'
    BY <1>2, <2>1, OthersKeepInstalled
  <2> QED BY <2>2, <2>3 DEF InstalledInv
<1>3. ASSUME NEW p \in Processes, NEW position \in Positions \ {"idle"},
             Goto(p, position), call' = call,
             root' = root \/ Setting(p) \/ root = Absent,
             position \in Writing \cup {"activate"} => pc[p] \in Writing,
             position \in {"cleanup", "activate"} => root' = call[p].image
      PROVE  InstalledInv'
  <2>1. /\ pc'[p] = position /\ lock' = lock
        /\ \A q \in Processes : q # p => pc'[q] = pc[q]
    BY <1>3, GotoType
  <2>2. Installed(p)'
    BY <1>3, <2>1 DEF InstalledInv, Installed, Setting
  <2>3. \A q \in Processes : q # p => Installed(q)'
    BY <1>3, <2>1, OthersKeepInstalled
  <2> QED BY <2>2, <2>3 DEF InstalledInv
<1>4. ASSUME NEW p \in Processes, Work(p) PROVE InstalledInv'
  <2>1. /\ pc[p] \in {"check", "stage"} \cup Replacing => pc[p] \in Writing
        /\ pc[p] \in Writing => Setting(p)
        /\ (pc[p] = "activate" /\ call[p].kind = "setup") => Setting(p)
    BY DEF Inv, WorkInv, Setting, Writing
  <2>2. /\ {"stage", "activate", "choose", "recover", "load"} \cup Replacing
               \subseteq Positions \ {"idle"}
        /\ {"choose", "recover", "load"} \cap (Writing \cup {"activate"}) = {}
        /\ Outcomes = {"none", "busy", "failed", "crashed", "refused",
                       "installed", "used", "loaded"}
        /\ Replacing = {"publish", "unpublish", "rollback", "cleanup"}
    BY DEF Positions, Outcomes, Replacing, Writing
  <2>3. call' = call
    BY <1>4 DEF Work, Check, Commit, Displace, Publish, Unpublish, Rollback,
         Cleanup, Activate, Look, Choose, Recover, Load, Raise
  <2>4. CASE Check(p)
    <3>1. root' = root
      BY <2>4 DEF Check, store
    <3>2. \/ Goto(p, "stage")
          \/ Goto(p, "activate") /\ root = call[p].image
          \/ Return(p, "refused")
      BY <2>4 DEF Check
    <3>3. pc[p] \in Writing
      BY <2>1, <2>4 DEF Check
    <3> QED BY <2>2, <2>3, <3>1, <3>2, <3>3, <1>2, <1>3
  <2>5. CASE Commit(p)
    <3>1. /\ root' = call[p].image /\ pc[p] \in Writing /\ Setting(p)
          /\ Goto(p, "activate") \/ Return(p, "failed")
      BY <2>1, <2>5 DEF Commit
    <3> QED BY <2>2, <2>3, <3>1, <1>2, <1>3
  <2>6. CASE Displace(p)
    <3>1. /\ pc[p] \in Writing /\ Setting(p)
          /\ Goto(p, "publish") \/ Return(p, "failed")
      BY <2>1, <2>6 DEF Displace
    <3> QED BY <2>2, <2>3, <3>1, <1>2, <1>3
  <2>7. CASE Publish(p)
    <3>1. /\ pc[p] \in Writing /\ Setting(p)
          /\ Goto(p, "unpublish") \/ (Goto(p, "cleanup") /\ root' = call[p].image)
      BY <2>1, <2>2, <2>7 DEF Publish
    <3> QED BY <2>2, <2>3, <3>1, <1>3
  <2>8. CASE Unpublish(p)
    <3>1. /\ pc[p] \in Writing /\ Setting(p)
          /\ Goto(p, "unpublish") \/ Goto(p, "rollback") \/ Return(p, "failed")
      BY <2>1, <2>2, <2>8 DEF Unpublish
    <3> QED BY <2>2, <2>3, <3>1, <1>2, <1>3
  <2>9. CASE Rollback(p)
    <3>1. Setting(p) /\ Return(p, "failed")
      BY <2>1, <2>2, <2>9 DEF Rollback
    <3> QED BY <2>2, <2>3, <3>1, <1>2
  <2>10. CASE Cleanup(p)
    <3>1. /\ pc[p] \in Writing /\ Setting(p) /\ root' = root
          /\ Goto(p, "cleanup") \/ Goto(p, "activate") \/ Return(p, "failed")
      BY <2>1, <2>2, <2>10 DEF Cleanup
    <3>2. root = call[p].image
      BY <2>10, <3>1 DEF Cleanup, InstalledInv, Installed
    <3> QED BY <2>2, <2>3, <3>1, <3>2, <1>2, <1>3
  <2>11. CASE Activate(p)
    <3>1. /\ root' = root
          /\ \E status \in Outcomes : Return(p, status)
      BY <2>2, <2>11 DEF Activate
    <3> QED BY <2>3, <3>1, <1>2
  <2>12. CASE Look(p)
    <3>1. /\ root' = root
          /\ Goto(p, "choose") \/ Goto(p, "load") \/ Return(p, "refused")
      BY <2>12 DEF Look, store
    <3> QED BY <2>2, <2>3, <3>1, <1>2, <1>3
  <2>13. CASE Choose(p)
    <3>1. root' = root /\ (Goto(p, "recover") \/ Return(p, "refused"))
      BY <2>13 DEF Choose, store
    <3> QED BY <2>2, <2>3, <3>1, <1>2, <1>3
  <2>14. CASE Recover(p)
    <3>1. /\ root' = root \/ root = Absent
          /\ Goto(p, "load") \/ Return(p, "failed")
      BY <2>14 DEF Recover
    <3> QED BY <2>2, <2>3, <3>1, <1>2, <1>3
  <2>15. CASE Load(p)
    <3>1. root' = root /\ (Return(p, "loaded") \/ Return(p, "refused"))
      BY <2>15 DEF Load, store
    <3> QED BY <2>2, <2>3, <3>1, <1>2
  <2>16. CASE Raise(p)
    <3>1. root' = root /\ Return(p, "failed")
      BY <2>16 DEF Raise, store
    <3> QED BY <2>2, <2>3, <3>1, <1>2
  <2> QED
    BY <1>4, <2>4, <2>5, <2>6, <2>7, <2>8, <2>9, <2>10, <2>11, <2>12, <2>13,
       <2>14, <2>15, <2>16 DEF Work
<1>5. ASSUME NEW p \in Processes, Crash(p) PROVE InstalledInv'
  <2>1. Return(p, "crashed") /\ "crashed" \in Outcomes /\ call' = call /\ root' = root
    BY <1>5 DEF Crash, store, Outcomes
  <2> QED BY <2>1, <1>2
<1>6. ASSUME NEW p \in Processes,
             StartSetup(p) \/ StartUse(p) \/ StartRead(p) \/ StartShow(p)
      PROVE  InstalledInv'
  <2>1. \E c \in Calls : Start(p, c)
    BY <1>6 DEF StartSetup, StartUse, StartRead, StartShow, Calls
  <2> QED BY <2>1, <1>1
<1>7. ASSUME UNCHANGED vars PROVE InstalledInv'
  BY <1>7 DEF InstalledInv, Installed, Setting, vars, store
<1> QED BY <1>4, <1>5, <1>6, <1>7 DEF Next, LockedNext

\* A setup that reports success has installed the image it captured and made it
\* active: nobody gets between its rename and the pointer, the unlocked readers
\* included.
THEOREM SetupIsTruthful == Spec => SetupTellsTruth
<1>1. Init => InstalledInv
  BY DEF Init, InstalledInv, Installed, Setting, Writing, Replacing
<1>2. ASSUME Inv, InstalledInv, [Next]_vars, NEW p \in Processes,
             outcome[p] # "installed", outcome'[p] = "installed"
      PROVE  root' = call[p].image /\ active'
  <2>1. ASSUME NEW q \in Processes, NEW status \in Outcomes \ {"installed"},
               Return(q, status)
        PROVE  FALSE
    BY <1>2, <2>1, ReturnType
  <2>2. ASSUME outcome' = outcome PROVE FALSE
    BY <1>2, <2>2
  <2>3. {"none", "busy", "failed", "crashed", "refused", "used", "loaded"}
          \subseteq Outcomes \ {"installed"}
    BY DEF Outcomes
  <2>4. ASSUME NEW q \in Processes, NEW c \in Calls, Start(q, c) PROVE FALSE
    <3>1. ~Return(q, "busy")
      BY <2>1, <2>3
    <3>2. outcome' = [outcome EXCEPT ![q] = "none"]
      BY <2>4, <3>1 DEF Start
    <3> QED BY <1>2, <3>2 DEF Inv, TypeOK
  <2>5. ASSUME NEW q \in Processes, Work(q), ~Activate(q) PROVE FALSE
    <3>1. \/ outcome' = outcome
          \/ \E status \in {"failed", "refused", "loaded"} : Return(q, status)
      BY <2>5 DEF Work, Goto, Check, Commit, Displace, Publish, Unpublish,
           Rollback, Cleanup, Look, Choose, Recover, Load, Raise
    <3> QED BY <2>1, <2>2, <2>3, <3>1
  <2>6. ~UNCHANGED vars /\ \A q \in Processes : ~Crash(q)
    BY <2>1, <2>2, <2>3 DEF vars, Crash
  <2>7. PICK q \in Processes : Activate(q)
    <3>1. \A q \in Processes :
            ~(StartSetup(q) \/ StartUse(q) \/ StartRead(q) \/ StartShow(q))
      BY <2>4 DEF StartSetup, StartUse, StartRead, StartShow, Calls
    <3> QED BY <1>2, <2>5, <2>6, <3>1 DEF Next, LockedNext
  <2>8. /\ root' = root /\ root \in Images /\ active' /\ call[q].kind = "setup"
        /\ Return(q, "installed")
    BY <2>1, <2>3, <2>7 DEF Activate
  <2>9. q = p
    BY <1>2, <2>3, <2>8, ReturnType DEF Outcomes
  <2> QED BY <1>2, <2>7, <2>8, <2>9 DEF Activate, InstalledInv, Installed, Setting
<1>3. Inv /\ InstalledInv /\ [Next]_vars =>
        [\A p \in Processes :
           (outcome[p] # "installed" /\ outcome'[p] = "installed") =>
             root' = call[p].image /\ active']_vars
  BY <1>2
<1>4. Inv /\ InstalledInv /\ [Next]_vars => Inv' /\ InstalledInv'
  BY InvNext, InstalledNext
<1> QED BY <1>1, <1>3, <1>4, InvInit, PTL DEF Spec, SetupTellsTruth

-----------------------------------------------------------------------------
(* With the lock held by every caller the baseline is never lost *)

\* While a replacement is under way and its directory is not in place, the
\* newest copy is what it displaced; a reader that has chosen a copy has chosen
\* the only one.
Replaced(p) ==
  /\ pc[p] # "idle" => lock = p
  /\ pc[p] \in Replacing => slot[p] = Len(previous) /\ slot[p] >= 1
  /\ pc[p] \in {"publish", "unpublish", "rollback"} => NewestIn(previous) = replaced
  /\ pc[p] \in {"publish", "rollback", "choose", "recover"} => root = Absent
  /\ pc[p] = "cleanup" => root \in Images
  /\ pc[p] = "recover" => Intact = {slot[p]}

ReplaceInv == \A p \in Processes : Replaced(p)

\* The holder of the lock is alone, so only its own part of the invariant has to
\* be looked at.
LEMMA Alone ==
  ASSUME Inv, ReplaceInv, NEW p \in Processes, pc[p] # "idle",
         \A q \in Processes : q # p => pc'[q] = pc[q],
         Replaced(p)'
  PROVE  ReplaceInv'
<1>1. \A q \in Processes : q # p => pc[q] = "idle"
  BY DEF ReplaceInv, Replaced
<1>2. \A q \in Processes : q # p => Replaced(q)'
  BY <1>1 DEF Replaced, Replacing
<1> QED BY <1>2 DEF ReplaceInv

LEMMA ReturnKeeps ==
  ASSUME Inv, ReplaceInv, NEW p \in Processes, pc[p] # "idle",
         NEW status \in Outcomes, Return(p, status)
  PROVE  ReplaceInv'
<1>1. /\ pc'[p] = "idle"
      /\ \A q \in Processes : q # p => pc'[q] = pc[q]
  BY ReturnType
<1>2. Replaced(p)'
  BY <1>1 DEF Replaced, Replacing
<1> QED BY <1>1, <1>2, Alone

LEMMA GotoKeeps ==
  ASSUME Inv, ReplaceInv, NEW p \in Processes, pc[p] # "idle",
         NEW position \in Positions \ {"idle"}, Goto(p, position),
         position \in Replacing => slot'[p] = Len(previous') /\ slot'[p] >= 1,
         position \in {"publish", "unpublish", "rollback"} =>
           NewestIn(previous') = replaced',
         position \in {"publish", "rollback", "choose", "recover"} => root' = Absent,
         position = "cleanup" => root' \in Images,
         position = "recover" => Intact' = {slot'[p]}
  PROVE  ReplaceInv'
<1>1. /\ pc'[p] = position /\ lock' = lock
      /\ \A q \in Processes : q # p => pc'[q] = pc[q]
  BY GotoType
<1>2. lock' = p
  BY <1>1 DEF ReplaceInv, Replaced
<1>3. Replaced(p)'
  BY <1>1, <1>2 DEF Replaced
<1> QED BY <1>1, <1>3, Alone

LEMMA StartKeeps ==
  ASSUME Inv, ReplaceInv, NEW p \in Processes, NEW c \in Calls, c.kind # "show",
         Start(p, c)
  PROVE  ReplaceInv' /\ Designated' = Designated
<1>1. /\ pc[p] = "idle" /\ UNCHANGED <<root, previous, slot, replaced>>
  BY DEF Start, store
<1>2. Designated' = Designated
  BY <1>1 DEF Designated, Newest, Intact
<1>3. CASE lock = NoProcess
  <2>1. pc' = [pc EXCEPT ![p] = Entry(c.kind)] /\ lock' = p
    BY <1>3 DEF Start
  <2>2. Entry(c.kind) \in {"check", "activate", "look"}
    BY DEF Entry
  <2>3. \A q \in Processes : pc[q] = "idle"
    BY <1>3, ProcessesAssumption DEF ReplaceInv, Replaced
  <2>4. \A q \in Processes :
          pc'[q] = "idle" \/ (q = p /\ pc'[q] \in {"check", "activate", "look"})
    BY <2>1, <2>2, <2>3 DEF Inv, TypeOK
  <2>5. \A q \in Processes : Replaced(q)'
    BY <2>1, <2>4 DEF Replaced, Replacing
  <2> QED BY <1>2, <2>5 DEF ReplaceInv
<1>4. CASE lock # NoProcess
  <2>1. Return(p, "busy") /\ "busy" \in Outcomes
    BY <1>4 DEF Start, Outcomes
  <2>2. /\ pc'[p] = "idle" /\ lock' = IF lock = p THEN NoProcess ELSE lock
        /\ \A q \in Processes : q # p => pc'[q] = pc[q]
    BY <2>1, ReturnType
  <2>3. lock' = lock
    BY <1>1, <1>4, <2>2 DEF Inv, TypeOK
  <2>4. Intact' = Intact
    BY <1>1 DEF Intact
  <2>5. ASSUME NEW q \in Processes PROVE Replaced(q)'
    <3>1. pc'[q] = pc[q]
      BY <1>1, <2>2
    <3> QED BY <1>1, <2>3, <2>4, <3>1 DEF ReplaceInv, Replaced
  <2> QED BY <1>2, <2>5 DEF ReplaceInv
<1> QED BY <1>3, <1>4

\* What a step may do to the baseline
RegisterStep ==
  \/ Designated' = Designated /\ replaced' = replaced
  \/ Designated' = Designated /\ replaced' = Designated
  \/ replaced' = replaced /\ \E image \in Images : Designated' = {image}
  \/ replaced' = replaced /\ Designated' = replaced

LEMMA WorkKeeps ==
  ASSUME Inv, ReplaceInv, NEW p \in Processes, Work(p)
  PROVE  ReplaceInv' /\ RegisterStep
<1> DEFINE Copy == previous[slot[p]]
<1>1. /\ root \in Contents /\ previous \in Seq(Contents) /\ Len(previous) \in Nat
      /\ slot \in [Processes -> Nat] /\ Absent \notin Images /\ Broken \notin Images
      /\ Absent \in Contents /\ Broken \in Contents
      /\ call[p].kind = "setup" => call[p].image \in Images
  BY StoreType, ContentType, ContentsAssumption
<1>2. /\ pc[p] \in Writing => call[p].kind = "setup"
      /\ pc[p] \in Replacing \cup {"recover"} =>
           slot[p] \in 1..Len(previous) /\ Copy \in Contents
  BY <1>1 DEF Inv, WorkInv
<1>3. Replaced(p)
  BY DEF ReplaceInv
<1>4. /\ Designated = IF root \in Images THEN {root} ELSE NewestIn(previous)
      /\ Designated' = IF root' \in Images THEN {root'} ELSE NewestIn(previous')
  <2>1. Designated = IF root \in Images THEN {root} ELSE NewestIn(previous)
    BY DesignatedIs
  <2>2. Designated' = IF root' \in Images THEN {root'} ELSE NewestIn(previous')
    BY DEF Designated, Newest, Intact, IntactIn, NewestIn
  <2> QED BY <2>1, <2>2
<1>5. /\ {"stage", "activate", "choose", "recover", "load"} \cup Replacing
             \subseteq Positions \ {"idle"}
      /\ {"refused", "failed", "installed", "used", "loaded"} \subseteq Outcomes
      /\ {"check", "stage"} \cup Replacing = Writing
      /\ Replacing = {"publish", "unpublish", "rollback", "cleanup"}
  BY DEF Positions, Outcomes, Replacing, Writing
<1>6. ASSUME root' = root, previous' = previous, replaced' = replaced
      PROVE  RegisterStep
  BY <1>4, <1>6 DEF RegisterStep
<1>7. CASE Check(p)
  <2>1. UNCHANGED <<root, previous, replaced>> /\ pc[p] # "idle"
    BY <1>7 DEF Check, store, history
  <2>2. Goto(p, "stage") \/ Goto(p, "activate") \/ Return(p, "refused")
    BY <1>7 DEF Check
  <2> QED BY <2>1, <2>2, <1>5, <1>6, GotoKeeps, ReturnKeeps
<1>8. CASE Commit(p)
  <2>1. /\ pc[p] # "idle" /\ root' = call[p].image /\ root' \in Images
        /\ replaced' = replaced
        /\ Goto(p, "activate") \/ Return(p, "failed")
    BY <1>1, <1>2, <1>5, <1>8 DEF Commit, history
  <2>2. RegisterStep
    BY <2>1, <1>4 DEF RegisterStep
  <2> QED BY <2>1, <2>2, <1>5, GotoKeeps, ReturnKeeps
<1>9. CASE Displace(p)
  <2>1. /\ pc[p] # "idle" /\ root' = Absent /\ previous' = Append(previous, root)
        /\ slot'[p] = Len(previous) + 1 /\ replaced' = Designated
        /\ Goto(p, "publish") \/ Return(p, "failed")
    BY <1>1, <1>9 DEF Displace
  <2>2. /\ Len(previous') = Len(previous) + 1
        /\ slot'[p] = Len(previous') /\ slot'[p] >= 1
    BY <1>1, <2>1
  <2>3. NewestIn(previous') = Designated
    BY <1>1, <1>4, <2>1, NewestAppend
  <2>4. Designated' = Designated
    BY <1>1, <1>4, <2>1, <2>3
  <2>5. RegisterStep
    BY <2>1, <2>4 DEF RegisterStep
  <2> QED BY <2>1, <2>2, <2>3, <2>5, <1>5, GotoKeeps, ReturnKeeps
<1>10. CASE Publish(p)
  <2>1. /\ pc[p] # "idle" /\ previous' = previous /\ slot' = slot
        /\ replaced' = replaced /\ call[p].image \in Images
        /\ \/ root' = call[p].image /\ Goto(p, "cleanup")
           \/ root' = call[p].image /\ Goto(p, "unpublish")
           \/ root' = root /\ Goto(p, "unpublish")
    BY <1>1, <1>2, <1>5, <1>10 DEF Publish
  <2>2. RegisterStep
    BY <2>1, <1>4 DEF RegisterStep
  <2>3. slot[p] = Len(previous) /\ slot[p] >= 1 /\ NewestIn(previous) = replaced
    BY <1>3, <1>5, <1>10 DEF Publish, Replaced
  <2> QED BY <2>1, <2>2, <2>3, <1>5, GotoKeeps
<1>11. CASE Unpublish(p)
  <2>1. /\ pc[p] # "idle" /\ previous' = previous /\ slot' = slot
        /\ replaced' = replaced
        /\ \/ root' = Absent /\ Goto(p, "rollback")
           \/ root' = Broken /\ Goto(p, "unpublish")
           \/ root' = root /\ Return(p, "failed")
    BY <1>11 DEF Unpublish
  <2>2. slot[p] = Len(previous) /\ slot[p] >= 1 /\ NewestIn(previous) = replaced
    BY <1>3, <1>5, <1>11 DEF Unpublish, Replaced
  <2>3. RegisterStep
    BY <1>1, <1>4, <2>1, <2>2 DEF RegisterStep
  <2> QED BY <2>1, <2>2, <2>3, <1>5, GotoKeeps, ReturnKeeps
<1>12. CASE Rollback(p)
  <2>1. /\ pc[p] # "idle" /\ root = Absent /\ Return(p, "failed")
        /\ slot[p] = Len(previous) /\ slot[p] >= 1 /\ Copy \in Contents
        /\ slot[p] \in 1..Len(previous) /\ replaced' = replaced
    BY <1>2, <1>3, <1>5, <1>12 DEF Rollback, Replaced
  <2>2. CASE root' = root /\ previous' = previous
    BY <2>1, <2>2, <1>5, <1>6, ReturnKeeps
  <2>3. CASE root' = Copy /\ previous' = [previous EXCEPT ![slot[p]] = Absent]
    <3>1. CASE Copy \in Images
      <4>1. NewestIn(previous) = {Copy}
        BY <1>1, <2>1, <3>1, NewestLast
      <4>2. Designated' = Designated
        BY <1>1, <1>4, <2>1, <2>3, <3>1, <4>1
      <4> QED BY <2>1, <4>2, <1>5, ReturnKeeps DEF RegisterStep
    <3>2. CASE Copy \notin Images
      <4>1. NewestIn(previous') = NewestIn(previous)
        BY <1>1, <2>1, <2>3, <3>2, NewestExcept
      <4>2. Designated' = Designated
        BY <1>1, <1>4, <2>1, <2>3, <3>2, <4>1
      <4> QED BY <2>1, <4>2, <1>5, ReturnKeeps DEF RegisterStep
    <3> QED BY <3>1, <3>2
  <2> QED BY <1>12, <2>2, <2>3 DEF Rollback, Move
<1>13. CASE Cleanup(p)
  <2>1. /\ pc[p] # "idle" /\ root' = root /\ root \in Images /\ slot' = slot
        /\ replaced' = replaced /\ slot[p] = Len(previous) /\ slot[p] >= 1
        /\ slot[p] \in 1..Len(previous)
        /\ Goto(p, "cleanup") \/ Goto(p, "activate") \/ Return(p, "failed")
    BY <1>2, <1>3, <1>5, <1>13 DEF Cleanup, Replaced
  <2>2. Len(previous') = Len(previous)
    <3>1. \E y \in Contents :
             previous' = [previous EXCEPT ![slot[p]] = y] \/ previous' = previous
      BY <1>1, <1>13 DEF Cleanup
    <3> QED BY <1>1, <2>1, <3>1, ExceptType
  <2>3. RegisterStep
    BY <2>1, <1>4 DEF RegisterStep
  <2> QED BY <2>1, <2>2, <2>3, <1>5, GotoKeeps, ReturnKeeps
<1>14. CASE Activate(p)
  <2>1. /\ pc[p] # "idle" /\ UNCHANGED <<root, previous, replaced>>
        /\ \E status \in Outcomes : Return(p, status)
    BY <1>5, <1>14 DEF Activate, history
  <2> QED BY <2>1, <1>6, ReturnKeeps
<1>15. CASE Look(p)
  <2>1. /\ pc[p] # "idle" /\ UNCHANGED <<root, previous, replaced>>
        /\ \/ Goto(p, "choose") /\ root = Absent
           \/ Goto(p, "load") \/ Return(p, "refused")
    BY <1>15 DEF Look, store, history
  <2> QED BY <2>1, <1>5, <1>6, GotoKeeps, ReturnKeeps
<1>16. CASE Choose(p)
  <2>1. /\ pc[p] # "idle" /\ UNCHANGED <<root, previous, replaced>>
        /\ root = Absent
        /\ \/ Goto(p, "recover") /\ Intact = {slot'[p]}
           \/ Return(p, "refused")
    BY <1>1, <1>3, <1>16 DEF Choose, store, history, Replaced
  <2>2. Intact' = Intact
    BY <2>1 DEF Intact
  <2> QED BY <2>1, <2>2, <1>5, <1>6, GotoKeeps, ReturnKeeps
<1>17. CASE Recover(p)
  <2>1. /\ pc[p] # "idle" /\ root = Absent /\ IntactIn(previous) = {slot[p]}
        /\ slot[p] \in 1..Len(previous) /\ replaced' = replaced
    BY <1>2, <1>3, <1>17, DesignatedIs DEF Recover, Replaced, history
  <2>2. NewestIn(previous) = {Copy} /\ Copy \in Images
    BY <1>1, <2>1, NewestOnly
  <2>3. /\ \/ root' = Copy
           \/ root' = root /\ previous' = previous
        /\ Goto(p, "load") \/ Return(p, "failed")
    BY <1>17 DEF Recover, Move
  <2>4. RegisterStep
    BY <1>1, <1>4, <2>1, <2>2, <2>3 DEF RegisterStep
  <2> QED BY <2>1, <2>3, <2>4, <1>5, GotoKeeps, ReturnKeeps
<1>18. CASE Load(p)
  <2>1. /\ pc[p] # "idle" /\ UNCHANGED <<root, previous, replaced>>
        /\ Return(p, "loaded") \/ Return(p, "refused")
    BY <1>18 DEF Load, store, history
  <2> QED BY <2>1, <1>5, <1>6, ReturnKeeps
<1>19. CASE Raise(p)
  <2>1. /\ pc[p] # "idle" /\ UNCHANGED <<root, previous, replaced>>
        /\ Return(p, "failed")
    BY <1>19 DEF Raise, store, history
  <2> QED BY <2>1, <1>5, <1>6, ReturnKeeps
<1> QED
  BY <1>7, <1>8, <1>9, <1>10, <1>11, <1>12, <1>13, <1>14, <1>15, <1>16, <1>17,
     <1>18, <1>19 DEF Work

\* Nobody is replacing anything at first, and no copy exists.
LEMMA InitReplaced == Init => ReplaceInv
<1> SUFFICES ASSUME Init PROVE ReplaceInv
  OBVIOUS
<1> QED BY DEF Init, ReplaceInv, Replaced, Replacing

\* Each step of the lock holder is one of the register.
LEMMA LockedKeeps ==
  Inv /\ ReplaceInv /\ [LockedNext]_vars => ReplaceInv' /\ RegisterStep
<1> SUFFICES ASSUME Inv, ReplaceInv, [LockedNext]_vars
             PROVE  ReplaceInv' /\ RegisterStep
  OBVIOUS
<1>1. ASSUME NEW p \in Processes, StartSetup(p) \/ StartUse(p) \/ StartRead(p)
      PROVE  ReplaceInv' /\ RegisterStep
  <2>1. \E c \in Calls : c.kind # "show" /\ Start(p, c)
    BY <1>1 DEF StartSetup, StartUse, StartRead, Calls
  <2>2. replaced' = replaced
    BY <2>1 DEF Start
  <2>3. ReplaceInv' /\ Designated' = Designated
    BY <1>1, <2>1, StartKeeps
  <2> QED BY <2>2, <2>3 DEF RegisterStep
<1>2. ASSUME NEW p \in Processes, Crash(p) PROVE ReplaceInv' /\ RegisterStep
  <2>1. /\ pc[p] # "idle" /\ Return(p, "crashed") /\ "crashed" \in Outcomes
        /\ UNCHANGED <<root, previous, replaced>>
    BY <1>2 DEF Crash, Outcomes, store
  <2>2. Designated' = Designated
    BY <2>1 DEF Designated, Newest, Intact
  <2>3. ReplaceInv'
    BY <1>2, <2>1, ReturnKeeps
  <2> QED BY <2>1, <2>2, <2>3 DEF RegisterStep
<1>3. ASSUME UNCHANGED vars PROVE ReplaceInv' /\ RegisterStep
  <2>1. Designated' = Designated /\ Intact' = Intact
    BY <1>3 DEF Designated, Newest, Intact, vars, store
  <2>2. ReplaceInv'
    BY <1>3, <2>1 DEF ReplaceInv, Replaced, vars, store, history
  <2> QED BY <1>3, <2>1, <2>2 DEF RegisterStep, vars, history
<1> QED BY <1>1, <1>2, <1>3, WorkKeeps DEF LockedNext

\* With every reader under the lock, the baseline is never lost: each step leaves
\* it alone, installs the capture of a setup, or puts back what that setup
\* displaced, wherever processes die and whatever fails.
THEOREM BaselineKept == LockedSpec => KeepsBaseline
<1>1. Init => Register!Init
  <2> SUFFICES ASSUME Init PROVE Register!Init
    OBVIOUS
  <2>1. Designated = {} /\ replaced = {}
    BY ContentsAssumption DEF Init, Designated, Newest, Intact
  <2> QED BY <2>1 DEF Register!Init
<1>2. RegisterStep => [Register!Next]_(Register!vars)
  BY DEF RegisterStep, Register!Next, Register!Begin, Register!Install,
     Register!Revert, Register!vars
<1>3. Inv /\ [LockedNext]_vars => Inv'
  BY InvNext, LockedSpecIsSpec
<1>4. Inv /\ ReplaceInv /\ [LockedNext]_vars =>
        ReplaceInv' /\ [Register!Next]_(Register!vars)
  BY <1>2, LockedKeeps
<1> QED
  BY <1>1, <1>3, <1>4, InitReplaced, InvInit, PTL
  DEF LockedSpec, KeepsBaseline, Register!Spec

-----------------------------------------------------------------------------
(* One accident is survived *)

\* Between two replacements: without an accident no copy is left behind, and
\* after one a missing directory has left exactly one.
Settled ==
  /\ root \in Images \cup {Absent}
  /\ accidents = 0 => Intact = {} /\ (active => root \in Images)
  /\ accidents = 1 /\ root = Absent => \E i \in 1..Len(previous) : Intact = {i}

\* During one: the displaced directory is the only copy, or still the intact one.
Midway(p) ==
  /\ pc[p] = "publish" =>
       /\ root = Absent /\ previous[slot[p]] \in Images
       /\ accidents = 0 => Intact = {slot[p]}
  /\ pc[p] \in {"unpublish", "rollback"} =>
       /\ accidents = 1 /\ previous[slot[p]] \in Images
       /\ pc[p] = "rollback" => root = Absent
  /\ pc[p] = "cleanup" =>
       /\ root \in Images
       /\ accidents = 0 => Intact \subseteq {slot[p]}

Calm == \A p \in Processes : pc[p] \notin Replacing

AccidentInv ==
  accidents <= 1 =>
    /\ Calm => Settled
    /\ \A p \in Processes : Midway(p)

\* Only the holder of the lock has anything to say.
LEMMA HolderSettles ==
  ASSUME NEW p \in Processes, \A q \in Processes : q # p => pc'[q] = "idle",
         accidents' <= 1 =>
           IF pc'[p] \in Replacing THEN Midway(p)' ELSE Settled'
  PROVE  AccidentInv'
<1>1. Calm' <=> pc'[p] \notin Replacing
  BY DEF Calm, Replacing
<1>2. ASSUME NEW q \in Processes, q # p \/ pc'[p] \notin Replacing PROVE Midway(q)'
  <2>1. pc'[q] \notin Replacing
    BY <1>2 DEF Replacing
  <2> QED BY <2>1 DEF Midway, Replacing
<1> QED BY <1>1, <1>2 DEF AccidentInv

\* What a copy more, or one less, does to the intact ones
LEMMA IntactAppend ==
  ASSUME NEW s \in Seq(Contents), NEW x \in Images
  PROVE  IntactIn(Append(s, x)) = IntactIn(s) \cup {Len(s) + 1}
<1> DEFINE t == Append(s, x)
<1>1. /\ Len(t) = Len(s) + 1 /\ t[Len(s) + 1] = x
      /\ \A i \in 1..Len(s) : t[i] = s[i]
      /\ Len(s) \in Nat
  OBVIOUS
<1> HIDE DEF t
<1>2. IntactIn(t) = IntactIn(s) \cup {Len(s) + 1}
  BY <1>1 DEF IntactIn
<1> QED BY <1>2 DEF t

LEMMA IntactExcept ==
  ASSUME NEW s \in Seq(Contents), NEW i \in 1..Len(s), NEW y, y \notin Images
  PROVE  IntactIn([s EXCEPT ![i] = y]) = IntactIn(s) \ {i}
<1> DEFINE t == [s EXCEPT ![i] = y]
<1>1. /\ Len(t) = Len(s) /\ t[i] = y
      /\ \A j \in 1..Len(s) : j # i => t[j] = s[j]
  OBVIOUS
<1> HIDE DEF t
<1>2. IntactIn(t) = IntactIn(s) \ {i}
  BY <1>1 DEF IntactIn
<1> QED BY <1>2 DEF t

\* Every step of the holder of the lock survives the first accident.
LEMMA WorkSettles ==
  ASSUME Inv, ReplaceInv, AccidentInv, NEW p \in Processes, Work(p) \/ Crash(p)
  PROVE  AccidentInv'
<1> DEFINE Copy == previous[slot[p]]
<1>1. /\ root \in Contents /\ previous \in Seq(Contents) /\ Len(previous) \in Nat
      /\ slot \in [Processes -> Nat] /\ Absent \notin Images /\ Broken \notin Images
      /\ Absent # Broken /\ accidents \in {0, 1, 2}
      /\ call[p].kind = "setup" => call[p].image \in Images
  BY StoreType, ContentsAssumption DEF Inv, TypeOK
<1>2. /\ pc[p] \in Writing => call[p].kind = "setup"
      /\ pc[p] \in Replacing \cup {"recover"} => slot[p] \in 1..Len(previous)
  BY DEF Inv, WorkInv
<1>3. Replaced(p)
  BY DEF ReplaceInv
<1>4. /\ Replacing = {"publish", "unpublish", "rollback", "cleanup"}
      /\ {"check", "stage"} \cup Replacing = Writing
      /\ {"refused", "failed", "installed", "used", "loaded", "crashed"} \subseteq Outcomes
  BY DEF Outcomes, Replacing, Writing
<1>5. pc[p] # "idle" /\ \A q \in Processes : q # p => pc[q] = "idle"
  <2>1. pc[p] # "idle"
    BY <1>4 DEF Work, Crash, Check, Commit, Displace, Publish, Unpublish, Rollback,
         Cleanup, Activate, Look, Choose, Recover, Load, Raise
  <2> QED BY <2>1 DEF ReplaceInv, Replaced
<1>6. accidents' \in {accidents, accidents + 1} \cup {2} /\ accidents' >= accidents
  BY <1>1 DEF Work, Crash, Accident, Smooth, history, Check, Commit, Displace,
       Publish, Unpublish, Rollback, Cleanup, Activate, Look, Choose, Recover, Load,
       Raise
<1>7. ASSUME accidents' <= 1
      PROVE  /\ accidents <= 1 /\ Midway(p)
             /\ pc[p] \notin Replacing => Settled
  <2>1. accidents <= 1
    BY <1>1, <1>6, <1>7
  <2>2. pc[p] \notin Replacing => Calm
    BY <1>4, <1>5 DEF Calm
  <2> QED BY <2>1, <2>2 DEF AccidentInv
<1>8. /\ Accident /\ accidents' <= 1 => accidents = 0 /\ accidents' = 1
      /\ Smooth => accidents' = accidents
  BY <1>1 DEF Accident, Smooth
<1>9. /\ \A status \in Outcomes : Return(p, status) =>
             pc'[p] = "idle" /\ \A q \in Processes : q # p => pc'[q] = pc[q]
      /\ \A position \in Positions : Goto(p, position) =>
             pc'[p] = position /\ \A q \in Processes : q # p => pc'[q] = pc[q]
  BY DEF Inv, TypeOK, Return, Goto
<1>10. Intact = IntactIn(previous) /\ Intact' = IntactIn(previous')
  BY DEF Intact, IntactIn
<1>11. ASSUME UNCHANGED <<root, previous, accidents>>, active' => active \/ root \in Images,
              pc[p] \notin Replacing, pc'[p] \notin Replacing,
              \A q \in Processes : q # p => pc'[q] = pc[q]
       PROVE  AccidentInv'
  <2>1. ASSUME accidents' <= 1 PROVE Settled'
    <3>1. Settled /\ Intact' = Intact
      BY <1>7, <1>10, <1>11, <2>1
    <3> QED BY <1>11, <3>1 DEF Settled
  <2> QED BY <1>5, <1>11, <2>1, HolderSettles
<1>12. CASE Check(p) \/ Activate(p) \/ Look(p) \/ Choose(p) \/ Load(p) \/ Raise(p)
  <2>1. /\ UNCHANGED <<root, previous, accidents>>
        /\ active' => active \/ root \in Images
        /\ pc[p] \notin Replacing
    BY <1>4, <1>12
    DEF store, history, Check, Activate, Look, Choose, Load, Raise
  <2>2. \/ \E status \in {"refused", "failed", "installed", "used", "loaded"} :
             Return(p, status)
        \/ \E position \in {"stage", "activate", "choose", "load", "recover"} :
             Goto(p, position)
    BY <1>12 DEF Check, Activate, Look, Choose, Load, Raise
  <2>3. {"stage", "activate", "choose", "load", "recover"} \subseteq Positions
    BY DEF Positions
  <2>4. pc'[p] \in {"idle", "stage", "activate", "choose", "load", "recover"}
        /\ \A q \in Processes : q # p => pc'[q] = pc[q]
    BY <1>4, <1>9, <2>2, <2>3
  <2> QED BY <1>4, <1>11, <2>1, <2>4
<1>13. CASE Commit(p)
  <2>1. /\ root = Absent /\ root' \in Images
        /\ UNCHANGED <<previous, active, accidents>>
        /\ pc[p] \notin Replacing
        /\ Goto(p, "activate") \/ Return(p, "failed")
    BY <1>1, <1>2, <1>4, <1>13 DEF Commit, history
  <2>2. pc'[p] \notin Replacing /\ \A q \in Processes : q # p => pc'[q] = pc[q]
    BY <1>4, <1>9, <2>1 DEF Positions
  <2>3. ASSUME accidents' <= 1 PROVE Settled'
    <3>1. Settled /\ Intact' = Intact
      BY <1>7, <1>10, <2>1, <2>3
    <3> QED BY <1>1, <2>1, <3>1 DEF Settled
  <2> QED BY <1>5, <2>2, <2>3, HolderSettles
<1>14. CASE Displace(p)
  <2>1. /\ root # Absent /\ root' = Absent /\ previous' = Append(previous, root)
        /\ slot'[p] = Len(previous) + 1 /\ pc[p] \notin Replacing
        /\ active' = active
        /\ \/ Goto(p, "publish") /\ accidents' = accidents
           \/ Return(p, "failed") /\ Accident
    BY <1>1, <1>4, <1>8, <1>14 DEF Displace
  <2>2. /\ pc'[p] \in {"publish", "idle"}
        /\ \A q \in Processes : q # p => pc'[q] = pc[q]
        /\ pc'[p] = "idle" => Accident
        /\ pc'[p] = "publish" => accidents' = accidents
    BY <1>4, <1>9, <2>1 DEF Positions
  <2>3. ASSUME accidents' <= 1
        PROVE  IF pc'[p] \in Replacing THEN Midway(p)' ELSE Settled'
    <3>1. Settled /\ root \in Images
      BY <1>7, <2>1, <2>3 DEF Settled
    <3>2. Intact' = Intact \cup {Len(previous) + 1}
      BY <1>1, <1>10, <2>1, <3>1, IntactAppend
    <3>3. /\ Len(previous') = Len(previous) + 1
          /\ previous'[Len(previous) + 1] = root
      BY <1>1, <2>1
    <3>4. CASE pc'[p] = "publish"
      <4>1. accidents' = 0 => Intact' = {slot'[p]}
        BY <2>1, <2>2, <3>1, <3>2, <3>4 DEF Settled
      <4>2. root' = Absent /\ previous'[slot'[p]] \in Images
        BY <2>1, <3>1, <3>3
      <4> QED BY <1>4, <3>4, <4>1, <4>2 DEF Midway
    <3>5. CASE pc'[p] = "idle"
      <4>1. accidents = 0 /\ accidents' = 1
        BY <1>8, <2>2, <2>3, <3>5
      <4>2. Intact' = {Len(previous) + 1} /\ Len(previous) + 1 \in 1..Len(previous')
        BY <1>1, <3>1, <3>2, <3>3, <4>1 DEF Settled
      <4> QED BY <1>4, <2>1, <3>5, <4>1, <4>2 DEF Settled
    <3> QED BY <2>2, <3>4, <3>5
  <2> QED BY <1>5, <2>2, <2>3, HolderSettles
<1>15. CASE Publish(p)
  <2>1. /\ pc[p] = "publish" /\ UNCHANGED <<previous, active, slot>>
        /\ call[p].image \in Images
        /\ \/ root' = call[p].image /\ Goto(p, "cleanup") /\ accidents' = accidents
           \/ root' = call[p].image /\ Goto(p, "unpublish") /\ Accident
           \/ root' = root /\ Goto(p, "unpublish") /\ (root = Absent => Accident)
    BY <1>1, <1>2, <1>4, <1>8, <1>15 DEF Publish
  <2>2. /\ pc'[p] \in {"cleanup", "unpublish"}
        /\ \A q \in Processes : q # p => pc'[q] = pc[q]
        /\ pc'[p] = "cleanup" => accidents' = accidents /\ root' \in Images
        /\ pc'[p] = "unpublish" => (root = Absent => Accident)
    BY <1>9, <2>1 DEF Positions, Publish
  <2>3. ASSUME accidents' <= 1 PROVE Midway(p)'
    <3>1. /\ root = Absent /\ previous[slot[p]] \in Images
          /\ accidents = 0 => Intact = {slot[p]}
      BY <1>7, <2>1, <2>3 DEF Midway
    <3>2. pc'[p] = "unpublish" => accidents' = 1
      BY <1>8, <2>2, <2>3, <3>1
    <3> QED BY <1>10, <2>1, <2>2, <3>1, <3>2 DEF Midway
  <2> QED BY <1>4, <1>5, <2>2, <2>3, HolderSettles
<1>16. CASE Unpublish(p)
  <2>1. /\ pc[p] = "unpublish" /\ UNCHANGED <<previous, active, slot>>
        /\ \/ root' = Absent /\ Goto(p, "rollback") /\ accidents' = accidents
           \/ Goto(p, "unpublish") /\ accidents' = accidents
           \/ Return(p, "failed") /\ Accident
    BY <1>8, <1>16 DEF Unpublish
  <2>2. /\ pc'[p] \in {"rollback", "unpublish", "idle"}
        /\ \A q \in Processes : q # p => pc'[q] = pc[q]
        /\ pc'[p] \in {"rollback", "unpublish"} => accidents' = accidents
        /\ pc'[p] = "rollback" => root' = Absent
        /\ pc'[p] = "idle" => Accident
    BY <1>4, <1>9, <2>1 DEF Positions
  <2>3. ASSUME accidents' <= 1
        PROVE  IF pc'[p] \in Replacing THEN Midway(p)' ELSE Settled'
    <3>1. accidents = 1 /\ previous[slot[p]] \in Images
      BY <1>7, <2>1, <2>3 DEF Midway
    <3>2. pc'[p] # "idle"
      BY <1>8, <2>2, <2>3, <3>1
    <3> QED BY <1>4, <2>1, <2>2, <3>1, <3>2 DEF Midway
  <2> QED BY <1>5, <2>2, <2>3, HolderSettles
<1>17. CASE Rollback(p)
  <2>1. /\ pc[p] = "rollback" /\ Return(p, "failed") /\ active' = active
        /\ \/ root' = Copy /\ accidents' = accidents
           \/ Accident
    BY <1>8, <1>17 DEF Rollback, Move
  <2>2. pc'[p] \notin Replacing /\ \A q \in Processes : q # p => pc'[q] = pc[q]
    BY <1>4, <1>9, <2>1
  <2>3. ASSUME accidents' <= 1 PROVE Settled'
    <3>1. accidents = 1 /\ Copy \in Images
      BY <1>7, <2>1, <2>3 DEF Midway
    <3>2. root' \in Images /\ accidents' = 1
      BY <1>8, <2>1, <2>3, <3>1
    <3> QED BY <1>1, <3>2 DEF Settled
  <2> QED BY <1>5, <2>2, <2>3, HolderSettles
<1>18. CASE Cleanup(p)
  <2>1. /\ pc[p] = "cleanup" /\ UNCHANGED <<root, active, slot>>
        /\ \/ /\ previous' = [previous EXCEPT ![slot[p]] = Broken]
              /\ Goto(p, "cleanup") /\ accidents' = accidents
           \/ /\ previous' = [previous EXCEPT ![slot[p]] = Absent]
              /\ Goto(p, "activate") /\ accidents' = accidents
           \/ previous' = previous /\ Return(p, "failed") /\ Accident
    BY <1>8, <1>18 DEF Cleanup
  <2>2. /\ pc'[p] \in {"cleanup", "activate", "idle"}
        /\ \A q \in Processes : q # p => pc'[q] = pc[q]
        /\ pc'[p] # "idle" => accidents' = accidents
        /\ pc'[p] = "idle" => Accident
        /\ pc'[p] # "idle" => \E y \in {Broken, Absent} :
             previous' = [previous EXCEPT ![slot[p]] = y]
    BY <1>4, <1>9, <2>1 DEF Positions
  <2>3. ASSUME accidents' <= 1
        PROVE  IF pc'[p] \in Replacing THEN Midway(p)' ELSE Settled'
    <3>1. root \in Images /\ (accidents = 0 => Intact \subseteq {slot[p]})
      BY <1>7, <2>1, <2>3 DEF Midway
    <3>2. slot[p] \in 1..Len(previous)
      BY <1>2, <1>4, <2>1
    <3>3. pc'[p] # "idle" => Intact' = Intact \ {slot[p]}
      BY <1>1, <1>10, <2>2, <3>2, IntactExcept
    <3>4. CASE pc'[p] = "cleanup"
      BY <1>4, <2>1, <2>2, <3>1, <3>3, <3>4 DEF Midway
    <3>5. CASE pc'[p] = "activate"
      BY <1>1, <1>4, <2>1, <2>2, <3>1, <3>3, <3>5 DEF Settled
    <3>6. CASE pc'[p] = "idle"
      <4>1. accidents' = 1
        BY <1>8, <2>2, <2>3, <3>6
      <4> QED BY <1>1, <1>4, <2>1, <3>1, <3>6, <4>1 DEF Settled
    <3> QED BY <2>2, <3>4, <3>5, <3>6
  <2> QED BY <1>5, <2>2, <2>3, HolderSettles
<1>19. CASE Recover(p)
  <2>1. /\ pc[p] = "recover" /\ root = Absent /\ Intact = {slot[p]}
        /\ slot[p] \in 1..Len(previous) /\ UNCHANGED <<active, accidents>>
    BY <1>2, <1>3, <1>19 DEF Recover, Replaced, history
  <2>2. Copy \in Images /\ Copy # Absent
    BY <1>1, <2>1 DEF Intact
  <2>3. root' = Copy /\ Goto(p, "load")
    BY <1>19, <2>1, <2>2 DEF Recover, Move
  <2>4. pc'[p] \notin Replacing /\ \A q \in Processes : q # p => pc'[q] = pc[q]
    BY <1>4, <1>9, <2>3 DEF Positions
  <2>5. ASSUME accidents' <= 1 PROVE Settled'
    <3>1. Settled
      BY <1>4, <1>7, <2>1, <2>5
    <3>2. accidents' = 1
      BY <1>1, <2>1, <2>5, <3>1 DEF Settled
    <3> QED BY <1>1, <2>2, <2>3, <3>2 DEF Settled
  <2> QED BY <1>5, <2>4, <2>5, HolderSettles
<1>20. CASE Crash(p)
  <2>1. /\ Return(p, "crashed") /\ UNCHANGED <<root, previous, active, slot>>
        /\ pc[p] \in Replacing => Accident
        /\ pc[p] \notin Replacing => accidents' = accidents
    BY <1>8, <1>20 DEF Crash, store
  <2>2. pc'[p] \notin Replacing /\ \A q \in Processes : q # p => pc'[q] = pc[q]
    BY <1>4, <1>9, <2>1
  <2>3. CASE pc[p] \notin Replacing
    BY <1>11, <2>1, <2>2, <2>3
  <2>4. CASE pc[p] \in Replacing
    <3>1. ASSUME accidents' <= 1 PROVE Settled'
      <4>1. accidents = 0 /\ accidents' = 1 /\ Midway(p)
        BY <1>7, <1>8, <2>1, <2>4, <3>1
      <4>2. pc[p] \in {"publish", "cleanup"}
        BY <1>4, <2>4, <4>1 DEF Midway
      <4>3. CASE pc[p] = "publish"
        <5>1. root = Absent /\ Intact = {slot[p]} /\ slot[p] \in 1..Len(previous)
          BY <1>2, <1>4, <4>1, <4>3 DEF Midway
        <5> QED BY <1>10, <2>1, <4>1, <5>1 DEF Settled
      <4>4. CASE pc[p] = "cleanup"
        <5>1. root \in Images
          BY <4>1, <4>4 DEF Midway
        <5> QED BY <1>1, <2>1, <4>1, <5>1 DEF Settled
      <4> QED BY <4>2, <4>3, <4>4
    <3> QED BY <1>5, <2>2, <3>1, HolderSettles
  <2> QED BY <2>3, <2>4
<1> QED
  BY <1>12, <1>13, <1>14, <1>15, <1>16, <1>17, <1>18, <1>19, <1>20 DEF Work

\* A call that starts, or finds the lock taken, changes nothing on disk.
LEMMA StartSettles ==
  ASSUME Inv, ReplaceInv, AccidentInv, NEW p \in Processes, NEW c \in Calls, Start(p, c)
  PROVE  AccidentInv'
<1>1. /\ UNCHANGED <<root, previous, active, slot, accidents>> /\ Intact' = Intact
      /\ pc[p] = "idle"
  BY DEF Start, store, Intact
<1>2. /\ pc'[p] \notin Replacing /\ pc[p] \notin Replacing
      /\ \A q \in Processes : q # p => pc'[q] = pc[q]
  <2>1. \E position \in {"idle", "check", "activate", "look"} :
          pc' = [pc EXCEPT ![p] = position]
    BY DEF Start, Return, Entry
  <2> QED BY <1>1, <2>1 DEF Inv, TypeOK, Replacing
<1>3. Calm' <=> Calm
  BY <1>2 DEF Calm
<1>4. \A q \in Processes : Midway(q) => Midway(q)'
  BY <1>1, <1>2 DEF Midway, Replacing
<1>5. Settled => Settled'
  BY <1>1 DEF Settled
<1> QED BY <1>1, <1>3, <1>4, <1>5 DEF AccidentInv

\* With every reader under the operation lock, one accident in all replacements
\* leaves the active baseline where the next reader finds it: in its directory,
\* or in the only intact copy, whatever the captures and whoever runs.
THEOREM OneAccidentIsSurvived == LockedSpec => []RecoversFromOneAccident
<1>1. Init => AccidentInv
  <2> SUFFICES ASSUME Init PROVE AccidentInv
    OBVIOUS
  <2>1. Intact = {}
    BY DEF Init, Intact
  <2> QED BY <2>1 DEF Init, AccidentInv, Settled, Midway
<1>2. ASSUME Inv, ReplaceInv, AccidentInv, [LockedNext]_vars PROVE AccidentInv'
  <2>1. ASSUME NEW p \in Processes, StartSetup(p) \/ StartUse(p) \/ StartRead(p)
        PROVE  AccidentInv'
    <3>1. \E c \in Calls : Start(p, c)
      BY <2>1 DEF StartSetup, StartUse, StartRead, Calls
    <3> QED BY <1>2, <3>1, StartSettles
  <2>2. ASSUME UNCHANGED vars PROVE AccidentInv'
    BY <1>2, <2>2
    DEF AccidentInv, Calm, Settled, Midway, Intact, vars, store, history
  <2> QED BY <1>2, <2>1, <2>2, WorkSettles DEF LockedNext
<1>3. Inv /\ AccidentInv => RecoversFromOneAccident
  <2> SUFFICES ASSUME Inv, AccidentInv, active, accidents <= 1, Calm
               PROVE  root \in Images \/ (root = Absent /\ Cardinality(Intact) = 1)
    BY DEF RecoversFromOneAccident, Calm
  <2>1. Settled /\ accidents \in {0, 1}
    BY DEF AccidentInv, Inv, TypeOK
  <2>2. \A i : Cardinality({i}) = 1
    BY FS_Singleton
  <2> QED BY <2>1, <2>2 DEF Settled
<1>4. Inv /\ [LockedNext]_vars => Inv'
  BY InvNext, LockedSpecIsSpec
<1>5. Inv /\ ReplaceInv /\ [LockedNext]_vars => ReplaceInv'
  BY LockedKeeps
<1>6. Init => ReplaceInv
  BY InitReplaced
<1>7. Inv /\ ReplaceInv /\ AccidentInv /\ [LockedNext]_vars => AccidentInv'
  BY <1>2
<1> QED
  BY <1>1, <1>3, <1>4, <1>5, <1>6, <1>7, InvInit, PTL DEF LockedSpec

-----------------------------------------------------------------------------
(* Every call is short *)

\* The steps a call may still take.  The two removals take a step more when what
\* they remove is whole: rmtree leaves a half-removed directory meanwhile.
Places ==
  [idle |-> 0,
   check |-> 6, stage |-> 5, publish |-> 4, unpublish |-> 2, rollback |-> 1,
   cleanup |-> 2, activate |-> 1,
   look |-> 4, choose |-> 3, recover |-> 2, load |-> 1]

WholeLeft(p) ==
  \/ pc[p] = "cleanup" /\ previous[slot[p]] \in Images
  \/ pc[p] = "unpublish" /\ root # Broken

StepsLeft(p) == Places[pc[p]] + IF WholeLeft(p) THEN 1 ELSE 0

CallsAdvance ==
  [][\A p \in Processes :
       /\ Work(p) \/ Crash(p) => StepsLeft(p)' < StepsLeft(p)
       /\ pc[p] # "idle" =>
            call'[p] = call[p] /\ StepsLeft(p)' <= StepsLeft(p)]_vars

\* A process at work stays out of the calls of the others, removes what only a
\* setup may remove, and makes no copy whole.
LEMMA WorkLeavesOthers ==
  ASSUME Inv, NEW p \in Processes, Work(p) \/ Crash(p)
  PROVE  /\ call' = call
         /\ \A q \in Processes \ {p} : pc'[q] = pc[q] /\ slot'[q] = slot[q]
         /\ root' = root \/ Setting(p) \/ root = Absent
         /\ \A i \in 1..Len(previous) : previous'[i] \in Images => previous[i] \in Images
<1> USE DEF Goto, Return, store, history
<1>1. /\ pc \in [Processes -> Positions] /\ slot \in [Processes -> Nat]
      /\ previous \in Seq(Contents)
      /\ Broken \notin Images /\ Absent \notin Images
  BY ContentsAssumption DEF Inv, TypeOK, Contents
<1>2. pc[p] \in Writing => Setting(p)
  BY DEF Inv, WorkInv, Setting
<1>3. call' = call
  BY DEF Work, Crash, Check, Commit, Displace, Publish, Unpublish, Rollback,
         Cleanup, Activate, Look, Choose, Recover, Load, Raise
<1>4. \A q \in Processes \ {p} : pc'[q] = pc[q]
  <2>1. \E position : pc' = [pc EXCEPT ![p] = position]
    BY DEF Work, Crash, Check, Commit, Displace, Publish, Unpublish, Rollback,
           Cleanup, Activate, Look, Choose, Recover, Load, Raise
  <2> QED
    BY <1>1, <2>1
<1>5. \A q \in Processes \ {p} : slot'[q] = slot[q]
  <2>1. slot' = slot \/ \E i : slot' = [slot EXCEPT ![p] = i]
    BY DEF Work, Crash, Check, Commit, Displace, Publish, Unpublish, Rollback,
           Cleanup, Activate, Look, Choose, Recover, Load, Raise
  <2> QED
    BY <1>1, <2>1
<1>6. root' = root \/ Setting(p) \/ root = Absent
  BY <1>2
  DEF Work, Crash, Check, Commit, Displace, Publish, Unpublish, Rollback,
      Cleanup, Activate, Look, Choose, Recover, Load, Raise, Writing, Replacing, Move
<1>7. \A i \in 1..Len(previous) : previous'[i] \in Images => previous[i] \in Images
  <2>1. \/ previous' = previous
        \/ previous' = Append(previous, root)
        \/ \E i \in Nat, content \in {Absent, Broken} :
             previous' = [previous EXCEPT ![i] = content]
    BY <1>1
    DEF Work, Crash, Check, Commit, Displace, Publish, Unpublish, Rollback,
        Cleanup, Activate, Look, Choose, Recover, Load, Raise, Move
  <2> QED
    BY <1>1, <2>1
<1> QED
  BY <1>3, <1>4, <1>5, <1>6, <1>7

\* A step of the call lowers its measure.
LEMMA WorkLowers ==
  ASSUME Inv, Inv', NEW p \in Processes, Work(p) \/ Crash(p)
  PROVE  StepsLeft(p)' < StepsLeft(p)
<1> USE DEF Goto, Return, store
<1>1. /\ pc \in [Processes -> Positions] /\ pc' \in [Processes -> Positions]
      /\ slot[p] \in Nat /\ previous \in Seq(Contents)
      /\ Broken \notin Images /\ Absent \notin Images /\ Absent # Broken
  BY ContentsAssumption DEF Inv, TypeOK, Contents
<1>2. PICK k \in 0..6, j \in 0..6 : k = Places[pc[p]] /\ j = Places[pc'[p]]
  BY <1>1 DEF Places, Positions
<1>3. PICK w \in 0..1, v \in 0..1 :
        /\ w = IF WholeLeft(p) THEN 1 ELSE 0
        /\ v = IF WholeLeft(p)' THEN 1 ELSE 0
  OBVIOUS
<1>4. StepsLeft(p) = k + w /\ StepsLeft(p)' = j + v
  BY <1>2, <1>3 DEF StepsLeft, Places
<1>5. CASE pc[p] # "idle" /\ pc'[p] = "idle"
  <2>1. k >= 1 /\ j = 0
    BY <1>1, <1>2, <1>5 DEF Places, Positions
  <2>2. v = 0
    BY <1>3, <1>5 DEF WholeLeft
  <2> QED
    BY <1>4, <2>1, <2>2
<1>6. CASE /\ ~(pc[p] # "idle" /\ pc'[p] = "idle")
           /\ \/ Check(p) \/ Commit(p) \/ Displace(p) \/ Publish(p) \/ Rollback(p)
              \/ Activate(p) \/ Look(p) \/ Choose(p) \/ Recover(p) \/ Load(p) \/ Raise(p)
              \/ Crash(p)
  <2>1. \/ pc[p] = "check" /\ pc'[p] \in {"stage", "activate"}
        \/ pc[p] = "stage" /\ pc'[p] \in {"activate", "publish"}
        \/ pc[p] = "publish" /\ pc'[p] \in {"cleanup", "unpublish"}
        \/ pc[p] = "look" /\ pc'[p] \in {"choose", "load"}
        \/ pc[p] = "choose" /\ pc'[p] = "recover"
        \/ pc[p] = "recover" /\ pc'[p] = "load"
    <3>1. CASE Check(p) \/ Commit(p) \/ Displace(p) \/ Publish(p)
      BY <1>1, <1>6, <3>1 DEF Check, Commit, Displace, Publish
    <3>2. CASE Rollback(p) \/ Activate(p) \/ Load(p) \/ Raise(p) \/ Crash(p)
      BY <1>1, <1>6, <3>2 DEF Rollback, Activate, Load, Raise, Crash
    <3>3. CASE Look(p) \/ Choose(p) \/ Recover(p)
      BY <1>1, <1>6, <3>3 DEF Look, Choose, Recover
    <3> QED
      BY <1>6, <3>1, <3>2, <3>3
  <2>2. \/ j + 2 <= k
        \/ j < k /\ v = 0
    BY <1>2, <1>3, <2>1 DEF Places, WholeLeft
  <2> QED
    BY <1>4, <2>2
<1>7. CASE Unpublish(p) /\ pc'[p] # "idle"
  <2>1. \/ pc'[p] = "rollback" /\ root \in {Absent, Broken}
        \/ pc'[p] = "unpublish" /\ root \in Images /\ root' = Broken
    BY <1>1, <1>7 DEF Unpublish
  <2>2. pc[p] = "unpublish"
    BY <1>7 DEF Unpublish
  <2>3. CASE pc'[p] = "rollback"
    <3>1. k = 2 /\ j = 1 /\ v = 0
      BY <1>2, <1>3, <2>2, <2>3 DEF Places, WholeLeft
    <3> QED
      BY <1>4, <3>1
  <2>4. CASE pc'[p] = "unpublish"
    <3>1. k = j /\ w = 1 /\ v = 0
      BY <1>1, <1>2, <1>3, <2>1, <2>2, <2>4 DEF WholeLeft
    <3> QED
      BY <1>4, <3>1
  <2> QED
    BY <2>1, <2>3, <2>4
<1>8. CASE Cleanup(p) /\ pc'[p] # "idle"
  <2>1. /\ pc[p] = "cleanup" /\ slot'[p] = slot[p]
        /\ \/ /\ pc'[p] = "cleanup" /\ previous[slot[p]] \in Images
              /\ previous' = [previous EXCEPT ![slot[p]] = Broken]
           \/ pc'[p] = "activate"
    BY <1>1, <1>8 DEF Cleanup
  <2>2. CASE pc'[p] = "activate"
    <3>1. k = 2 /\ j = 1 /\ v = 0
      BY <1>2, <1>3, <2>1, <2>2 DEF Places, WholeLeft
    <3> QED
      BY <1>4, <3>1
  <2>3. CASE pc'[p] = "cleanup"
    <3>1. slot[p] \in 1..Len(previous)
      BY <2>1 DEF Inv, WorkInv, Replacing
    <3>2. previous'[slot'[p]] = Broken
      BY <1>1, <2>1, <2>3, <3>1
    <3>3. k = j /\ w = 1 /\ v = 0
      BY <1>1, <1>2, <1>3, <2>1, <2>3, <3>2 DEF WholeLeft
    <3> QED
      BY <1>4, <3>3
  <2> QED
    BY <2>1, <2>2, <2>3
<1>9. Unpublish(p) \/ Cleanup(p) => pc[p] # "idle"
  BY DEF Unpublish, Cleanup
<1> QED
  BY <1>5, <1>6, <1>7, <1>8, <1>9 DEF Work

\* Nobody else raises it: what is half removed stays so, as an unlocked reader
\* moves a copy only to where there is nothing.
LEMMA OthersNeverRaise ==
  ASSUME Inv, InstalledInv, NEW p \in Processes, NEW q \in Processes \ {p},
         Work(p) \/ Crash(p), pc[q] # "idle"
  PROVE  call'[q] = call[q] /\ StepsLeft(q)' <= StepsLeft(q)
<1>1. /\ call' = call /\ pc'[q] = pc[q] /\ slot'[q] = slot[q]
      /\ root' = root \/ Setting(p) \/ root = Absent
      /\ \A i \in 1..Len(previous) : previous'[i] \in Images => previous[i] \in Images
  BY WorkLeavesOthers
<1>2. PICK k \in 0..6 : k = Places[pc[q]]
  BY DEF Inv, TypeOK, Places, Positions
<1>3. WholeLeft(q)' => WholeLeft(q)
  <2>1. CASE pc[q] = "cleanup"
    <3>1. slot[q] \in 1..Len(previous)
      BY <2>1 DEF Inv, WorkInv, Replacing
    <3> QED
      BY <1>1, <2>1, <3>1 DEF WholeLeft
  <2>2. CASE pc[q] = "unpublish"
    <3>1. Setting(q)
      BY <2>2 DEF Inv, WorkInv, Setting, Writing, Replacing
    <3>2. lock = q
      BY <3>1 DEF InstalledInv, Installed
    <3>3. ~Setting(p)
      BY <3>2 DEF InstalledInv, Installed
    <3>4. root = Broken => root' = Broken
      BY <1>1, <3>3, ContentsAssumption
    <3> QED
      BY <1>1, <2>2, <3>4 DEF WholeLeft
  <2> QED
    BY <1>1, <2>1, <2>2 DEF WholeLeft
<1>4. StepsLeft(q) = k + (IF WholeLeft(q) THEN 1 ELSE 0)
      /\ StepsLeft(q)' = k + (IF WholeLeft(q)' THEN 1 ELSE 0)
  BY <1>1, <1>2 DEF StepsLeft, Places
<1> QED
  BY <1>1, <1>3, <1>4

\* Nothing that begins touches a call under way.
LEMMA StartsNeverRaise ==
  ASSUME Inv, NEW p \in Processes, NEW q \in Processes, pc[q] # "idle",
         StartSetup(p) \/ StartUse(p) \/ StartRead(p) \/ StartShow(p)
  PROVE  call'[q] = call[q] /\ StepsLeft(q)' = StepsLeft(q)
<1>1. PICK c \in Calls : Start(p, c)
  BY DEF StartSetup, StartUse, StartRead, StartShow, Calls
<1>2. call'[q] = call[q] /\ pc'[q] = pc[q] /\ UNCHANGED <<store, slot>>
  BY <1>1 DEF Start, Return, Inv, TypeOK
<1> QED
  BY <1>2 DEF StepsLeft, WholeLeft, store

\* A call takes at most six steps, whatever becomes of it: no other process,
\* those included that read without the lock, takes one of them back.
THEOREM CallsAreShort == Spec => CallsAdvance
<1>1. Init => InstalledInv
  BY DEF Init, InstalledInv, Installed, Setting, Writing, Replacing
<1>2. ASSUME Inv, Inv', InstalledInv, Next, NEW p \in Processes
      PROVE  /\ Work(p) \/ Crash(p) => StepsLeft(p)' < StepsLeft(p)
             /\ pc[p] # "idle" =>
                  call'[p] = call[p] /\ StepsLeft(p)' <= StepsLeft(p)
  <2>1. Work(p) \/ Crash(p) => StepsLeft(p)' < StepsLeft(p)
    BY <1>2, WorkLowers
  <2>2. StepsLeft(p) \in Int /\ StepsLeft(p)' \in Int
    BY <1>2 DEF StepsLeft, Places, Positions, Inv, TypeOK
  <2>3. ASSUME NEW u \in Processes, Work(u) \/ Crash(u), pc[p] # "idle"
        PROVE  call'[p] = call[p] /\ StepsLeft(p)' <= StepsLeft(p)
    <3>1. CASE u = p
      BY <1>2, <2>1, <2>2, <2>3, <3>1, WorkLeavesOthers
    <3>2. CASE u # p
      BY <1>2, <2>3, <3>2, OthersNeverRaise
    <3> QED
      BY <3>1, <3>2
  <2>4. ASSUME NEW u \in Processes, pc[p] # "idle",
               StartSetup(u) \/ StartUse(u) \/ StartRead(u) \/ StartShow(u)
        PROVE  call'[p] = call[p] /\ StepsLeft(p)' <= StepsLeft(p)
    BY <1>2, <2>2, <2>4, StartsNeverRaise
  <2> QED
    BY <1>2, <2>1, <2>3, <2>4 DEF Next, LockedNext
<1>3. Inv /\ Inv' /\ InstalledInv /\ [Next]_vars =>
        [\A p \in Processes :
           /\ Work(p) \/ Crash(p) => StepsLeft(p)' < StepsLeft(p)
           /\ pc[p] # "idle" =>
                call'[p] = call[p] /\ StepsLeft(p)' <= StepsLeft(p)]_vars
  BY <1>2
<1> QED
  BY <1>1, <1>3, InvInit, InvNext, InstalledNext, PTL DEF Spec, CallsAdvance
=============================================================================
