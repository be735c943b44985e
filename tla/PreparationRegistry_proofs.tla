---------------------- MODULE PreparationRegistry_proofs ----------------------
(***************************************************************************)
(* Proofs about PreparationRegistry, for any number of threads, owners and *)
(* preparations and any limits: the registry implements single-use         *)
(* tickets, hardware work is exclusive, the registry keeps within its      *)
(* limits and what it tells its callers is true.                           *)
(***************************************************************************)
EXTENDS PreparationRegistry, FiniteSetTheorems, SequenceTheorems,
        WellFoundedInduction, TLAPS

USE ThreadsAssumption, LimitsAssumption

\* The positions in which a thread holds the claim.
Holding == {"observe", "load", "claimed", "running", "release"}

TypeInv ==
  /\ issued \in 0..MaxIssued
  /\ ownerOf \in [1..issued -> Owners]
  /\ active \subseteq 1..issued
  /\ consumed \subseteq 1..issued
  /\ executing \subseteq consumed
  /\ accepted = consumed
  /\ claim \in Threads \cup {NoThread}
  /\ pc \in [Threads -> Positions]
  /\ call \in [Threads -> PrepareCalls \cup ExecuteCalls \cup {NoCall}]

ClaimInv == \A t \in Threads : claim = t <=> pc[t] \in Holding

\* What a thread past its first look at the registry has in hand.
CallInv ==
  \A t \in Threads :
    /\ pc[t] \in {"entered", "contended", "claimed", "running", "release"} =>
         call[t] \in ExecuteCalls /\ call[t].id <= issued
    /\ pc[t] \in {"observe", "target", "load", "register"} =>
         call[t] \in PrepareCalls

\* The executing flags are those of the running threads.
RunInv ==
  /\ ExecutionKeepsRecord
  /\ \A id \in executing :
       \E t \in Threads : pc[t] = "running" /\ call[t].id = id

BoundInv == issued + Cardinality(Preparing) <= MaxIssued

Inv == TypeInv /\ ClaimInv /\ CallInv /\ RunInv /\ BoundInv

-----------------------------------------------------------------------------

\* Preparations in progress are at most one per thread.
LEMMA PreparingFinite == IsFiniteSet(Preparing) /\ Cardinality(Preparing) \in Nat
BY FS_Subset, FS_CardinalityType DEF Preparing

\* The invariant holds initially.
LEMMA InitInv == Init => Inv
<1> SUFFICES ASSUME Init PROVE Inv
  OBVIOUS
<1>1. TypeInv
  BY DEF Init, TypeInv, Positions
<1>2. BoundInv
  <2>1. Preparing = {}
    BY DEF Init, Preparing
  <2> QED
    BY <2>1, FS_EmptySet DEF Init, BoundInv
<1> QED
  BY <1>1, <1>2
  DEF Init, Inv, ClaimInv, CallInv, RunInv, ExecutionKeepsRecord, Holding

\* One thread runs at a time: it is the one that holds the claim.
LEMMA OneRuns ==
  ASSUME Inv, NEW t \in Threads, pc[t] \in Holding
  PROVE  /\ \A u \in Threads : pc[u] \in Holding => u = t
         /\ pc[t] = "running" => executing = {call[t].id}
         /\ pc[t] # "running" => executing = {}
BY DEF Inv, ClaimInv, RunInv, ExecutionKeepsRecord, Holding

-----------------------------------------------------------------------------
(* The steps *)

\* A restore or an apply prepares, a preparation is executed, an owner goes.
LEMMA NextSplit ==
  ASSUME [Next]_vars
  PROVE  \/ \E t \in Threads :
              \/ \E c \in PrepareCalls : StartPrepare(t, c)
              \/ \E c \in ExecuteCalls : StartExecute(t, c)
              \/ Observe(t) \/ ClaimTarget(t) \/ LoadTarget(t) \/ Register(t)
              \/ Claim(t) \/ Contend(t) \/ Accept(t) \/ Finish(t) \/ Release(t)
         \/ \E o \in Owners : OwnerDies(o)
         \/ UNCHANGED vars
BY DEF Next, Work

\* Reclaiming only ever forgets records that no execution uses.
LEMMA LivingKeepsExecuting ==
  LivingRecords \subseteq active /\ executing \cap active \subseteq LivingRecords
BY DEF LivingRecords

\* One more element is at most one more.
LEMMA AddOne ==
  ASSUME NEW S, NEW x, IsFiniteSet(S)
  PROVE  Cardinality(S \cup {x}) <= Cardinality(S) + 1
<1>1. Cardinality(S) \in Nat
  BY FS_CardinalityType
<1>2. Cardinality(S \cup {x}) \in {Cardinality(S), Cardinality(S) + 1}
  BY FS_AddElement, Zenon
<1> QED
  BY <1>1, <1>2

\* One element less is not more.
LEMMA RemoveOne ==
  ASSUME NEW S, NEW x, IsFiniteSet(S)
  PROVE  /\ Cardinality(S \ {x}) <= Cardinality(S)
         /\ Cardinality(S \ {x}) \in Nat
<1>1. Cardinality(S) \in Nat /\ Cardinality(S \ {x}) \in Nat
  BY FS_CardinalityType, FS_RemoveElement, Zenon
<1>2. Cardinality(S \ {x}) \in {Cardinality(S), Cardinality(S) - 1}
  BY FS_RemoveElement, Zenon
<1> QED
  BY <1>1, <1>2

\* Every step of every thread preserves the invariant.
LEMMA StepInv == Inv /\ [Next]_vars => Inv'
<1> SUFFICES ASSUME Inv, [Next]_vars PROVE Inv'
  OBVIOUS
<1> USE DEF registry, Goto, Return, Unclaim, ClaimOrBusy, Mark, Reclaim, Inv
<1>1. ASSUME NEW t \in Threads, NEW c \in PrepareCalls, StartPrepare(t, c)
      PROVE  Inv'
  <2>1. TypeInv'
    BY <1>1 DEF StartPrepare, TypeInv, Positions
  <2>2. ClaimInv' /\ CallInv' /\ RunInv'
    BY <1>1 DEF StartPrepare, TypeInv, ClaimInv, CallInv, RunInv,
                ExecutionKeepsRecord, Holding
  <2>3. BoundInv'
    <3>1. Preparing' \in {Preparing, Preparing \cup {t}}
      BY <1>1 DEF StartPrepare, Preparing, TypeInv
    <3>2. Cardinality(Preparing') <= Cardinality(Preparing) + 1
      <4>1. Cardinality(Preparing \cup {t}) <= Cardinality(Preparing) + 1
        BY PreparingFinite, AddOne
      <4>2. Cardinality(Preparing) <= Cardinality(Preparing) + 1
        BY PreparingFinite
      <4> QED
        BY <3>1, <4>1, <4>2, Zenon
    <3>3. /\ issued' = issued /\ Cardinality(Preparing') \in Nat
          /\ issued + Cardinality(Preparing) < MaxIssued
      BY <1>1, <3>1, PreparingFinite, FS_AddElement, FS_CardinalityType
      DEF StartPrepare
    <3> QED
      BY <3>2, <3>3, PreparingFinite DEF BoundInv, TypeInv
  <2> QED
    BY <2>1, <2>2, <2>3
<1>2. ASSUME NEW t \in Threads, NEW c \in ExecuteCalls, StartExecute(t, c)
      PROVE  Inv'
  <2>1. /\ pc[t] = "idle" /\ call' = [call EXCEPT ![t] = c] /\ c.id <= issued
        /\ UNCHANGED <<issued, ownerOf, consumed, executing, claim, accepted>>
        /\ active' \in {active, LivingRecords}
        /\ \/ pc' = [pc EXCEPT ![t] = "idle"]
           \/ pc' = [pc EXCEPT ![t] = "entered"]
    BY <1>2 DEF StartExecute
  <2>2. TypeInv'
    BY <2>1, LivingKeepsExecuting DEF TypeInv, Positions
  <2>3. ClaimInv' /\ CallInv'
    BY <2>1 DEF TypeInv, ClaimInv, CallInv, Holding
  <2>4. RunInv'
    <3>1. \A u \in Threads : pc'[u] = "running" <=> pc[u] = "running"
      BY <2>1 DEF TypeInv
    <3>2. \A u \in Threads : pc[u] = "running" => call'[u] = call[u]
      BY <2>1 DEF TypeInv
    <3>3. executing \cap active \subseteq active'
      BY <2>1, LivingKeepsExecuting
    <3>4. UNCHANGED <<executing, consumed, ownerOf>>
      BY <2>1
    <3> QED
      BY <3>1, <3>2, <3>3, <3>4 DEF RunInv, ExecutionKeepsRecord
  <2>5. BoundInv'
    <3>1. Preparing' = Preparing
      BY <2>1 DEF Preparing, TypeInv
    <3> QED
      BY <2>1, <3>1 DEF BoundInv
  <2> QED
    BY <2>2, <2>3, <2>4, <2>5
<1>3. ASSUME NEW t \in Threads, Observe(t) \/ ClaimTarget(t) \/ LoadTarget(t)
      PROVE  Inv'
  <2>1. TypeInv'
    BY <1>3 DEF Observe, ClaimTarget, LoadTarget, TypeInv, Positions
  <2>2. ClaimInv' /\ CallInv'
    BY <1>3 DEF Observe, ClaimTarget, LoadTarget, TypeInv, ClaimInv, CallInv,
                Holding
  <2>3. RunInv'
    <3>1. /\ \A u \in Threads : pc'[u] = "running" <=> pc[u] = "running"
          /\ UNCHANGED <<active, executing, consumed, ownerOf, call>>
      BY <1>3 DEF Observe, ClaimTarget, LoadTarget, TypeInv
    <3> QED
      BY <3>1 DEF RunInv, ExecutionKeepsRecord
  <2>4. BoundInv'
    <3>1. Preparing' \in {Preparing, Preparing \ {t}}
      BY <1>3 DEF Observe, ClaimTarget, LoadTarget, Preparing, TypeInv
    <3>2. /\ Cardinality(Preparing') <= Cardinality(Preparing)
          /\ Cardinality(Preparing') \in Nat
      <4>1. /\ Cardinality(Preparing \ {t}) <= Cardinality(Preparing)
            /\ Cardinality(Preparing \ {t}) \in Nat
        BY PreparingFinite, RemoveOne
      <4> QED
        BY <3>1, <4>1, PreparingFinite
    <3>3. issued' = issued
      BY <1>3 DEF Observe, ClaimTarget, LoadTarget
    <3> QED
      BY <3>2, <3>3, PreparingFinite DEF BoundInv, TypeInv
  <2> QED
    BY <2>1, <2>2, <2>3, <2>4
<1>4. ASSUME NEW t \in Threads, Register(t)
      PROVE  Inv'
  <2>1. t \in Preparing /\ Preparing' = Preparing \ {t}
    BY <1>4 DEF Register, Preparing, TypeInv
  <2>2. Cardinality(Preparing') = Cardinality(Preparing) - 1 /\ issued < MaxIssued
    <3>1. Cardinality(Preparing) >= 1
      BY <2>1, PreparingFinite, FS_EmptySet, FS_RemoveElement, FS_CardinalityType
    <3>2. Cardinality(Preparing \ {t}) = Cardinality(Preparing) - 1
      BY <2>1, PreparingFinite, FS_RemoveElement
    <3> QED
      BY <2>1, <3>1, <3>2, PreparingFinite DEF BoundInv, TypeInv
  <2>3. /\ pc[t] = "register" /\ pc' = [pc EXCEPT ![t] = "idle"]
        /\ UNCHANGED <<consumed, executing, accepted, claim, call>>
        /\ executing \cap active \subseteq active'
    BY <1>4, LivingKeepsExecuting DEF Register, Evictable
  <2>4. \/ UNCHANGED <<issued, ownerOf>> /\ active' \subseteq active
        \/ /\ issued' = issued + 1
           /\ active' \subseteq active \cup {issued'}
           /\ ownerOf' = [id \in 1..issued' |->
                            IF id = issued' THEN call[t].owner ELSE ownerOf[id]]
    BY <1>4, LivingKeepsExecuting DEF Register
  <2>5. call[t].owner \in Owners
    BY <2>3 DEF CallInv, PrepareCalls
  <2>6. TypeInv'
    <3>1. issued' \in {issued, issued + 1} /\ issued' \in 0..MaxIssued
      BY <2>2, <2>4 DEF TypeInv
    <3>2. ownerOf' \in [1..issued' -> Owners]
      BY <2>4, <2>5, <3>1 DEF TypeInv
    <3>3. /\ 1..issued \subseteq 1..issued'
          /\ issued' = issued + 1 => issued' \in 1..issued'
      BY <3>1 DEF TypeInv
    <3>4. active' \subseteq 1..issued' /\ consumed' \subseteq 1..issued'
      BY <2>3, <2>4, <3>1, <3>3 DEF TypeInv
    <3> QED
      BY <2>3, <3>1, <3>2, <3>4 DEF TypeInv, Positions
  <2>7. ClaimInv' /\ CallInv'
    BY <2>3, <2>4 DEF TypeInv, ClaimInv, CallInv, Holding, ExecuteCalls, Ids
  <2>8. RunInv'
    <3>1. \A u \in Threads : pc'[u] = "running" <=> pc[u] = "running"
      BY <2>3 DEF TypeInv
    <3>2. \A id \in 1..issued : ownerOf'[id] = ownerOf[id]
      BY <2>4 DEF TypeInv
    <3> QED
      BY <2>3, <3>1, <3>2 DEF TypeInv, RunInv, ExecutionKeepsRecord
  <2>9. BoundInv'
    BY <2>2, <2>4, PreparingFinite DEF BoundInv, TypeInv
  <2> QED
    BY <2>6, <2>7, <2>8, <2>9
<1>5. ASSUME NEW t \in Threads, Claim(t) \/ Contend(t) \/ Release(t)
      PROVE  Inv'
  <2>1. TypeInv'
    BY <1>5 DEF Claim, Contend, Release, TypeInv, Positions
  <2>2. ClaimInv' /\ CallInv'
    BY <1>5 DEF Claim, Contend, Release, TypeInv, ClaimInv, CallInv, Holding
  <2>3. RunInv'
    <3>1. /\ \A u \in Threads : pc'[u] = "running" <=> pc[u] = "running"
          /\ UNCHANGED <<active, executing, consumed, ownerOf, call>>
      BY <1>5 DEF Claim, Contend, Release, TypeInv
    <3> QED
      BY <3>1 DEF RunInv, ExecutionKeepsRecord
  <2>4. BoundInv'
    <3>1. Preparing' = Preparing
      BY <1>5 DEF Claim, Contend, Release, Preparing, TypeInv
    <3> QED
      BY <1>5, <3>1 DEF Claim, Contend, Release, BoundInv
  <2> QED
    BY <2>1, <2>2, <2>3, <2>4
<1>6. ASSUME NEW t \in Threads, Accept(t)
      PROVE  Inv'
  <2> DEFINE id == call[t].id
  <2>1. /\ pc[t] = "claimed" /\ id \in 1..issued /\ executing = {}
        /\ active' = LivingRecords /\ UNCHANGED <<issued, ownerOf, call>>
    BY <1>6, OneRuns DEF Accept, CallInv, ExecuteCalls, Ids, TypeInv, Holding
  <2>2. \/ /\ pc' = [pc EXCEPT ![t] = "idle"] /\ claim' = NoThread
           /\ UNCHANGED <<consumed, executing, accepted>>
        \/ /\ id \in LivingRecords \ consumed
           /\ ownerOf[id] = call[t].owner /\ call[t].faithful
           /\ consumed' = consumed \cup {id} /\ accepted' = accepted \cup {id}
           /\ executing' = executing \cup {id}
           /\ pc' = [pc EXCEPT ![t] = "running"] /\ claim' = claim
    BY <1>6 DEF Accept
  <2>3. TypeInv'
    BY <2>1, <2>2, LivingKeepsExecuting DEF TypeInv, Positions
  <2>4. ClaimInv' /\ CallInv'
    BY <2>1, <2>2 DEF TypeInv, ClaimInv, CallInv, Holding
  <2>5. RunInv'
    BY <2>1, <2>2, LivingKeepsExecuting, OneRuns
    DEF TypeInv, RunInv, ExecutionKeepsRecord, Holding
  <2>6. BoundInv'
    <3>1. Preparing' = Preparing
      BY <2>1, <2>2 DEF Preparing, TypeInv
    <3> QED
      BY <2>1, <3>1 DEF BoundInv
  <2> QED
    BY <2>3, <2>4, <2>5, <2>6
<1>7. ASSUME NEW t \in Threads, Finish(t)
      PROVE  Inv'
  <2> DEFINE id == call[t].id
  <2>1. /\ pc[t] = "running" /\ pc' = [pc EXCEPT ![t] = "release"]
        /\ executing = {id} /\ executing' = {} /\ active' \subseteq active
        /\ UNCHANGED <<issued, ownerOf, consumed, accepted, claim, call>>
    BY <1>7, OneRuns DEF Finish, Holding
  <2>2. TypeInv'
    BY <2>1 DEF TypeInv, Positions
  <2>3. ClaimInv' /\ CallInv'
    BY <2>1 DEF TypeInv, ClaimInv, CallInv, Holding
  <2>4. RunInv'
    BY <2>1, OneRuns DEF TypeInv, RunInv, ExecutionKeepsRecord, Holding
  <2>5. BoundInv'
    <3>1. Preparing' = Preparing
      BY <2>1 DEF Preparing, TypeInv
    <3> QED
      BY <2>1, <3>1 DEF BoundInv
  <2> QED
    BY <2>2, <2>3, <2>4, <2>5
<1>8. ASSUME UNCHANGED <<registry, claim, pc, call, accepted>>
      PROVE  Inv'
  BY <1>8 DEF TypeInv, ClaimInv, CallInv, RunInv, ExecutionKeepsRecord, BoundInv,
              Preparing
<1> QED
  BY <1>1, <1>2, <1>3, <1>4, <1>5, <1>6, <1>7, <1>8, NextSplit
  DEF OwnerDies, vars

\* The invariant holds throughout.
THEOREM Invariance == Spec => []Inv
BY InitInv, StepInv, PTL DEF Spec

-----------------------------------------------------------------------------
(* Exclusion *)

\* Hardware work is exclusive: it is done under the claim.
THEOREM Exclusion == Spec => []HardwareExclusive
<1>1. Inv => HardwareExclusive
  BY DEF Inv, ClaimInv, HardwareExclusive, Holding
<1> QED
  BY <1>1, Invariance, PTL

\* A record in execution is never evicted, retired or handed to another owner.
THEOREM ExecutionIsKept == Spec => []ExecutionKeepsRecord
<1>1. Inv => ExecutionKeepsRecord
  BY DEF Inv, RunInv
<1> QED
  BY <1>1, Invariance, PTL

-----------------------------------------------------------------------------
(* Refinement of PreparationTickets *)

\* A step that only forgets records, none of them under execution, drops
\* tickets nobody has used.
LEMMA ForgettingDrops ==
  ASSUME Inv, active' \subseteq active, executing \cap active \subseteq active',
         UNCHANGED <<issued, executing, accepted>>
  PROVE  Tickets!Drop
<1> DEFINE dropped == (active \ active') \ accepted
<1>1. dropped \in SUBSET Tickets!Issued
  BY DEF Inv, TypeInv, Tickets!Issued, Ticket, Ids
<1>2. Ticket' = [id \in Ids |->
                   IF id \in {} THEN "retired"
                   ELSE IF id \in dropped THEN "retired" ELSE Ticket[id]]
  BY DEF Inv, TypeInv, Ticket, Ids
<1> QED
  BY <1>1, <1>2 DEF Tickets!Drop, Tickets!Visit

\* Issuing, accepting and finishing are the steps of the same name of a ticket;
\* every other step only forgets records, or nothing.
LEMMA StepRefines ==
  ASSUME Inv, Inv', [Next]_vars
  PROVE  [Tickets!Next]_Ticket
<1> USE DEF registry, Goto, Return, Unclaim, ClaimOrBusy, Mark, Reclaim
<1>1. ASSUME NEW t \in Threads, Register(t), issued' = issued + 1
      PROVE  Tickets!Next
  <2> DEFINE new == issued + 1
             dropped == (active \ active') \ accepted
  <2>1. /\ active' \subseteq active \cup {new} /\ new \in active'
        /\ executing \cap active \subseteq active'
        /\ UNCHANGED <<executing, accepted>>
    BY <1>1, LivingKeepsExecuting DEF Register, Evictable, Inv, TypeInv
  <2>2. new \in Ids /\ Ticket[new] = "unissued"
    BY <1>1 DEF Inv, TypeInv, Ids, Ticket
  <2>3. dropped \in SUBSET Tickets!Issued
    BY DEF Inv, TypeInv, Tickets!Issued, Ticket, Ids
  <2>4. Ticket' = [id \in Ids |->
                     IF id \in {new} THEN "issued"
                     ELSE IF id \in dropped THEN "retired" ELSE Ticket[id]]
    BY <1>1, <2>1, <2>2 DEF Inv, TypeInv, Ticket, Ids
  <2> QED
    BY <2>2, <2>3, <2>4 DEF Tickets!Next, Tickets!Issue, Tickets!Visit
<1>2. ASSUME NEW t \in Threads, Accept(t), executing' # executing
      PROVE  Tickets!Next
  <2> DEFINE id == call[t].id
             dropped == (active \ active') \ accepted
  <2>1. /\ executing = {} /\ id \in active \ consumed /\ id \in active'
        /\ executing' = {id} /\ accepted' = accepted \cup {id}
        /\ active' \subseteq active /\ issued' = issued
    BY <1>2, OneRuns, LivingKeepsExecuting DEF Accept, Holding
  <2>2. id \in Ids /\ Ticket[id] = "issued"
    BY <2>1 DEF Inv, TypeInv, Ids, Ticket
  <2>3. dropped \in SUBSET Tickets!Issued
    BY DEF Inv, TypeInv, Tickets!Issued, Ticket, Ids
  <2>4. \A other \in Ids : Ticket[other] # "executing"
    BY <2>1 DEF Ticket
  <2>5. Ticket' = [other \in Ids |->
                     IF other \in {id} THEN "executing"
                     ELSE IF other \in dropped THEN "retired" ELSE Ticket[other]]
    BY <2>1, <2>2 DEF Inv, TypeInv, Ticket, Ids
  <2> QED
    BY <2>2, <2>3, <2>4, <2>5 DEF Tickets!Next, Tickets!Accept, Tickets!Visit
<1>3. ASSUME NEW t \in Threads, Finish(t)
      PROVE  Tickets!Next
  <2> DEFINE id == call[t].id
             dropped == (active \ active') \ accepted
  <2>1. /\ executing = {id} /\ executing' = {} /\ id \in consumed
        /\ active' \subseteq active /\ UNCHANGED <<issued, accepted>>
    BY <1>3, OneRuns DEF Finish, Holding, Inv, TypeInv
  <2>2. id \in Ids /\ Ticket[id] = "executing"
    <3>1. consumed \subseteq 1..issued /\ issued \in 0..MaxIssued
      BY DEF Inv, TypeInv
    <3>2. id \in 1..issued
      BY <2>1, <3>1
    <3> QED
      BY <2>1, <3>1, <3>2 DEF Ids, Ticket
  <2>3. dropped \in SUBSET Tickets!Issued
    BY DEF Inv, TypeInv, Tickets!Issued, Ticket, Ids
  <2>4. Ticket' = [other \in Ids |->
                     IF other \in {id} THEN "spent"
                     ELSE IF other \in dropped THEN "retired" ELSE Ticket[other]]
    BY <2>1, <2>2 DEF Inv, TypeInv, Ticket, Ids
  <2> QED
    BY <2>2, <2>3, <2>4 DEF Tickets!Next, Tickets!Finish, Tickets!Visit
<1>4. \/ \E t \in Threads : Register(t) /\ issued' = issued + 1
      \/ \E t \in Threads : Accept(t) /\ executing' # executing
      \/ \E t \in Threads : Finish(t)
      \/ /\ active' \subseteq active /\ executing \cap active \subseteq active'
         /\ UNCHANGED <<issued, executing, accepted>>
  <2>1. ASSUME NEW t \in Threads, Accept(t), executing' = executing
        PROVE  /\ active' = LivingRecords
               /\ UNCHANGED <<issued, executing, accepted>>
    BY <2>1, OneRuns DEF Accept, Holding
  <2>2. ASSUME NEW t \in Threads, Register(t), issued' # issued + 1
        PROVE  /\ active' = LivingRecords
               /\ UNCHANGED <<issued, executing, accepted>>
    BY <2>2 DEF Register
  <2>3. ASSUME NEW t \in Threads,
               \/ \E c \in PrepareCalls : StartPrepare(t, c)
               \/ \E c \in ExecuteCalls : StartExecute(t, c)
               \/ Observe(t) \/ ClaimTarget(t) \/ LoadTarget(t)
               \/ Claim(t) \/ Contend(t) \/ Release(t)
        PROVE  /\ active' \in {active, LivingRecords}
               /\ UNCHANGED <<issued, executing, accepted>>
    BY <2>3
    DEF StartPrepare, StartExecute, Observe, ClaimTarget, LoadTarget, Claim,
        Contend, Release
  <2>4. ASSUME (\E o \in Owners : OwnerDies(o)) \/ UNCHANGED vars
        PROVE  UNCHANGED <<active, issued, executing, accepted>>
    BY <2>4 DEF OwnerDies, vars
  <2> QED
    BY <2>1, <2>2, <2>3, <2>4, NextSplit, LivingKeepsExecuting
<1>5. ASSUME active' \subseteq active, executing \cap active \subseteq active',
             UNCHANGED <<issued, executing, accepted>>
      PROVE  Tickets!Next
  BY <1>5, ForgettingDrops DEF Tickets!Next
<1> QED
  BY <1>1, <1>2, <1>3, <1>4, <1>5

\* The registry implements single-use tickets.
THEOREM Refinement == Spec => SingleUse
<1>1. Init => Tickets!Init
  BY DEF Init, Tickets!Init, Ticket, Ids
<1>2. Inv /\ Inv' /\ [Next]_vars => [Tickets!Next]_Ticket
  BY StepRefines
<1> QED
  BY <1>1, <1>2, Invariance, PTL DEF Spec, SingleUse, Tickets!Spec
-----------------------------------------------------------------------------
(* Reclaiming tombstones *)

\* A set of naturals has a least element: induction, in first-order terms.
LEMMA Least ==
  ASSUME NEW S \in SUBSET Nat, S # {}
  PROVE  \E n \in S : \A k \in S : n <= k
<1> DEFINE Less == {pair \in Nat \X Nat : pair[1] < pair[2]}
<1>1. IsWellFoundedOn(Less, Nat)
  BY NatLessThanWellFounded, Zenon DEF OpToRel
<1> HIDE DEF Less
<1>2. PICK n \in S : \A k \in S : ~ (<<k, n>> \in Less)
  BY <1>1, WFMin
<1>3. \A k \in S : ~ (k < n)
  BY <1>2 DEF Less
<1> QED
  BY <1>3

\* The equation that the recursion of Living solves, as far as n.
Keeps(kept, stones, n) ==
  kept = [i \in 0..n |->
            IF i = 0 THEN << >>
            ELSE IF IsAlive(stones[i].id) THEN Append(kept[i - 1], stones[i])
            ELSE kept[i - 1]]

\* The recursion has a solution.
LEMMA KeptExists ==
  ASSUME NEW stones, NEW n \in Nat
  PROVE  \E kept : Keeps(kept, stones, n)
<1> DEFINE Bad == {m \in Nat : ~ \E kept : Keeps(kept, stones, m)}
<1>1. SUFFICES ASSUME n \in Bad PROVE FALSE
  OBVIOUS
<1>2. PICK m \in Bad : \A k \in Bad : m <= k
  BY <1>1, Least
<1>3. CASE m = 0
  <2>1. Keeps([i \in 0..0 |-> << >>], stones, 0)
    BY DEF Keeps
  <2> QED
    BY <1>2, <1>3, <2>1
<1>4. CASE m # 0
  <2>1. m - 1 \in Nat /\ m - 1 \notin Bad
    BY <1>2, <1>4
  <2>2. PICK g : Keeps(g, stones, m - 1)
    BY <2>1
  <2> DEFINE last == IF IsAlive(stones[m].id) THEN Append(g[m - 1], stones[m])
                     ELSE g[m - 1]
             h == [i \in 0..m |-> IF i = m THEN last ELSE g[i]]
  <2>3. \A i \in 0..m-1 : g[i] = IF i = 0 THEN << >>
                       ELSE IF IsAlive(stones[i].id) THEN Append(g[i - 1], stones[i])
                       ELSE g[i - 1]
    BY <2>1, <2>2, Zenon DEF Keeps
  <2>4. \A i \in 0..m-1 : h[i] = g[i]
    BY <2>1
  <2>5. \A i \in 0..m : i # 0 => i - 1 \in 0..m-1
    BY <2>1
  <2>6. h[m] = last /\ m \in 0..m
    BY <2>1
  <2>7. \A i \in 0..m : i = m \/ i \in 0..m-1
    BY <2>1
  <2> HIDE DEF h
  <2>8. ASSUME NEW i \in 0..m
        PROVE h[i] = IF i = 0 THEN << >>
                       ELSE IF IsAlive(stones[i].id) THEN Append(h[i - 1], stones[i])
                       ELSE h[i - 1]
    <3>1. CASE i = m
      <4>1. h[m - 1] = g[m - 1]
        BY <2>4, <2>5, <2>6, <1>4
      <4> QED
        BY <3>1, <4>1, <2>6, <1>4, Zenon
    <3>2. CASE i \in 0..m-1
      <4>1. h[i] = g[i] /\ (i # 0 => h[i - 1] = g[i - 1])
        BY <2>4, <2>5, <3>2
      <4> QED
        BY <2>3, <4>1, <3>2
    <3> QED
      BY <2>7, <3>1, <3>2
  <2>9. Keeps(h, stones, m)
    BY <2>8 DEF Keeps, h
  <2> QED
    BY <1>2, <2>9
<1> QED
  BY <1>3, <1>4

\* What reclaiming leaves of the tombstones: some of them, all of living owners.
LEMMA LivingKeeps ==
  ASSUME NEW S, NEW stones \in Seq(S)
  PROVE  /\ Living(stones) \in
              Seq({stones[i] : i \in {j \in 1..Len(stones) : IsAlive(stones[j].id)}})
         /\ Len(Living(stones)) <= Len(stones)
<1> DEFINE Kept == {stones[i] : i \in {j \in 1..Len(stones) : IsAlive(stones[j].id)}}
           n == Len(stones)
           kept == CHOOSE g : Keeps(g, stones, n)
           Bad == {m \in 0..n : ~ (kept[m] \in Seq(Kept) /\ Len(kept[m]) <= m)}
<1>1. n \in Nat
  BY LenProperties
<1>2. Keeps(kept, stones, n)
  BY <1>1, KeptExists
<1>3. Living(stones) = kept[n]
  BY Zenon DEF Living, Keeps
<1> HIDE DEF kept, n
<1>4. \A i \in 0..n : kept[i] = IF i = 0 THEN << >>
                       ELSE IF IsAlive(stones[i].id) THEN Append(kept[i - 1], stones[i])
                       ELSE kept[i - 1]
  BY <1>2, Zenon DEF Keeps
<1>5. \A i \in 1..n : IsAlive(stones[i].id) => stones[i] \in Kept
  BY DEF n
<1> HIDE DEF Kept
<1>6. ASSUME Bad # {} PROVE FALSE
  <2>1. PICK m \in Bad : \A k \in Bad : m <= k
    <3>1. Bad \in SUBSET Nat
      BY <1>1
    <3> QED
      BY <1>6, <3>1, Least
  <2>2. m \in 0..n /\ ~ (kept[m] \in Seq(Kept) /\ Len(kept[m]) <= m)
    OBVIOUS
  <2>3. CASE m = 0
    <3>1. kept[m] = << >>
      BY <1>4, <2>2, <2>3
    <3>2. << >> \in Seq(Kept) /\ Len(<< >>) = 0
      BY EmptySeq
    <3> QED
      BY <2>2, <2>3, <3>1, <3>2
  <2>4. CASE m # 0
    <3>1. m \in 1..n /\ m - 1 \in 0..n /\ m - 1 \notin Bad
      BY <2>1, <2>2, <2>4, <1>1
    <3>2. PICK before \in Seq(Kept) : before = kept[m - 1] /\ Len(before) <= m - 1
      BY <3>1
    <3>3. Len(before) \in Nat /\ m \in Nat
      BY <3>1, <1>1, LenProperties
    <3>4. CASE IsAlive(stones[m].id)
      <4>1. kept[m] = Append(before, stones[m]) /\ stones[m] \in Kept
        BY <1>4, <1>5, <2>2, <2>4, <3>1, <3>2, <3>4
      <4>2. Append(before, stones[m]) \in Seq(Kept) /\ Len(Append(before, stones[m])) = Len(before) + 1
        BY <4>1, AppendProperties
      <4> QED
        BY <2>2, <3>2, <3>3, <4>1, <4>2
    <3>5. CASE ~ IsAlive(stones[m].id)
      <4>1. kept[m] = before
        BY <1>4, <2>2, <2>4, <3>1, <3>2, <3>5
      <4> QED
        BY <2>2, <3>2, <3>3, <4>1
    <3> QED
      BY <3>4, <3>5
  <2> QED
    BY <2>3, <2>4
<1>7. kept[n] \in Seq(Kept) /\ Len(kept[n]) <= n
  BY <1>1, <1>6
<1> QED
  BY <1>3, <1>7, Zenon DEF Kept, n

-----------------------------------------------------------------------------
(* The books: which records and tombstones are kept, and what callers are told *)

\* Tombstones of these preparations that tell the truth about them.
Truthful(ids, spent) ==
  {stone \in [id : ids, consumed : BOOLEAN] : stone.consumed <=> stone.id \in spent}

\* Tombstones are of preparations that have left the registry.
StoneInv ==
  /\ tombstones \in Seq(Truthful((1..issued) \ active, accepted))
  /\ Len(tombstones) <= MaxTombstones

RoomInv == Cardinality(active) <= MaxActive

\* A call in progress keeps its facade alive.
OwnerInv ==
  /\ alive \subseteq Owners
  /\ \A t \in Threads : pc[t] # "idle" => call[t].owner \in alive

AnswerInv ==
  /\ outcome \in [Threads -> Outcomes]
  /\ \A t \in Threads :
       /\ outcome[t] = "consumed" => call[t].id \in accepted
       /\ MaxActive >= 2 => outcome[t] # "full"

Books == StoneInv /\ RoomInv /\ OwnerInv /\ AnswerInv

\* The books hold initially.
LEMMA InitBooks == Init => Books
<1> SUFFICES ASSUME Init PROVE Books
  OBVIOUS
<1>1. StoneInv
  BY EmptySeq DEF Init, StoneInv
<1>2. RoomInv
  BY FS_EmptySet DEF Init, RoomInv
<1> QED
  BY <1>1, <1>2 DEF Init, Books, OwnerInv, AnswerInv, Outcomes

\* The registry and what it keeps are finite.
LEMMA ActiveFinite ==
  ASSUME TypeInv
  PROVE  /\ IsFiniteSet(active) /\ Cardinality(active) \in Nat
         /\ IsFiniteSet(LivingRecords) /\ Cardinality(LivingRecords) \in Nat
         /\ Cardinality(LivingRecords) <= Cardinality(active)
<1>1. IsFiniteSet(1..issued)
  BY FS_Interval DEF TypeInv
<1>2. IsFiniteSet(active)
  BY <1>1, FS_Subset DEF TypeInv
<1>3. LivingRecords \in SUBSET active
  BY DEF LivingRecords
<1> QED
  BY <1>2, <1>3, FS_Subset, FS_CardinalityType

\* Trimming forgets the oldest tombstones.
LEMMA TrimKeeps ==
  ASSUME NEW S, NEW stones \in Seq(S)
  PROVE  Trim(stones) \in Seq(S) /\ Len(Trim(stones)) <= MaxTombstones
<1>1. Len(stones) \in Nat /\ \A i \in 1..Len(stones) : stones[i] \in S
  BY ElementOfSeq, LenProperties
<1>2. CASE Len(stones) > MaxTombstones
  <2> DEFINE first == Len(stones) - MaxTombstones + 1
  <2>1. first \in Int /\ Len(stones) \in Int /\ first >= 1
    BY <1>1, <1>2
  <2>2. \A i \in first..Len(stones) : stones[i] \in S
    BY <1>1, <2>1
  <2> HIDE DEF first
  <2>3. /\ SubSeq(stones, first, Len(stones)) \in Seq(S)
        /\ Len(SubSeq(stones, first, Len(stones)))
             = IF first <= Len(stones) THEN Len(stones) - first + 1 ELSE 0
    BY <2>1, <2>2, SubSeqProperties
  <2>4. Trim(stones) = SubSeq(stones, first, Len(stones))
    BY <1>2 DEF Trim, first
  <2> QED
    BY <1>1, <2>1, <2>3, <2>4 DEF first
<1>3. CASE ~ (Len(stones) > MaxTombstones)
  BY <1>1, <1>3 DEF Trim
<1> QED
  BY <1>2, <1>3

\* Adding a tombstone keeps the books, if the tombstone belongs in them.
LEMMA AddStoneKeeps ==
  ASSUME NEW S, NEW stones \in Seq(S), NEW id, NEW flag,
         [id |-> id, consumed |-> flag] \in S
  PROVE  /\ AddStone(stones, id, flag) \in Seq(S)
         /\ Len(AddStone(stones, id, flag)) <= MaxTombstones
<1>1. Append(stones, [id |-> id, consumed |-> flag]) \in Seq(S)
  BY AppendProperties
<1> QED
  BY <1>1, TrimKeeps DEF AddStone

\* Reclaiming keeps tombstones of living owners only.
LEMMA LivingIn ==
  ASSUME NEW S, NEW stones \in Seq(S)
  PROVE  /\ Living(stones) \in Seq({stone \in S : IsAlive(stone.id)})
         /\ Len(Living(stones)) <= Len(stones)
<1>1. {stones[i] : i \in {j \in 1..Len(stones) : IsAlive(stones[j].id)}}
        \subseteq {stone \in S : IsAlive(stone.id)}
  BY ElementOfSeq
<1>2. Living(stones) \in
        Seq({stones[i] : i \in {j \in 1..Len(stones) : IsAlive(stones[j].id)}})
  BY LivingKeeps
<1>3. Len(Living(stones)) <= Len(stones)
  BY LivingKeeps
<1> QED
  BY <1>1, <1>2, <1>3, SeqMonotonic

\* What a visit to the registry leaves behind.
Visited ==
  /\ tombstones' \in Seq({stone \in Truthful((1..issued') \ active', accepted') :
                            ownerOf'[stone.id] \in alive'})
  /\ Len(tombstones') <= MaxTombstones
  /\ Cardinality(active') <= MaxActive
  /\ \A id \in active' : ownerOf'[id] \in alive' \/ id \in executing'

\* A tombstone stays true when another record leaves the registry or is spent.
LEMMA TruthIsKept ==
  ASSUME Inv, StoneInv, NEW stones,
         stones \in Seq({stone \in Truthful((1..issued) \ active, accepted) :
                           IsAlive(stone.id)}),
         issued' \in {issued, issued + 1},
         active' \subseteq active \cup {issued + 1},
         accepted \subseteq accepted', accepted' \subseteq accepted \cup active,
         \A id \in 1..issued : ownerOf'[id] = ownerOf[id],
         alive' = alive
  PROVE  stones \in Seq({stone \in Truthful((1..issued') \ active', accepted') :
                           ownerOf'[stone.id] \in alive'})
<1>1. issued \in Nat
  BY DEF Inv, TypeInv
<1>2. \A id \in (1..issued) \ active :
         /\ id \in (1..issued') \ active'
         /\ id \in accepted' <=> id \in accepted
         /\ ownerOf'[id] = ownerOf[id]
  BY <1>1
<1>3. {stone \in Truthful((1..issued) \ active, accepted) : IsAlive(stone.id)}
        \subseteq {stone \in Truthful((1..issued') \ active', accepted') :
                     ownerOf'[stone.id] \in alive'}
  BY <1>2 DEF Truthful, IsAlive
<1> QED
  BY <1>3, SeqMonotonic

\* The tombstones of living owners, before a step.
LEMMA LivingStonesTrue ==
  ASSUME StoneInv
  PROVE  /\ LivingStones \in
              Seq({stone \in Truthful((1..issued) \ active, accepted) :
                     IsAlive(stone.id)})
         /\ Len(LivingStones) <= MaxTombstones
<1>1. Len(Living(tombstones)) <= Len(tombstones) /\ Len(tombstones) <= MaxTombstones
  BY LivingIn DEF StoneInv
<1>2. Len(Living(tombstones)) \in Nat /\ Len(tombstones) \in Nat
  BY LivingIn, LenProperties DEF StoneInv
<1>3. Living(tombstones) \in
        Seq({stone \in Truthful((1..issued) \ active, accepted) : IsAlive(stone.id)})
  BY LivingIn DEF StoneInv
<1>4. Len(Living(tombstones)) <= MaxTombstones
  BY <1>1, <1>2
<1> QED
  BY <1>3, <1>4, Zenon DEF LivingStones

\* Reclaiming is a visit.
LEMMA ReclaimVisits ==
  ASSUME Inv, Books, Reclaim, UNCHANGED <<issued, ownerOf, alive>>,
         executing \subseteq executing',
         accepted \subseteq accepted', accepted' \subseteq accepted \cup active
  PROVE  Visited
<1>1. active' = LivingRecords /\ tombstones' = LivingStones
  BY DEF Reclaim
<1>2. tombstones' \in Seq({stone \in Truthful((1..issued') \ active', accepted') :
                             ownerOf'[stone.id] \in alive'})
  <2>1. /\ issued' \in {issued, issued + 1}
        /\ active' \subseteq active \cup {issued + 1}
        /\ \A id \in 1..issued : ownerOf'[id] = ownerOf[id]
        /\ alive' = alive
    BY <1>1, LivingKeepsExecuting
  <2> QED
    BY <1>1, <2>1, LivingStonesTrue, TruthIsKept DEF Books
<1>3. Len(tombstones') <= MaxTombstones
  BY <1>1, LivingStonesTrue DEF Books
<1>4. Cardinality(active') <= MaxActive
  BY <1>1, ActiveFinite DEF Books, RoomInv, Inv
<1>5. \A id \in active' : ownerOf'[id] \in alive' \/ id \in executing'
  BY <1>1 DEF LivingRecords, IsAlive
<1> QED
  BY <1>2, <1>3, <1>4, <1>5 DEF Visited

\* Issuing is a visit: the oldest record is retired when there is no room.
LEMMA IssueVisits ==
  ASSUME Inv, Books, NEW t \in Threads, Register(t), issued' = issued + 1
  PROVE  Visited
<1> DEFINE new == issued + 1
<1>1. PICK kept, stones :
        /\ \/ /\ Cardinality(LivingRecords) < MaxActive
              /\ kept = LivingRecords /\ stones = LivingStones
           \/ \E id \in Evictable :
                /\ kept = LivingRecords \ {id}
                /\ stones = AddStone(LivingStones, id, id \in consumed)
        /\ active' = kept \cup {new} /\ tombstones' = stones
        /\ ownerOf' = [id \in 1..new |-> IF id = new THEN call[t].owner ELSE ownerOf[id]]
        /\ UNCHANGED <<consumed, executing, alive, accepted>>
  <2>1. \/ ~ (Cardinality(LivingRecords) >= MaxActive)
        \/ Cardinality(LivingRecords) >= MaxActive
    OBVIOUS
  <2>2. ~ (Cardinality(LivingRecords) >= MaxActive) => Cardinality(LivingRecords) < MaxActive
    BY ActiveFinite DEF Inv
  <2>3. issued' # issued
    BY DEF Inv, TypeInv
  <2> QED
    BY <2>2, <2>3, Zenon DEF Register
<1>2. issued \in Nat /\ new \notin active /\ active \subseteq 1..issued
  BY DEF Inv, TypeInv
<1>3. call[t].owner \in alive
  BY DEF Books, OwnerInv, Register
<1>4. kept \subseteq LivingRecords /\ LivingRecords \subseteq active
  BY <1>1, LivingKeepsExecuting
<1>5. \A id \in 1..issued : ownerOf'[id] = ownerOf[id]
  BY <1>1, <1>2
<1>6. ownerOf'[new] = call[t].owner
  BY <1>1, <1>2
<1> DEFINE Good == {stone \in Truthful((1..issued') \ active', accepted') :
                      ownerOf'[stone.id] \in alive'}
<1>7. LivingStones \in Seq(Good)
  <2>1. /\ issued' \in {issued, issued + 1}
        /\ active' \subseteq active \cup {issued + 1}
        /\ accepted \subseteq accepted' /\ accepted' \subseteq accepted \cup active
        /\ alive' = alive
    BY <1>1, <1>4
  <2> QED
    BY <1>5, <2>1, LivingStonesTrue, TruthIsKept DEF Books
<1>8. stones \in Seq(Good) /\ Len(stones) <= MaxTombstones
  <2>1. CASE stones = LivingStones
    BY <1>7, <2>1, LivingStonesTrue DEF Books
  <2>2. ASSUME NEW id \in Evictable, kept = LivingRecords \ {id},
               stones = AddStone(LivingStones, id, id \in consumed)
        PROVE  stones \in Seq(Good) /\ Len(stones) <= MaxTombstones
    <3>1. id \in active /\ ownerOf[id] \in alive /\ id \in 1..issued
      BY <1>2 DEF Evictable, LivingRecords, IsAlive
    <3>2. id \in (1..issued') \ active' /\ ownerOf'[id] \in alive'
      BY <1>1, <1>2, <1>5, <2>2, <3>1
    <3>3. (id \in consumed) \in BOOLEAN
      OBVIOUS
    <3>4. PICK flag \in BOOLEAN : flag = (id \in consumed)
      BY <3>3, Zenon
    <3>5. flag <=> id \in accepted'
      BY <1>1, <3>4 DEF Inv, TypeInv
    <3>6. [id |-> id, consumed |-> flag] \in Good
      BY <3>2, <3>5 DEF Truthful
    <3> HIDE DEF Good
    <3>7. /\ AddStone(LivingStones, id, flag) \in Seq(Good)
          /\ Len(AddStone(LivingStones, id, flag)) <= MaxTombstones
      BY <1>7, <3>6, AddStoneKeeps
    <3> QED
      BY <2>2, <3>4, <3>7
  <2> QED
    BY <1>1, <2>1, <2>2
<1>9. Cardinality(active') <= MaxActive
  <2>1. IsFiniteSet(LivingRecords) /\ Cardinality(LivingRecords) \in Nat
    BY ActiveFinite DEF Inv
  <2>2. CASE Cardinality(LivingRecords) < MaxActive /\ kept = LivingRecords
    <3>1. Cardinality(LivingRecords \cup {new}) <= Cardinality(LivingRecords) + 1
      BY <2>1, AddOne
    <3>2. Cardinality(LivingRecords \cup {new}) \in Nat
      BY <2>1, FS_AddElement, FS_CardinalityType
    <3> QED
      BY <1>1, <2>1, <2>2, <3>1, <3>2
  <2>3. ASSUME NEW id \in Evictable, kept = LivingRecords \ {id}
        PROVE  Cardinality(active') <= MaxActive
    <3>1. id \in LivingRecords
      BY DEF Evictable
    <3>2. IsFiniteSet(kept) /\ Cardinality(kept) = Cardinality(LivingRecords) - 1
      BY <2>1, <2>3, <3>1, FS_RemoveElement
    <3>3. Cardinality(kept \cup {new}) <= Cardinality(kept) + 1
      BY <3>2, AddOne
    <3>4. Cardinality(LivingRecords) <= Cardinality(active) /\ Cardinality(active) <= MaxActive
      BY ActiveFinite DEF Inv, Books, RoomInv
    <3>5. /\ Cardinality(kept \cup {new}) \in Nat /\ Cardinality(kept) \in Nat
          /\ Cardinality(active) \in Nat
      BY <3>2, FS_AddElement, FS_CardinalityType, ActiveFinite DEF Inv
    <3> QED
      BY <1>1, <2>1, <3>2, <3>3, <3>4, <3>5
  <2> QED
    BY <1>1, <2>2, <2>3
<1>10. \A id \in active' : ownerOf'[id] \in alive' \/ id \in executing'
  BY <1>1, <1>2, <1>3, <1>4, <1>5, <1>6 DEF LivingRecords, IsAlive
<1> QED
  BY <1>1, <1>8, <1>9, <1>10 DEF Visited

\* The end of an execution is a visit: its record becomes a tombstone.
LEMMA FinishVisits ==
  ASSUME Inv, Books, NEW t \in Threads, Finish(t)
  PROVE  Visited
<1> DEFINE id == call[t].id
           stones == IF id \in active THEN AddStone(tombstones, id, TRUE)
                     ELSE tombstones
           left == {other \in active \ {id} : IsAlive(other) \/ other \in executing'}
<1>1. /\ active' = left /\ tombstones' = Living(stones)
      /\ UNCHANGED <<issued, ownerOf, alive, accepted>> /\ pc[t] = "running"
  BY DEF Finish, Goto
<1>2. id \in 1..issued /\ id \in accepted
  BY <1>1 DEF Inv, TypeInv, RunInv, ExecutionKeepsRecord
<1> HIDE DEF id
<1> DEFINE True == Truthful((1..issued) \ left, accepted)
<1>3. stones \in Seq(True) /\ Len(stones) <= MaxTombstones
  <2>1. Truthful((1..issued) \ active, accepted) \subseteq True
    BY DEF Truthful
  <2>2. tombstones \in Seq(True)
    BY <2>1, SeqMonotonic DEF Books, StoneInv
  <2>3. [id |-> id, consumed |-> TRUE] \in True
    BY <1>2 DEF Truthful
  <2> HIDE DEF True
  <2>4. /\ AddStone(tombstones, id, TRUE) \in Seq(True)
        /\ Len(AddStone(tombstones, id, TRUE)) <= MaxTombstones
    BY <2>2, <2>3, AddStoneKeeps
  <2> QED
    BY <2>2, <2>4 DEF Books, StoneInv
<1>4. tombstones' \in Seq({stone \in True : IsAlive(stone.id)})
  <2> HIDE DEF True, stones
  <2> QED
    BY <1>1, <1>3, LivingIn
<1>5. Len(tombstones') <= MaxTombstones
  <2> HIDE DEF True, stones
  <2>1. Len(Living(stones)) <= Len(stones) /\ Len(stones) \in Nat
    BY <1>3, LivingIn, LenProperties
  <2>2. Len(Living(stones)) \in Nat
    BY <1>3, LivingIn, LenProperties
  <2> QED
    BY <1>1, <1>3, <2>1, <2>2
<1>6. {stone \in True : IsAlive(stone.id)} \subseteq
        {stone \in Truthful((1..issued') \ active', accepted') :
           ownerOf'[stone.id] \in alive'}
  BY <1>1 DEF IsAlive
<1>7. tombstones' \in Seq({stone \in Truthful((1..issued') \ active', accepted') :
                             ownerOf'[stone.id] \in alive'})
  <2> HIDE DEF True
  <2> QED
    BY <1>4, <1>6, SeqMonotonic
<1>8. Cardinality(active') <= MaxActive
  <2>1. active' \in SUBSET active
    BY <1>1
  <2>2. /\ Cardinality(active') <= Cardinality(active)
        /\ Cardinality(active') \in Nat /\ Cardinality(active) \in Nat
    BY <2>1, ActiveFinite, FS_Subset, FS_CardinalityType DEF Inv
  <2> QED
    BY <2>2 DEF Books, RoomInv
<1>9. \A other \in active' : ownerOf'[other] \in alive' \/ other \in executing'
  BY <1>1 DEF IsAlive
<1> QED
  BY <1>5, <1>7, <1>8, <1>9 DEF Visited

\* Every step that touches the books is such a visit.
LEMMA StepVisits ==
  ASSUME Inv, Books, [Next]_vars
  PROVE  Visited \/ UNCHANGED <<active, tombstones, issued, accepted>>
<1> USE DEF registry, Goto, Return, Unclaim, ClaimOrBusy
<1>1. ASSUME NEW t \in Threads, Register(t)
      PROVE  Visited
  <2>1. CASE issued' = issued + 1
    BY <1>1, <2>1, IssueVisits
  <2>2. CASE issued' # issued + 1
    <3>1. Reclaim /\ UNCHANGED <<issued, ownerOf, alive, executing, accepted>>
      BY <1>1, <2>2 DEF Register
    <3> QED
      BY <3>1, ReclaimVisits
  <2> QED
    BY <2>1, <2>2
<1>2. ASSUME NEW t \in Threads, NEW c \in ExecuteCalls, StartExecute(t, c)
      PROVE  Visited \/ UNCHANGED <<active, tombstones, issued, accepted>>
  <2>1. /\ UNCHANGED <<issued, ownerOf, alive, executing, accepted>>
        /\ Reclaim \/ UNCHANGED <<active, tombstones>>
    BY <1>2, Zenon DEF StartExecute
  <2> QED
    BY <2>1, ReclaimVisits
<1>3. ASSUME NEW t \in Threads, Accept(t)
      PROVE  Visited
  <2>1. /\ UNCHANGED <<issued, ownerOf, alive>> /\ Reclaim
        /\ \/ UNCHANGED <<executing, accepted>>
           \/ \E id \in LivingRecords :
                executing' = executing \cup {id} /\ accepted' = accepted \cup {id}
    BY <1>3, Zenon DEF Accept, Mark
  <2>2. /\ executing \subseteq executing' /\ accepted \subseteq accepted'
        /\ accepted' \subseteq accepted \cup active
    BY <2>1, LivingKeepsExecuting
  <2> QED
    BY <2>1, <2>2, ReclaimVisits
<1>4. ASSUME NEW t \in Threads,
             \/ \E c \in PrepareCalls : StartPrepare(t, c)
             \/ Observe(t) \/ ClaimTarget(t) \/ LoadTarget(t)
             \/ Claim(t) \/ Contend(t) \/ Release(t)
      PROVE  UNCHANGED <<active, tombstones, issued, accepted>>
  BY <1>4
  DEF StartPrepare, Observe, ClaimTarget, LoadTarget, Claim, Contend, Release
<1>5. ASSUME (\E o \in Owners : OwnerDies(o)) \/ UNCHANGED vars
      PROVE  UNCHANGED <<active, tombstones, issued, accepted>>
  BY <1>5 DEF OwnerDies, vars
<1> QED
  BY <1>1, <1>2, <1>3, <1>4, <1>5, FinishVisits, NextSplit

\* One execution at most holds records, so two records leave one to retire.
LEMMA RoomIsFound ==
  ASSUME Inv, Cardinality(LivingRecords) >= MaxActive, Evictable = {}
  PROVE  MaxActive < 2
<1>1. LivingRecords \subseteq executing
  BY DEF Evictable
<1>2. PICK id : LivingRecords \subseteq {id}
  <2>1. CASE \E t \in Threads : pc[t] \in Holding
    BY <1>1, <2>1, OneRuns
  <2>2. CASE ~ \E t \in Threads : pc[t] \in Holding
    BY <1>1, <2>2 DEF Inv, RunInv, Holding
  <2> QED
    BY <2>1, <2>2
<1>3. Cardinality(LivingRecords) <= 1
  <2>1. IsFiniteSet({id}) /\ Cardinality({id}) = 1
    BY FS_Singleton
  <2>2. LivingRecords \in SUBSET {id}
    BY <1>2
  <2> QED
    BY <2>1, <2>2, FS_Subset
<1> QED
  BY <1>3, ActiveFinite DEF Inv

\* What the tombstones say of a preparation is true.
LEMMA RetiredIsTrue ==
  ASSUME Inv, StoneInv, NEW owner, NEW id, NEW otherwise
  PROVE  /\ Retired(owner, id, otherwise) \in {"consumed", "stale", otherwise}
         /\ \/ id \in accepted
            \/ Retired(owner, id, otherwise) \in {"stale", otherwise}
<1>1. \A stone \in Stones(owner, id) : stone.consumed => id \in accepted
  <2>1. ASSUME NEW stone \in Stones(owner, id), stone.consumed
        PROVE  id \in accepted
    <3>1. PICK i \in 1..Len(LivingStones) : stone = LivingStones[i]
      BY DEF Stones
    <3>2. stone \in {one \in Truthful((1..issued) \ active, accepted) :
                       IsAlive(one.id)}
      BY <3>1, LivingStonesTrue, ElementOfSeq
    <3>3. stone.id = id
      BY DEF Stones
    <3> QED
      BY <2>1, <3>2, <3>3 DEF Truthful
  <2> QED
    BY <2>1
<1>2. CASE \E stone \in Stones(owner, id) : stone.consumed
  <2>1. id \in accepted
    BY <1>1, <1>2
  <2>2. Retired(owner, id, otherwise) \in {"consumed", "stale", otherwise}
    BY DEF Retired
  <2> QED
    BY <2>1, <2>2
<1>3. CASE ~ \E stone \in Stones(owner, id) : stone.consumed
  BY <1>3 DEF Retired
<1> QED
  BY <1>2, <1>3

\* The answer a step gives its caller, if it gives one.
Answers(t) ==
  \E position \in Positions, status \in Outcomes :
    /\ pc' = [pc EXCEPT ![t] = position]
    /\ outcome' = [outcome EXCEPT ![t] = status]
    /\ status = "consumed" => call'[t].id \in accepted'
    /\ status = "full" => MaxActive < 2

\* A first look at the registry is answered truly.
LEMMA StartExecuteAnswers ==
  ASSUME Inv, StoneInv, NEW t \in Threads, NEW c \in ExecuteCalls, StartExecute(t, c)
  PROVE  Answers(t)
<1>1. /\ call' = [call EXCEPT ![t] = c] /\ accepted' = accepted
      /\ \/ Return(t, "refused")
         \/ Return(t, Retired(c.owner, c.id, "unknown"))
         \/ Return(t, "unknown") \/ Return(t, "tampered")
         \/ Return(t, "consumed") /\ c.id \in consumed
         \/ Goto(t, "entered")
  BY DEF StartExecute
<1>2. call'[t].id = c.id /\ accepted = consumed
  BY <1>1 DEF Inv, TypeInv
<1>3. CASE Return(t, Retired(c.owner, c.id, "unknown"))
  <2>1. PICK status \in {"consumed", "stale", "unknown"} :
          /\ status = Retired(c.owner, c.id, "unknown")
          /\ c.id \in accepted \/ status \in {"stale", "unknown"}
    BY RetiredIsTrue
  <2>2. Return(t, status) /\ "idle" \in Positions /\ status \in Outcomes
    BY <1>3, <2>1 DEF Positions, Outcomes
  <2>3. status = "consumed" => call'[t].id \in accepted'
    BY <1>1, <1>2, <2>1
  <2>4. status # "full"
    BY <2>1
  <2> QED
    BY <2>2, <2>3, <2>4 DEF Answers, Return
<1>4. CASE Return(t, "consumed") /\ c.id \in consumed
  BY <1>1, <1>2, <1>4 DEF Answers, Return, Positions, Outcomes
<1>5. CASE \/ Return(t, "refused") \/ Return(t, "unknown")
           \/ Return(t, "tampered") \/ Goto(t, "entered")
  BY <1>5 DEF Answers, Return, Goto, Positions, Outcomes
<1> QED
  BY <1>1, <1>3, <1>4, <1>5

\* The second look is answered truly, or the execution goes on.
LEMMA AcceptAnswers ==
  ASSUME Inv, StoneInv, NEW t \in Threads, Accept(t)
  PROVE  Answers(t)
<1> DEFINE id == call[t].id
<1>1. /\ call' = call /\ accepted \subseteq accepted'
      /\ \/ Return(t, Retired(call[t].owner, id, "stale"))
         \/ Return(t, "stale")
         \/ Return(t, "consumed") /\ id \in consumed
         \/ Goto(t, "running")
  BY Zenon DEF Accept
<1>2. accepted = consumed
  BY DEF Inv, TypeInv
<1>3. CASE Return(t, Retired(call[t].owner, id, "stale"))
  <2>1. PICK status \in {"consumed", "stale"} :
          /\ status = Retired(call[t].owner, id, "stale")
          /\ id \in accepted \/ status = "stale"
    BY RetiredIsTrue
  <2>2. Return(t, status) /\ "idle" \in Positions /\ status \in Outcomes
    BY <1>3, <2>1 DEF Positions, Outcomes
  <2> QED
    BY <1>1, <2>1, <2>2 DEF Answers, Return
<1>4. CASE Return(t, "consumed") /\ id \in consumed
  BY <1>1, <1>2, <1>4 DEF Answers, Return, Positions, Outcomes
<1>5. CASE Return(t, "stale") \/ Goto(t, "running")
  BY <1>5 DEF Answers, Return, Goto, Positions, Outcomes
<1> QED
  BY <1>1, <1>3, <1>4, <1>5

\* A busy caller is told "consumed" when the execution it lost to was accepted.
LEMMA ContendAnswers ==
  ASSUME Inv, StoneInv, NEW t \in Threads, Contend(t)
  PROVE  Answers(t)
<1> DEFINE id == call[t].id
<1>1. /\ call' = call /\ accepted' = accepted
      /\ \/ Return(t, "busy")
         \/ Return(t, "consumed") /\ id \in consumed
         \/ /\ Return(t, "consumed")
            /\ \E i \in 1..Len(tombstones) :
                 tombstones[i] = [id |-> id, consumed |-> TRUE]
  BY DEF Contend
<1>2. accepted = consumed
  BY DEF Inv, TypeInv
<1>3. ASSUME NEW i \in 1..Len(tombstones),
             tombstones[i] = [id |-> id, consumed |-> TRUE]
      PROVE  id \in accepted
  <2>1. tombstones[i] \in Truthful((1..issued) \ active, accepted)
    BY ElementOfSeq DEF StoneInv
  <2> QED
    BY <1>3, <2>1 DEF Truthful
<1>4. CASE Return(t, "consumed") /\ id \in accepted
  BY <1>1, <1>4 DEF Answers, Return, Positions, Outcomes
<1>5. CASE Return(t, "busy")
  BY <1>5 DEF Answers, Return, Positions, Outcomes
<1> QED
  BY <1>1, <1>2, <1>3, <1>4, <1>5

\* Every step of a thread answers it truly, or not at all.
LEMMA StepAnswers ==
  ASSUME Inv, Books, NEW t \in Threads,
         \/ \E c \in PrepareCalls : StartPrepare(t, c)
         \/ \E c \in ExecuteCalls : StartExecute(t, c)
         \/ Work(t)
  PROVE  /\ Answers(t) /\ accepted \subseteq accepted' /\ alive' = alive
         /\ \/ call' = call /\ pc[t] # "idle"
            \/ \E c \in PrepareCalls \cup ExecuteCalls :
                 call' = [call EXCEPT ![t] = c] /\ c.owner \in alive
<1>1. ASSUME NEW c \in PrepareCalls, StartPrepare(t, c)
      PROVE  /\ Answers(t) /\ UNCHANGED <<accepted, alive>>
             /\ call' = [call EXCEPT ![t] = c] /\ c.owner \in alive
  BY <1>1 DEF StartPrepare, ClaimOrBusy, Answers, Return, Goto, Positions, Outcomes
<1>2. ASSUME NEW c \in ExecuteCalls, StartExecute(t, c)
      PROVE  /\ Answers(t) /\ UNCHANGED <<accepted, alive>>
             /\ call' = [call EXCEPT ![t] = c] /\ c.owner \in alive
  BY <1>2, StartExecuteAnswers DEF StartExecute, Books
<1>3. ASSUME Observe(t) \/ ClaimTarget(t) \/ LoadTarget(t) \/ Claim(t)
             \/ Finish(t) \/ Release(t)
      PROVE  /\ Answers(t) /\ UNCHANGED <<accepted, alive, call>>
             /\ pc[t] # "idle"
  <2>1. CASE Observe(t)
    BY <2>1 DEF Observe, Answers, Return, Goto, Positions, Outcomes
  <2>2. CASE ClaimTarget(t)
    BY <2>2 DEF ClaimTarget, ClaimOrBusy, Answers, Return, Goto, Positions, Outcomes
  <2>3. CASE LoadTarget(t)
    BY <2>3 DEF LoadTarget, Answers, Return, Goto, Positions, Outcomes
  <2>4. CASE Claim(t)
    BY <2>4 DEF Claim, Answers, Return, Goto, Positions, Outcomes
  <2>5. CASE Finish(t)
    BY <2>5 DEF Finish, Answers, Return, Goto, Positions, Outcomes
  <2>6. CASE Release(t)
    BY <2>6 DEF Release, Answers, Return, Goto, Positions, Outcomes
  <2> QED
    BY <1>3, <2>1, <2>2, <2>3, <2>4, <2>5, <2>6
<1>4. ASSUME Register(t)
      PROVE  Answers(t) /\ UNCHANGED <<accepted, alive, call>> /\ pc[t] # "idle"
  <2>1. /\ UNCHANGED <<accepted, alive, call>> /\ pc[t] = "register"
        /\ \/ Return(t, "issued")
           \/ /\ Return(t, "full")
              /\ Cardinality(LivingRecords) >= MaxActive /\ Evictable = {}
    BY <1>4, Zenon DEF Register
  <2>2. Return(t, "issued") \/ (Return(t, "full") /\ MaxActive < 2)
    BY <2>1, RoomIsFound
  <2> QED
    BY <2>1, <2>2 DEF Answers, Return, Positions, Outcomes
<1>5. ASSUME Accept(t)
      PROVE  /\ Answers(t) /\ accepted \subseteq accepted'
             /\ UNCHANGED <<alive, call>> /\ pc[t] # "idle"
  <2>1. /\ accepted \subseteq accepted' /\ UNCHANGED <<alive, call>>
        /\ pc[t] # "idle"
    BY <1>5, Zenon DEF Accept
  <2> QED
    BY <1>5, <2>1, AcceptAnswers DEF Books
<1>6. ASSUME Contend(t)
      PROVE  /\ Answers(t) /\ UNCHANGED <<accepted, alive, call>>
             /\ pc[t] # "idle"
  BY <1>6, ContendAnswers DEF Contend, Books
<1> QED
  BY <1>1, <1>2, <1>3, <1>4, <1>5, <1>6 DEF Work

\* The books hold after every step.
LEMMA StepBooks == Inv /\ Books /\ [Next]_vars => Books'
<1> SUFFICES ASSUME Inv, Books, [Next]_vars PROVE Books'
  OBVIOUS
<1>1. StoneInv' /\ RoomInv'
  <2>1. CASE Visited
    <3>1. {stone \in Truthful((1..issued') \ active', accepted') :
             ownerOf'[stone.id] \in alive'}
            \subseteq Truthful((1..issued') \ active', accepted')
      OBVIOUS
    <3>2. tombstones' \in Seq(Truthful((1..issued') \ active', accepted'))
      BY <2>1, <3>1, SeqMonotonic DEF Visited
    <3> QED
      BY <2>1, <3>2 DEF Visited, StoneInv, RoomInv, Truthful
  <2>2. CASE UNCHANGED <<active, tombstones, issued, accepted>>
    BY <2>2 DEF Books, StoneInv, RoomInv, Truthful
  <2> QED
    BY <2>1, <2>2, StepVisits
<1>2. ASSUME NEW t \in Threads,
             \/ \E c \in PrepareCalls : StartPrepare(t, c)
             \/ \E c \in ExecuteCalls : StartExecute(t, c)
             \/ Work(t)
      PROVE  OwnerInv' /\ AnswerInv'
  <2>1. PICK position \in Positions, status \in Outcomes :
          /\ pc' = [pc EXCEPT ![t] = position]
          /\ outcome' = [outcome EXCEPT ![t] = status]
          /\ status = "consumed" => call'[t].id \in accepted'
          /\ status = "full" => MaxActive < 2
    BY <1>2, StepAnswers DEF Answers
  <2>2. /\ accepted \subseteq accepted' /\ alive' = alive
        /\ \/ call' = call /\ pc[t] # "idle"
           \/ \E c \in PrepareCalls \cup ExecuteCalls :
                call' = [call EXCEPT ![t] = c] /\ c.owner \in alive
    BY <1>2, StepAnswers
  <2>3. \A u \in Threads \ {t} :
           pc'[u] = pc[u] /\ call'[u] = call[u] /\ outcome'[u] = outcome[u]
    BY <2>1, <2>2 DEF Inv, TypeInv, Books, AnswerInv
  <2>4. pc'[t] = position /\ outcome'[t] = status
    BY <2>1 DEF Inv, TypeInv, Books, AnswerInv
  <2>5. call'[t].owner \in alive
    BY <2>2 DEF Inv, TypeInv, Books, OwnerInv
  <2>6. OwnerInv'
    BY <2>2, <2>3, <2>5 DEF Books, OwnerInv
  <2>7. outcome' \in [Threads -> Outcomes]
    BY <2>1 DEF Books, AnswerInv
  <2>8. \A u \in Threads : outcome'[u] = "consumed" => call'[u].id \in accepted'
    BY <2>1, <2>2, <2>3, <2>4 DEF Books, AnswerInv
  <2>9. MaxActive >= 2 => \A u \in Threads : outcome'[u] # "full"
    BY <2>1, <2>3, <2>4 DEF Books, AnswerInv
  <2> QED
    BY <2>6, <2>7, <2>8, <2>9 DEF AnswerInv
<1>3. ASSUME NEW o \in Owners, OwnerDies(o)
      PROVE  OwnerInv' /\ AnswerInv'
  BY <1>3 DEF OwnerDies, registry, Books, OwnerInv, AnswerInv
<1>4. ASSUME UNCHANGED vars
      PROVE  OwnerInv' /\ AnswerInv'
  BY <1>4 DEF vars, Books, OwnerInv, AnswerInv
<1> QED
  BY <1>1, <1>2, <1>3, <1>4 DEF Next, Books

\* The books are always right.
THEOREM BooksAreRight == Spec => []Books
BY InitBooks, StepBooks, Invariance, PTL DEF Spec

-----------------------------------------------------------------------------
(* What the books promise *)

\* Every variable of the registry keeps its type.
THEOREM TypeCorrect == Spec => []TypeOK
<1>1. Inv /\ Books => TypeOK
  <2> SUFFICES ASSUME Inv, Books PROVE TypeOK
    OBVIOUS
  <2>1. Truthful((1..issued) \ active, accepted) \subseteq
          [id : 1..issued, consumed : BOOLEAN]
    BY DEF Truthful
  <2>2. tombstones \in Seq([id : 1..issued, consumed : BOOLEAN])
    BY <2>1, SeqMonotonic DEF Books, StoneInv
  <2> QED
    BY <2>2 DEF Inv, TypeInv, Books, OwnerInv, AnswerInv, TypeOK
<1> QED
  BY <1>1, Invariance, BooksAreRight, PTL

\* The registry keeps within its limits and, from a limit of two, never turns a
\* preparation away for them.
THEOREM Bounded == Spec => []RegistryBounded
<1>1. Books => RegistryBounded
  BY DEF Books, RoomInv, StoneInv, AnswerInv, RegistryBounded
<1> QED
  BY <1>1, BooksAreRight, PTL

\* Whoever is told "consumed" has a preparation whose execution was accepted.
THEOREM ToldTheTruth == Spec => []ConsumedIsTrue
<1>1. Books => ConsumedIsTrue
  <2> SUFFICES ASSUME Books PROVE ConsumedIsTrue
    OBVIOUS
  <2>1. \A i \in 1..Len(tombstones) :
          tombstones[i] \in Truthful((1..issued) \ active, accepted)
    BY ElementOfSeq DEF Books, StoneInv
  <2> QED
    BY <2>1 DEF Truthful, Books, AnswerInv, ConsumedIsTrue
<1> QED
  BY <1>1, BooksAreRight, PTL

\* Each visit that changes the registry forgets the facades that are gone.
THEOREM Forgotten == Spec => DeadOwnersForgotten
<1>1. ASSUME Inv, Books, [Next]_vars, active' # active \/ tombstones' # tombstones
      PROVE  /\ \A id \in active' : ownerOf'[id] \in alive' \/ id \in executing'
             /\ \A i \in 1..Len(tombstones') :
                  ownerOf'[tombstones'[i].id] \in alive'
  <2>1. Visited
    BY <1>1, StepVisits
  <2>2. \A i \in 1..Len(tombstones') :
          tombstones'[i] \in {stone \in Truthful((1..issued') \ active', accepted') :
                                ownerOf'[stone.id] \in alive'}
    BY <2>1, ElementOfSeq DEF Visited
  <2> QED
    BY <2>1, <2>2 DEF Visited
<1> QED
  BY <1>1, Invariance, BooksAreRight, PTL DEF Spec, DeadOwnersForgotten

-----------------------------------------------------------------------------
(* A call goes through each of its positions once *)

\* The steps a call may still take.
Places ==
  [idle |-> 0,
   register |-> 1, load |-> 2, target |-> 3, observe |-> 4,
   contended |-> 1, release |-> 1, running |-> 2, claimed |-> 3, entered |-> 4]

CallsAdvance ==
  [][\A t \in Threads :
       /\ Work(t) => Places[pc'[t]] < Places[pc[t]]
       /\ pc[t] # "idle" => call'[t] = call[t] /\ (pc'[t] = pc[t] \/ Work(t))]_vars

\* A thread at work moves on, and moves no other thread.
LEMMA WorkMoves ==
  ASSUME Inv, NEW t \in Threads, Work(t)
  PROVE  /\ Places[pc'[t]] < Places[pc[t]]
         /\ \A u \in Threads \ {t} : pc'[u] = pc[u]
         /\ call' = call
<1> USE DEF Goto, Return, ClaimOrBusy, Unclaim
<1>1. pc \in [Threads -> Positions]
  BY DEF Inv, TypeInv
<1>2. \/ pc[t] = "observe" /\ pc'[t] \in {"register", "target", "idle"}
      \/ pc[t] = "target" /\ pc'[t] \in {"load", "idle"}
      \/ pc[t] = "load" /\ pc'[t] \in {"register", "idle"}
      \/ pc[t] = "register" /\ pc'[t] = "idle"
      \/ pc[t] = "entered" /\ pc'[t] \in {"claimed", "contended"}
      \/ pc[t] = "contended" /\ pc'[t] = "idle"
      \/ pc[t] = "claimed" /\ pc'[t] \in {"running", "idle"}
      \/ pc[t] = "running" /\ pc'[t] = "release"
      \/ pc[t] = "release" /\ pc'[t] = "idle"
  <2>1. CASE Observe(t) \/ ClaimTarget(t) \/ LoadTarget(t)
    BY <1>1, <2>1 DEF Observe, ClaimTarget, LoadTarget
  <2>2. CASE Register(t)
    BY <1>1, <2>2 DEF Register
  <2>3. CASE Claim(t) \/ Contend(t) \/ Release(t)
    BY <1>1, <2>3 DEF Claim, Contend, Release
  <2>4. CASE Accept(t) \/ Finish(t)
    BY <1>1, <2>4 DEF Accept, Finish
  <2> QED
    BY <2>1, <2>2, <2>3, <2>4 DEF Work
<1>3. Places[pc'[t]] < Places[pc[t]]
  BY <1>2 DEF Places
<1>4. (\A u \in Threads \ {t} : pc'[u] = pc[u]) /\ call' = call
  <2>1. CASE Observe(t) \/ ClaimTarget(t) \/ LoadTarget(t)
    BY <1>1, <2>1 DEF Observe, ClaimTarget, LoadTarget
  <2>2. CASE Register(t)
    BY <1>1, <2>2 DEF Register
  <2>3. CASE Claim(t) \/ Contend(t) \/ Release(t)
    BY <1>1, <2>3 DEF Claim, Contend, Release
  <2>4. CASE Accept(t) \/ Finish(t)
    BY <1>1, <2>4 DEF Accept, Finish
  <2> QED
    BY <2>1, <2>2, <2>3, <2>4 DEF Work
<1> QED
  BY <1>3, <1>4

\* A call takes at most four steps and no other thread takes one back or changes
\* its arguments.  With NobodyWaits, which says that it can always take the next,
\* every call returns, whatever holds the claim and whatever fills the registry.
THEOREM CallsAreShort == Spec => CallsAdvance
<1>1. ASSUME Inv, Next, NEW t \in Threads
      PROVE  /\ Work(t) => Places[pc'[t]] < Places[pc[t]]
             /\ pc[t] # "idle" =>
                  call'[t] = call[t] /\ (pc'[t] = pc[t] \/ Work(t))
  <2>1. Work(t) => Places[pc'[t]] < Places[pc[t]]
    BY <1>1, WorkMoves
  <2>2. CASE \E u \in Threads : Work(u)
    <3>1. PICK u \in Threads : Work(u)
      BY <2>2
    <3>2. call' = call /\ (u # t => pc'[t] = pc[t])
      BY <1>1, <3>1, WorkMoves
    <3> QED
      BY <2>1, <3>1, <3>2
  <2>3. ASSUME NEW u \in Threads, NEW c,
               StartPrepare(u, c) \/ StartExecute(u, c)
        PROVE  pc[t] # "idle" => call'[t] = call[t] /\ pc'[t] = pc[t]
    BY <1>1, <2>3
    DEF StartPrepare, StartExecute, Goto, Return, ClaimOrBusy, Inv, TypeInv
  <2>4. ASSUME NEW o \in Owners, OwnerDies(o)
        PROVE  call'[t] = call[t] /\ pc'[t] = pc[t]
    BY <2>4 DEF OwnerDies
  <2> QED
    BY <1>1, <2>1, <2>2, <2>3, <2>4 DEF Next
<1>2. Inv /\ [Next]_vars =>
        [\A t \in Threads :
           /\ Work(t) => Places[pc'[t]] < Places[pc[t]]
           /\ pc[t] # "idle" =>
                call'[t] = call[t] /\ (pc'[t] = pc[t] \/ Work(t))]_vars
  BY <1>1
<1> QED
  BY <1>2, Invariance, PTL DEF Spec, CallsAdvance
=============================================================================
