-------------------------- MODULE ProfilePlan_proofs --------------------------
(***************************************************************************)
(* Theorems about the programming of the mouse, for every configuration,   *)
(* baseline and size of the memory: only Build and AllocateStep touch what *)
(* the lemmas of MacroAllocator_proofs speak of; a walk over finished      *)
(* macros follows the links that they leave; the routes of a plan find     *)
(* their macros in the list; what an action compiles to, by recursion over *)
(* its steps; why a configuration is refused; and what the validation      *)
(* finds in a plan.                                                        *)
(***************************************************************************)
EXTENDS ProfilePlan, MacroAllocator_proofs

\* The steps of the plan, as the store sees them.
LEMMA StoreSteps ==
  ASSUME [Next]_vars
  PROVE  \/ Allocate(Unique) \/ Allocation
         \/ UNCHANGED <<memory, allocation>>
<1>1. CASE ValidateConfig
  BY <1>1 DEF ValidateConfig
<1>2. CASE Build
  BY <1>2 DEF Build
<1>3. CASE AllocateStep
  BY <1>3 DEF AllocateStep
<1>4. CASE AllocationFails
  BY <1>4 DEF AllocationFails
<1>5. CASE Assemble
  BY <1>5 DEF Assemble
<1>6. CASE ValidateImages
  BY <1>6 DEF ValidateImages
<1>7. CASE NextStart
  BY <1>7 DEF NextStart
<1>8. CASE WalkStep
  BY <1>8 DEF WalkStep
<1>9. CASE EndWalk
  BY <1>9 DEF EndWalk
<1>10. CASE Report
  BY <1>10 DEF Report
<1>11. CASE UNCHANGED vars
  BY <1>11 DEF vars
<1> QED
  BY <1>1, <1>2, <1>3, <1>4, <1>5, <1>6, <1>7, <1>8, <1>9, <1>10, <1>11 DEF Next

LEMMA StoreInvariance == Spec => []StoreInv
<1>1. Init => StoreInv
  BY CountInit, LayoutInit DEF Init, StoreInv, OccupiedInv, AllocationInit
<1>2. StoreInv /\ [Next]_vars => StoreInv'
  <2> SUFFICES ASSUME StoreInv, [Next]_vars PROVE StoreInv'
    OBVIOUS
  <2>1. CASE Allocate(Unique)
    BY <2>1, AllocateCount, AllocateOccupied, AllocateLayout DEF StoreInv
  <2>2. CASE Allocation
    BY <2>2, AllocationCount, AllocationOccupied, AllocationLayout DEF StoreInv
  <2>3. CASE UNCHANGED <<memory, allocation>>
    BY <2>3, CountStutters, OccupiedStutters, LayoutStutters DEF StoreInv
  <2> QED BY <2>1, <2>2, <2>3, StoreSteps
<1> QED
  BY <1>1, <1>2, PTL DEF Spec

\* The cursor stays in the pages of the compiler, and the counters are numbers.
THEOREM StoreTypeCorrect == Spec => []AllocationTypeOK
<1>1. StoreInv => AllocationTypeOK
  BY DEF StoreInv, CountInv
<1> QED
  BY <1>1, StoreInvariance, PTL

\* A store is refused only when the macros fill it, and the allocator never
\* meets the state its RuntimeError is for.
THEOREM RefusalsAreHonest == Spec => []HonestRefusal
<1>1. StoreInv => HonestRefusal
  BY DEF StoreInv, CountInv
<1> QED
  BY <1>1, StoreInvariance, PTL

\* The counters of the capacity report are the bytes of the pages.
THEOREM CountersAreTrue == Spec => []StoreIsAccounted
<1>1. StoreInv => StoreIsAccounted
  BY Accounted DEF StoreInv
<1> QED
  BY <1>1, StoreInvariance, PTL

-----------------------------------------------------------------------------
(* Nothing is walked before the macros are placed.                          *)

PlayInv ==
  /\ phase \in {"config", "build", "allocate"} => verdict = "idle"
  /\ WalkInv

LEMMA PlayStep == StoreInv /\ PlayInv /\ [Next]_vars => PlayInv'
<1> SUFFICES ASSUME StoreInv, PlayInv, [Next]_vars PROVE PlayInv'
  OBVIOUS
<1>1. CASE phase \in {"build", "allocate"} /\ UNCHANGED walk
  <2>1. verdict' = "idle"
    BY <1>1 DEF PlayInv, walk
  <2> QED BY <2>1 DEF PlayInv, WalkInv, OwnInv
<1>2. CASE /\ UNCHANGED <<memory, allocation>>
           /\ \/ Walk \/ verdict' = "idle" \/ UNCHANGED walk
              \/ \E a : StartWalk(a)
           /\ phase' \in {"config", "build", "allocate"} =>
                phase \in {"config", "build", "allocate"} /\ UNCHANGED walk
  BY <1>2, WalkKept DEF PlayInv, walk
<1>3. CASE ValidateConfig
  BY <1>2, <1>3 DEF ValidateConfig
<1>4. CASE Build
  BY <1>1, <1>4 DEF Build
<1>5. CASE AllocateStep
  BY <1>1, <1>5 DEF AllocateStep
<1>6. CASE AllocationFails
  BY <1>2, <1>6 DEF AllocationFails, Refused
<1>7. CASE Assemble
  BY <1>2, <1>7 DEF Assemble, Refused
<1>8. CASE ValidateImages
  BY <1>2, <1>8 DEF ValidateImages
<1>9. CASE NextStart
  BY <1>2, <1>9 DEF NextStart, plan
<1>10. CASE WalkStep
  BY <1>2, <1>10 DEF WalkStep, plan
<1>11. CASE EndWalk
  BY <1>2, <1>11 DEF EndWalk
<1>12. CASE Report
  BY <1>2, <1>12 DEF Report
<1>13. CASE UNCHANGED vars
  BY <1>2, <1>13 DEF vars, plan
<1> QED
  BY <1>3, <1>4, <1>5, <1>6, <1>7, <1>8, <1>9, <1>10, <1>11, <1>12, <1>13 DEF Next

LEMMA PlaysOwn == WalkInv /\ StoreInv => PlaysAsCompiled
<1> SUFFICES ASSUME WalkInv, StoreInv, NEW i \in DOMAIN start, Owns(i)
             PROVE  /\ verdict \in {"walking", "accepted"}
                    /\ Len(chain) <= Len(macros[i])
                    /\ \A n \in DOMAIN chain : chain[n] = <<i, n>>
                    /\ verdict = "accepted" => chain # <<>> /\ macros[i][Len(chain)] = End
  BY DEF PlaysAsCompiled
<1>1. outcome = "done" /\ verdict # "idle" /\ origin = start[i] /\ OwnInv(i)
  BY DEF Owns, WalkInv
<1>2. Len(macros[i]) \in Nat
  BY LenProperties DEF StoreInv, CountInv, AllocationTypeOK, Tokens
<1>3. CASE verdict = "walking"
  <2>1. PICK s, o, n : Linked(s, o, i, n) /\ Walked(i, n - 1)
    BY <1>1, <1>3 DEF OwnInv, Walking
  <2>2. n \in 1 .. Len(macros[i])
    BY <1>1, <2>1, LinkedPlace
  <2> QED BY <1>2, <1>3, <2>1, <2>2 DEF Walked
<1>4. CASE verdict = "accepted"
  <2>1. PICK n \in 1 .. Len(macros[i]) : Walked(i, n) /\ macros[i][n] = End
    BY <1>1, <1>4 DEF OwnInv, Accepted
  <2> QED BY <1>2, <1>4, <2>1 DEF Walked
<1> QED BY <1>1, <1>3, <1>4 DEF OwnInv

\* Wherever the ends of the pages cut it, a macro of the compiler plays as it
\* was compiled.
THEOREM CompiledMacrosPlay == Spec => []PlaysAsCompiled
<1>1. Init => PlayInv
  BY DEF Init, PlayInv, WalkInv, WalkInit, AllocationInit
<1>2. StoreInv /\ PlayInv => PlaysAsCompiled
  BY PlaysOwn DEF PlayInv
<1> QED
  BY <1>1, <1>2, PlayStep, StoreInvariance, PTL DEF Spec

-----------------------------------------------------------------------------
(* The memory stays what it is typed as.                                     *)

\* What is written are bytes.
LEMMA WrittenIsByte ==
  ASSUME AllocationTypeOK, tok > 0, NEW e \in Nat, NEW o
  PROVE  Written(e, o) \in Bytes
<1> DEFINE here == {n \in tok .. e : Before(macros[m], n) = Before(macros[m], tok) + (o - offset)}
<1>1. CASE here = {}
  <2>1. Written(e, o) = Operand
    BY <1>1 DEF Written
  <2> QED BY <2>1 DEF Operand, Byte, Bytes, Opcodes, NoPlace
<1>2. CASE here # {}
  <2> DEFINE n == CHOOSE k \in here : TRUE
  <2>1. n \in here
    BY <1>2
  <2>2. n \in Nat /\ m \in Nat
    BY <2>1, Numbers
  <2>3. Written(e, o) = Byte(Op(macros[m][n]), NoPlace, <<m, n>>)
    BY <1>2, Zenon DEF Written
  <2>4. Op(macros[m][n]) \in Opcodes
    BY WidthOfOp DEF Opcodes
  <2> HIDE DEF n
  <2> QED BY <2>2, <2>3, <2>4 DEF Byte, Bytes, NoPlace
<1> QED BY <1>1, <1>2

LEMMA BytesOfPages ==
  /\ Erased \in Bytes /\ Operand \in Bytes
  /\ \A s \in Nat : Jump(s) \in Bytes
  /\ ErasedPage \in [Offsets -> Bytes]
<1>1. Erased \in Bytes /\ Operand \in Bytes
  BY DEF Erased, Operand, Byte, Bytes, Opcodes, NoPlace
<1>2. \A s \in Nat : Jump(s) \in Bytes
  BY DEF Jump, Byte, Bytes, Opcodes, NoPlace
<1> QED BY <1>1, <1>2 DEF ErasedPage

\* The memory stays what it is typed as.
LEMMA AllocateTyped ==
  ASSUME MemoryTypeOK, NEW unique, Allocate(unique)
  PROVE  MemoryTypeOK'
  BY BytesOfPages DEF Allocate, MemoryTypeOK

LEMMA AllocationTyped ==
  ASSUME MemoryTypeOK, AllocationTypeOK, Allocation
  PROVE  MemoryTypeOK'
<1>1. CASE UNCHANGED memory
  BY <1>1 DEF memory, MemoryTypeOK
<1>2. CASE BeginMacro
  BY <1>1, <1>2 DEF BeginMacro, GiveUp, memory
<1>3. CASE MoveOn
  BY <1>1, <1>3 DEF MoveOn, GiveUp, memory
<1>4. ASSUME NEW f \in [Offsets -> Bytes], pages' = [pages EXCEPT ![sector] = f], crc' = crc
      PROVE  MemoryTypeOK'
  BY <1>4, Numbers DEF MemoryTypeOK
<1>5. \A o \in Offsets : pages[sector][o] \in Bytes
  BY Store DEF AllocationTypeOK, MemoryTypeOK
<1>6. CASE PlaceRest
  <2> DEFINE f == [o \in Offsets |-> IF o \in offset .. offset + Remaining - 1
                     THEN Written(Len(macros[m]), o) ELSE pages[sector][o]]
  <2>1. tok > 0 /\ pages' = [pages EXCEPT ![sector] = f] /\ crc' = crc
    BY <1>6 DEF PlaceRest
  <2>2. f \in [Offsets -> Bytes]
    <3>1. Len(macros[m]) \in Nat
      BY <2>1, InHand
    <3> QED BY <1>5, <2>1, <3>1, WrittenIsByte
  <2> QED BY <1>4, <2>1, <2>2
<1>7. CASE PlaceFragment
  <2>1. CASE sector = GlobalLast
    BY <1>1, <1>7, <2>1 DEF PlaceFragment, GiveUp, memory
  <2>2. CASE sector # GlobalLast
    <3> DEFINE e == LastFit
               f == [o \in Offsets |->
                   IF o \in offset .. (offset + Extent(e)) - 1 THEN Written(e, o)
                   ELSE IF o = offset + Extent(e) THEN Jump(sector + 1)
                   ELSE IF o \in (offset + Extent(e)) + 1 .. (offset + Extent(e)) + 4 THEN Operand
                   ELSE pages[sector][o]]
    <3>1. tok > 0 /\ pages' = [pages EXCEPT ![sector] = f] /\ crc' = crc
      BY <1>7, <2>2, Zenon DEF PlaceFragment
    <3>2. e \in Nat
      <4>1. e \in tok .. Len(macros[m]) - 1
        BY <1>7, LastFitFits DEF PlaceFragment
      <4> QED BY <4>1, Numbers
    <3>3. f \in [Offsets -> Bytes]
      <4>1. sector + 1 \in Nat
        BY Numbers
      <4> HIDE DEF e
      <4> QED BY <1>5, <3>1, <3>2, <4>1, WrittenIsByte, BytesOfPages
    <3> QED BY <1>4, <3>1, <3>3
  <2> QED BY <2>1, <2>2
<1>8. CASE Seal
  BY <1>8, BytesOfPages DEF Seal, MemoryTypeOK
<1> QED BY <1>2, <1>3, <1>6, <1>7, <1>8 DEF Allocation

-----------------------------------------------------------------------------
(* The machine *)

\* The machine's states from an address on.
Started(a) == [state |-> "runs", at |-> a]
Runs(run, a, n) ==
  /\ run[0] = Started(a)
  /\ \A k \in 1 .. n : run[k] = Advance(run[k - 1])

LEMMA RunExists ==
  ASSUME NEW a, NEW n \in Nat
  PROVE  \E run : run = [k \in 0 .. n |-> IF k = 0 THEN Started(a) ELSE Advance(run[k - 1])]
<1> DEFINE Solves(run, l) ==
             run = [k \in 0 .. l |-> IF k = 0 THEN Started(a) ELSE Advance(run[k - 1])]
           Bad == {l \in Nat : ~ \E run : Solves(run, l)}
<1>1. SUFFICES ASSUME n \in Bad PROVE FALSE
  OBVIOUS
<1>2. PICK l \in Bad : \A k \in Bad : l <= k
  <2>1. Bad \in SUBSET Nat
    OBVIOUS
  <2> QED BY <1>1, <2>1, Least
<1>3. l \in Nat /\ ~ \E run : Solves(run, l)
  OBVIOUS
<1>4. CASE l = 0
  <2> DEFINE run == [k \in 0 .. 0 |-> Started(a)]
  <2>1. \A k \in 0 .. 0 : k = 0
    OBVIOUS
  <2>2. Solves(run, 0)
    BY <2>1, Zenon
  <2> QED BY <1>3, <1>4, <2>2
<1>5. CASE l # 0
  <2>1. PICK g : Solves(g, l - 1)
    <3>1. l - 1 \in Nat /\ ~ (l <= l - 1)
      BY <1>3, <1>5
    <3> QED BY <1>2, <3>1
  <2> DEFINE h == [k \in 0 .. l |-> IF k = l THEN Advance(g[l - 1]) ELSE g[k]]
  <2>2. \A k \in 0 .. l - 1 : g[k] = IF k = 0 THEN Started(a) ELSE Advance(g[k - 1])
    BY <2>1, Zenon
  <2>3. \A k \in 0 .. l : k = l \/ (k # l /\ k \in 0 .. l - 1)
    BY <1>3
  <2>4. \A k \in 0 .. l : k # 0 => k - 1 \in 0 .. l - 1 /\ k - 1 \in 0 .. l /\ k - 1 # l
    BY <1>3
  <2>5. \A k \in 0 .. l - 1 : k \in 0 .. l /\ k # l
    BY <1>3
  <2> HIDE DEF Solves, Bad
  <2>6. \A k \in 0 .. l : h[k] = IF k = 0 THEN Started(a) ELSE Advance(h[k - 1])
    <3>1. \A k \in 0 .. l : k # 0 => h[k - 1] = g[k - 1]
      BY <2>4
    <3>2. \A k \in 0 .. l : k # l => h[k] = g[k]
      OBVIOUS
    <3>3. l \in 0 .. l /\ h[l] = Advance(g[l - 1])
      BY <1>3
    <3> HIDE DEF h
    <3>4. TAKE k \in 0 .. l
    <3>5. CASE k = l
      BY <3>1, <3>3, <3>5, <1>5, Zenon
    <3>6. CASE k # l
      <4>1. h[k] = g[k] /\ g[k] = IF k = 0 THEN Started(a) ELSE Advance(g[k - 1])
        BY <2>2, <2>3, <3>2, <3>6
      <4> QED BY <3>1, <4>1, Zenon
    <3> QED BY <3>5, <3>6
  <2>7. Solves(h, l)
    BY <2>6, Zenon DEF Solves
  <2> QED BY <1>3, <2>7
<1> QED BY <1>4, <1>5

LEMMA Steps == MachineSteps \in Nat
<1>1. Cardinality(Addressable) \in Nat /\ SectorSize \in Nat
  BY PagesAssumption, FS_CardinalityType
<1> QED BY <1>1 DEF MachineSteps

\* What the machine comes to is where one of its runs ends.
LEMMA MachineIsRun ==
  ASSUME NEW a
  PROVE  \E run : Runs(run, a, MachineSteps) /\ Machine(a) = run[MachineSteps].state
<1> DEFINE Solves(run) ==
      run = [k \in 0 .. MachineSteps |-> IF k = 0 THEN Started(a) ELSE Advance(run[k - 1])]
           run == CHOOSE g : Solves(g)
<1>1. Solves(run)
  <2>1. \E g : Solves(g)
    BY Steps, RunExists
  <2> QED BY <2>1, Zenon
<1>2. Machine(a) = run[MachineSteps].state
  BY Zenon DEF Machine, Started
<1> HIDE DEF run
<1>3. \A k \in 0 .. MachineSteps : run[k] = IF k = 0 THEN Started(a) ELSE Advance(run[k - 1])
  BY <1>1, Zenon
<1>4. 0 \in 0 .. MachineSteps /\ \A k \in 1 .. MachineSteps : k \in 0 .. MachineSteps /\ k # 0
  BY Steps
<1> QED BY <1>2, <1>3, <1>4 DEF Runs

\* The instruction is one that another follows.
Goes(a) == Decodes(a) /\ At(a).op # "END" /\ ~Falls(a)

LEMMA Advances ==
  ASSUME NEW a
  PROVE  /\ Goes(a) => Advance(Started(a)) = Started(After(a))
         /\ Decodes(a) /\ At(a).op = "END" => Advance(Started(a)).state = "end"
         /\ ~Decodes(a) \/ (At(a).op # "END" /\ Falls(a)) => Advance(Started(a)).state = "fault"
<1>1. Advance(Started(a)) =
        IF ~Decodes(a) THEN [state |-> "fault", at |-> a]
        ELSE IF At(a).op = "END" THEN [state |-> "end", at |-> a]
        ELSE IF Falls(a) THEN [state |-> "fault", at |-> a]
        ELSE Started(After(a))
  BY DEF Advance, Started
<1> QED BY <1>1 DEF Goes

\* Once it has stopped, the machine stays where it is.
LEMMA StopsForGood ==
  ASSUME NEW run, NEW a, NEW n \in Nat, Runs(run, a, n), NEW k \in 0 .. n, run[k].state # "runs"
  PROVE  run[n] = run[k]
<1> DEFINE Bad == {l \in k .. n : run[l] # run[k]}
<1>1. SUFFICES ASSUME n \in Bad PROVE FALSE
  BY DEF Bad
<1>2. PICK l \in Bad : \A j \in Bad : l <= j
  <2>1. Bad \in SUBSET Nat
    OBVIOUS
  <2> QED BY <1>1, <2>1, Least
<1>3. l # k /\ l - 1 \in k .. n /\ l - 1 \notin Bad /\ l \in 1 .. n
  BY <1>2
<1>4. run[l - 1] = run[k]
  BY <1>3
<1>5. run[l] = Advance(run[l - 1])
  BY <1>3 DEF Runs
<1>6. run[l] = run[k]
  BY <1>4, <1>5 DEF Advance
<1> QED BY <1>2, <1>6

\* In a set of addresses that it does not leave, the machine runs for ever.
LEMMA RunsForEver ==
  ASSUME NEW run, NEW a, NEW n \in Nat, Runs(run, a, n), NEW k \in 0 .. n, NEW S,
         \A b \in S : Goes(b) /\ After(b) \in S,
         NEW b \in S, run[k] = Started(b)
  PROVE  run[n].state = "runs"
<1> DEFINE Bad == {l \in k .. n : ~ \E c \in S : run[l] = Started(c)}
<1>1. SUFFICES ASSUME n \in Bad PROVE FALSE
  <2>1. n \in k .. n /\ \A c : Started(c).state = "runs"
    BY DEF Started
  <2> QED BY <2>1
<1>2. PICK l \in Bad : \A j \in Bad : l <= j
  <2>1. Bad \in SUBSET Nat
    OBVIOUS
  <2> QED BY <1>1, <2>1, Least
<1>3. l # k /\ l - 1 \in k .. n /\ l - 1 \notin Bad /\ l \in 1 .. n
  BY <1>2
<1>4. PICK c \in S : run[l - 1] = Started(c)
  BY <1>3
<1>5. run[l] = Advance(run[l - 1])
  BY <1>3 DEF Runs
<1>6. run[l] = Started(After(c)) /\ After(c) \in S
  BY <1>4, <1>5, Advances
<1> QED BY <1>2, <1>6

-----------------------------------------------------------------------------
(* The walk beside the machine *)

\* No instruction that another follows begins with the last byte of a page.
Corner == <<GlobalFirst, SectorSize - 1>>
Places == Addressable \X Offsets

LEMMA Going ==
  ASSUME MemoryTypeOK, NEW a \in Nat \X Nat, Goes(a)
  PROVE  a \in Places \ {Corner} /\ After(a) \in Nat \X Nat
<1>1. /\ a = <<a[1], a[2]>> /\ a[1] \in Addressable /\ a[2] \in 0 .. Limit(a[1]) - 1
      /\ Limit(a[1]) \in Nat /\ Limit(a[1]) <= SectorSize /\ a[2] \in Nat
  BY Store DEF Goes, Decodes, InStore, Limit
<1>2. a[2] \in Offsets /\ SectorSize \in Nat
  BY <1>1, Store DEF Offsets
<1>3. At(a) \in Bytes
  BY <1>1, <1>2 DEF At, MemoryTypeOK
<1>4. At(a).op \in {"ONE", "THREE", "JUMP"} /\ At(a).to \in Nat \X Nat
  BY <1>3 DEF Bytes, Opcodes, Goes, Decodes
<1>5. Size(At(a).op) \in {1, 3, 5}
  BY DEF Size
<1>6. After(a) \in Nat \X Nat
  BY <1>1, <1>4, <1>5, PagesAssumption DEF After
<1>7. a[2] # SectorSize - 1
  <2>1. CASE At(a).op = "ONE"
    <3>1. After(a)[2] = a[2] + 1
      BY <2>1 DEF After, Size
    <3>2. ~ (After(a)[2] >= Limit(a[1]))
      BY <2>1 DEF Goes, Falls
    <3> QED BY <1>1, <1>2, <3>1, <3>2
  <2>2. CASE At(a).op # "ONE"
    <3>1. a[2] + Size(At(a).op) <= Limit(a[1]) /\ Size(At(a).op) \in {3, 5}
      BY <1>4, <2>2 DEF Goes, Decodes, Size
    <3> QED BY <1>1, <1>2, <3>1
  <2> QED BY <2>1, <2>2
<1> QED BY <1>1, <1>2, <1>6, <1>7 DEF Places, Corner

LEMMA FewPlaces ==
  ASSUME NEW S \in SUBSET (Places \ {Corner})
  PROVE  IsFiniteSet(S) /\ Cardinality(S) \in Nat /\ Cardinality(S) + 1 <= MachineSteps
<1>1. IsFiniteSet(Addressable) /\ Cardinality(Addressable) \in Nat
  BY PagesAssumption, FS_CardinalityType
<1>2. IsFiniteSet(Offsets) /\ Cardinality(Offsets) = SectorSize
  BY IntervalSize, FS_Interval, Store DEF Offsets
<1>3. IsFiniteSet(Places) /\ Cardinality(Places) = MachineSteps
  BY <1>1, <1>2, FS_Product DEF Places, MachineSteps
<1>4. Corner \in Places
  BY Store DEF Corner, Places, Offsets, Global
<1>5. IsFiniteSet(Places \ {Corner}) /\ Cardinality(Places \ {Corner}) = MachineSteps - 1
  BY <1>3, <1>4, FS_RemoveElement
<1>6. IsFiniteSet(S) /\ Cardinality(S) <= Cardinality(Places \ {Corner})
  BY <1>5, FS_Subset
<1>7. Cardinality(S) \in Nat
  BY <1>6, FS_CardinalityType
<1> QED BY <1>5, <1>6, <1>7, Steps

\* What the walk has read is closed but for the address it goes on at, where
\* the machine stands after as many instructions.
Judges(state) ==
  \/ verdict = "accepted" /\ state = "end"
  \/ verdict = "cycle" /\ state = "runs"
  \/ verdict \in {"fault", "falls"} /\ state = "fault"

TraceInv ==
  /\ verdict = "walking" =>
       /\ at \in Nat \X Nat /\ seen \subseteq Places \ {Corner}
       /\ \A a \in seen : Goes(a) /\ After(a) \in seen \union {at}
  /\ \A run : Runs(run, origin, MachineSteps) =>
       /\ verdict = "walking" => run[Cardinality(seen)] = Started(at)
       /\ verdict \notin {"idle", "walking"} => Judges(run[MachineSteps].state)

LEMMA TraceJudges == TraceInv => VerdictIsTrue
<1> SUFFICES ASSUME TraceInv, verdict \notin {"idle", "walking"} PROVE VerdictIsTrue
  BY DEF VerdictIsTrue
<1>1. PICK run : Runs(run, origin, MachineSteps) /\ Machine(origin) = run[MachineSteps].state
  BY MachineIsRun
<1>2. Judges(Machine(origin))
  BY <1>1 DEF TraceInv
<1> QED BY <1>2 DEF Judges, VerdictIsTrue

LEMMA RunsKept ==
  ASSUME UNCHANGED memory, NEW run, NEW a, NEW n \in Nat
  PROVE  Runs(run, a, n)' <=> Runs(run, a, n)
<1>1. \A b : (Decodes(b)' <=> Decodes(b)) /\ At(b)' = At(b) /\ Limit(b[1])' = Limit(b[1])
  BY DEF memory, Decodes, InStore, At, Limit
<1>2. \A b : After(b)' = After(b) /\ (Falls(b)' <=> Falls(b))
  BY <1>1 DEF After, Falls
<1>3. \A machine : Advance(machine)' = Advance(machine)
  BY <1>1, <1>2 DEF Advance
<1> QED BY <1>3 DEF Runs

LEMMA GoesKept ==
  ASSUME UNCHANGED memory, NEW b
  PROVE  (Goes(b)' <=> Goes(b)) /\ After(b)' = After(b)
<1>1. (Decodes(b)' <=> Decodes(b)) /\ At(b)' = At(b) /\ Limit(b[1])' = Limit(b[1])
  BY DEF memory, Decodes, InStore, At, Limit
<1> QED BY <1>1 DEF Goes, After, Falls

LEMMA TraceStutters == TraceInv /\ UNCHANGED <<memory, walk>> => TraceInv'
<1> SUFFICES ASSUME TraceInv, UNCHANGED <<memory, walk>> PROVE TraceInv'
  OBVIOUS
<1>1. UNCHANGED <<memory, origin, at, seen, verdict>>
  BY DEF walk
<1>2. \A run : Runs(run, origin, MachineSteps)' <=> Runs(run, origin, MachineSteps)
  BY <1>1, RunsKept, Steps
<1>3. \A b : (Goes(b)' <=> Goes(b)) /\ After(b)' = After(b)
  BY <1>1, GoesKept
<1> QED BY <1>1, <1>2, <1>3 DEF TraceInv, Judges

LEMMA TraceIdle == verdict' = "idle" => TraceInv'
  BY DEF TraceInv

LEMMA TraceBegins ==
  ASSUME NEW a \in Nat \X Nat, StartWalk(a)
  PROVE  TraceInv'
<1>1. /\ origin' = a /\ at' = a /\ seen' = {} /\ verdict' = "walking"
  BY DEF StartWalk
<1> QED BY <1>1, FS_EmptySet DEF TraceInv, Runs

LEMMA TraceWalks ==
  ASSUME MemoryTypeOK, TraceInv, Walk, UNCHANGED memory
  PROVE  TraceInv'
<1> DEFINE k == Cardinality(seen)
<1>1. /\ verdict = "walking" /\ at \in Nat \X Nat /\ seen \in SUBSET (Places \ {Corner})
      /\ \A a \in seen : Goes(a) /\ After(a) \in seen \union {at}
      /\ \A run : Runs(run, origin, MachineSteps) => run[k] = Started(at)
  BY DEF TraceInv, Walk
<1>2. IsFiniteSet(seen) /\ k \in Nat /\ k + 1 <= MachineSteps /\ MachineSteps \in Nat
  BY <1>1, FewPlaces, Steps
<1>3. k # MaxInstructions
  <2>1. MaxInstructions \in Nat /\ MachineSteps < MaxInstructions
    BY LimitAssumption DEF MachineSteps
  <2> QED BY <1>2, <2>1
<1>4. origin' = origin
  BY DEF Walk, Refuse
<1>5. \A run : Runs(run, origin, MachineSteps)' => Runs(run, origin, MachineSteps)
  BY <1>4, RunsKept, Steps
<1>6. ASSUME NEW run, Runs(run, origin, MachineSteps)
      PROVE  run[k + 1] = Advance(Started(at)) /\ k + 1 \in 0 .. MachineSteps
  <2>1. run[k] = Started(at) /\ k + 1 \in 1 .. MachineSteps /\ (k + 1) - 1 = k
    BY <1>1, <1>2, <1>6
  <2> HIDE DEF k
  <2> QED BY <1>2, <1>6, <2>1 DEF Runs
<1>7. ASSUME verdict' \notin {"idle", "walking"},
             \A run : Runs(run, origin, MachineSteps) => Judges(run[MachineSteps].state)'
      PROVE  TraceInv'
  BY <1>4, <1>5, <1>7 DEF TraceInv
<1>8. ASSUME NEW run, Runs(run, origin, MachineSteps), Advance(Started(at)).state # "runs"
      PROVE  run[MachineSteps].state = Advance(Started(at)).state
  BY <1>2, <1>6, <1>8, StopsForGood
<1>9. CASE at \in seen
  <2>1. verdict' = "cycle"
    BY <1>3, <1>9 DEF Walk, Refuse
  <2>2. ASSUME NEW run, Runs(run, origin, MachineSteps) PROVE run[MachineSteps].state = "runs"
    <3>1. \A b \in seen : Goes(b) /\ After(b) \in seen
      BY <1>1, <1>9
    <3>2. run[k] = Started(at) /\ k \in 0 .. MachineSteps
      BY <1>1, <1>2, <2>2
    <3> HIDE DEF k
    <3> QED BY <1>2, <1>9, <2>2, <3>1, <3>2, RunsForEver
  <2> QED BY <1>7, <2>1, <2>2 DEF Judges
<1>10. CASE at \notin seen /\ ~Decodes(at)
  <2>1. verdict' = "fault"
    BY <1>3, <1>10 DEF Walk, Refuse
  <2>2. Advance(Started(at)).state = "fault"
    BY <1>10, Advances
  <2> QED BY <1>7, <1>8, <2>1, <2>2 DEF Judges
<1>11. CASE at \notin seen /\ Decodes(at) /\ At(at).op = "END"
  <2>1. verdict' = "accepted"
    BY <1>3, <1>11 DEF Walk, Refuse
  <2>2. Advance(Started(at)).state = "end"
    BY <1>11, Advances
  <2> QED BY <1>7, <1>8, <2>1, <2>2 DEF Judges
<1>12. CASE at \notin seen /\ Decodes(at) /\ At(at).op # "END" /\ Falls(at)
  <2>1. verdict' = "falls"
    BY <1>3, <1>12 DEF Walk, Refuse
  <2>2. Advance(Started(at)).state = "fault"
    BY <1>12, Advances
  <2> QED BY <1>7, <1>8, <2>1, <2>2 DEF Judges
<1>13. CASE at \notin seen /\ Goes(at)
  <2>1. verdict' = "walking" /\ at' = After(at) /\ seen' = seen \union {at}
    BY <1>3, <1>13 DEF Walk, Refuse, Goes
  <2>2. at \in Places \ {Corner} /\ After(at) \in Nat \X Nat
    BY <1>1, <1>13, Going
  <2>3. Cardinality(seen') = k + 1
    BY <1>2, <1>13, <2>1, FS_AddElement
  <2>4. \A b : (Goes(b)' <=> Goes(b)) /\ After(b)' = After(b)
    BY GoesKept
  <2>5. \A b \in seen' : Goes(b)' /\ After(b)' \in seen' \union {at'}
    BY <1>1, <1>13, <2>1, <2>4
  <2>6. \A run : Runs(run, origin, MachineSteps)' => run[Cardinality(seen')] = Started(at')
    <3> HIDE DEF k
    <3> QED BY <1>5, <1>6, <1>13, <2>1, <2>3, Advances
  <2>7. Started(at)' = Started(at')
    BY DEF Started
  <2> QED BY <1>1, <2>1, <2>2, <2>5, <2>6, <2>7 DEF TraceInv
<1> QED BY <1>9, <1>10, <1>11, <1>12, <1>13 DEF Goes

-----------------------------------------------------------------------------
(* The order of the routes *)

AllRoutes == Programmable \X Layers \X TargetSet

LEMMA TargetsFinite == IsFiniteSet(TargetSet)
<1> DEFINE f == [n \in DOMAIN Targets |-> Targets[n]]
<1>1. DOMAIN Targets = 1 .. Len(Targets) /\ Len(Targets) \in Nat
  BY TargetsAssumption
<1>2. IsFiniteSet(DOMAIN Targets)
  BY <1>1, FS_Interval
<1>3. f \in Surjection(DOMAIN Targets, TargetSet)
  BY DEF Surjection, TargetSet
<1> QED BY <1>2, <1>3, FS_Surjection

LEMMA RoutesFinite == IsFiniteSet(AllRoutes)
<1> DEFINE S == (Programmable \X Layers) \X TargetSet
           f == [x \in S |-> <<x[1][1], x[1][2], x[2]>>]
<1>1. IsFiniteSet(Layers)
  <2>1. IsFiniteSet({"NORMAL"})
    BY FS_Singleton
  <2>2. Layers = {"NORMAL"} \union {"GSHIFT"}
    BY DEF Layers
  <2> QED BY <2>1, <2>2, FS_AddElement
<1>2. IsFiniteSet(S)
  <2>1. IsFiniteSet(Programmable \X Layers)
    BY <1>1, ProfilesAssumption, FS_Product
  <2> QED BY <2>1, TargetsFinite, FS_Product
<1>3. f \in Surjection(S, AllRoutes)
  <2>1. f \in [S -> AllRoutes]
    BY DEF AllRoutes
  <2>2. ASSUME NEW r \in AllRoutes PROVE \E x \in S : f[x] = r
    <3>1. PICK p \in Programmable, l \in Layers, t \in TargetSet : r = <<p, l, t>>
      BY DEF AllRoutes
    <3>2. <<<<p, l>>, t>> \in S
      OBVIOUS
    <3>3. f[<<<<p, l>>, t>>] = r
      BY <3>1, <3>2
    <3> QED BY <3>2, <3>3
  <2> QED BY <2>1, <2>2 DEF Surjection
<1> QED BY <1>2, <1>3, FS_Surjection

LEMMA Ranks ==
  ASSUME NEW r \in AllRoutes
  PROVE  /\ Rank(r)[1] = r[1] /\ r[1] \in Int
         /\ Rank(r)[2] = (IF r[2] = "GSHIFT" THEN 0 ELSE 1) /\ Rank(r)[2] \in Int
         /\ Rank(r)[3] \in Int /\ Targets[Rank(r)[3]] = r[3]
<1> DEFINE n == CHOOSE k \in DOMAIN Targets : Targets[k] = r[3]
<1>1. r[1] \in Programmable /\ r[3] \in TargetSet
  BY DEF AllRoutes
<1>2. DOMAIN Targets \subseteq Nat
  BY TargetsAssumption
<1>3. n \in DOMAIN Targets /\ Targets[n] = r[3]
  BY <1>1 DEF TargetSet
<1>4. Rank(r) = <<r[1], IF r[2] = "GSHIFT" THEN 0 ELSE 1, n>>
  BY Zenon DEF Rank
<1> HIDE DEF n
<1>5. r[1] \in Int /\ n \in Int
  <2>1. \A p \in Programmable : p \in Int
    BY ProfilesAssumption
  <2>2. \A k \in DOMAIN Targets : k \in Int
    BY <1>2
  <2> QED BY <1>1, <1>3, <2>1, <2>2
<1>6. Rank(r)[1] = r[1] /\ Rank(r)[3] = n
  BY <1>4
<1>7. Rank(r)[2] = (IF r[2] = "GSHIFT" THEN 0 ELSE 1)
  BY <1>4
<1> QED BY <1>3, <1>5, <1>6, <1>7

LEMMA Order ==
  /\ \A q \in AllRoutes : ~Ahead(q, q)
  /\ \A q, r \in AllRoutes : q = r \/ Ahead(q, r) \/ Ahead(r, q)
  /\ \A q, r, s \in AllRoutes : Ahead(q, r) /\ Ahead(r, s) => Ahead(q, s)
<1>1. \A q, r \in AllRoutes :
        Ahead(q, r) <=> \/ Rank(q)[1] < Rank(r)[1]
                        \/ Rank(q)[1] = Rank(r)[1] /\ Rank(q)[2] < Rank(r)[2]
                        \/ /\ Rank(q)[1] = Rank(r)[1] /\ Rank(q)[2] = Rank(r)[2]
                           /\ Rank(q)[3] < Rank(r)[3]
  BY DEF Ahead
<1>2. \A r \in AllRoutes : Rank(r)[1] \in Int /\ Rank(r)[2] \in Int /\ Rank(r)[3] \in Int
  BY Ranks
<1>3. \A q, r \in AllRoutes :
        Rank(q)[1] = Rank(r)[1] /\ Rank(q)[2] = Rank(r)[2] /\ Rank(q)[3] = Rank(r)[3] => q = r
  <2> SUFFICES ASSUME NEW q \in AllRoutes, NEW r \in AllRoutes,
                      Rank(q)[1] = Rank(r)[1], Rank(q)[2] = Rank(r)[2], Rank(q)[3] = Rank(r)[3]
               PROVE  q = r
    OBVIOUS
  <2>1. q[1] = r[1] /\ q[3] = r[3]
    BY Ranks
  <2>2. q[2] \in Layers /\ r[2] \in Layers /\ q = <<q[1], q[2], q[3]>> /\ r = <<r[1], r[2], r[3]>>
    BY DEF AllRoutes
  <2>3. q[2] = "GSHIFT" <=> r[2] = "GSHIFT"
    BY Ranks
  <2> QED BY <2>1, <2>2, <2>3 DEF Layers
<1> QED BY <1>1, <1>2, <1>3

\* How many routes of S come before one.
LEMMA Counting ==
  ASSUME NEW S \in SUBSET AllRoutes, NEW r \in S
  PROVE  /\ Cardinality({q \in S : Ahead(q, r)}) \in Nat
         /\ Cardinality({q \in S : Ahead(q, r)}) < Cardinality(S) /\ Cardinality(S) \in Nat
         /\ \A s \in S : Ahead(s, r) =>
              Cardinality({q \in S : Ahead(q, s)}) < Cardinality({q \in S : Ahead(q, r)})
<1> DEFINE B(s) == {q \in S : Ahead(q, s)}
<1>1. IsFiniteSet(S)
  BY RoutesFinite, FS_Subset
<1>2. \A s \in S : IsFiniteSet(B(s)) /\ Cardinality(B(s)) \in Nat
  BY <1>1, FS_Subset, FS_CardinalityType
<1>3. Cardinality(S) \in Nat
  BY <1>1, FS_CardinalityType
<1>4. \A T, U : IsFiniteSet(U) /\ T \subseteq U /\ T # U =>
        Cardinality(T) < Cardinality(U) \/ Cardinality(T) \notin Int \/ Cardinality(U) \notin Int
  <2> SUFFICES ASSUME NEW T, NEW U, IsFiniteSet(U), T \subseteq U, T # U,
                      Cardinality(T) \in Int, Cardinality(U) \in Int
               PROVE  Cardinality(T) < Cardinality(U)
    OBVIOUS
  <2>1. Cardinality(T) <= Cardinality(U) /\ Cardinality(T) # Cardinality(U)
    BY FS_Subset
  <2> QED BY <2>1
<1>5. B(r) \subseteq S /\ r \notin B(r)
  BY Order
<1>6. \A s \in S : Ahead(s, r) => B(s) \subseteq B(r) /\ s \in B(r) /\ s \notin B(s)
  BY Order
<1> HIDE DEF B
<1>7. \A s \in S : Ahead(s, r) => Cardinality(B(s)) < Cardinality(B(r))
  BY <1>2, <1>4, <1>6
<1>8. Cardinality(B(r)) < Cardinality(S)
  BY <1>1, <1>2, <1>3, <1>4, <1>5
<1> QED BY <1>2, <1>3, <1>7, <1>8 DEF B

\* The first of a set of routes.
LEMMA FirstOf ==
  ASSUME NEW S \in SUBSET AllRoutes, S # {}
  PROVE  \E r \in S : \A q \in S : ~Ahead(q, r)
<1> DEFINE count(r) == Cardinality({q \in S : Ahead(q, r)})
           N == {count(r) : r \in S}
<1>1. \A r \in S : count(r) \in Nat
  BY Counting
<1>2. \A r, q \in S : Ahead(q, r) => count(q) < count(r)
  BY Counting
<1> HIDE DEF count
<1>3. PICK n \in N : \A k \in N : n <= k
  <2>1. N \in SUBSET Nat /\ N # {}
    BY <1>1
  <2> HIDE DEF N
  <2> QED BY <2>1, Least
<1>4. PICK r \in S : n = count(r)
  OBVIOUS
<1>5. ASSUME NEW q \in S, Ahead(q, r) PROVE FALSE
  <2>1. count(q) \in N /\ count(q) < count(r) /\ count(q) \in Nat /\ count(r) \in Nat
    BY <1>1, <1>2, <1>5
  <2> QED BY <1>3, <1>4, <2>1
<1> QED BY <1>4, <1>5

-----------------------------------------------------------------------------
(* The list of macros *)

LEMMA BoundIsRoutes ==
  ASSUME ConfigOK(config)
  PROVE  Bound \subseteq AllRoutes /\ MacroRoutes \subseteq Bound /\ FirstRoutes \subseteq MacroRoutes
<1>1. DOMAIN config.profiles \subseteq Programmable
  BY Zenon DEF ConfigOK
<1>2. Bound \subseteq AllRoutes
  BY <1>1 DEF Bound, AllRoutes
<1> QED BY <1>2 DEF MacroRoutes, FirstRoutes

\* Every macro route finds its macro in the list.
LEMMA Found ==
  ASSUME ConfigOK(config), NEW r \in MacroRoutes
  PROVE  \E i \in DOMAIN Unique : Unique[i] = MacroOf(r)
<1> DEFINE Same == {q \in MacroRoutes : MacroOf(q) = MacroOf(r)}
<1>1. PICK q \in Same : \A s \in Same : ~Ahead(s, q)
  <2>1. Same \in SUBSET AllRoutes /\ r \in Same
    BY BoundIsRoutes
  <2> HIDE DEF Same
  <2> QED BY <2>1, FirstOf
<1>2. q \in FirstRoutes /\ MacroOf(q) = MacroOf(r)
  BY <1>1 DEF FirstRoutes
<1> DEFINE count(s) == Cardinality({p \in FirstRoutes : Ahead(p, s)})
<1>3. FirstRoutes \in SUBSET AllRoutes
  BY BoundIsRoutes
<1>4. /\ count(q) \in Nat /\ count(q) < Cardinality(FirstRoutes) /\ Cardinality(FirstRoutes) \in Nat
      /\ \A s \in FirstRoutes : count(s) \in Nat
      /\ \A s \in FirstRoutes : Ahead(s, q) => count(s) < count(q)
      /\ \A s \in FirstRoutes : Ahead(q, s) => count(q) < count(s)
  BY <1>2, <1>3, Counting
<1> DEFINE i == count(q) + 1
           s == CHOOSE p \in FirstRoutes : count(p) = i - 1
<1>5. i \in 1 .. Cardinality(FirstRoutes) /\ i - 1 = count(q)
  <2> HIDE DEF count
  <2> QED BY <1>4
<1>6. s \in FirstRoutes /\ count(s) = count(q)
  <2> HIDE DEF i, count
  <2>1. \E p \in FirstRoutes : count(p) = i - 1
    BY <1>2, <1>5
  <2>2. s \in FirstRoutes /\ count(s) = i - 1
    BY <2>1, Zenon
  <2> QED BY <1>5, <2>2
<1>7. Unique[i] = MacroOf(s) /\ i \in DOMAIN Unique
  <2> HIDE DEF i
  <2>1. Unique = [n \in 1 .. Cardinality(FirstRoutes) |->
                    MacroOf(CHOOSE p \in FirstRoutes : count(p) = n - 1)]
    BY Zenon DEF Unique
  <2> HIDE DEF count
  <2> QED BY <1>5, <2>1, Zenon
<1> HIDE DEF s, i
<1>8. s = q
  <2>1. s = q \/ Ahead(s, q) \/ Ahead(q, s)
    BY <1>2, <1>3, <1>6, Order
  <2> HIDE DEF count
  <2> QED BY <1>4, <1>6, <2>1
<1> QED BY <1>2, <1>7, <1>8

-----------------------------------------------------------------------------
(* Recursion over the steps of an action *)

StepsOf(a) == IF a.action = "sequence" THEN a.steps ELSE <<>>

\* What f says of the steps.
Said(f, a) == [n \in DOMAIN StepsOf(a) |-> f[StepsOf(a)[n]]]

LEMMA StepsBelow ==
  ASSUME NEW a \in Bindings, NEW n \in DOMAIN StepsOf(a)
  PROVE  /\ a.action = "sequence" /\ StepsOf(a) = a.steps
         /\ StepsOf(a)[n] \in Bindings /\ Depth[StepsOf(a)[n]] < Depth[a]
         /\ Depth[StepsOf(a)[n]] \in Nat /\ Depth[a] \in Nat
<1>1. a.action = "sequence" /\ StepsOf(a) = a.steps
  <2>1. DOMAIN <<>> = {}
    OBVIOUS
  <2> QED BY <2>1 DEF StepsOf
<1>2. a.steps[n] \in Bindings /\ Depth[a.steps[n]] < Depth[a]
  BY <1>1, BindingsAssumption
<1>3. \A b \in Bindings : Depth[b] \in Nat
  BY BindingsAssumption
<1> QED BY <1>1, <1>2, <1>3

\* The actions of S that are nested less than n deep.
Below(S, n) == {a \in S : Depth[a] < n}

Solution(S, V, G, n, f) ==
  /\ f \in [Below(S, n) -> V]
  /\ \A a \in Below(S, n) : f[a] = G[a][Said(f, a)]

\* Closed under taking steps; a step function G within V; and what it defines.
Closed(S) ==
  S \subseteq Bindings /\ \A a \in S : \A k \in DOMAIN StepsOf(a) : StepsOf(a)[k] \in S
Within(S, V, G) ==
  \A a \in S : \A said \in [DOMAIN StepsOf(a) -> V] : G[a][said] \in V
Defines(S, V, G) ==
  \E f \in [S -> V] : \A a \in S : f[a] = G[a][Said(f, a)]

LEMMA SaidTyped ==
  ASSUME NEW S \in SUBSET Bindings, \A a \in S : \A k \in DOMAIN StepsOf(a) : StepsOf(a)[k] \in S,
         NEW V, NEW n \in Nat, NEW f \in [Below(S, n) -> V], NEW a \in S, Depth[a] <= n
  PROVE  Said(f, a) \in [DOMAIN StepsOf(a) -> V]
<1>1. ASSUME NEW k \in DOMAIN StepsOf(a) PROVE f[StepsOf(a)[k]] \in V
  <2>1. StepsOf(a)[k] \in Below(S, n)
    BY StepsBelow DEF Below
  <2> QED BY <2>1
<1> QED BY <1>1 DEF Said

LEMMA SolvedBelow ==
  ASSUME NEW S \in SUBSET Bindings, \A a \in S : \A k \in DOMAIN StepsOf(a) : StepsOf(a)[k] \in S,
         NEW V, NEW G, \A a \in S : \A said \in [DOMAIN StepsOf(a) -> V] : G[a][said] \in V,
         NEW n \in Nat
  PROVE  \E f : Solution(S, V, G, n, f)
<1> DEFINE Bad == {l \in Nat : ~ \E f : Solution(S, V, G, l, f)}
<1>1. SUFFICES ASSUME n \in Bad PROVE FALSE
  OBVIOUS
<1>2. PICK l \in Bad : \A k \in Bad : l <= k
  <2>1. Bad \in SUBSET Nat
    OBVIOUS
  <2> HIDE DEF Bad
  <2> QED BY <1>1, <2>1, Least
<1>3. l \in Nat /\ ~ \E f : Solution(S, V, G, l, f)
  OBVIOUS
<1>4. \A a \in Bindings : Depth[a] \in Nat
  BY BindingsAssumption
<1>5. CASE l = 0
  <2> DEFINE f == [a \in {} |-> 0]
  <2>1. Below(S, 0) = {}
    BY <1>4 DEF Below
  <2>2. Solution(S, V, G, 0, f)
    BY <2>1 DEF Solution
  <2> QED BY <1>3, <1>5, <2>2
<1>6. CASE l # 0
  <2>1. PICK g : Solution(S, V, G, l - 1, g)
    <3>1. l - 1 \in Nat /\ ~ (l <= l - 1)
      BY <1>3, <1>6
    <3> QED BY <1>2, <3>1
  <2>2. l - 1 \in Nat /\ g \in [Below(S, l - 1) -> V] /\ \A b \in Below(S, l - 1) : g[b] = G[b][Said(g, b)]
    BY <1>3, <1>6, <2>1 DEF Solution
  <2> HIDE DEF Bad
  <2> DEFINE h == [a \in Below(S, l) |-> G[a][Said(g, a)]]
  <2>3. \A a \in Below(S, l) : G[a][Said(g, a)] \in V
    <3>1. \A a \in Below(S, l) : a \in S /\ Depth[a] <= l - 1
      BY <1>3, <1>4 DEF Below
    <3> QED BY <2>2, <3>1, SaidTyped
  <2>4. h \in [Below(S, l) -> V] /\ \A a \in Below(S, l) : h[a] = G[a][Said(g, a)]
    BY <2>3
  <2>5. \A b \in Below(S, l - 1) : b \in Below(S, l)
    BY <1>3, <1>4 DEF Below
  <2> HIDE DEF h
  <2>6. \A b \in Below(S, l - 1) : h[b] = g[b]
    BY <2>2, <2>4, <2>5
  <2>7. ASSUME NEW a \in Below(S, l) PROVE Said(h, a) = Said(g, a)
    <3>1. \A k \in DOMAIN StepsOf(a) : StepsOf(a)[k] \in Below(S, l - 1)
      BY <1>3, StepsBelow DEF Below
    <3> QED BY <2>6, <3>1 DEF Said
  <2>8. Solution(S, V, G, l, h)
    BY <2>4, <2>7 DEF Solution
  <2> QED BY <1>3, <2>8
<1> QED BY <1>5, <1>6

LEMMA SolvedOnce ==
  ASSUME NEW S \in SUBSET Bindings, \A a \in S : \A k \in DOMAIN StepsOf(a) : StepsOf(a)[k] \in S,
         NEW V, NEW G, NEW n \in Nat, NEW l \in Nat, NEW f, NEW g,
         Solution(S, V, G, n, f), Solution(S, V, G, l, g),
         NEW a \in Below(S, n) \intersect Below(S, l)
  PROVE  f[a] = g[a]
<1> DEFINE Differ == {b \in Below(S, n) \intersect Below(S, l) : f[b] # g[b]}
           Deep == {Depth[b] : b \in Differ}
<1>1. SUFFICES ASSUME a \in Differ PROVE FALSE
  OBVIOUS
<1>2. \A b \in Bindings : Depth[b] \in Nat
  BY BindingsAssumption
<1>3. PICK d \in Deep : \A k \in Deep : d <= k
  <2>1. Deep \in SUBSET Nat /\ Deep # {}
    BY <1>1, <1>2 DEF Below
  <2> HIDE DEF Deep
  <2> QED BY <2>1, Least
<1>4. PICK b \in Differ : Depth[b] = d
  BY <1>3
<1>5. b \in Below(S, n) /\ b \in Below(S, l) /\ b \in S /\ f[b] # g[b]
  BY <1>4 DEF Below
<1>6. ASSUME NEW k \in DOMAIN StepsOf(b) PROVE f[StepsOf(b)[k]] = g[StepsOf(b)[k]]
  <2> DEFINE c == StepsOf(b)[k]
  <2>1. c \in S /\ Depth[c] \in Nat /\ Depth[c] < Depth[b] /\ Depth[b] \in Nat
    BY <1>5, StepsBelow
  <2>2. Depth[b] < n /\ Depth[b] < l
    BY <1>5 DEF Below
  <2> HIDE DEF c
  <2>3. c \in Below(S, n) /\ c \in Below(S, l)
    BY <2>1, <2>2 DEF Below
  <2>4. ~ (Depth[b] <= Depth[c])
    BY <2>1
  <2>5. c \notin Differ
    BY <1>3, <1>4, <2>4
  <2>6. f[c] = g[c]
    BY <2>3, <2>5
  <2> QED BY <2>6 DEF c
<1>7. Said(f, b) = Said(g, b)
  BY <1>6 DEF Said
<1> QED BY <1>5, <1>7 DEF Solution

LEMMA Recursion ==
  ASSUME NEW S, NEW V, NEW G, Closed(S), Within(S, V, G)
  PROVE  Defines(S, V, G)
<1>0. /\ S \in SUBSET Bindings /\ \A a \in S : \A k \in DOMAIN StepsOf(a) : StepsOf(a)[k] \in S
      /\ \A a \in S : \A said \in [DOMAIN StepsOf(a) -> V] : G[a][said] \in V
  BY DEF Closed, Within
<1> SUFFICES \E f \in [S -> V] : \A a \in S : f[a] = G[a][Said(f, a)]
  BY DEF Defines
<1> DEFINE F(n) == CHOOSE f : Solution(S, V, G, n, f)
           h == [a \in S |-> F(Depth[a] + 1)[a]]
<1>1. \A n \in Nat : Solution(S, V, G, n, F(n))
  BY <1>0, SolvedBelow
<1> HIDE DEF F
<1>2. \A a \in S : Depth[a] \in Nat /\ Depth[a] + 1 \in Nat /\ a \in Below(S, Depth[a] + 1)
  BY <1>0, BindingsAssumption DEF Below
<1>3. h \in [S -> V]
  <2>1. ASSUME NEW a \in S PROVE F(Depth[a] + 1)[a] \in V
    <3>1. Solution(S, V, G, Depth[a] + 1, F(Depth[a] + 1)) /\ a \in Below(S, Depth[a] + 1)
      BY <1>1, <1>2
    <3> QED BY <3>1 DEF Solution
  <2> QED BY <2>1
<1>4. ASSUME NEW a \in S PROVE h[a] = G[a][Said(h, a)]
  <2>1. PICK n \in Nat : n = Depth[a] + 1
    BY <1>2
  <2>2. PICK f : f = F(n)
    OBVIOUS
  <2>3. Solution(S, V, G, n, f) /\ a \in Below(S, n) /\ h[a] = f[a]
    BY <1>1, <1>2, <2>1, <2>2
  <2>4. ASSUME NEW k \in DOMAIN StepsOf(a) PROVE h[StepsOf(a)[k]] = f[StepsOf(a)[k]]
    <3>1. PICK b : b = StepsOf(a)[k]
      OBVIOUS
    <3>2. b \in S /\ Depth[b] < Depth[a] /\ Depth[b] \in Nat /\ Depth[a] \in Nat
      BY <1>0, <3>1, StepsBelow
    <3>3. PICK l \in Nat : l = Depth[b] + 1
      BY <3>2
    <3>4. b \in Below(S, n) /\ b \in Below(S, l)
      BY <2>1, <3>2, <3>3 DEF Below
    <3>5. Solution(S, V, G, l, F(l)) /\ h[b] = F(l)[b]
      BY <1>1, <3>2, <3>3
    <3> HIDE DEF h
    <3>6. F(l)[b] = f[b]
      BY <1>0, <2>3, <3>4, <3>5, SolvedOnce
    <3> QED BY <3>1, <3>5, <3>6
  <2> HIDE DEF h
  <2>5. Said(h, a) = Said(f, a)
    BY <2>4 DEF Said
  <2> QED BY <2>3, <2>5 DEF Solution
<1> QED BY <1>3, <1>4

LEMMA SaysTheSame ==
  ASSUME NEW f, NEW a, a.action = "sequence", NEW n \in DOMAIN a.steps
  PROVE  n \in DOMAIN StepsOf(a) /\ Said(f, a)[n] = f[a.steps[n]]
  BY DEF StepsOf, Said

LEMMA SchemaUnfolds ==
  ASSUME NEW a \in Bindings
  PROVE  SchemaAccepts[a] <=>
           \/ AcceptsSimple(a)
           \/ /\ a.action = "sequence" /\ a.steps # <<>>
              /\ \A n \in DOMAIN a.steps :
                   SchemaAccepts[a.steps[n]] /\ Lower(a.steps[n].action) # "mouse"
<1> DEFINE Says(b, said) ==
             \/ AcceptsSimple(b)
             \/ /\ b.action = "sequence" /\ b.steps # <<>>
                /\ \A n \in DOMAIN b.steps : said[n] /\ Lower(b.steps[n].action) # "mouse"
           G == [b \in Bindings |-> [said \in [DOMAIN StepsOf(b) -> BOOLEAN] |-> Says(b, said)]]
           Solves(f) ==
             f = [b \in Bindings |->
                    \/ AcceptsSimple(b)
                    \/ /\ b.action = "sequence" /\ b.steps # <<>>
                       /\ \A n \in DOMAIN b.steps :
                            f[b.steps[n]] /\ Lower(b.steps[n].action) # "mouse"]
<1>2. PICK Truth : Truth = BOOLEAN
  OBVIOUS
<1>1. PICK g : \A b \in Bindings : \A said \in [DOMAIN StepsOf(b) -> Truth] :
        g[b][said] = Says(b, said) /\ g[b][said] \in Truth
  <2>1. \A b \in Bindings : \A said \in [DOMAIN StepsOf(b) -> BOOLEAN] :
          G[b][said] = Says(b, said) /\ G[b][said] \in BOOLEAN
    OBVIOUS
  <2> HIDE DEF G, Says
  <2> QED BY <1>2, <2>1
<1>3. \A b \in Bindings : \A k \in DOMAIN StepsOf(b) : StepsOf(b)[k] \in Bindings
  BY StepsBelow
<1> HIDE DEF G, Says
<1>4. PICK f \in [Bindings -> Truth] : \A b \in Bindings : f[b] = g[b][Said(f, b)]
  <2>1. Closed(Bindings) /\ Within(Bindings, Truth, g)
    BY <1>1, <1>3 DEF Closed, Within
  <2>2. Defines(Bindings, Truth, g)
    BY <2>1, Recursion
  <2> QED BY <2>2 DEF Defines
<1>5. ASSUME NEW b \in Bindings
      PROVE  f[b] = (\/ AcceptsSimple(b)
                     \/ /\ b.action = "sequence" /\ b.steps # <<>>
                        /\ \A n \in DOMAIN b.steps :
                             f[b.steps[n]] /\ Lower(b.steps[n].action) # "mouse")
  <2>1. Said(f, b) \in [DOMAIN StepsOf(b) -> Truth]
    BY <1>3 DEF Said
  <2>2. f[b] = Says(b, Said(f, b))
    BY <1>1, <1>4, <2>1
  <2>3. b.action = "sequence" => \A n \in DOMAIN b.steps : Said(f, b)[n] = f[b.steps[n]]
    BY SaysTheSame
  <2> QED BY <2>2, <2>3, Zenon DEF Says
<1>6. Solves(f)
  BY <1>4, <1>5, Zenon
<1>7. SchemaAccepts = CHOOSE h : Solves(h)
  BY Zenon DEF SchemaAccepts
<1>8. Solves(SchemaAccepts)
  <2> HIDE DEF Solves
  <2> QED BY <1>6, <1>7
<1>9. SchemaAccepts[a] =
        (\/ AcceptsSimple(a)
         \/ /\ a.action = "sequence" /\ a.steps # <<>>
            /\ \A n \in DOMAIN a.steps :
                 SchemaAccepts[a.steps[n]] /\ Lower(a.steps[n].action) # "mouse")
  BY <1>8, Zenon
<1> QED BY <1>9, Zenon

-----------------------------------------------------------------------------
(* The routes of the plan *)

LEMMA ConfigFixed == ASSUME [Next]_vars PROVE UNCHANGED <<config, golden>>
<1>1. CASE ValidateConfig
  BY <1>1 DEF ValidateConfig, Refused
<1>2. CASE Build
  BY <1>2 DEF Build, Refused
<1>3. CASE AllocateStep
  BY <1>3 DEF AllocateStep, plan
<1>4. CASE AllocationFails
  BY <1>4 DEF AllocationFails, Refused
<1>5. CASE Assemble
  BY <1>5 DEF Assemble, Refused
<1>6. CASE ValidateImages
  BY <1>6 DEF ValidateImages
<1>7. CASE NextStart
  BY <1>7 DEF NextStart, plan
<1>8. CASE WalkStep
  BY <1>8 DEF WalkStep, plan
<1>9. CASE EndWalk
  BY <1>9 DEF EndWalk
<1>10. CASE Report
  BY <1>10 DEF Report
<1>11. CASE UNCHANGED vars
  BY <1>11 DEF vars, plan
<1> QED
  BY <1>1, <1>2, <1>3, <1>4, <1>5, <1>6, <1>7, <1>8, <1>9, <1>10, <1>11 DEF Next

LEMMA SameRoutes ==
  ASSUME UNCHANGED config
  PROVE  /\ Bound' = Bound /\ MacroRoutes' = MacroRoutes /\ Unique' = Unique
         /\ \A q : ActionOf(q)' = ActionOf(q) /\ MacroOf(q)' = MacroOf(q)
<1>1. \A p, l : Layer(p, l)' = Layer(p, l)
  BY DEF Layer
<1>2. Bound' = Bound
  BY <1>1 DEF Bound
<1>3. \A q : ActionOf(q)' = ActionOf(q) /\ MacroOf(q)' = MacroOf(q)
  BY <1>1 DEF ActionOf, MacroOf
<1>4. MacroRoutes' = MacroRoutes
  BY <1>2, <1>3 DEF MacroRoutes
<1>5. FirstRoutes' = FirstRoutes
  BY <1>3, <1>4 DEF FirstRoutes
<1>6. Unique' = Unique
  <2> DEFINE route(n) == CHOOSE r \in FirstRoutes :
                           Cardinality({q \in FirstRoutes : Ahead(q, r)}) = n - 1
  <2>1. Unique = [n \in 1 .. Cardinality(FirstRoutes) |-> MacroOf(route(n))]
    BY Zenon DEF Unique
  <2>2. Unique' = [n \in 1 .. Cardinality(FirstRoutes) |-> MacroOf(route(n))']
    BY <1>5, Zenon DEF Unique
  <2>3. \A n : MacroOf(route(n))' = MacroOf(route(n))
    BY <1>3, <1>5, Zenon DEF MacroOf, ActionOf, Layer
  <2> HIDE DEF route
  <2> QED BY <2>1, <2>2, <2>3, Zenon
<1> QED BY <1>2, <1>3, <1>4, <1>6

\* The allocator has the macros of the configuration, the first m - 1 of them
\* placed; when it is done, all.
ListInv ==
  /\ phase = "config" => config \in Configs
  /\ phase \in {"build", "allocate"} \/ outcome # "idle" => config \in Configs /\ ConfigOK(config)
  /\ outcome \in {"busy", "done"} =>
       /\ macros = Unique
       /\ m <= Len(macros) + 1 /\ (tok > 0 => m <= Len(macros))
       /\ outcome = "done" => m = Len(macros) + 1

LEMMA UniqueIsList ==
  ASSUME ConfigOK(config)
  PROVE  Len(Unique) \in Nat /\ DOMAIN Unique = 1 .. Len(Unique)
<1>1. Cardinality(FirstRoutes) \in Nat
  <2>1. FirstRoutes \subseteq AllRoutes
    BY BoundIsRoutes
  <2> QED BY <2>1, RoutesFinite, FS_Subset, FS_CardinalityType
<1>2. DOMAIN Unique = 1 .. Cardinality(FirstRoutes)
  BY DEF Unique
<1>3. Unique \in Seq({Unique[n] : n \in DOMAIN Unique})
  <2>1. Unique = [n \in 1 .. Cardinality(FirstRoutes) |-> Unique[n]]
    BY DEF Unique
  <2> HIDE DEF Unique
  <2> QED BY <1>1, <1>2, <2>1
<1> QED BY <1>1, <1>2, <1>3, LenProperties

LEMMA ListAllocation ==
  ASSUME AllocationTypeOK, ListInv, phase = "allocate", Allocation, UNCHANGED <<phase, config>>
  PROVE  ListInv'
<1>1. config \in Configs /\ ConfigOK(config) /\ config' = config /\ Unique' = Unique
  BY SameRoutes DEF ListInv
<1>2. outcome = "busy"
  BY DEF Allocation, BeginMacro, PlaceRest, PlaceFragment, MoveOn, Seal
<1>3. /\ macros = Unique /\ m <= Len(macros) + 1 /\ (tok > 0 => m <= Len(macros))
      /\ m \in Nat /\ tok \in Nat /\ Len(macros) \in Nat
  BY <1>1, <1>2, UniqueIsList DEF ListInv, AllocationTypeOK
<1>4. ASSUME macros' = macros, m' <= Len(macros) + 1, tok' > 0 => m' <= Len(macros),
             outcome' = "done" => m' = Len(macros) + 1
      PROVE  ListInv'
  BY <1>1, <1>3, <1>4 DEF ListInv
<1>5. CASE UNCHANGED <<macros, m, tok>> /\ outcome' # "done"
  BY <1>3, <1>4, <1>5
<1>6. CASE BeginMacro
  <2>1. /\ UNCHANGED <<macros, m>> /\ m <= Len(macros)
        /\ outcome' \in {"malformed", "exhausted", "busy"}
    BY <1>6, <1>2 DEF BeginMacro, GiveUp, cursor
  <2> QED BY <1>3, <1>4, <2>1
<1>7. CASE PlaceRest
  BY <1>2, <1>3, <1>4, <1>7 DEF PlaceRest
<1>8. CASE PlaceFragment
  <2>1. UNCHANGED <<macros, m>> /\ tok > 0 /\ outcome' \in {"exhausted", "busy"}
    BY <1>2, <1>8 DEF PlaceFragment, GiveUp, cursor
  <2> QED BY <1>3, <1>4, <2>1
<1>9. CASE MoveOn
  <2>1. UNCHANGED <<macros, m>> /\ tok > 0 /\ outcome' \in {"stuck", "exhausted", "busy"}
    BY <1>2, <1>9 DEF MoveOn, GiveUp, cursor
  <2> QED BY <1>3, <1>4, <2>1
<1>10. CASE Seal
  <2>1. UNCHANGED <<macros, m, tok>> /\ m > Len(macros)
    BY <1>10 DEF Seal, cursor
  <2> QED BY <1>3, <1>4, <2>1
<1> QED BY <1>6, <1>7, <1>8, <1>9, <1>10 DEF Allocation

LEMMA ListStep == StoreInv /\ ListInv /\ [Next]_vars => ListInv'
<1> SUFFICES ASSUME StoreInv, ListInv, [Next]_vars PROVE ListInv'
  OBVIOUS
<1>1. config' = config /\ Unique' = Unique
  BY ConfigFixed, SameRoutes
<1>2. CASE /\ UNCHANGED allocation
           /\ phase' \in {"config", "build", "allocate"} => phase' = phase
  <2>1. UNCHANGED <<macros, m, tok, outcome>>
    BY <1>2 DEF allocation, cursor
  <2> QED BY <1>1, <1>2, <2>1 DEF ListInv
<1>3. CASE ValidateConfig
  <2>1. UNCHANGED <<macros, m, tok, outcome>> /\ phase = "config"
    BY <1>3 DEF ValidateConfig, allocation, cursor
  <2>2. CASE ConfigOK(config)
    <3>1. phase' = "build"
      BY <1>3, <2>2 DEF ValidateConfig
    <3> QED BY <1>1, <2>1, <2>2, <3>1 DEF ListInv
  <2>3. CASE ~ConfigOK(config)
    <3>1. phase' = "refused"
      BY <1>3, <2>3 DEF ValidateConfig, Refused
    <3> QED BY <1>1, <2>1, <3>1 DEF ListInv
  <2> QED BY <2>2, <2>3
<1>4. CASE Build
  <2>1. phase = "build" /\ config \in Configs /\ ConfigOK(config)
    BY <1>4 DEF Build, ListInv
  <2>2. CASE UNCHANGED allocation /\ phase' = "refused"
    BY <1>2, <2>2
  <2>3. CASE Allocate(Unique) /\ phase' = "allocate"
    <3>1. macros' = Unique /\ outcome' = "busy" /\ m' = m /\ tok' = tok /\ outcome = "idle"
      BY <2>3 DEF Allocate, cursor
    <3>2. m = 1 /\ tok = 0
      BY <3>1 DEF StoreInv, CountInv, IdleInv
    <3>3. Len(Unique) \in Nat
      BY <2>1, UniqueIsList
    <3> QED BY <1>1, <2>1, <2>3, <3>1, <3>2, <3>3 DEF ListInv
  <2> QED BY <1>4, <2>2, <2>3 DEF Build, Refused
<1>5. CASE AllocateStep
  <2>1. phase = "allocate" /\ Allocation /\ UNCHANGED <<phase, config>>
    BY <1>5 DEF AllocateStep, plan
  <2>2. AllocationTypeOK
    BY DEF StoreInv, CountInv
  <2> QED BY <2>1, <2>2, ListAllocation
<1>6. CASE AllocationFails
  BY <1>2, <1>6 DEF AllocationFails, Refused
<1>7. CASE Assemble
  BY <1>2, <1>7 DEF Assemble, Refused
<1>8. CASE ValidateImages
  BY <1>2, <1>8 DEF ValidateImages
<1>9. CASE NextStart
  BY <1>2, <1>9 DEF NextStart, plan
<1>10. CASE WalkStep
  BY <1>2, <1>10 DEF WalkStep, plan
<1>11. CASE EndWalk
  BY <1>2, <1>11 DEF EndWalk
<1>12. CASE Report
  BY <1>2, <1>12 DEF Report
<1>13. CASE UNCHANGED vars
  BY <1>2, <1>13 DEF vars, plan
<1> QED
  BY <1>3, <1>4, <1>5, <1>6, <1>7, <1>8, <1>9, <1>10, <1>11, <1>12, <1>13 DEF Next

\* The pointer of a macro route is to where its macro begins.
LEMMA Pointer ==
  ASSUME StoreInv, ListInv, outcome = "done", NEW q \in MacroRoutes
  PROVE  \E i \in DOMAIN start :
           /\ PointerOf(q) = Slot("macro", start[i]) /\ macros[i] = MacroOf(q)
           /\ start[i] \in Global \X (0 .. PageData - 1)
<1> DEFINE i == CHOOSE k \in DOMAIN macros : macros[k] = MacroOf(q)
<1>1. ConfigOK(config) /\ macros = Unique /\ m = Len(macros) + 1
  BY DEF ListInv
<1>2. i \in DOMAIN macros /\ macros[i] = MacroOf(q)
  <2>1. \E k \in DOMAIN macros : macros[k] = MacroOf(q)
    BY <1>1, Found
  <2> QED BY <2>1
<1>3. PointerOf(q) = Slot("macro", start[i])
  BY DEF PointerOf
<1> HIDE DEF i
<1>4. DOMAIN macros = DOMAIN start
  <2>1. tok = 0
    BY DEF StoreInv, LayoutInv, SealedInv
  <2>2. /\ start \in Seq(Global \X (0 .. PageData - 1)) /\ Len(start) = m - 1
    BY <2>1 DEF StoreInv, CountInv, AllocationTypeOK
  <2>3. DOMAIN macros = 1 .. Len(macros) /\ Len(macros) \in Nat
    BY <1>1, UniqueIsList
  <2> QED BY <1>1, <2>2, <2>3, LenProperties
<1>5. start[i] \in Global \X (0 .. PageData - 1)
  BY <1>2, <1>4, ElementOfSeq DEF StoreInv, CountInv, AllocationTypeOK
<1> QED BY <1>2, <1>3, <1>4, <1>5

-----------------------------------------------------------------------------
(* The programming of the mouse                                             *)

LEMMA Lowered ==
  /\ Lower("Consumer") = "consumer" /\ Lower("Hotkey") = "hotkey" /\ Lower("Mouse") = "mouse"
  /\ \A name : name \notin {"Hotkey", "Consumer", "Mouse"} => Lower(name) = name
  BY DEF Lower

LEMMA Aliased ==
  ASSUME NEW a, IsAlias(a), a.name \in DOMAIN Aliases, IsConsumer(a)
  PROVE  IsDirect(a)
<1>1. Normal(a) = Aliases[a.name]
  BY DEF Normal
<1>2. DOMAIN Aliases = {"copy", "task_manager", "volume_up"}
  BY DEF Aliases
<1>3. Aliases["copy"].action = "hotkey" /\ Aliases["task_manager"].action = "hotkey"
  BY DEF Aliases
<1>4. Lower(Normal(a).action) = "consumer" /\ Lower("hotkey") # "consumer"
  BY Lowered DEF IsConsumer
<1>5. a.name = "volume_up"
  BY <1>1, <1>2, <1>3, <1>4
<1>6. Normal(a).action = "consumer" /\ Normal(a).command \in ConsumerUsages
  BY <1>1, <1>5 DEF Aliases, ConsumerUsages
<1> QED BY <1>6 DEF IsDirect

\* What the wheel takes and needs a macro for is spelt with a capital.
LEMMA WheelAction ==
  ASSUME NEW a \in Bindings, SchemaAccepts[a], IsConsumer(a), ~IsDirect(a)
  PROVE  a.action = "Consumer"
<1>1. ~ (IsAlias(a) /\ a.name \in DOMAIN Aliases)
  BY Aliased
<1>2. Normal(a) = a
  BY <1>1 DEF Normal
<1>3. Lower(a.action) = "consumer"
  BY <1>2 DEF IsConsumer
<1>4. a.action \in {"consumer", "Consumer"}
  BY <1>3, Lowered
<1>5. CASE a.action = "consumer"
  <2>1. AcceptsSimple(a)
    BY <1>5, SchemaUnfolds
  <2>2. a.command \in ConsumerUsages
    BY <1>1, <1>3, <1>5, <2>1 DEF AcceptsSimple
  <2> QED BY <1>2, <1>5, <2>2 DEF IsDirect
<1> QED BY <1>4, <1>5

\* The image keeps to the routes and to the addresses a binding can hold.
ImageInv ==
  /\ golden \in Memories
  /\ image.enabled \subseteq Programmable \union {Safe}
  /\ \A p \in Programmable, r \in Routes : image.profiles[p].table[r].place \in Nat \X Nat
  /\ pending \subseteq Nat \X Nat

LEMMA Assembled ==
  ASSUME StoreInv, ListInv, ImageInv, Assemble, phase' = "validate"
  PROVE  /\ image'.enabled = {Safe} \union DOMAIN config.profiles
         /\ \A p \in Programmable : image'.profiles[p] = ProfileOf(p)
         /\ \A p \in Programmable \ DOMAIN config.profiles :
              ProfileOf(p) = golden.image.profiles[p]
         /\ \A p \in DOMAIN config.profiles : ProfileOf(p).table = Table(p)
         /\ outcome = "done" /\ ConfigOK(config) /\ config \in Configs
         /\ UNCHANGED <<config, golden, macros, start, pending>>
<1>1. outcome = "done" /\ ConfigOK(config) /\ config \in Configs
  BY DEF Assemble, ListInv
<1>2. /\ image' = [golden.image EXCEPT
               !.profiles = [p \in Programmable |-> ProfileOf(p)],
               !.enabled = {Safe, 2} \union DOMAIN config.profiles]
      /\ UNCHANGED <<config, golden, pending, allocation>>
  BY Zenon DEF Assemble, Refused
<1>3. golden.image \in Images
  BY DEF ImageInv, Memories
<1>4. image'.enabled = {Safe, 2} \union DOMAIN config.profiles
  BY <1>2, <1>3 DEF Images
<1>5. image'.profiles = [p \in Programmable |-> ProfileOf(p)]
  BY <1>2, <1>3, Zenon DEF Images
<1>6. 2 \in DOMAIN config.profiles
  BY <1>1, Zenon DEF ConfigOK
<1>7. \A p \in DOMAIN config.profiles : ProfileOf(p).table = Table(p)
  BY DEF ProfileOf
<1>8. \A p \in Programmable \ DOMAIN config.profiles : ProfileOf(p) = golden.image.profiles[p]
  BY DEF ProfileOf
<1>9. UNCHANGED <<macros, start>>
  BY <1>2 DEF allocation, ledger
<1> QED BY <1>1, <1>2, <1>4, <1>5, <1>6, <1>7, <1>8, <1>9

\* What stands in a table of the plan.
LEMMA Entries ==
  ASSUME StoreInv, ListInv, ImageInv, outcome = "done", ConfigOK(config),
         NEW p \in DOMAIN config.profiles, NEW r \in Routes
  PROVE  /\ Table(p)[r].place \in Nat \X Nat
         /\ <<p, r[1], r[2]>> \in Bound =>
              IF IsDirect(ActionOf(<<p, r[1], r[2]>>)) THEN Table(p)[r] = Direct
              ELSE \E i \in DOMAIN start : /\ Table(p)[r] = Slot("macro", start[i])
                                           /\ macros[i] = MacroOf(<<p, r[1], r[2]>>)
         /\ <<p, r[1], r[2]>> \notin Bound =>
              /\ Table(p)[r].kind = "macro" => Table(p)[r].place[1] \notin Addressable
              /\ r[1] = "GSHIFT" => Table(p)[r].kind # "macro"
<1> DEFINE q == <<p, r[1], r[2]>>
           b == golden.image.profiles[p].table[r]
<1>1. Table(p)[r] = IF q \in Bound
                    THEN IF IsDirect(ActionOf(q)) THEN Direct ELSE PointerOf(q)
                    ELSE IF r[1] = "GSHIFT" THEN Noop
                    ELSE IF r[2] = config.profiles[p].activator THEN GShift
                    ELSE Neutral(b)
  BY Zenon DEF Table
<1>2. NoPlace \in Nat \X Nat /\ Direct.place = NoPlace /\ Noop.place = NoPlace /\ GShift.place = NoPlace
  BY DEF NoPlace, Direct, Noop, GShift, Slot
<1>3. Noop.kind # "macro" /\ GShift.kind # "macro"
  BY DEF Noop, GShift, Slot
<1>4. b.place \in Nat \X Nat
  <2>1. p \in Programmable
    BY Zenon DEF ConfigOK
  <2>2. golden.image.profiles[p].table \in [Routes -> [kind : STRING, place : Nat \X Nat]]
    BY <2>1 DEF ImageInv, Memories, Images, Profiles
  <2> QED BY <2>2
<1>5. /\ Neutral(b).place \in Nat \X Nat
      /\ Neutral(b).kind = "macro" => Neutral(b).place[1] \notin Addressable
  BY <1>2, <1>3, <1>4 DEF Neutral
<1>6. CASE q \in Bound /\ IsDirect(ActionOf(q))
  BY <1>1, <1>2, <1>6
<1>7. CASE q \in Bound /\ ~IsDirect(ActionOf(q))
  <2>1. q \in MacroRoutes
    BY <1>7 DEF MacroRoutes
  <2> HIDE DEF q
  <2>2. PICK i \in DOMAIN start :
           /\ PointerOf(q) = Slot("macro", start[i]) /\ macros[i] = MacroOf(q)
           /\ start[i] \in Global \X (0 .. PageData - 1)
    BY <2>1, Pointer
  <2>3. Table(p)[r] = Slot("macro", start[i])
    BY <1>1, <1>7, <2>2
  <2>4. Table(p)[r].place \in Nat \X Nat
    <3>1. \A s \in Global : s \in Nat
      BY Store
    <3>2. \A o \in 0 .. PageData - 1 : o \in Nat
      OBVIOUS
    <3> QED BY <2>2, <2>3, <3>1, <3>2 DEF Slot
  <2> QED BY <1>7, <2>2, <2>3, <2>4 DEF q
<1>8. CASE q \notin Bound
  <2> HIDE DEF b
  <2> QED BY <1>1, <1>2, <1>3, <1>5, <1>8
<1> QED BY <1>6, <1>7, <1>8

LEMMA RouteOf ==
  ASSUME NEW l \in Layers, NEW t \in TargetSet
  PROVE  \E r \in Routes : r = <<l, t>> /\ r[1] = l /\ r[2] = t
<1>1. <<l, t>> \in Routes /\ <<l, t>>[1] = l /\ <<l, t>>[2] = t
  BY DEF Routes
<1> QED BY <1>1

\* A slot of the wheel has a consumer on it.
LEMMA OnTheWheel ==
  ASSUME ConfigOK(config), config \in Configs, NEW p \in DOMAIN config.profiles, NEW t \in Wheels,
         <<p, "GSHIFT", t>> \in Bound, ~IsDirect(ActionOf(<<p, "GSHIFT", t>>))
  PROVE  ActionOf(<<p, "GSHIFT", t>>).action = "Consumer"
<1> DEFINE layer == config.profiles[p].shifted
<1>1. Layer(p, "GSHIFT") = layer
  BY DEF Layer
<1>2. t \in DOMAIN layer /\ ActionOf(<<p, "GSHIFT", t>>) = layer[t]
  BY <1>1 DEF Bound, ActionOf
<1>3. LayerOK(layer, TRUE)
  BY Zenon DEF ConfigOK, BlockOK
<1>4. layer[t] \in Bindings
  BY <1>2, ConfigsAssumption
<1>5. SchemaAccepts[layer[t]] /\ IsConsumer(layer[t])
  BY <1>2, <1>3 DEF LayerOK
<1> QED BY <1>2, <1>4, <1>5, WheelAction

LEMMA AssembleOwns ==
  ASSUME StoreInv, ListInv, ImageInv, Assemble, phase' = "validate"
  PROVE  RoutesAreOwn' /\ ImageInv'
<1>1. /\ image'.enabled = {Safe} \union DOMAIN config.profiles
      /\ \A p \in Programmable : image'.profiles[p] = ProfileOf(p)
      /\ \A p \in Programmable \ DOMAIN config.profiles :
           ProfileOf(p) = golden.image.profiles[p]
      /\ \A p \in DOMAIN config.profiles : ProfileOf(p).table = Table(p)
      /\ outcome = "done" /\ ConfigOK(config) /\ config \in Configs
      /\ UNCHANGED <<config, golden, macros, start, pending>>
  BY Assembled
<1>2. DOMAIN config.profiles \subseteq Programmable /\ 2 \in DOMAIN config.profiles
  BY <1>1, Zenon DEF ConfigOK
<1>3. \A p \in DOMAIN config.profiles : image'.profiles[p].table = Table(p)
  BY <1>1, <1>2
<1>4. /\ Bound' = Bound
      /\ \A q : ActionOf(q)' = ActionOf(q) /\ MacroOf(q)' = MacroOf(q)
  BY <1>1, SameRoutes
<1>5. image'.enabled \ {Safe} = DOMAIN config.profiles
  BY <1>1, <1>2, ProfilesAssumption
<1>6. ASSUME NEW q \in Bound
      PROVE  LET b == image'.profiles[q[1]].table[<<q[2], q[3]>>] IN
             IF IsDirect(ActionOf(q)) THEN b = Direct
             ELSE \E i \in DOMAIN start : b = Slot("macro", start[i]) /\ macros[i] = MacroOf(q)
  <2>1. PICK p \in DOMAIN config.profiles, l \in Layers, t \in TargetSet : q = <<p, l, t>>
    BY DEF Bound
  <2>2. PICK r \in Routes : r = <<l, t>> /\ r[1] = l /\ r[2] = t
    BY <2>1, RouteOf
  <2>3. /\ q = <<p, r[1], r[2]>> /\ q[1] = p /\ <<q[2], q[3]>> = r
    BY <2>1, <2>2
  <2>4. image'.profiles[q[1]].table[<<q[2], q[3]>>] = Table(p)[r]
    BY <1>3, <2>3
  <2>5. IF IsDirect(ActionOf(q)) THEN Table(p)[r] = Direct
        ELSE \E i \in DOMAIN start : Table(p)[r] = Slot("macro", start[i]) /\ macros[i] = MacroOf(q)
    BY <1>1, <2>3, Entries
  <2> QED BY <2>4, <2>5
<1>7. ASSUME NEW p \in DOMAIN config.profiles, NEW r \in Routes,
             Table(p)[r].kind = "macro", Table(p)[r].place[1] \in Addressable
      PROVE  <<p, r[1], r[2]>> \in Bound
  BY <1>1, <1>7, Entries
<1>8. ASSUME NEW p \in DOMAIN config.profiles, NEW t \in Wheels,
             Table(p)[<<"GSHIFT", t>>].kind = "macro"
      PROVE  ActionOf(<<p, "GSHIFT", t>>).action = "Consumer"
  <2>1. PICK r \in Routes : r = <<"GSHIFT", t>> /\ r[1] = "GSHIFT" /\ r[2] = t
    <3>1. t \in TargetSet
      BY TargetsAssumption DEF TargetSet
    <3>2. "GSHIFT" \in Layers
      BY DEF Layers
    <3> QED BY <3>1, <3>2, RouteOf
  <2>2. <<p, "GSHIFT", t>> \in Bound
    BY <1>1, <1>8, <2>1, Entries
  <2>3. Direct.kind # "macro"
    BY DEF Direct, Slot
  <2>4. ~IsDirect(ActionOf(<<p, "GSHIFT", t>>))
    BY <1>1, <1>8, <2>1, <2>2, <2>3, Entries
  <2> QED BY <1>1, <2>2, <2>4, OnTheWheel
<1>9. RoutesAreOwn'
  BY <1>1, <1>3, <1>4, <1>5, <1>6, <1>7, <1>8 DEF RoutesAreOwn
<1>10. ImageInv'
  <2>1. image'.enabled \subseteq Programmable \union {Safe}
    BY <1>1, <1>2
  <2>2. ASSUME NEW p \in Programmable, NEW r \in Routes
        PROVE  image'.profiles[p].table[r].place \in Nat \X Nat
    <3>1. CASE p \in DOMAIN config.profiles
      BY <1>1, <1>3, <3>1, Entries
    <3>2. CASE p \notin DOMAIN config.profiles
      <4>1. image'.profiles[p].table = golden.image.profiles[p].table
        BY <1>1, <3>2
      <4>2. golden.image.profiles[p].table \in [Routes -> [kind : STRING, place : Nat \X Nat]]
        BY DEF ImageInv, Memories, Images, Profiles
      <4> QED BY <4>1, <4>2
    <3> QED BY <3>1, <3>2
  <2> QED BY <1>1, <2>1, <2>2 DEF ImageInv
<1> QED BY <1>9, <1>10

-----------------------------------------------------------------------------
(* The invariant of the plan                                                *)

LEMMA ImageBegins == Init => MemoryTypeOK /\ ListInv /\ ImageInv /\ RoutesAreOwn /\ TraceInv
<1> SUFFICES ASSUME Init PROVE MemoryTypeOK /\ ListInv /\ ImageInv /\ RoutesAreOwn /\ TraceInv
  OBVIOUS
<1>1. /\ golden \in Memories /\ image = golden.image /\ pages = golden.pages /\ crc = golden.crc
      /\ pending = {} /\ outcome = "idle" /\ verdict = "idle"
  BY MemoriesAssumption DEF Init, AllocationInit, WalkInit
<1>2. MemoryTypeOK
  BY <1>1 DEF Memories, MemoryTypeOK
<1>3. ListInv
  BY <1>1 DEF Init, ListInv
<1>4. ImageInv
  <2>1. image \in Images
    BY <1>1 DEF Memories
  <2>2. image.enabled \subseteq Programmable \union {Safe}
    BY <2>1 DEF Images
  <2>3. ASSUME NEW p \in Programmable, NEW r \in Routes
        PROVE  image.profiles[p].table[r].place \in Nat \X Nat
    <3>1. image.profiles[p].table \in [Routes -> [kind : STRING, place : Nat \X Nat]]
      BY <2>1 DEF Images, Profiles
    <3> QED BY <3>1
  <2> QED BY <1>1, <2>2, <2>3 DEF ImageInv
<1>5. RoutesAreOwn
  BY DEF Init, RoutesAreOwn, Planned
<1>6. TraceInv
  BY <1>1 DEF TraceInv
<1> QED BY <1>2, <1>3, <1>4, <1>5, <1>6

\* A plan that is made, and one that never will be.
LEMMA RoutesKept ==
  ASSUME RoutesAreOwn, UNCHANGED <<config, image, macros, start>>,
         phase' \in {"validate", "walk", "report"} => phase \in {"validate", "walk", "report"}
  PROVE  RoutesAreOwn'
<1>1. Planned' => Planned
  BY DEF Planned
<1>2. Bound' = Bound /\ \A q : ActionOf(q)' = ActionOf(q) /\ MacroOf(q)' = MacroOf(q)
  BY SameRoutes
<1> QED BY <1>1, <1>2 DEF RoutesAreOwn

LEMMA ImageKept ==
  ASSUME ImageInv, UNCHANGED <<golden, image>>, pending' \subseteq Nat \X Nat
  PROVE  ImageInv'
  BY DEF ImageInv

LEMMA MemoryKept == MemoryTypeOK /\ UNCHANGED memory => MemoryTypeOK'
  BY DEF MemoryTypeOK, memory

PictureInv == MemoryTypeOK /\ ListInv /\ ImageInv /\ RoutesAreOwn /\ TraceInv

\* What reads the starts of the macros to be walked finds addresses.
LEMMA StartsArePlaces ==
  ASSUME ImageInv, ValidateImages
  PROVE  pending' \subseteq Nat \X Nat
<1>1. ASSUME NEW a \in pending'
      PROVE  \E p \in Enabled, r \in Routes : a = image.profiles[p].table[r].place
  BY <1>1 DEF ValidateImages
<1>2. Enabled \subseteq Programmable
  BY DEF ImageInv, Enabled
<1> QED BY <1>1, <1>2 DEF ImageInv

LEMMA PictureStep == StoreInv /\ PlayInv /\ PictureInv /\ [Next]_vars => PictureInv'
<1> SUFFICES ASSUME StoreInv, PlayInv, PictureInv, [Next]_vars PROVE PictureInv'
  OBVIOUS
<1>0. MemoryTypeOK /\ ListInv /\ ImageInv /\ RoutesAreOwn /\ TraceInv /\ ListInv'
  BY ListStep DEF PictureInv
<1>1. ASSUME UNCHANGED <<memory, allocation, walk, golden, image, config, pending>>,
             phase' \in {"validate", "walk", "report"} => phase \in {"validate", "walk", "report"}
      PROVE  PictureInv'
  <2>1. UNCHANGED <<macros, start>>
    BY <1>1 DEF allocation, ledger
  <2>2. ImageInv'
    BY <1>0, <1>1, ImageKept DEF ImageInv
  <2> QED
    BY <1>0, <1>1, <2>1, <2>2, RoutesKept, MemoryKept, TraceStutters DEF PictureInv
<1>2. CASE ValidateConfig
  BY <1>1, <1>2 DEF ValidateConfig, Refused
<1>3. CASE Build
  <2>1. CASE UNCHANGED <<memory, allocation>>
    BY <1>1, <1>3, <2>1 DEF Build, Refused
  <2>2. CASE Allocate(Unique) /\ phase' = "allocate"
    <3>1. UNCHANGED <<walk, golden, image, pending>> /\ phase = "build"
      BY <1>3, <2>2 DEF Build, Refused
    <3>2. verdict' = "idle"
      BY <3>1 DEF PlayInv, walk
    <3>3. RoutesAreOwn'
      BY <2>2 DEF RoutesAreOwn, Planned
    <3>4. ImageInv'
      BY <1>0, <3>1, ImageKept DEF ImageInv
    <3>5. MemoryTypeOK'
      BY <1>0, <2>2, AllocateTyped
    <3> QED BY <1>0, <3>2, <3>3, <3>4, <3>5, TraceIdle DEF PictureInv
  <2> QED BY <1>3, <2>1, <2>2 DEF Build, Refused
<1>4. CASE AllocateStep
  <2>1. UNCHANGED <<walk, golden, image, pending>> /\ phase = "allocate" /\ phase' = phase /\ Allocation
    BY <1>4 DEF AllocateStep, plan
  <2>2. verdict' = "idle"
    BY <2>1 DEF PlayInv, walk
  <2>3. RoutesAreOwn'
    BY <2>1 DEF RoutesAreOwn, Planned
  <2>4. ImageInv'
    BY <1>0, <2>1, ImageKept DEF ImageInv
  <2>5. MemoryTypeOK'
    BY <1>0, <2>1, AllocationTyped DEF StoreInv, CountInv
  <2> QED BY <1>0, <2>2, <2>3, <2>4, <2>5, TraceIdle DEF PictureInv
<1>5. CASE AllocationFails
  BY <1>1, <1>5 DEF AllocationFails, Refused
<1>6. CASE Assemble
  <2>1. CASE phase' = "validate"
    <3>1. RoutesAreOwn' /\ ImageInv'
      BY <1>0, <1>6, <2>1, AssembleOwns
    <3>2. UNCHANGED <<memory, walk>>
      BY <1>6 DEF Assemble
    <3> QED BY <1>0, <3>1, <3>2, MemoryKept, TraceStutters DEF PictureInv
  <2>2. CASE phase' # "validate"
    BY <1>1, <1>6, <2>2 DEF Assemble, Refused
  <2> QED BY <2>1, <2>2
<1>7. CASE ValidateImages
  <2>1. /\ UNCHANGED <<memory, allocation, walk, config, golden, image>>
        /\ phase = "validate"
    BY <1>7 DEF ValidateImages
  <2>2. UNCHANGED <<macros, start>>
    BY <2>1 DEF allocation, ledger
  <2>3. ImageInv'
    BY <1>0, <1>7, <2>1, StartsArePlaces, ImageKept
  <2> QED BY <1>0, <2>1, <2>2, <2>3, RoutesKept, MemoryKept, TraceStutters DEF PictureInv
<1>8. ASSUME UNCHANGED <<memory, allocation, golden, image, config>>, phase' = phase,
             pending' \subseteq Nat \X Nat, TraceInv'
      PROVE  PictureInv'
  <2>1. UNCHANGED <<macros, start>>
    BY <1>8 DEF allocation, ledger
  <2> QED BY <1>0, <1>8, <2>1, RoutesKept, MemoryKept, ImageKept DEF PictureInv
<1>9. CASE NextStart
  <2>1. PICK a \in pending : StartWalk(a)
    BY <1>9 DEF NextStart
  <2>2. a \in Nat \X Nat /\ pending' \subseteq Nat \X Nat
    BY <1>0, <1>9 DEF ImageInv, NextStart, plan
  <2>3. TraceInv'
    BY <2>1, <2>2, TraceBegins
  <2> QED BY <1>8, <1>9, <2>2, <2>3 DEF NextStart, plan
<1>10. CASE WalkStep
  <2>1. Walk /\ UNCHANGED <<memory, allocation, plan>>
    BY <1>10 DEF WalkStep
  <2>2. TraceInv'
    BY <1>0, <2>1, TraceWalks
  <2> QED BY <1>0, <1>8, <2>1, <2>2 DEF plan, ImageInv
<1>11. CASE EndWalk
  <2>1. TraceInv'
    BY <1>11, TraceIdle DEF EndWalk
  <2> QED BY <1>0, <1>8, <1>11, <2>1 DEF EndWalk, ImageInv
<1>12. CASE Report
  BY <1>1, <1>12 DEF Report
<1>13. CASE UNCHANGED vars
  BY <1>1, <1>13 DEF vars, plan
<1> QED
  BY <1>2, <1>3, <1>4, <1>5, <1>6, <1>7, <1>9, <1>10, <1>11, <1>12, <1>13 DEF Next

LEMMA PlayInvariance == Spec => []PlayInv
<1>1. Init => PlayInv
  BY DEF Init, PlayInv, WalkInv, WalkInit, AllocationInit
<1> QED
  BY <1>1, PlayStep, StoreInvariance, PTL DEF Spec

LEMMA PictureInvariance == Spec => []PictureInv
<1>1. Init => PictureInv
  BY ImageBegins DEF PictureInv
<1> QED
  BY <1>1, PictureStep, StoreInvariance, PlayInvariance, PTL DEF Spec

\* The walk accepts a macro exactly when the machine would end it, and calls a
\* cycle exactly what the machine would repeat for ever; its bound ends none
\* (walk_macro).
THEOREM VerdictsAreTrue == Spec => []VerdictIsTrue
<1>1. PictureInv => VerdictIsTrue
  BY TraceJudges DEF PictureInv
<1> QED
  BY <1>1, PictureInvariance, PTL

\* Whatever the baseline pointed to, no route of the plan leads into the store
\* that the plan rewrites but to the macro of its own action (build_plan).
THEOREM RoutesStayOwn == Spec => []RoutesAreOwn
<1>1. PictureInv => RoutesAreOwn
  BY DEF PictureInv
<1> QED
  BY <1>1, PictureInvariance, PTL

\* The memory holds bytes at every address of the machine, before, while and
\* after the pages are written.
THEOREM MemoryStaysTyped == Spec => []MemoryTypeOK
<1>1. PictureInv => MemoryTypeOK
  BY DEF PictureInv
<1> QED
  BY <1>1, PictureInvariance, PTL

LEMMA CompilesUnfolds ==
  ASSUME NEW a \in Bindings
  PROVE  Compiles[a] <=>
           \/ CompilesSimple(a)
           \/ a.action = "sequence" /\ a.steps # <<>> /\ \A n \in DOMAIN a.steps : Compiles[a.steps[n]]
<1> DEFINE Says(b, said) ==
             \/ CompilesSimple(b)
             \/ b.action = "sequence" /\ b.steps # <<>> /\ \A n \in DOMAIN b.steps : said[n]
           G == [b \in Bindings |-> [said \in [DOMAIN StepsOf(b) -> BOOLEAN] |-> Says(b, said)]]
           Solves(f) ==
             f = [b \in Bindings |->
                    \/ CompilesSimple(b)
                    \/ b.action = "sequence" /\ b.steps # <<>> /\ \A n \in DOMAIN b.steps : f[b.steps[n]]]
<1>1. PICK Truth : Truth = BOOLEAN
  OBVIOUS
<1>2. PICK g : \A b \in Bindings : \A said \in [DOMAIN StepsOf(b) -> Truth] :
        g[b][said] = Says(b, said) /\ g[b][said] \in Truth
  <2>1. \A b \in Bindings : \A said \in [DOMAIN StepsOf(b) -> BOOLEAN] :
          G[b][said] = Says(b, said) /\ G[b][said] \in BOOLEAN
    OBVIOUS
  <2> HIDE DEF G, Says
  <2> QED BY <1>1, <2>1
<1>3. \A b \in Bindings : \A k \in DOMAIN StepsOf(b) : StepsOf(b)[k] \in Bindings
  BY StepsBelow
<1> HIDE DEF G, Says
<1>4. PICK f \in [Bindings -> Truth] : \A b \in Bindings : f[b] = g[b][Said(f, b)]
  <2>1. Closed(Bindings) /\ Within(Bindings, Truth, g)
    BY <1>2, <1>3 DEF Closed, Within
  <2>2. Defines(Bindings, Truth, g)
    BY <2>1, Recursion
  <2> QED BY <2>2 DEF Defines
<1>5. ASSUME NEW b \in Bindings
      PROVE  f[b] = (\/ CompilesSimple(b)
                     \/ /\ b.action = "sequence" /\ b.steps # <<>>
                        /\ \A n \in DOMAIN b.steps : f[b.steps[n]])
  <2>1. Said(f, b) \in [DOMAIN StepsOf(b) -> Truth]
    BY <1>3 DEF Said
  <2>2. f[b] = Says(b, Said(f, b))
    BY <1>2, <1>4, <2>1
  <2>3. b.action = "sequence" => \A n \in DOMAIN b.steps : Said(f, b)[n] = f[b.steps[n]]
    BY SaysTheSame
  <2> QED BY <2>2, <2>3, Zenon DEF Says
<1>6. Solves(f)
  BY <1>4, <1>5, Zenon
<1>7. Compiles = CHOOSE h : Solves(h)
  BY Zenon DEF Compiles
<1>8. Solves(Compiles)
  <2> HIDE DEF Solves
  <2> QED BY <1>6, <1>7
<1>9. Compiles[a] =
        (\/ CompilesSimple(a)
         \/ /\ a.action = "sequence" /\ a.steps # <<>>
            /\ \A n \in DOMAIN a.steps : Compiles[a.steps[n]])
  BY <1>8, Zenon
<1> QED BY <1>9, Zenon

LEMMA UntypableUnfolds ==
  ASSUME NEW a \in Bindings
  PROVE  HasUntypable[a] <=>
           \/ a.action = "text" /\ \E n \in DOMAIN a.value : ~Typable(a.value[n], a.layout)
           \/ a.action = "sequence" /\ \E n \in DOMAIN a.steps : HasUntypable[a.steps[n]]
<1> DEFINE Plain(b) == b.action = "text" /\ \E n \in DOMAIN b.value : ~Typable(b.value[n], b.layout)
           Says(b, said) == Plain(b) \/ (b.action = "sequence" /\ \E n \in DOMAIN b.steps : said[n])
           G == [b \in Bindings |-> [said \in [DOMAIN StepsOf(b) -> BOOLEAN] |-> Says(b, said)]]
           Solves(f) ==
             f = [b \in Bindings |->
                    \/ Plain(b)
                    \/ b.action = "sequence" /\ \E n \in DOMAIN b.steps : f[b.steps[n]]]
<1>1. PICK Truth : Truth = BOOLEAN
  OBVIOUS
<1>2. PICK g : \A b \in Bindings : \A said \in [DOMAIN StepsOf(b) -> Truth] :
        g[b][said] = Says(b, said) /\ g[b][said] \in Truth
  <2> HIDE DEF Plain
  <2>1. \A b \in Bindings : \A said \in [DOMAIN StepsOf(b) -> BOOLEAN] :
          G[b][said] = Says(b, said) /\ G[b][said] \in BOOLEAN
    OBVIOUS
  <2> HIDE DEF G, Says
  <2> QED BY <1>1, <2>1
<1>3. \A b \in Bindings : \A k \in DOMAIN StepsOf(b) : StepsOf(b)[k] \in Bindings
  BY StepsBelow
<1> HIDE DEF G, Says, Plain
<1>4. PICK f \in [Bindings -> Truth] : \A b \in Bindings : f[b] = g[b][Said(f, b)]
  <2>1. Closed(Bindings) /\ Within(Bindings, Truth, g)
    BY <1>2, <1>3 DEF Closed, Within
  <2>2. Defines(Bindings, Truth, g)
    BY <2>1, Recursion
  <2> QED BY <2>2 DEF Defines
<1>5. ASSUME NEW b \in Bindings
      PROVE  f[b] = (\/ Plain(b)
                     \/ b.action = "sequence" /\ \E n \in DOMAIN b.steps : f[b.steps[n]])
  <2>1. Said(f, b) \in [DOMAIN StepsOf(b) -> Truth]
    BY <1>3 DEF Said
  <2>2. f[b] = Says(b, Said(f, b))
    BY <1>2, <1>4, <2>1
  <2>3. b.action = "sequence" => \A n \in DOMAIN b.steps : Said(f, b)[n] = f[b.steps[n]]
    BY SaysTheSame
  <2> QED BY <2>2, <2>3, Zenon DEF Says
<1>6. Solves(f)
  BY <1>4, <1>5, Zenon
<1>7. HasUntypable = CHOOSE h : Solves(h)
  BY Zenon DEF HasUntypable, Plain
<1>8. Solves(HasUntypable)
  <2> HIDE DEF Solves
  <2> QED BY <1>6, <1>7
<1>9. HasUntypable[a] =
        (\/ Plain(a)
         \/ a.action = "sequence" /\ \E n \in DOMAIN a.steps : HasUntypable[a.steps[n]])
  BY <1>8, Zenon
<1> QED BY <1>9, Zenon DEF Plain

\* The name of an action that compile_action knows is written as it reads.
LEMMA Spelt ==
  ASSUME NEW name, Lower(name) \notin {"hotkey", "consumer", "mouse"}
  PROVE  Lower(name) = name
  BY Lowered

\* What the schema accepts and is no mouse action compiles, unless a text of it
\* cannot be typed.
LEMMA AcceptedSimple ==
  ASSUME NEW a \in Bindings, AcceptsSimple(a), ~HasUntypable[a], Lower(a.action) # "mouse"
  PROVE  CompilesSimple(a)
<1>1. CASE Lower(a.action) = "text"
  <2>1. a.action = "text"
    BY <1>1, Spelt
  <2>2. \A n \in DOMAIN a.value : Typable(a.value[n], a.layout)
    BY <2>1, UntypableUnfolds
  <2>3. a.layout \in {"basic", "us"}
    BY <1>1, <2>1 DEF AcceptsSimple, IsAlias
  <2> QED BY <1>1, <2>2, <2>3, Zenon DEF CompilesSimple
<1>2. CASE Lower(a.action) # "text"
  BY <1>2, Zenon DEF AcceptsSimple, CompilesSimple
<1> QED BY <1>1, <1>2

LEMMA AcceptedCompiles ==
  ASSUME NEW a \in Bindings, SchemaAccepts[a], ~HasUntypable[a], Lower(a.action) # "mouse"
  PROVE  Compiles[a]
<1> DEFINE Bad(b) == /\ SchemaAccepts[b] /\ ~HasUntypable[b] /\ Lower(b.action) # "mouse"
                     /\ ~Compiles[b]
           Deep == {Depth[b] : b \in {c \in Bindings : Bad(c)}}
<1>1. SUFFICES ASSUME Bad(a) PROVE FALSE
  OBVIOUS
<1>2. \A b \in Bindings : Depth[b] \in Nat
  BY BindingsAssumption
<1> HIDE DEF Bad
<1>3. PICK d \in Deep : \A k \in Deep : d <= k
  <2>1. Deep \in SUBSET Nat /\ Deep # {}
    BY <1>1, <1>2
  <2> HIDE DEF Deep
  <2> QED BY <2>1, Least
<1>4. PICK b \in Bindings : Bad(b) /\ Depth[b] = d
  BY <1>3
<1>5. /\ SchemaAccepts[b] /\ ~HasUntypable[b] /\ Lower(b.action) # "mouse" /\ ~Compiles[b]
      /\ ~CompilesSimple(b)
  BY <1>4, CompilesUnfolds DEF Bad
<1>6. /\ b.action = "sequence" /\ b.steps # <<>>
      /\ \A n \in DOMAIN b.steps :
           SchemaAccepts[b.steps[n]] /\ Lower(b.steps[n].action) # "mouse"
  BY <1>5, SchemaUnfolds, AcceptedSimple
<1>7. \A n \in DOMAIN b.steps : ~HasUntypable[b.steps[n]]
  BY <1>5, <1>6, UntypableUnfolds
<1>8. ASSUME NEW n \in DOMAIN b.steps PROVE Compiles[b.steps[n]]
  <2>1. b.steps[n] \in Bindings /\ Depth[b.steps[n]] < Depth[b]
    BY <1>6, BindingsAssumption
  <2>2. ~ (Depth[b] <= Depth[b.steps[n]])
    BY <1>2, <2>1
  <2>3. ~Bad(b.steps[n])
    BY <1>3, <1>4, <2>1, <2>2
  <2> QED BY <1>6, <1>7, <2>3 DEF Bad
<1> QED BY <1>5, <1>6, <1>8, CompilesUnfolds

-----------------------------------------------------------------------------
(* The code of an action releases what it holds                              *)

Body == {ins \in Instructions : ins[1] # "END"}
Up(ins) == IF ins[1] = "KEY_DOWN" THEN KeyUp(ins[2]) ELSE <<"CONSUMER_UP", ins[2], 0>>
Downs == {"KEY_DOWN", "CONSUMER_DOWN"}
Released(code) ==
  \A n \in DOMAIN code : code[n][1] \in Downs => \E l \in n + 1 .. Len(code) : code[l] = Up(code[n])
Codes == {code \in Seq(Body) : Released(code)}

LEMMA Flattened ==
  ASSUME NEW V, NEW seqs \in Seq(V), <<>> \in V, \A x, y \in V : x \o y \in V
  PROVE  FlattenSeq(seqs) \in V
<1> DEFINE N == Len(seqs)
<1>0. N \in Nat /\ DOMAIN seqs = 1 .. N /\ \A i \in 1 .. N : seqs[i] \in V
  BY LenProperties, ElementOfSeq
<1>1. CASE N = 0
  <2>1. seqs = <<>>
    BY <1>1, EmptySeq
  <2> QED BY <1>1, <2>1 DEF FlattenSeq
<1>2. CASE N # 0
  <2> DEFINE Solves(f, l) ==
               f = [i \in 1 .. l |-> IF i = 1 THEN seqs[i] ELSE f[i - 1] \o seqs[i]]
             Fails(l) == ~ \E f : Solves(f, l) /\ f[l] \in V
             Bad == {l \in 1 .. N : Fails(l)}
  <2>1. Bad = {}
    <3>1. SUFFICES ASSUME Bad # {} PROVE FALSE
      OBVIOUS
    <3>2. PICK l \in Bad : \A k \in Bad : l <= k
      <4> HIDE DEF Fails
      <4>1. Bad \in SUBSET Nat
        OBVIOUS
      <4> HIDE DEF Bad
      <4> QED BY <3>1, <4>1, Least
    <3>3. l \in 1 .. N /\ l \in Nat /\ ~ \E f : Solves(f, l) /\ f[l] \in V
      <4>1. l \in 1 .. N /\ Fails(l)
        <5> HIDE DEF Fails
        <5> QED OBVIOUS
      <4>2. ~ \E f : Solves(f, l) /\ f[l] \in V
        <5> HIDE DEF Solves
        <5> QED BY <4>1, Zenon
      <4>3. l \in Nat
        <5> HIDE DEF Fails
        <5> QED BY <4>1
      <4> QED BY <4>1, <4>2, <4>3, Zenon
    <3>4. CASE l = 1
      <4> DEFINE f == [i \in 1 .. 1 |-> seqs[1]]
      <4>1. \A i \in 1 .. 1 : i = 1
        OBVIOUS
      <4>2. Solves(f, 1)
        BY <4>1, Zenon
      <4>3. f[1] \in V
        BY <1>0, <3>3, <3>4
      <4> QED BY <3>3, <3>4, <4>2, <4>3
    <3>5. CASE l # 1
      <4>1. PICK g : Solves(g, l - 1) /\ g[l - 1] \in V
        <5>1. l - 1 \in 1 .. N /\ ~ (l <= l - 1)
          BY <1>0, <3>3, <3>5
        <5>2. ~Fails(l - 1)
          <6> HIDE DEF Fails
          <6> QED BY <3>2, <5>1
        <5> QED BY <5>2
      <4>2. \A i \in 1 .. l - 1 : g[i] = IF i = 1 THEN seqs[i] ELSE g[i - 1] \o seqs[i]
        BY <4>1, Zenon
      <4>3. PICK x : x = g[l - 1] \o seqs[l]
        OBVIOUS
      <4>4. x \in V
        BY <1>0, <3>3, <4>1, <4>3
      <4> DEFINE h == [i \in 1 .. l |-> IF i = l THEN x ELSE g[i]]
      <4>5. \A i \in 1 .. l : i # 1 => i - 1 \in 1 .. l /\ i - 1 # l
        BY <3>3
      <4>6. \A i \in 1 .. l : i # l => i \in 1 .. l - 1
        BY <3>3
      <4>7. l \in 1 .. l /\ l # 1
        BY <3>3, <3>5
      <4> HIDE DEF Solves, Fails, Bad
      <4>8. /\ \A i \in 1 .. l : i # 1 => h[i - 1] = g[i - 1]
            /\ \A i \in 1 .. l : i # l => h[i] = g[i]
            /\ h[l] = x
        BY <4>5, <4>7
      <4> HIDE DEF h
      <4>9. \A i \in 1 .. l : h[i] = IF i = 1 THEN seqs[i] ELSE h[i - 1] \o seqs[i]
        <5> TAKE i \in 1 .. l
        <5>1. CASE i = l
          BY <4>3, <4>7, <4>8, <5>1, Zenon
        <5>2. CASE i # l
          <6>1. h[i] = g[i] /\ g[i] = IF i = 1 THEN seqs[i] ELSE g[i - 1] \o seqs[i]
            BY <4>2, <4>6, <4>8, <5>2
          <6> QED BY <4>8, <6>1, Zenon
        <5> QED BY <5>1, <5>2
      <4>10. h = [i \in 1 .. l |-> h[i]]
        BY DEF h
      <4>11. Solves(h, l)
        BY <4>9, <4>10, Zenon DEF Solves
      <4> QED BY <3>3, <4>4, <4>8, <4>11
    <3> QED BY <3>4, <3>5
  <2>2. PICK g : Solves(g, N) /\ g[N] \in V
    <3>1. N \in 1 .. N
      BY <1>0, <1>2
    <3>2. ~Fails(N)
      <4> HIDE DEF Fails, N
      <4> QED BY <2>1, <3>1
    <3> QED BY <3>2
  <2> HIDE DEF Bad
  <2> DEFINE f == CHOOSE h : Solves(h, N)
  <2>3. Solves(f, N)
    BY <2>2, Zenon
  <2>4. FlattenSeq(seqs) = f[N]
    BY <1>2, Zenon DEF FlattenSeq
  <2> HIDE DEF f
  <2>5. \A i \in 1 .. N : f[i] = IF i = 1 THEN seqs[i] ELSE f[i - 1] \o seqs[i]
    BY <2>3, Zenon
  <2> HIDE DEF Solves
  <2> DEFINE Out == {i \in 1 .. N : f[i] \notin V}
  <2>6. Out = {}
    <3>1. SUFFICES ASSUME Out # {} PROVE FALSE
      OBVIOUS
    <3>2. PICK l \in Out : \A k \in Out : l <= k
      <4>1. Out \in SUBSET Nat
        OBVIOUS
      <4> HIDE DEF Out
      <4> QED BY <3>1, <4>1, Least
    <3>3. l \in 1 .. N /\ f[l] \notin V
      OBVIOUS
    <3>4. l # 1 /\ f[l] = f[l - 1] \o seqs[l]
      BY <1>0, <2>5, <3>3
    <3>5. l - 1 \in 1 .. N /\ ~ (l <= l - 1)
      BY <1>0, <3>3, <3>4
    <3>6. f[l - 1] \in V
      BY <3>2, <3>5
    <3> HIDE DEF Out
    <3> QED BY <1>0, <3>3, <3>4, <3>6
  <2>7. N \in 1 .. N
    BY <1>0, <1>2
  <2> QED BY <2>4, <2>6, <2>7
<1> QED BY <1>1, <1>2

LEMMA NothingReleased == <<>> \in Codes
  BY DEF Codes, Released

LEMMA CodesJoin ==
  ASSUME NEW c \in Codes, NEW d \in Codes
  PROVE  c \o d \in Codes
<1>1. c \in Seq(Body) /\ d \in Seq(Body) /\ Released(c) /\ Released(d)
  BY DEF Codes
<1>2. /\ c \o d \in Seq(Body) /\ Len(c \o d) = Len(c) + Len(d)
      /\ DOMAIN (c \o d) = 1 .. Len(c) + Len(d) /\ Len(c) \in Nat /\ Len(d) \in Nat
      /\ \A i \in 1 .. Len(c) + Len(d) : (c \o d)[i] = IF i <= Len(c) THEN c[i] ELSE d[i - Len(c)]
  BY <1>1, ConcatProperties, LenProperties
<1>3. PICK e : e = c \o d
  OBVIOUS
<1>4. DOMAIN c = 1 .. Len(c) /\ DOMAIN d = 1 .. Len(d)
  BY <1>1, LenProperties
<1>5. ASSUME NEW n \in DOMAIN e, e[n][1] \in Downs
      PROVE  \E l \in n + 1 .. Len(e) : e[l] = Up(e[n])
  <2>1. CASE n <= Len(c)
    <3>1. n \in DOMAIN c /\ e[n] = c[n]
      BY <1>2, <1>3, <1>4, <2>1
    <3>2. PICK l \in n + 1 .. Len(c) : c[l] = Up(c[n])
      BY <1>1, <1>5, <3>1 DEF Released
    <3>3. l \in n + 1 .. Len(e) /\ e[l] = c[l]
      BY <1>2, <1>3, <1>4, <2>1, <3>1
    <3> QED BY <3>1, <3>2, <3>3
  <2>2. CASE ~ (n <= Len(c))
    <3>1. PICK k : k = n - Len(c)
      OBVIOUS
    <3>2. k \in DOMAIN d /\ e[n] = d[k] /\ k \in Nat /\ n \in Nat
      BY <1>2, <1>3, <1>4, <2>2, <3>1
    <3>3. PICK l \in k + 1 .. Len(d) : d[l] = Up(d[k])
      BY <1>1, <1>5, <3>2 DEF Released
    <3>4. l + Len(c) \in n + 1 .. Len(e) /\ e[l + Len(c)] = d[l]
      BY <1>2, <1>3, <3>1, <3>2
    <3> QED BY <3>2, <3>3, <3>4
  <2> QED BY <2>1, <2>2
<1> QED BY <1>2, <1>3, <1>5 DEF Codes, Released

LEMMA Presses ==
  ASSUME NEW k \in Controls
  PROVE  /\ KeyDown(k) \in Body /\ KeyUp(k) \in Body /\ Up(KeyDown(k)) = KeyUp(k)
         /\ KeyUp(k)[1] \notin Downs
  BY DEF KeyDown, KeyUp, Body, Instructions, Triples, Up, Downs

LEMMA HotkeyReleases ==
  ASSUME NEW keys \in Seq(Controls)
  PROVE  HotkeyCode(keys) \in Codes
<1> DEFINE N == Len(keys)
           down == [n \in 1 .. N |-> KeyDown(keys[n])]
           ups == [n \in 1 .. N |-> KeyUp(keys[n])]
           up == [n \in 1 .. N |-> KeyUp(keys[(N - n) + 1])]
<1>1. N \in Nat /\ \A n \in 1 .. N : keys[n] \in Controls
  BY LenProperties, ElementOfSeq
<1>2. \A n \in 1 .. N : (N - n) + 1 \in 1 .. N
  BY <1>1
<1>3. down \in Seq(Body) /\ up \in Seq(Body) /\ Len(down) = N /\ Len(up) = N
  <2>1. \A n \in 1 .. N : KeyDown(keys[n]) \in Body /\ KeyUp(keys[(N - n) + 1]) \in Body
    BY <1>1, <1>2, Presses
  <2>2. down \in [1 .. N -> Body] /\ up \in [1 .. N -> Body]
    BY <2>1
  <2> HIDE DEF down, up, N
  <2>3. DOMAIN down = 1 .. N /\ DOMAIN up = 1 .. N /\ down \in Seq(Body) /\ up \in Seq(Body)
    BY <1>1, <2>2
  <2> QED BY <1>1, <2>3, LenProperties
<1>4. Reverse(ups) = up
  <2>1. Len(ups) = N
    <3>1. ups \in [1 .. N -> Body]
      BY <1>1, Presses
    <3> HIDE DEF ups, N
    <3>2. ups \in Seq(Body) /\ DOMAIN ups = 1 .. N
      BY <1>1, <3>1
    <3> QED BY <1>1, <3>2, LenProperties
  <2>2. Reverse(ups) = [n \in 1 .. N |-> ups[(N - n) + 1]]
    BY <2>1 DEF Reverse
  <2> QED BY <1>2, <2>2
<1>5. HotkeyCode(keys) = down \o up
  BY <1>4, Zenon DEF HotkeyCode
<1>6. /\ \A n \in 1 .. N : down[n] = KeyDown(keys[n])
      /\ \A n \in 1 .. N : up[n] = KeyUp(keys[(N - n) + 1])
  OBVIOUS
<1> HIDE DEF down, up, ups, N
<1>7. PICK e : e = down \o up
  OBVIOUS
<1>8. /\ e \in Seq(Body) /\ Len(e) = N + N /\ DOMAIN e = 1 .. N + N
      /\ \A n \in 1 .. N + N : e[n] = IF n <= N THEN down[n] ELSE up[n - N]
  <2>1. /\ e \in Seq(Body) /\ Len(e) = Len(down) + Len(up)
        /\ \A n \in 1 .. Len(down) + Len(up) :
             e[n] = IF n <= Len(down) THEN down[n] ELSE up[n - Len(down)]
    BY <1>3, <1>7, ConcatProperties
  <2> QED BY <1>3, <2>1, LenProperties
<1>9. ASSUME NEW n \in DOMAIN e, e[n][1] \in Downs
      PROVE  \E l \in n + 1 .. Len(e) : e[l] = Up(e[n])
  <2>1. CASE n <= N
    <3>1. PICK l : l = N + ((N - n) + 1)
      OBVIOUS
    <3>2. /\ n \in 1 .. N /\ l \in n + 1 .. N + N /\ l \in 1 .. N + N /\ ~ (l <= N)
          /\ l - N \in 1 .. N /\ (N - (l - N)) + 1 = n
      BY <1>1, <1>8, <2>1, <3>1
    <3>3. e[l] = up[l - N] /\ up[l - N] = KeyUp(keys[n]) /\ e[n] = KeyDown(keys[n])
      BY <1>6, <1>8, <2>1, <3>2
    <3>4. e[l] = Up(e[n])
      BY <1>1, <3>2, <3>3, Presses
    <3> QED BY <1>8, <3>2, <3>4
  <2>2. CASE ~ (n <= N)
    <3>1. n - N \in 1 .. N /\ (N - (n - N)) + 1 \in 1 .. N /\ e[n] = up[n - N]
      BY <1>1, <1>8, <2>2
    <3>2. e[n] = KeyUp(keys[(N - (n - N)) + 1])
      BY <1>6, <3>1
    <3> QED BY <1>1, <1>9, <3>1, <3>2, Presses
  <2> QED BY <2>1, <2>2
<1> QED BY <1>5, <1>7, <1>8, <1>9 DEF Codes, Released

LEMMA PairReleases ==
  ASSUME NEW x \in Body, NEW y \in Body, y = Up(x), y[1] \notin Downs
  PROVE  <<x, y>> \in Codes
<1>1. <<x, y>> \in Seq(Body) /\ Len(<<x, y>>) = 2 /\ DOMAIN <<x, y>> = 1 .. 2
  OBVIOUS
<1>2. ASSUME NEW n \in 1 .. 2, <<x, y>>[n][1] \in Downs
      PROVE  \E l \in n + 1 .. 2 : <<x, y>>[l] = Up(<<x, y>>[n])
  <2>1. n = 1
    BY <1>2
  <2>2. 2 \in n + 1 .. 2 /\ <<x, y>>[2] = Up(<<x, y>>[n])
    BY <2>1
  <2> QED BY <2>2
<1> QED BY <1>1, <1>2 DEF Codes, Released

LEMMA SingleReleases ==
  ASSUME NEW x \in Body, x[1] \notin Downs
  PROVE  <<x>> \in Codes
  BY DEF Codes, Released

SimpleCode(a) ==
  LET b == Normal(a) IN
  IF Lower(b.action) \in {"hotkey", "tap", "text", "consumer"} THEN KeyCode(b)
  ELSE <<SingleCode(b)>>

LEMMA ControlKeys ==
  /\ "" \in Controls /\ "SHIFT" \in Controls /\ "A" \in Controls /\ "/" \in Controls
  /\ "volume_up" \in Controls /\ "CTRL" \in Controls /\ "C" \in Controls /\ "ESC" \in Controls
  BY ControlsAssumption DEF Keys, Mods, ConsumerUsages

LEMMA ControlTuples ==
  ASSUME NEW x \in Controls, NEW y \in Controls, NEW z \in Controls
  PROVE  <<x>> \in Seq(Controls) /\ <<x, y>> \in Seq(Controls) /\ <<x, y, z>> \in Seq(Controls)
  OBVIOUS

LEMMA TextReleases ==
  ASSUME NEW value \in Seq(STRING), \A n \in DOMAIN value : value[n] \in DOMAIN TextKeys
  PROVE  TextCode(value) \in Codes
<1> DEFINE parts == [n \in DOMAIN value |-> HotkeyCode(TextKeys[value[n]])]
<1>1. \A ch \in DOMAIN TextKeys : TextKeys[ch] \in Seq(Controls)
  <2>1. <<"A">> \in Seq(Controls) /\ <<"SHIFT", "A">> \in Seq(Controls) /\ <<"SHIFT", "/">> \in Seq(Controls)
    BY ControlKeys, ControlTuples
  <2>2. TextKeys["a"] = <<"A">> /\ TextKeys["A"] = <<"SHIFT", "A">> /\ TextKeys["question"] = <<"SHIFT", "/">>
    BY DEF TextKeys
  <2>3. DOMAIN TextKeys = {"a", "A", "question"}
    BY DEF TextKeys
  <2> QED BY <2>1, <2>2, <2>3
<1>2. \A n \in DOMAIN value : HotkeyCode(TextKeys[value[n]]) \in Codes
  BY <1>1, HotkeyReleases
<1>3. parts \in Seq(Codes)
  <2>1. DOMAIN value = 1 .. Len(value) /\ Len(value) \in Nat
    BY LenProperties
  <2>2. parts \in [1 .. Len(value) -> Codes]
    BY <1>2, <2>1
  <2> HIDE DEF parts
  <2> QED BY <2>1, <2>2
<1>4. TextCode(value) = FlattenSeq(parts)
  BY DEF TextCode
<1> HIDE DEF parts
<1> QED BY <1>3, <1>4, NothingReleased, CodesJoin, Flattened

LEMMA HotkeyControls ==
  ASSUME NEW keys \in Seq(STRING), HotkeyOK(keys)
  PROVE  keys \in Seq(Controls)
<1>1. Len(keys) \in Nat /\ DOMAIN keys = 1 .. Len(keys) /\ keys = [n \in 1 .. Len(keys) |-> keys[n]]
  BY LenProperties
<1>2. ASSUME NEW n \in 1 .. Len(keys) PROVE keys[n] \in Controls
  <2>1. n \in 1 .. Len(keys) - 1 \/ n = Len(keys)
    BY <1>1
  <2> QED BY <2>1, ControlsAssumption DEF HotkeyOK
<1> QED BY <1>1, <1>2

LEMMA ConsumerReleases ==
  ASSUME NEW c \in Controls
  PROVE  <<<<"CONSUMER_DOWN", c, 0>>, <<"CONSUMER_UP", c, 0>>>> \in Codes
<1>1. /\ <<"CONSUMER_DOWN", c, 0>> \in Body /\ <<"CONSUMER_UP", c, 0>> \in Body
      /\ <<"CONSUMER_UP", c, 0>> = Up(<<"CONSUMER_DOWN", c, 0>>)
      /\ <<"CONSUMER_UP", c, 0>>[1] \notin Downs
  BY DEF Body, Instructions, Triples, Up, Downs
<1> QED BY <1>1, PairReleases

LEMMA TapReleases == ASSUME NEW k \in Controls PROVE Tap(k) \in Codes
  BY Presses, PairReleases DEF Tap

LEMMA OneReleases ==
  /\ \A ms \in Int : <<<<"DELAY", "", ms>>>> \in Codes
  /\ \A n \in Int : <<<<"ROLLER", "", n>>>> \in Codes /\ <<<<"ACPAN", "", n>>>> \in Codes
  /\ <<<<"WAIT_FOR_RELEASE", "", 0>>>> \in Codes /\ <<<<"REPEAT_WHILE_PRESSED", "", 0>>>> \in Codes
<1>0. "" \in Controls
  BY ControlKeys
<1>1. /\ \A ms \in Int : <<"DELAY", "", ms>> \in Body
      /\ \A n \in Int : <<"ROLLER", "", n>> \in Body /\ <<"ACPAN", "", n>> \in Body
      /\ <<"WAIT_FOR_RELEASE", "", 0>> \in Body /\ <<"REPEAT_WHILE_PRESSED", "", 0>> \in Body
  <2>1. ASSUME NEW op \in (Singles \union Triples) \ {"END"}, NEW n \in Int
        PROVE  <<op, "", n>> \in Body
    BY <1>0 DEF Body, Instructions
  <2>2. \A op \in {"DELAY", "ROLLER", "ACPAN", "WAIT_FOR_RELEASE", "REPEAT_WHILE_PRESSED"} :
          op \in (Singles \union Triples) \ {"END"}
    BY DEF Singles, Triples
  <2>3. \A op \in {"DELAY", "ROLLER", "ACPAN", "WAIT_FOR_RELEASE", "REPEAT_WHILE_PRESSED"}, n \in Int :
          <<op, "", n>> \in Body
    BY <2>1, <2>2
  <2>4. 0 \in Int
    OBVIOUS
  <2> HIDE DEF Body
  <2> QED BY <2>3, <2>4
<1> QED BY <1>1, SingleReleases DEF Downs

LEMMA AliasReleases ==
  ASSUME NEW name \in DOMAIN Aliases
  PROVE  /\ Aliases[name].action \in {"hotkey", "consumer"}
         /\ KeyCode(Aliases[name]) \in Codes
<1>1. name \in {"copy", "task_manager", "volume_up"}
  BY DEF Aliases
<1>2. CASE name \in {"copy", "task_manager"}
  <2>1. Aliases[name].action = "hotkey" /\ Aliases[name].keys \in Seq(Controls)
    <3>1. <<"CTRL", "C">> \in Seq(Controls) /\ <<"CTRL", "SHIFT", "ESC">> \in Seq(Controls)
      BY ControlKeys, ControlTuples
    <3>2. Aliases["copy"].keys = <<"CTRL", "C">> /\ Aliases["task_manager"].keys = <<"CTRL", "SHIFT", "ESC">>
      BY DEF Aliases
    <3>3. Aliases["copy"].action = "hotkey" /\ Aliases["task_manager"].action = "hotkey"
      BY DEF Aliases
    <3> QED BY <1>2, <3>1, <3>2, <3>3
  <2>2. Lower(Aliases[name].action) = "hotkey"
    BY <2>1, Lowered
  <2>3. KeyCode(Aliases[name]) = HotkeyCode(Aliases[name].keys)
    BY <2>2 DEF KeyCode
  <2> QED BY <2>1, <2>3, HotkeyReleases
<1>3. CASE name = "volume_up"
  <2>1. Aliases[name].action = "consumer" /\ Aliases[name].command = "volume_up"
    BY <1>3 DEF Aliases
  <2>2. Lower("consumer") # "hotkey"
    BY Lowered
  <2>3. KeyCode(Aliases[name]) = <<<<"CONSUMER_DOWN", "volume_up", 0>>, <<"CONSUMER_UP", "volume_up", 0>>>>
    BY <2>1, <2>2 DEF KeyCode
  <2> QED BY <2>1, <2>3, ControlKeys, ConsumerReleases
<1> QED BY <1>1, <1>2, <1>3

LEMMA SimpleReleases ==
  ASSUME NEW a \in Bindings, CompilesSimple(a)
  PROVE  Normal(a).action # "sequence" /\ SimpleCode(a) \in Codes
<1> DEFINE kind == Lower(a.action)
<1>1. CASE IsAlias(a) /\ a.name \in DOMAIN Aliases
  <2>1. Normal(a) = Aliases[a.name]
    BY <1>1 DEF Normal
  <2>2. Lower(Aliases[a.name].action) \in {"hotkey", "consumer"}
    BY <1>1, AliasReleases, Lowered
  <2>3. SimpleCode(a) = KeyCode(Aliases[a.name])
    BY <2>1, <2>2 DEF SimpleCode
  <2> QED BY <1>1, <2>1, <2>3, AliasReleases
<1>2. CASE ~ (IsAlias(a) /\ a.name \in DOMAIN Aliases)
  <2>1. Normal(a) = a
    BY <1>2 DEF Normal
  <2>2. /\ kind = "hotkey" => a.keys \in Seq(STRING)
        /\ kind = "text" => a.value \in Seq(STRING)
        /\ kind = "delay" => a.ms \in Int
        /\ kind \in {"wheel", "hpan", "horizontal_wheel"} => a.amount \in Int
    BY FieldsAssumption
  <2>3. kind \in {"hotkey", "consumer"} \/ a.action = kind
    <3>1. kind = "mouse" => FALSE
      BY <1>2, Zenon DEF CompilesSimple
    <3> QED BY <3>1, Spelt
  <2>4. a.action # "sequence"
    <3>1. Lower("sequence") = "sequence"
      BY Lowered
    <3>2. kind # "sequence"
      BY <1>2, Zenon DEF CompilesSimple
    <3> QED BY <3>1, <3>2
  <2>5. SimpleCode(a) = IF kind \in {"hotkey", "tap", "text", "consumer"} THEN KeyCode(a)
                        ELSE <<SingleCode(a)>>
    BY <2>1 DEF SimpleCode
  <2>6. KeyCode(a) = IF kind = "hotkey" THEN HotkeyCode(a.keys)
                     ELSE IF a.action = "tap" THEN Tap(a.key)
                     ELSE IF a.action = "text" THEN TextCode(a.value)
                     ELSE <<<<"CONSUMER_DOWN", a.command, 0>>, <<"CONSUMER_UP", a.command, 0>>>>
    BY DEF KeyCode
  <2> HIDE DEF kind
  <2>7. CASE kind = "hotkey" /\ HotkeyOK(a.keys)
    <3>1. SimpleCode(a) = HotkeyCode(a.keys)
      BY <2>5, <2>6, <2>7
    <3>2. a.keys \in Seq(Controls)
      BY <2>2, <2>7, HotkeyControls
    <3> QED BY <2>1, <2>4, <3>1, <3>2, HotkeyReleases
  <2>8. CASE kind = "tap" /\ a.key \in Keys \union Mods
    <3>1. SimpleCode(a) = Tap(a.key) /\ a.key \in Controls
      BY <2>3, <2>5, <2>6, <2>8, ControlsAssumption
    <3> QED BY <2>1, <2>4, <3>1, TapReleases
  <2>9. CASE kind = "text" /\ \A n \in DOMAIN a.value : Typable(a.value[n], a.layout)
    <3>1. SimpleCode(a) = TextCode(a.value)
      BY <2>3, <2>5, <2>6, <2>9
    <3>2. \A n \in DOMAIN a.value : a.value[n] \in DOMAIN TextKeys
      BY <2>9 DEF Typable
    <3> QED BY <2>1, <2>2, <2>4, <2>9, <3>1, <3>2, TextReleases
  <2>10. CASE kind = "consumer" /\ a.command \in ConsumerUsages
    <3>1. a.action # "tap" /\ a.action # "text"
      BY <2>10, Lowered DEF kind
    <3>2. /\ SimpleCode(a) = <<<<"CONSUMER_DOWN", a.command, 0>>, <<"CONSUMER_UP", a.command, 0>>>>
          /\ a.command \in Controls
      BY <2>5, <2>6, <2>10, <3>1, ControlsAssumption
    <3> QED BY <2>1, <2>4, <3>2, ConsumerReleases
  <2>11. CASE kind \in {"delay", "wheel", "hpan", "horizontal_wheel", "wait_for_release", "repeat_while_pressed"}
    <3>1. SimpleCode(a) = <<SingleCode(a)>> /\ a.action = kind
      BY <2>3, <2>5, <2>11
    <3>2. <<SingleCode(a)>> \in Codes
      BY <2>2, <2>11, <3>1, OneReleases DEF SingleCode
    <3> QED BY <2>1, <2>4, <3>1, <3>2
  <2> QED BY <1>2, <2>7, <2>8, <2>9, <2>10, <2>11, Zenon DEF CompilesSimple, kind
<1> QED BY <1>1, <1>2

LEMMA CompiledCase ==
  ASSUME NEW a \in Compiled
  PROVE  /\ a \in Bindings
         /\ IF Normal(a).action = "sequence"
            THEN /\ Normal(a) = a /\ a.action = "sequence" /\ StepsOf(a) = a.steps
                 /\ a.steps \in Seq(Bindings)
                 /\ \A n \in DOMAIN a.steps : a.steps[n] \in Compiled
            ELSE CompilesSimple(a) /\ SimpleCode(a) \in Codes
<1>1. a \in Bindings /\ Compiles[a]
  BY DEF Compiled
<1>2. CASE CompilesSimple(a)
  BY <1>1, <1>2, SimpleReleases
<1>3. CASE ~CompilesSimple(a)
  <2>1. /\ a.action = "sequence" /\ a.steps # <<>>
        /\ \A n \in DOMAIN a.steps : Compiles[a.steps[n]]
    BY <1>1, <1>3, CompilesUnfolds
  <2>2. Normal(a) = a
    BY <2>1 DEF Normal, IsAlias
  <2>3. Lower(a.action) = "sequence"
    BY <2>1, Lowered
  <2>4. a.steps \in Seq(Bindings) /\ StepsOf(a) = a.steps
    BY <1>1, <2>1, <2>3, FieldsAssumption DEF StepsOf
  <2>5. \A n \in DOMAIN a.steps : a.steps[n] \in Compiled
    BY <2>1, <2>4, ElementOfSeq, LenProperties DEF Compiled
  <2> QED BY <1>1, <2>1, <2>2, <2>4, <2>5
<1> QED BY <1>2, <1>3

LEMMA CodeUnfolds ==
  ASSUME NEW a \in Compiled
  PROVE  ActionCode[a] = IF Normal(a).action = "sequence"
                         THEN FlattenSeq([n \in DOMAIN a.steps |-> ActionCode[a.steps[n]]])
                         ELSE SimpleCode(a)
<1> DEFINE Says(b, said) == IF Normal(b).action = "sequence" THEN FlattenSeq(said) ELSE SimpleCode(b)
           G == [b \in Compiled |-> [said \in [DOMAIN StepsOf(b) -> Codes] |-> Says(b, said)]]
           Unfolded(f, c) ==
             LET b == Normal(c) IN
             IF b.action = "sequence" THEN FlattenSeq([n \in DOMAIN b.steps |-> f[b.steps[n]]])
             ELSE IF Lower(b.action) \in {"hotkey", "tap", "text", "consumer"} THEN KeyCode(b)
             ELSE <<SingleCode(b)>>
           Solves(f) == f = [c \in Compiled |-> Unfolded(f, c)]
<1>1. PICK g : \A b \in Compiled : \A said \in [DOMAIN StepsOf(b) -> Codes] : g[b][said] = Says(b, said)
  <2>1. \A b \in Compiled : \A said \in [DOMAIN StepsOf(b) -> Codes] : G[b][said] = Says(b, said)
    OBVIOUS
  <2> HIDE DEF G, Says
  <2> QED BY <2>1
<1> HIDE DEF G
<1>2. ASSUME NEW b \in Compiled, NEW said \in [DOMAIN StepsOf(b) -> Codes] PROVE g[b][said] \in Codes
  <2>1. CASE Normal(b).action = "sequence"
    <3>1. b.steps \in Seq(Bindings) /\ StepsOf(b) = b.steps
      BY <2>1, CompiledCase
    <3>2. DOMAIN StepsOf(b) = 1 .. Len(b.steps) /\ Len(b.steps) \in Nat
      BY <3>1, LenProperties
    <3>3. said \in Seq(Codes)
      BY <3>2
    <3>4. FlattenSeq(said) \in Codes
      BY <3>3, NothingReleased, CodesJoin, Flattened
    <3> QED BY <1>1, <2>1, <3>4
  <2>2. CASE Normal(b).action # "sequence"
    BY <1>1, <2>2, CompiledCase
  <2> QED BY <2>1, <2>2
<1>3. \A b \in Compiled : \A k \in DOMAIN StepsOf(b) : StepsOf(b)[k] \in Compiled
  <2> SUFFICES ASSUME NEW b \in Compiled, NEW k \in DOMAIN StepsOf(b) PROVE StepsOf(b)[k] \in Compiled
    OBVIOUS
  <2>1. b \in Bindings
    BY DEF Compiled
  <2>2. b.action = "sequence"
    BY <2>1, StepsBelow
  <2>3. Normal(b).action = "sequence"
    BY <2>2 DEF Normal, IsAlias
  <2> QED BY <2>3, CompiledCase
<1> HIDE DEF Says
<1>4. PICK f \in [Compiled -> Codes] : \A b \in Compiled : f[b] = g[b][Said(f, b)]
  <2>1. Compiled \subseteq Bindings
    BY DEF Compiled
  <2>2. Closed(Compiled) /\ Within(Compiled, Codes, g)
    BY <1>2, <1>3, <2>1 DEF Closed, Within
  <2>3. Defines(Compiled, Codes, g)
    BY <2>2, Recursion
  <2> QED BY <2>3 DEF Defines
<1>5. ASSUME NEW h, NEW b \in Compiled
      PROVE  Unfolded(h, b) = IF Normal(b).action = "sequence"
                              THEN FlattenSeq([n \in DOMAIN b.steps |-> h[b.steps[n]]])
                              ELSE SimpleCode(b)
  <2>1. CASE Normal(b).action = "sequence"
    <3>1. Normal(b) = b
      BY <2>1, CompiledCase
    <3> QED BY <2>1, <3>1
  <2>2. CASE Normal(b).action # "sequence"
    BY <2>2, Zenon DEF SimpleCode
  <2> QED BY <2>1, <2>2
<1> HIDE DEF Unfolded
<1>6. ASSUME NEW b \in Compiled PROVE f[b] = Unfolded(f, b)
  <2>1. Said(f, b) \in [DOMAIN StepsOf(b) -> Codes]
    BY <1>3 DEF Said
  <2>2. f[b] = Says(b, Said(f, b))
    BY <1>1, <1>4, <2>1
  <2>3. CASE Normal(b).action = "sequence"
    <3>1. StepsOf(b) = b.steps
      BY <2>3, CompiledCase
    <3>2. Said(f, b) = [n \in DOMAIN b.steps |-> f[b.steps[n]]]
      BY <3>1 DEF Said
    <3>3. f[b] = FlattenSeq(Said(f, b))
      BY <2>2, <2>3 DEF Says
    <3> QED BY <1>5, <2>3, <3>2, <3>3
  <2>4. CASE Normal(b).action # "sequence"
    <3>1. f[b] = SimpleCode(b)
      BY <2>2, <2>4 DEF Says
    <3> QED BY <1>5, <2>4, <3>1
  <2> QED BY <2>3, <2>4
<1>7. Solves(f)
  <2>1. f = [c \in Compiled |-> Unfolded(f, c)]
    BY <1>4, <1>6
  <2> QED BY <2>1, Zenon
<1>8. ActionCode = CHOOSE h : Solves(h)
  BY Zenon DEF ActionCode, Unfolded
<1>9. Solves(ActionCode)
  <2> HIDE DEF Solves
  <2> QED BY <1>7, <1>8
<1>10. ActionCode[a] = Unfolded(ActionCode, a)
  BY <1>9, Zenon
<1> QED BY <1>5, <1>10

\* Whatever it is made of, the code of an action releases every key and every
\* control that it presses.
LEMMA CodeReleases ==
  ASSUME NEW a \in Compiled
  PROVE  ActionCode[a] \in Codes
<1> DEFINE Bad == {b \in Compiled : ActionCode[b] \notin Codes}
           Deep == {Depth[b] : b \in Bad}
<1>1. SUFFICES ASSUME a \in Bad PROVE FALSE
  OBVIOUS
<1>2. \A b \in Compiled : b \in Bindings /\ Depth[b] \in Nat
  BY BindingsAssumption DEF Compiled
<1>3. PICK d \in Deep : \A k \in Deep : d <= k
  <2>1. Deep \in SUBSET Nat /\ Deep # {}
    BY <1>1, <1>2
  <2> HIDE DEF Deep
  <2> QED BY <2>1, Least
<1>4. PICK b \in Bad : Depth[b] = d
  BY <1>3
<1>5. b \in Compiled /\ ActionCode[b] \notin Codes
  BY <1>4
<1>6. CASE Normal(b).action = "sequence"
  <2>1. /\ b.action = "sequence" /\ b.steps \in Seq(Bindings)
        /\ \A n \in DOMAIN b.steps : b.steps[n] \in Compiled
    BY <1>5, <1>6, CompiledCase
  <2>2. ASSUME NEW n \in DOMAIN b.steps PROVE ActionCode[b.steps[n]] \in Codes
    <3>1. Depth[b.steps[n]] < Depth[b] /\ b.steps[n] \in Compiled
      BY <1>2, <1>5, <2>1, BindingsAssumption
    <3>2. ~ (Depth[b] <= Depth[b.steps[n]])
      BY <1>2, <1>5, <3>1
    <3>3. b.steps[n] \notin Bad
      BY <1>3, <1>4, <3>2
    <3> QED BY <3>1, <3>3
  <2> DEFINE codes == [n \in DOMAIN b.steps |-> ActionCode[b.steps[n]]]
  <2>3. codes \in Seq(Codes)
    <3>1. DOMAIN b.steps = 1 .. Len(b.steps) /\ Len(b.steps) \in Nat
      BY <2>1, LenProperties
    <3>2. codes \in [1 .. Len(b.steps) -> Codes]
      BY <2>2, <3>1
    <3> HIDE DEF codes
    <3> QED BY <3>1, <3>2
  <2>4. ActionCode[b] = FlattenSeq(codes)
    BY <1>5, <1>6, CodeUnfolds
  <2> HIDE DEF codes
  <2> QED BY <1>5, <2>3, <2>4, NothingReleased, CodesJoin, Flattened
<1>7. CASE Normal(b).action # "sequence"
  <2>1. ActionCode[b] = SimpleCode(b)
    BY <1>5, <1>7, CodeUnfolds
  <2> QED BY <1>5, <1>7, <2>1, CompiledCase
<1> QED BY <1>6, <1>7

\* A macro of the compiler: code that releases what it holds, and the END.
Finished(macro) == \E code \in Codes : macro = code \o <<End>>

LEMMA FinishedIsTokens ==
  ASSUME NEW macro, Finished(macro)
  PROVE  /\ Tokens(macro) /\ Len(macro) \in Nat \ {0}
         /\ \A n \in 1 .. Len(macro) : macro[n] = End => n = Len(macro)
         /\ \A n \in 1 .. Len(macro) : macro[n][1] \in Downs =>
              \E l \in n + 1 .. Len(macro) : macro[l] = Up(macro[n])
<1>1. PICK code \in Codes : macro = code \o <<End>>
  BY DEF Finished
<1>2. code \in Seq(Body) /\ Released(code)
  BY DEF Codes
<1>3. Body \subseteq Instructions /\ End \in Instructions
  <2>1. Body \subseteq Instructions
    BY DEF Body
  <2>2. "END" \in Singles \union Triples /\ "" \in Controls /\ 0 \in Int
    <3>1. "END" \in Singles
      BY DEF Singles
    <3>2. "END" \in Singles \union Triples
      BY <3>1
    <3>3. "" \in Controls
      BY ControlKeys, Zenon
    <3>4. 0 \in Int
      OBVIOUS
    <3> QED BY <3>2, <3>3, <3>4
  <2>3. \A x \in Singles \union Triples, y \in Controls, z \in Int : <<x, y, z>> \in Instructions
    BY DEF Instructions
  <2>4. <<"END", "", 0>> \in Instructions
    BY <2>2, <2>3
  <2> QED BY <2>1, <2>4 DEF End
<1>0. End[1] = "END"
  BY DEF End
<1>4. code \in Seq(Instructions) /\ <<End>> \in Seq(Instructions) /\ <<End>>[1] = End /\ Len(<<End>>) = 1
  <2>1. \A i \in 1 .. Len(code) : code[i] \in Instructions
    BY <1>2, <1>3, ElementOfSeq
  <2>2. code = [i \in 1 .. Len(code) |-> code[i]] /\ Len(code) \in Nat
    BY <1>2, LenProperties
  <2>3. code \in Seq(Instructions)
    BY <2>1, <2>2
  <2> QED BY <1>3, <2>3
<1>5. /\ macro \in Seq(Instructions) /\ Len(macro) = Len(code) + 1 /\ Len(code) \in Nat
      /\ \A n \in 1 .. Len(code) : macro[n] = code[n]
      /\ macro[Len(code) + 1] = End
  <2>1. /\ macro \in Seq(Instructions) /\ Len(macro) = Len(code) + 1 /\ Len(code) \in Nat
        /\ \A n \in 1 .. Len(code) + 1 : macro[n] = IF n <= Len(code) THEN code[n] ELSE <<End>>[n - Len(code)]
    BY <1>1, <1>4, ConcatProperties, LenProperties
  <2> QED BY <1>4, <2>1
<1>6. \A n \in 1 .. Len(code) : code[n] # End
  <2>1. \A n \in 1 .. Len(code) : code[n] \in Body
    BY <1>2, ElementOfSeq
  <2> QED BY <1>0, <2>1 DEF Body
<1>7. ASSUME NEW n \in 1 .. Len(macro), macro[n][1] \in Downs
      PROVE  \E l \in n + 1 .. Len(macro) : macro[l] = Up(macro[n])
  <2>1. n # Len(code) + 1
    BY <1>0, <1>5, <1>7 DEF Downs
  <2>2. n \in 1 .. Len(code) /\ DOMAIN code = 1 .. Len(code)
    BY <1>2, <1>5, <2>1, LenProperties
  <2>3. PICK l \in n + 1 .. Len(code) : code[l] = Up(code[n])
    BY <1>2, <1>5, <1>7, <2>2 DEF Released
  <2>4. l \in n + 1 .. Len(macro) /\ l \in 1 .. Len(code)
    BY <1>5, <2>2
  <2> QED BY <1>5, <2>2, <2>3, <2>4
<1> QED BY <1>5, <1>6, <1>7 DEF Tokens

-----------------------------------------------------------------------------
(* The macros of the plan are finished code                                  *)

LEMMA EachRank ==
  ASSUME NEW S \in SUBSET AllRoutes, NEW n \in 1 .. Cardinality(S)
  PROVE  \E r \in S : Cardinality({q \in S : Ahead(q, r)}) = n - 1
<1> DEFINE count(r) == Cardinality({q \in S : Ahead(q, r)})
           T == 0 .. Cardinality(S) - 1
           f == [r \in S |-> count(r)]
<1>1. IsFiniteSet(S) /\ Cardinality(S) \in Nat
  BY RoutesFinite, FS_Subset, FS_CardinalityType
<1>2. IsFiniteSet(T) /\ Cardinality(T) = Cardinality(S)
  <2>1. PICK N \in Nat : N = Cardinality(S)
    BY <1>1
  <2>2. IsFiniteSet(0 .. N - 1) /\ Cardinality(0 .. N - 1) = N
    BY IntervalSize, FS_Interval
  <2> QED BY <2>1, <2>2
<1>3. \A r \in S : count(r) \in T
  <2> SUFFICES ASSUME NEW r \in S PROVE count(r) \in T
    OBVIOUS
  <2>1. count(r) \in Nat /\ count(r) < Cardinality(S)
    BY Counting
  <2> HIDE DEF count
  <2> QED BY <1>1, <2>1
<1>4. \A r, q \in S : Ahead(q, r) => count(q) < count(r)
  BY Counting
<1>5. \A r, q \in S : r = q \/ Ahead(r, q) \/ Ahead(q, r)
  BY Order
<1> HIDE DEF count
<1>6. f \in Injection(S, T)
  <2>1. f \in [S -> T]
    BY <1>3
  <2>2. \A r, q \in S : f[r] = f[q] => r = q
    BY <1>1, <1>3, <1>4, <1>5
  <2> QED BY <2>1, <2>2 DEF Injection, IsInjective
<1>7. f \in Surjection(S, T)
  <2> HIDE DEF f, T
  <2> QED BY <1>2, <1>6, FS_Injection
<1>8. n - 1 \in T
  BY <1>1
<1>9. PICK r \in S : f[r] = n - 1
  <2> HIDE DEF f, T
  <2> QED BY <1>7, <1>8 DEF Surjection
<1> QED BY <1>9 DEF count

\* Every macro of the list is that of a route.
LEMMA ListedRoute ==
  ASSUME ConfigOK(config), NEW n \in 1 .. Len(Unique)
  PROVE  \E r \in MacroRoutes : Unique[n] = MacroOf(r)
<1> DEFINE count(s) == Cardinality({p \in FirstRoutes : Ahead(p, s)})
           s == CHOOSE p \in FirstRoutes : count(p) = n - 1
<1>1. FirstRoutes \in SUBSET AllRoutes /\ FirstRoutes \subseteq MacroRoutes
  BY BoundIsRoutes
<1>2. n \in 1 .. Cardinality(FirstRoutes)
  <2>1. DOMAIN Unique = 1 .. Len(Unique)
    BY UniqueIsList
  <2>2. DOMAIN Unique = 1 .. Cardinality(FirstRoutes)
    BY DEF Unique
  <2> QED BY <2>1, <2>2
<1>3. \E p \in FirstRoutes : count(p) = n - 1
  BY <1>1, <1>2, EachRank
<1>4. Unique[n] = MacroOf(s)
  BY <1>2, Zenon DEF Unique
<1>5. s \in FirstRoutes
  <2> HIDE DEF count
  <2> QED BY <1>3, Zenon
<1> HIDE DEF s
<1> QED BY <1>1, <1>4, <1>5

\* A route of the configuration is bound to an action that the schema took.
LEMMA BoundAccepted ==
  ASSUME ConfigOK(config), config \in Configs, NEW r \in Bound
  PROVE  ActionOf(r) \in Bindings /\ SchemaAccepts[ActionOf(r)]
<1>1. PICK p \in DOMAIN config.profiles, l \in Layers, t \in TargetSet : r = <<p, l, t>>
  BY DEF Bound
<1>2. r[1] = p /\ r[2] = l /\ r[3] = t /\ t \in DOMAIN Layer(p, l)
  BY <1>1 DEF Bound
<1>3. Layer(p, l) \in {config.profiles[p].buttons, config.profiles[p].shifted}
  BY DEF Layer
<1>4. ActionOf(r) = Layer(p, l)[t]
  BY <1>2 DEF ActionOf
<1>5. ActionOf(r) \in Bindings
  BY <1>2, <1>3, <1>4, ConfigsAssumption, Zenon
<1>6. LayerOK(config.profiles[p].buttons, FALSE) /\ LayerOK(config.profiles[p].shifted, TRUE)
  BY Zenon DEF ConfigOK, BlockOK
<1>7. \A layer, shifted : LayerOK(layer, shifted) => \A u \in DOMAIN layer : SchemaAccepts[layer[u]]
  BY DEF LayerOK
<1>8. \A u \in DOMAIN Layer(p, l) : SchemaAccepts[Layer(p, l)[u]]
  BY <1>3, <1>6, <1>7
<1> QED BY <1>2, <1>4, <1>5, <1>8

LEMMA RoutesFinish ==
  ASSUME ConfigOK(config), config \in Configs, \A r \in Bound : Binds(ActionOf(r)),
         NEW r \in MacroRoutes
  PROVE  Finished(MacroOf(r))
<1>1. r \in Bound /\ ~IsDirect(ActionOf(r))
  BY DEF MacroRoutes
<1>2. ActionOf(r) \in Bindings /\ Compiles[ActionOf(r)]
  BY <1>1, BoundAccepted DEF Binds
<1>3. ActionCode[ActionOf(r)] \in Codes
  BY <1>2, CodeReleases DEF Compiled
<1> QED BY <1>3 DEF Finished, MacroOf

\* What the allocator is given is finished, so that it never finds anything
\* malformed.
CodeInv ==
  /\ outcome \in {"busy", "done"} => \A i \in 1 .. Len(macros) : Finished(macros[i])
  /\ outcome # "malformed"

LEMMA CodeAllocation ==
  ASSUME AllocationTypeOK, CodeInv, Len(macros) \in Nat, Allocation
  PROVE  CodeInv'
<1>1. outcome = "busy" /\ macros' = macros
  BY DEF Allocation, BeginMacro, PlaceRest, PlaceFragment, MoveOn, Seal, GiveUp
<1>2. \A macro : Finished(macro)' <=> Finished(macro)
  BY DEF Finished
<1>3. outcome' # "malformed"
  <2>1. CASE BeginMacro
    <3>1. m \in 1 .. Len(macros)
      BY <2>1 DEF BeginMacro, AllocationTypeOK
    <3>2. Tokens(macros[m])
      BY <1>1, <3>1, FinishedIsTokens DEF CodeInv
    <3> QED BY <1>1, <2>1, <3>2 DEF BeginMacro, GiveUp
  <2>2. CASE PlaceRest
    BY <1>1, <2>2 DEF PlaceRest
  <2>3. CASE PlaceFragment
    BY <1>1, <2>3 DEF PlaceFragment, GiveUp
  <2>4. CASE MoveOn
    BY <1>1, <2>4 DEF MoveOn, GiveUp
  <2>5. CASE Seal
    BY <1>1, <2>5 DEF Seal
  <2> QED BY <2>1, <2>2, <2>3, <2>4, <2>5 DEF Allocation
<1> QED BY <1>1, <1>2, <1>3 DEF CodeInv

LEMMA CodeStep == StoreInv /\ ListInv /\ CodeInv /\ [Next]_vars => CodeInv'
<1> SUFFICES ASSUME StoreInv, ListInv, CodeInv, [Next]_vars PROVE CodeInv'
  OBVIOUS
<1>1. \A macro : Finished(macro)' <=> Finished(macro)
  BY DEF Finished
<1>2. CASE UNCHANGED allocation
  <2>1. macros' = macros /\ outcome' = outcome
    BY <1>2 DEF allocation
  <2> QED BY <1>1, <2>1 DEF CodeInv
<1>3. CASE Build /\ ~UNCHANGED allocation
  <2>1. /\ phase = "build" /\ Allocate(Unique) /\ \A r \in Bound : Binds(ActionOf(r))
    BY <1>3 DEF Build
  <2>2. ConfigOK(config) /\ config \in Configs
    BY <2>1 DEF ListInv
  <2>3. macros' = Unique /\ outcome' = "busy"
    BY <2>1 DEF Allocate
  <2>4. \A i \in 1 .. Len(Unique) : Finished(Unique[i])
    BY <2>1, <2>2, ListedRoute, RoutesFinish
  <2> QED BY <1>1, <2>3, <2>4 DEF CodeInv
<1>4. CASE AllocateStep
  <2>1. phase = "allocate" /\ Allocation
    BY <1>4 DEF AllocateStep
  <2>2. outcome = "busy"
    BY <2>1 DEF Allocation, BeginMacro, PlaceRest, PlaceFragment, MoveOn, Seal
  <2>3. Len(macros) \in Nat
    BY <2>1, <2>2, UniqueIsList DEF ListInv
  <2> QED BY <2>1, <2>3, CodeAllocation DEF StoreInv, CountInv
<1>5. CASE ~Build /\ ~AllocateStep
  <2>1. UNCHANGED allocation
    BY <1>5 DEF Next, vars, ValidateConfig, AllocationFails, Assemble, ValidateImages, NextStart,
                WalkStep, EndWalk, Report
  <2> QED BY <1>2, <2>1
<1> QED BY <1>2, <1>3, <1>4, <1>5

LEMMA HoldsNothing == StoreInv /\ ListInv /\ CodeInv /\ WalkInv => NothingHeld
<1> SUFFICES ASSUME StoreInv, ListInv, CodeInv, WalkInv,
                    NEW i \in DOMAIN start, Owns(i), verdict = "accepted", NEW n \in DOMAIN chain,
                    macros[i][chain[n][2]][1] \in Downs
             PROVE  \E l \in n + 1 .. Len(chain) :
                      macros[i][chain[l][2]] = Up(macros[i][chain[n][2]])
  BY DEF NothingHeld, Downs, Up
<1>1. outcome = "done" /\ Accepted(i)
  BY DEF Owns, WalkInv, OwnInv
<1>2. PICK e \in 1 .. Len(macros[i]) : Walked(i, e) /\ macros[i][e] = End
  BY <1>1 DEF Accepted
<1>3. DOMAIN chain = 1 .. e /\ Len(chain) = e /\ \A k \in 1 .. e : chain[k] = <<i, k>>
  BY <1>2, LenProperties DEF Walked
<1>4. Finished(macros[i])
  <2>1. tok = 0
    BY <1>1 DEF StoreInv, LayoutInv, SealedInv
  <2>2. /\ start \in Seq(Global \X (0 .. PageData - 1)) /\ Len(start) = m - 1
        /\ m = Len(macros) + 1 /\ Len(macros) \in Nat
    BY <1>1, <2>1, UniqueIsList DEF StoreInv, CountInv, AllocationTypeOK, ListInv
  <2>3. i \in 1 .. Len(macros)
    BY <2>2, LenProperties
  <2> QED BY <1>1, <2>3 DEF CodeInv
<1>5. e = Len(macros[i])
  BY <1>2, <1>4, FinishedIsTokens
<1>6. n \in 1 .. Len(macros[i]) /\ chain[n][2] = n
  BY <1>3, <1>5
<1>7. PICK l \in n + 1 .. Len(macros[i]) : macros[i][l] = Up(macros[i][n])
  BY <1>4, <1>6, FinishedIsTokens
<1>8. l \in n + 1 .. Len(chain) /\ l \in 1 .. e
  BY <1>3, <1>5, <1>6
<1>9. chain[l][2] = l
  BY <1>3, <1>8
<1> QED BY <1>6, <1>7, <1>8, <1>9

-----------------------------------------------------------------------------
(* Why a configuration is refused                                            *)

RefusalInv ==
  /\ phase = "allocate" => outcome # "idle"
  /\ phase = "refused" =>
       \/ why = "schema" /\ ~ConfigOK(config)
       \/ config \in Configs /\ ConfigOK(config) /\
          \/ why = "exhausted"
          \/ why = "action" /\ \E r \in Bound : ~Binds(ActionOf(r))
          \/ why = "dpi" /\ \E p \in DOMAIN config.profiles : ~DpiListed(p)

LEMMA SameSettings ==
  ASSUME UNCHANGED <<config, golden>>, NEW p
  PROVE  /\ (DpiListed(p)' <=> DpiListed(p)) /\ Settings(p)' = Settings(p)
         /\ EffectiveDpi(p)' = EffectiveDpi(p) /\ (Inherits(p)' <=> Inherits(p))
<1>1. Settings(p)' = Settings(p)
  BY DEF Settings
<1>2. EffectiveDpi(p)' = EffectiveDpi(p)
  BY <1>1 DEF EffectiveDpi
<1>3. \A key : SlotsOf(p, key)' = SlotsOf(p, key)
  BY <1>1, <1>2 DEF SlotsOf
<1>4. \A l : Layer(p, l)' = Layer(p, l)
  BY DEF Layer
<1>5. Inherits(p)' <=> Inherits(p)
  BY <1>1, <1>4 DEF Inherits
<1> QED BY <1>1, <1>2, <1>3, <1>5 DEF DpiListed

LEMMA RefusalKept ==
  ASSUME RefusalInv, UNCHANGED <<config, golden, why>>, phase' = "refused" => phase = "refused",
         phase' = "allocate" => outcome' # "idle"
  PROVE  RefusalInv'
<1>1. Bound' = Bound /\ \A r : ActionOf(r)' = ActionOf(r)
  BY SameRoutes
<1>2. \A p : DpiListed(p)' <=> DpiListed(p)
  BY SameSettings
<1>3. CASE phase' # "refused"
  BY <1>3 DEF RefusalInv
<1>4. CASE phase' = "refused"
  BY <1>1, <1>2, <1>4 DEF RefusalInv
<1> QED BY <1>3, <1>4

LEMMA Refuses ==
  ASSUME UNCHANGED <<config, golden>>, phase' = "refused",
         \/ why' = "schema" /\ ~ConfigOK(config)
         \/ config \in Configs /\ ConfigOK(config) /\
            \/ why' = "exhausted"
            \/ why' = "action" /\ \E r \in Bound : ~Binds(ActionOf(r))
            \/ why' = "dpi" /\ \E p \in DOMAIN config.profiles : ~DpiListed(p)
  PROVE  RefusalInv'
<1>1. Bound' = Bound /\ \A r : ActionOf(r)' = ActionOf(r)
  BY SameRoutes
<1>2. \A p : DpiListed(p)' <=> DpiListed(p)
  BY SameSettings
<1> QED BY <1>1, <1>2 DEF RefusalInv

LEMMA RefusalStep == StoreInv /\ ListInv /\ CodeInv /\ RefusalInv /\ [Next]_vars => RefusalInv'
<1> SUFFICES ASSUME StoreInv, ListInv, CodeInv, RefusalInv, [Next]_vars PROVE RefusalInv'
  OBVIOUS
<1>0. UNCHANGED <<config, golden>>
  BY ConfigFixed
<1>1. CASE ValidateConfig
  <2>1. CASE ConfigOK(config)
    <3>1. phase' = "build" /\ why' = why
      BY <1>1, <2>1 DEF ValidateConfig
    <3> QED BY <1>0, <3>1, RefusalKept
  <2>2. CASE ~ConfigOK(config)
    <3>1. phase' = "refused" /\ why' = "schema"
      BY <1>1, <2>2 DEF ValidateConfig, Refused
    <3> QED BY <1>0, <2>2, <3>1, Refuses
  <2> QED BY <2>1, <2>2
<1>2. CASE Build
  <2>1. phase = "build" /\ config \in Configs /\ ConfigOK(config)
    BY <1>2 DEF Build, ListInv
  <2>2. CASE \A r \in Bound : Binds(ActionOf(r))
    <3>1. phase' = "allocate" /\ why' = why /\ outcome' = "busy"
      BY <1>2, <2>2 DEF Build, Allocate
    <3> QED BY <1>0, <3>1, RefusalKept
  <2>3. CASE ~ \A r \in Bound : Binds(ActionOf(r))
    <3>1. phase' = "refused" /\ why' = "action"
      BY <1>2, <2>3 DEF Build, Refused
    <3> QED BY <1>0, <2>1, <2>3, <3>1, Refuses
  <2> QED BY <2>2, <2>3
<1>3. CASE AllocateStep
  <2>1. phase = "allocate" /\ phase' = phase /\ why' = why /\ Allocation
    BY <1>3 DEF AllocateStep, plan
  <2>2. outcome' # "idle"
    BY <2>1 DEF Allocation, BeginMacro, PlaceRest, PlaceFragment, MoveOn, Seal, GiveUp
  <2> QED BY <1>0, <2>1, <2>2, RefusalKept
<1>4. CASE AllocationFails
  <2>1. phase = "allocate" /\ outcome \notin {"busy", "done"} /\ phase' = "refused" /\ why' = outcome
    BY <1>4 DEF AllocationFails, Refused
  <2>2. config \in Configs /\ ConfigOK(config)
    BY <2>1 DEF ListInv
  <2>3. outcome = "exhausted"
    <3>1. outcome # "idle" /\ outcome # "malformed"
      BY <2>1 DEF RefusalInv, CodeInv
    <3>2. outcome # "stuck"
      BY DEF StoreInv, CountInv, HonestRefusal
    <3>3. outcome \in {"idle", "busy", "done", "exhausted", "stuck", "malformed"}
      BY DEF StoreInv, CountInv, AllocationTypeOK
    <3> QED BY <2>1, <3>1, <3>2, <3>3
  <2> QED BY <1>0, <2>1, <2>2, <2>3, Refuses
<1>5. CASE Assemble
  <2>1. phase = "allocate" /\ config \in Configs /\ ConfigOK(config)
    BY <1>5 DEF Assemble, ListInv
  <2>2. CASE \A p \in DOMAIN config.profiles : DpiListed(p)
    <3>1. phase' = "validate" /\ why' = why
      BY <1>5, <2>2 DEF Assemble
    <3> QED BY <1>0, <3>1, RefusalKept
  <2>3. CASE ~ \A p \in DOMAIN config.profiles : DpiListed(p)
    <3>1. phase' = "refused" /\ why' = "dpi"
      BY <1>5, <2>3 DEF Assemble, Refused
    <3> QED BY <1>0, <2>1, <2>3, <3>1, Refuses
  <2> QED BY <2>2, <2>3
<1>6. CASE UNCHANGED why /\ phase' \notin {"refused", "allocate"}
  BY <1>0, <1>6, RefusalKept
<1>7. CASE ValidateImages
  BY <1>6, <1>7 DEF ValidateImages
<1>8. CASE NextStart
  BY <1>6, <1>8 DEF NextStart, plan
<1>9. CASE WalkStep
  BY <1>6, <1>9 DEF WalkStep, plan
<1>10. CASE EndWalk
  BY <1>6, <1>10 DEF EndWalk
<1>11. CASE Report
  BY <1>6, <1>11 DEF Report
<1>12. CASE UNCHANGED vars
  <2>1. UNCHANGED <<phase, why, outcome>>
    BY <1>12 DEF vars, plan, allocation
  <2> QED BY <1>0, <2>1, RefusalKept DEF RefusalInv
<1> QED
  BY <1>1, <1>2, <1>3, <1>4, <1>5, <1>7, <1>8, <1>9, <1>10, <1>11, <1>12 DEF Next

\* A mouse action that is written in lower case is a direct binding.
LEMMA MouseBinds ==
  ASSUME NEW a \in Bindings, SchemaAccepts[a], a.action = "mouse"
  PROVE  IsDirect(a)
<1>1. Normal(a) = a /\ ~IsAlias(a)
  BY DEF Normal, IsAlias
<1>2. AcceptsSimple(a) /\ Lower(a.action) = "mouse"
  BY SchemaUnfolds, Lowered
<1>3. a.command \in MouseMasks
  BY <1>1, <1>2 DEF AcceptsSimple
<1> QED BY <1>1, <1>3 DEF IsDirect

LEMMA OwnList ==
  ASSUME NEW s, SettingsOK(s), "dpi" \in DOMAIN s
  PROVE  /\ Len(s.dpi) \in 1 .. Slots
         /\ \A key \in DOMAIN s \intersect {"default_dpi", "shift_dpi"} :
              \E n \in DOMAIN s.dpi : s.dpi[n] = s[key]
<1>1. Len(s.dpi) \in 1 .. Slots
  BY SMT DEF SettingsOK
<1>2. ASSUME NEW key \in DOMAIN s \intersect {"default_dpi", "shift_dpi"}
      PROVE  \E n \in DOMAIN s.dpi : s.dpi[n] = s[key]
  BY Zenon DEF SettingsOK
<1> QED BY <1>1, <1>2, Zenon

\* The list of the configuration has the defaults of the configuration.
LEMMA OwnListHasDefaults ==
  ASSUME ConfigOK(config), config \in Configs, NEW p \in DOMAIN config.profiles,
         "dpi" \in DOMAIN Settings(p)
  PROVE  DpiListed(p)
<1>1. SettingsOK(Settings(p))
  BY Zenon DEF ConfigOK, BlockOK, Settings
<1>2. Settings(p).dpi \in Seq(Int)
  BY ConfigsAssumption DEF Settings
<1>3. PICK s : s = Settings(p)
  OBVIOUS
<1>4. PICK d : d = s.dpi
  OBVIOUS
<1>5. d \in Seq(Int) /\ "dpi" \in DOMAIN s
  BY <1>2, <1>3, <1>4
<1>6. Len(d) \in 1 .. Slots
  BY <1>1, <1>3, <1>4, <1>5, OwnList
<1>7. DOMAIN d = 1 .. Len(d) /\ Len(d) \in Nat
  BY <1>5, LenProperties
<1>8. EffectiveDpi(p) = [n \in 1 .. Slots |-> IF n <= Len(d) THEN d[n] ELSE 0]
  BY <1>3, <1>4, Zenon DEF EffectiveDpi
<1>9. ASSUME NEW key \in DOMAIN s \intersect {"default_dpi", "shift_dpi"}
      PROVE  SlotsOf(p, key) # {}
  <2>1. \E n \in DOMAIN s.dpi : s.dpi[n] = s[key]
    BY <1>1, <1>3, <1>5, <1>9, OwnList
  <2>2. PICK n \in DOMAIN d : d[n] = s[key]
    BY <2>1, <1>4
  <2>3. n \in 1 .. Slots /\ n <= Len(d)
    BY <1>6, <1>7, <2>2 DEF Slots
  <2>4. EffectiveDpi(p)[n] = s[key]
    BY <1>8, <2>2, <2>3
  <2>5. n \in SlotsOf(p, key)
    BY <1>3, <2>3, <2>4 DEF SlotsOf
  <2> QED BY <2>5
<1> QED BY <1>3, <1>9, Zenon DEF DpiListed

LEMMA EnoughRefused == RefusalInv => SchemaIsEnough
<1> SUFFICES ASSUME RefusalInv, phase = "refused", ConfigOK(config)
             PROVE  \/ why = "exhausted"
                    \/ why = "dpi" /\ \E p \in DOMAIN config.profiles :
                                        "dpi" \notin DOMAIN Settings(p) /\ ~DpiListed(p)
                    \/ why = "action" /\ \E r \in Bound :
                         \/ HasUntypable[ActionOf(r)]
                         \/ Lower(ActionOf(r).action) = "mouse" /\ ActionOf(r).action # "mouse"
  BY DEF SchemaIsEnough
<1>1. config \in Configs
  BY DEF RefusalInv
<1>2. CASE why = "exhausted"
  BY <1>2
<1>3. CASE why = "dpi" /\ \E p \in DOMAIN config.profiles : ~DpiListed(p)
  BY <1>1, <1>3, OwnListHasDefaults
<1>4. CASE why = "action" /\ \E r \in Bound : ~Binds(ActionOf(r))
  <2>1. PICK r \in Bound : ~Binds(ActionOf(r))
    BY <1>4
  <2>2. ActionOf(r) \in Bindings /\ SchemaAccepts[ActionOf(r)]
    BY <1>1, BoundAccepted
  <2>3. ~Compiles[ActionOf(r)] /\ ActionOf(r).action # "mouse"
    BY <2>1, <2>2, MouseBinds DEF Binds
  <2>4. HasUntypable[ActionOf(r)] \/ Lower(ActionOf(r).action) = "mouse"
    BY <2>2, <2>3, AcceptedCompiles
  <2> QED BY <1>4, <2>3, <2>4
<1> QED BY <1>2, <1>3, <1>4 DEF RefusalInv

-----------------------------------------------------------------------------
(* What the validation finds in a plan                                       *)

\* What a profile of the plan leaves as the baseline has it.
Kept(p, r) ==
  r[1] = "NORMAL" /\ r[2] \notin DOMAIN Layer(p, "NORMAL") /\ r[2] # config.profiles[p].activator

Old(p) == golden.image.profiles[p]

SettledSettings(p, f) ==
  /\ f.rate \in Rates <=> "rate" \in DOMAIN Settings(p) \/ Old(p).rate \in Rates
  /\ f.default \in 0 .. Slots - 1 <=>
       "default_dpi" \in DOMAIN Settings(p) \/ Old(p).default \in 0 .. Slots - 1
  /\ f.shift \in 0 .. Slots - 1 <=>
       "shift_dpi" \in DOMAIN Settings(p) \/ Old(p).shift \in 0 .. Slots - 1

Harmless(b) == b.kind \in {"direct", "noop", "gshift"}

SettledRoute(p, r, b) ==
  LET q == <<p, r[1], r[2]>> IN
  /\ q \in MacroRoutes =>
       \E i \in DOMAIN start : b = Slot("macro", start[i]) /\ macros[i] = MacroOf(q)
  /\ Kept(p, r) => b = Neutral(Old(p).table[r])
  /\ q \notin MacroRoutes /\ ~Kept(p, r) => Harmless(b)

SettledInv ==
  /\ outcome = "done" /\ config \in Configs /\ ConfigOK(config)
  /\ image.enabled = {Safe} \union DOMAIN config.profiles /\ image.recovered
  /\ \A p \in Programmable : image.profiles[p].crc
  /\ \A p \in DOMAIN config.profiles : SettledSettings(p, image.profiles[p])
  /\ \A p \in DOMAIN config.profiles, r \in Routes :
       SettledRoute(p, r, image.profiles[p].table[r])

Doubtful ==
  \/ \E r \in MacroRoutes : MacroOf(r) = <<End>>
  \/ \E p \in DOMAIN config.profiles : Inherits(p)

VerifiedInv ==
  /\ config = NoConfig \/ golden \in Goldens
  /\ phase # "walk" => verdict = "idle"
  /\ phase = "walk" /\ verdict # "idle" => origin \in pending
  /\ Planned => SettledInv
  /\ Planned /\ phase \in {"walk", "report"} =>
       /\ defects # {} <=> Doubtful
       /\ \A a \in pending : \E i \in DOMAIN start : a = start[i]

\* Where a macro begins, nothing but the macro that only ends has its END.
LEMMA Beginning ==
  ASSUME StoreInv, ListInv, CodeInv, outcome = "done", NEW i \in DOMAIN start
  PROVE  Reachable(Slot("macro", start[i])) <=> macros[i] # <<End>>
<1>1. tok = 0 /\ LinkInv /\ StartInv
  BY DEF StoreInv, LayoutInv, SealedInv
<1>2. start[i] \in Global \X (0 .. PageData - 1)
  BY ElementOfSeq DEF StoreInv, CountInv, AllocationTypeOK
<1>3. PICK s \in Global, o \in 0 .. PageData - 1 : start[i] = <<s, o>>
  BY <1>2
<1>4. Reached(s, o, i, 1)
  BY <1>1, <1>3 DEF StartInv
<1>5. Cell(s, o, i, 1)
  BY <1>1, <1>4 DEF Reached, AtCursor
<1>6. InStore(<<s, o>>) /\ At(<<s, o>>) = pages[s][o]
  BY <1>4, LinkedPlace DEF Linked
<1>7. At(<<s, o>>).op = Op(macros[i][1])
  BY <1>5, <1>6 DEF Cell
<1>8. Finished(macros[i])
  <2>1. /\ start \in Seq(Global \X (0 .. PageData - 1)) /\ Len(start) = m - 1
        /\ m = Len(macros) + 1 /\ Len(macros) \in Nat
    BY <1>1, UniqueIsList DEF StoreInv, CountInv, AllocationTypeOK, ListInv
  <2>2. i \in 1 .. Len(macros)
    BY <2>1, LenProperties
  <2> QED BY <2>2 DEF CodeInv
<1>9. /\ macros[i] \in Seq(Instructions) /\ Len(macros[i]) \in Nat \ {0}
      /\ macros[i][Len(macros[i])] = End
      /\ macros[i][1] = End => Len(macros[i]) = 1
  <2>1. /\ Tokens(macros[i]) /\ Len(macros[i]) \in Nat \ {0}
        /\ \A n \in 1 .. Len(macros[i]) : macros[i][n] = End => n = Len(macros[i])
    BY <1>8, FinishedIsTokens
  <2>2. 1 \in 1 .. Len(macros[i])
    BY <2>1
  <2>3. macros[i] \in Seq(Instructions) /\ macros[i][Len(macros[i])] = End
    BY <2>1 DEF Tokens
  <2> QED BY <2>1, <2>2, <2>3
<1>10. macros[i][1] = End <=> macros[i] = <<End>>
  <2>1. <<End>>[1] = End
    OBVIOUS
  <2>2. ASSUME macros[i][1] = End PROVE macros[i] = <<End>>
    <3>1. macros[i] = [k \in 1 .. Len(macros[i]) |-> macros[i][k]]
      BY <1>9, LenProperties
    <3>2. macros[i] = [k \in 1 .. 1 |-> End]
      BY <1>9, <2>2, <3>1
    <3> QED BY <3>2
  <2> QED BY <2>1, <2>2
<1>11. Op(macros[i][1]) = "END" <=> macros[i][1] = End
  BY DEF Op
<1>12. Slot("macro", start[i]).place = <<s, o>>
  BY <1>3 DEF Slot
<1> QED BY <1>6, <1>7, <1>10, <1>11, <1>12 DEF Reachable

LEMMA NotInStore ==
  ASSUME NEW b, b.place[1] \notin Addressable
  PROVE  ~Reachable(b)
  BY DEF Reachable, InStore

LEMMA Kinds ==
  /\ \A b : Harmless(b) => SlotOK(b)
  /\ \A b : b.kind = "macro" => (SlotOK(b) <=> Reachable(b))
  /\ \A place : Slot("macro", place).kind = "macro"
  /\ SlotOK(Noop)
  BY DEF Harmless, SlotOK, Slot, Noop

\* What the baseline left in a slot is refused when it is not a binding, or
\* leads where no macro can be.
LEMMA KeptSlot ==
  ASSUME NEW b
  PROVE  ~SlotOK(Neutral(b)) <=>
           \/ b.kind \in {"unknown", "direct_unknown"}
           \/ b.kind = "macro" /\ b.place[1] \notin Addressable
<1>1. CASE b.kind = "macro" /\ b.place[1] \in Addressable
  BY <1>1, Kinds DEF Neutral
<1>2. CASE b.kind = "macro" /\ b.place[1] \notin Addressable
  <2>1. Neutral(b) = b /\ ~Reachable(b)
    BY <1>2, NotInStore DEF Neutral
  <2> QED BY <1>2, <2>1, Kinds
<1>3. CASE b.kind # "macro"
  <2>1. Neutral(b) = b
    BY <1>3 DEF Neutral
  <2> QED BY <1>3, <2>1 DEF SlotOK
<1> QED BY <1>1, <1>2, <1>3

LEMMA JudgedRoute ==
  ASSUME StoreInv, ListInv, CodeInv, SettledInv,
         NEW p \in DOMAIN config.profiles, NEW r \in Routes
  PROVE  ~SlotOK(image.profiles[p].table[r]) <=>
           \/ <<p, r[1], r[2]>> \in MacroRoutes /\ MacroOf(<<p, r[1], r[2]>>) = <<End>>
           \/ /\ Kept(p, r)
              /\ \/ Old(p).table[r].kind \in {"unknown", "direct_unknown"}
                 \/ Old(p).table[r].kind = "macro" /\ Old(p).table[r].place[1] \notin Addressable
<1> DEFINE q == <<p, r[1], r[2]>>
           b == image.profiles[p].table[r]
<1>1. SettledRoute(p, r, b)
  BY DEF SettledInv
<1>2. q \in MacroRoutes => ~Kept(p, r)
  BY DEF MacroRoutes, Bound, Kept
<1> HIDE DEF b
<1>3. CASE q \in MacroRoutes
  <2>1. PICK i \in DOMAIN start : b = Slot("macro", start[i]) /\ macros[i] = MacroOf(q)
    BY <1>1, <1>3 DEF SettledRoute
  <2>2. SlotOK(b) <=> Reachable(b)
    BY <2>1, Kinds
  <2>3. Reachable(b) <=> MacroOf(q) # <<End>>
    BY <2>1, Beginning DEF SettledInv
  <2> QED BY <1>2, <1>3, <2>2, <2>3 DEF b
<1>4. CASE Kept(p, r)
  <2>1. b = Neutral(Old(p).table[r])
    BY <1>1, <1>4 DEF SettledRoute
  <2>2. q \notin MacroRoutes
    BY <1>2, <1>4
  <2>3. ~SlotOK(b) <=> \/ Old(p).table[r].kind \in {"unknown", "direct_unknown"}
                       \/ Old(p).table[r].kind = "macro" /\ Old(p).table[r].place[1] \notin Addressable
    BY <2>1, KeptSlot
  <2> QED BY <1>4, <2>2, <2>3 DEF b
<1>5. CASE q \notin MacroRoutes /\ ~Kept(p, r)
  <2>1. SlotOK(b)
    BY <1>1, <1>5, Kinds DEF SettledRoute
  <2> QED BY <1>5, <2>1 DEF b
<1> QED BY <1>3, <1>4, <1>5

\* A profile of the plan is found wanting exactly for what it keeps, or for an
\* empty macro of its own.
LEMMA JudgedProfile ==
  ASSUME StoreInv, ListInv, CodeInv, SettledInv, NEW p \in DOMAIN config.profiles
  PROVE  ProfileDefects(p) # {} <=>
           \/ Inherits(p)
           \/ \E r \in Routes : /\ <<p, r[1], r[2]>> \in MacroRoutes
                               /\ MacroOf(<<p, r[1], r[2]>>) = <<End>>
<1> DEFINE f == image.profiles[p]
<1>1. SettledSettings(p, f)
  BY DEF SettledInv
<1>2. ProfileDefects(p) # {} <=>
        \/ f.rate \notin Rates
        \/ f.default \notin 0 .. Slots - 1
        \/ f.shift \notin 0 .. Slots - 1
        \/ \E r \in Routes : ~SlotOK(f.table[r])
  <2> HIDE DEF f
  <2> DEFINE wrong == {f.default, f.shift} \ (0 .. Slots - 1)
             bad == {q \in Routes : ~SlotOK(f.table[q])}
             odd == {f.rate} \ Rates
  <2>1. ProfileDefects(p) = {<<"rate", p>> : x \in odd} \union {<<"index", p, i>> : i \in wrong}
                            \union {<<"route", p, r>> : r \in bad}
    BY DEF ProfileDefects, f
  <2>2. wrong # {} <=> f.default \notin 0 .. Slots - 1 \/ f.shift \notin 0 .. Slots - 1
    OBVIOUS
  <2>3. odd # {} <=> f.rate \notin Rates
    OBVIOUS
  <2>4. bad # {} <=> \E r \in Routes : ~SlotOK(f.table[r])
    OBVIOUS
  <2> HIDE DEF wrong, bad, odd
  <2>5. ProfileDefects(p) # {} <=> odd # {} \/ wrong # {} \/ bad # {}
    BY <2>1
  <2> QED BY <2>2, <2>3, <2>4, <2>5
<1>3. Inherits(p) <=>
        \/ Old(p).rate \notin Rates /\ "rate" \notin DOMAIN Settings(p)
        \/ Old(p).default \notin 0 .. Slots - 1 /\ "default_dpi" \notin DOMAIN Settings(p)
        \/ Old(p).shift \notin 0 .. Slots - 1 /\ "shift_dpi" \notin DOMAIN Settings(p)
        \/ \E t \in TargetSet :
             /\ t \notin DOMAIN Layer(p, "NORMAL") /\ t # config.profiles[p].activator
             /\ \/ Old(p).table[<<"NORMAL", t>>].kind \in {"unknown", "direct_unknown"}
                \/ /\ Old(p).table[<<"NORMAL", t>>].kind = "macro"
                   /\ Old(p).table[<<"NORMAL", t>>].place[1] \notin Addressable
  BY DEF Inherits, Old
<1> DEFINE Left(r) == \/ Old(p).table[r].kind \in {"unknown", "direct_unknown"}
                      \/ Old(p).table[r].kind = "macro" /\ Old(p).table[r].place[1] \notin Addressable
<1>4. (\E r \in Routes : Kept(p, r) /\ Left(r)) <=>
        \E t \in TargetSet :
          /\ t \notin DOMAIN Layer(p, "NORMAL") /\ t # config.profiles[p].activator
          /\ Left(<<"NORMAL", t>>)
  <2> HIDE DEF Left
  <2>1. ASSUME NEW r \in Routes, Kept(p, r), Left(r)
        PROVE  \E t \in TargetSet :
          /\ t \notin DOMAIN Layer(p, "NORMAL") /\ t # config.profiles[p].activator
          /\ Left(<<"NORMAL", t>>)
    <3>1. r[2] \in TargetSet /\ r = <<"NORMAL", r[2]>>
      BY <2>1 DEF Kept, Routes
    <3> QED BY <2>1, <3>1 DEF Kept
  <2>2. ASSUME NEW t \in TargetSet, t \notin DOMAIN Layer(p, "NORMAL"),
               t # config.profiles[p].activator, Left(<<"NORMAL", t>>)
        PROVE  \E r \in Routes : Kept(p, r) /\ Left(r)
    <3>1. "NORMAL" \in Layers
      BY DEF Layers
    <3>2. PICK r \in Routes : r = <<"NORMAL", t>> /\ r[1] = "NORMAL" /\ r[2] = t
      BY <3>1, RouteOf
    <3> QED BY <2>2, <3>2 DEF Kept
  <2> QED BY <2>1, <2>2
<1>5. \A r \in Routes : ~SlotOK(f.table[r]) <=>
        \/ <<p, r[1], r[2]>> \in MacroRoutes /\ MacroOf(<<p, r[1], r[2]>>) = <<End>>
        \/ Kept(p, r) /\ Left(r)
  BY JudgedRoute
<1> HIDE DEF Left, f
<1>6. (\E r \in Routes : ~SlotOK(f.table[r])) <=>
        \/ \E r \in Routes : <<p, r[1], r[2]>> \in MacroRoutes /\ MacroOf(<<p, r[1], r[2]>>) = <<End>>
        \/ \E r \in Routes : Kept(p, r) /\ Left(r)
  BY <1>5
<1>7. Inherits(p) <=>
        \/ f.rate \notin Rates \/ f.default \notin 0 .. Slots - 1 \/ f.shift \notin 0 .. Slots - 1
        \/ \E r \in Routes : Kept(p, r) /\ Left(r)
  BY <1>1, <1>3, <1>4, Zenon DEF SettledSettings, Left
<1> QED BY <1>2, <1>6, <1>7

LEMMA Judged ==
  ASSUME StoreInv, ListInv, CodeInv, SettledInv, ValidateImages
  PROVE  defects' # {} <=> Doubtful
<1>1. ConfigOK(config) /\ image.enabled = {Safe} \union DOMAIN config.profiles
  BY DEF SettledInv
<1>2. DOMAIN config.profiles \subseteq Programmable /\ 2 \in DOMAIN config.profiles
  BY <1>1, Zenon DEF ConfigOK
<1>3. {Safe, 2} \subseteq image.enabled
  BY <1>1, <1>2
<1>4. Enabled = DOMAIN config.profiles
  BY <1>1, <1>2, <1>3, ProfilesAssumption DEF Enabled
<1>5. GlobalDefects = {}
  BY <1>3 DEF GlobalDefects, SettledInv
<1>6. defects' = UNION {ProfileDefects(p) : p \in DOMAIN config.profiles}
  BY <1>4, <1>5 DEF ValidateImages
<1>7. defects' # {} <=> \E p \in DOMAIN config.profiles : ProfileDefects(p) # {}
  BY <1>6
<1> DEFINE Ends(p, r) == <<p, r[1], r[2]>> \in MacroRoutes /\ MacroOf(<<p, r[1], r[2]>>) = <<End>>
<1>8. \A p \in DOMAIN config.profiles :
        ProfileDefects(p) # {} <=> Inherits(p) \/ \E r \in Routes : Ends(p, r)
  BY JudgedProfile
<1>9. (\E p \in DOMAIN config.profiles, r \in Routes : Ends(p, r)) <=>
        \E q \in MacroRoutes : MacroOf(q) = <<End>>
  <2>1. ASSUME NEW q \in MacroRoutes, MacroOf(q) = <<End>>
        PROVE  \E p \in DOMAIN config.profiles, r \in Routes : Ends(p, r)
    <3>1. PICK p \in DOMAIN config.profiles, l \in Layers, t \in TargetSet : q = <<p, l, t>>
      BY DEF MacroRoutes, Bound
    <3>2. PICK r \in Routes : r = <<l, t>> /\ r[1] = l /\ r[2] = t
      BY <3>1, RouteOf
    <3>3. q = <<p, r[1], r[2]>>
      BY <3>1, <3>2
    <3> QED BY <2>1, <3>3
  <2> QED BY <2>1
<1> HIDE DEF Ends
<1> QED BY <1>7, <1>8, <1>9 DEF Doubtful

\* What is walked are the macros of the plan.
LEMMA JudgedStarts ==
  ASSUME SettledInv, ValidateImages, NEW a \in pending'
  PROVE  \E i \in DOMAIN start : a = start[i]
<1>1. PICK p \in Enabled, r \in Routes :
        /\ a = image.profiles[p].table[r].place /\ image.profiles[p].table[r].kind = "macro"
        /\ Reachable(image.profiles[p].table[r])
  BY DEF ValidateImages
<1>2. p \in DOMAIN config.profiles
  BY DEF Enabled, SettledInv
<1>3. PICK b : b = image.profiles[p].table[r]
  OBVIOUS
<1>4. SettledRoute(p, r, b)
  BY <1>2, <1>3 DEF SettledInv
<1>5. b.kind = "macro" /\ b.place[1] \in Addressable /\ a = b.place
  BY <1>1, <1>3 DEF Reachable, InStore
<1>6. ~Harmless(b)
  BY <1>5 DEF Harmless
<1>7. CASE <<p, r[1], r[2]>> \in MacroRoutes
  <2>1. PICK i \in DOMAIN start : b = Slot("macro", start[i])
    BY <1>4, <1>7 DEF SettledRoute
  <2> QED BY <1>5, <2>1 DEF Slot
<1>8. CASE Kept(p, r)
  <2>1. b = Neutral(Old(p).table[r])
    BY <1>4, <1>8 DEF SettledRoute
  <2>2. Noop.kind # "macro"
    BY DEF Noop, Slot
  <2> QED BY <1>5, <2>1, <2>2 DEF Neutral
<1> QED BY <1>4, <1>6, <1>7, <1>8 DEF SettledRoute

LEMMA SameSettled ==
  ASSUME UNCHANGED <<config, golden, macros, start>>
  PROVE  /\ Doubtful' <=> Doubtful
         /\ \A p, f : SettledSettings(p, f)' <=> SettledSettings(p, f)
         /\ \A p, r, b : SettledRoute(p, r, b)' <=> SettledRoute(p, r, b)
<1>1. Bound' = Bound /\ MacroRoutes' = MacroRoutes /\ \A r : MacroOf(r)' = MacroOf(r)
  BY SameRoutes
<1>2. \A p : Settings(p)' = Settings(p) /\ (Inherits(p)' <=> Inherits(p))
  BY SameSettings
<1>3. \A p : Old(p)' = Old(p)
  BY DEF Old
<1>4. \A p, r : Kept(p, r)' <=> Kept(p, r)
  BY DEF Kept, Layer
<1>5. Doubtful' <=> Doubtful
  BY <1>1, <1>2 DEF Doubtful
<1>6. \A p, f : SettledSettings(p, f)' <=> SettledSettings(p, f)
  BY <1>2, <1>3 DEF SettledSettings
<1>7. \A b : Neutral(b)' = Neutral(b)
  BY DEF Neutral
<1>8. \A p, r, b : SettledRoute(p, r, b)' <=> SettledRoute(p, r, b)
  BY <1>1, <1>3, <1>4, <1>7 DEF SettledRoute
<1> QED BY <1>5, <1>6, <1>8

LEMMA SettledKept ==
  ASSUME SettledInv, UNCHANGED <<config, golden, macros, start, image, outcome>>
  PROVE  SettledInv'
  BY SameSettled DEF SettledInv

LEMMA SelectedSlot ==
  ASSUME NEW p, NEW key, key \in DOMAIN Settings(p), NEW old, SlotsOf(p, key) # {}
  PROVE  Selected(p, key, old) \in 0 .. Slots - 1
<1>1. SlotsOf(p, key) \in SUBSET (1 .. Slots)
  BY DEF SlotsOf
<1>2. PICK S \in SUBSET Nat : S = SlotsOf(p, key)
  BY <1>1 DEF Slots
<1>3. PICK n \in S : \A k \in S : n <= k
  BY <1>2, Least
<1>4. /\ n - 1 \in 0 .. Slots - 1 /\ (n - 1) + 1 \in S
      /\ \A k \in S : (n - 1) + 1 <= k
  BY <1>1, <1>2, <1>3 DEF Slots
<1>5. \E l \in 0 .. Slots - 1 : l + 1 \in S /\ \A k \in S : l + 1 <= k
  BY <1>4
<1>6. Selected(p, key, old) =
        CHOOSE l \in 0 .. Slots - 1 : l + 1 \in S /\ \A k \in S : l + 1 <= k
  BY <1>2, Zenon DEF Selected
<1> QED BY <1>5, <1>6, Zenon

LEMMA SettingsSettle ==
  ASSUME ConfigOK(config), NEW p \in DOMAIN config.profiles, DpiListed(p)
  PROVE  SettledSettings(p, ProfileOf(p)) /\ ProfileOf(p).crc = TRUE
<1>1. SettingsOK(Settings(p))
  BY Zenon DEF ConfigOK, BlockOK, Settings
<1>2. "rate" \in DOMAIN Settings(p) => Settings(p).rate \in Rates
  BY <1>1, Zenon DEF SettingsOK
<1>3. /\ ProfileOf(p).rate = IF "rate" \in DOMAIN Settings(p) THEN Settings(p).rate ELSE Old(p).rate
      /\ ProfileOf(p).default = Selected(p, "default_dpi", Old(p).default)
      /\ ProfileOf(p).shift = Selected(p, "shift_dpi", Old(p).shift)
      /\ ProfileOf(p).crc = TRUE
  BY DEF ProfileOf, Old
<1>4. ASSUME NEW key \in {"default_dpi", "shift_dpi"}, NEW old
      PROVE  Selected(p, key, old) \in 0 .. Slots - 1 <=>
               key \in DOMAIN Settings(p) \/ old \in 0 .. Slots - 1
  <2>1. CASE key \in DOMAIN Settings(p)
    <3>1. SlotsOf(p, key) # {}
      BY <2>1 DEF DpiListed
    <3> QED BY <2>1, <3>1, SelectedSlot
  <2>2. CASE key \notin DOMAIN Settings(p)
    BY <2>2 DEF Selected
  <2> QED BY <2>1, <2>2
<1>5. ProfileOf(p).rate \in Rates <=> "rate" \in DOMAIN Settings(p) \/ Old(p).rate \in Rates
  BY <1>2, <1>3, Zenon
<1> QED BY <1>3, <1>4, <1>5 DEF SettledSettings

LEMMA RouteSettles ==
  ASSUME StoreInv, ListInv, outcome = "done", NEW p \in DOMAIN config.profiles, NEW r \in Routes
  PROVE  SettledRoute(p, r, Table(p)[r])
<1> DEFINE q == <<p, r[1], r[2]>>
<1>1. Table(p)[r] = IF q \in Bound
                    THEN IF IsDirect(ActionOf(q)) THEN Direct ELSE PointerOf(q)
                    ELSE IF r[1] = "GSHIFT" THEN Noop
                    ELSE IF r[2] = config.profiles[p].activator THEN GShift
                    ELSE Neutral(Old(p).table[r])
  BY Zenon DEF Table, Old
<1>2. Harmless(Direct) /\ Harmless(Noop) /\ Harmless(GShift)
  BY DEF Harmless, Direct, Noop, GShift, Slot
<1>3. q \in MacroRoutes <=> q \in Bound /\ ~IsDirect(ActionOf(q))
  BY DEF MacroRoutes
<1>4. r[1] \in {"NORMAL", "GSHIFT"} /\ r[2] \in TargetSet
  BY DEF Routes, Layers
<1>5. Kept(p, r) <=> q \notin Bound /\ r[1] # "GSHIFT" /\ r[2] # config.profiles[p].activator
  <2>1. q \in Bound <=> r[2] \in DOMAIN Layer(p, r[1])
    BY <1>4 DEF Bound, Layers
  <2> QED BY <1>4, <2>1 DEF Kept
<1> HIDE DEF q
<1>6. CASE q \in MacroRoutes
  <2>1. PICK i \in DOMAIN start : PointerOf(q) = Slot("macro", start[i]) /\ macros[i] = MacroOf(q)
    BY <1>6, Pointer
  <2>2. Table(p)[r] = Slot("macro", start[i]) /\ ~Kept(p, r)
    BY <1>1, <1>3, <1>5, <1>6, <2>1
  <2> QED BY <1>6, <2>1, <2>2 DEF SettledRoute, q
<1>7. CASE q \notin MacroRoutes
  BY <1>1, <1>2, <1>3, <1>5, <1>7 DEF SettledRoute, q
<1> QED BY <1>6, <1>7

\* The plan that is assembled is settled.
LEMMA Settles ==
  ASSUME StoreInv, ListInv, ImageInv, Assemble, phase' = "validate",
         config = NoConfig \/ golden \in Goldens
  PROVE  SettledInv'
<1>1. /\ image'.enabled = {Safe} \union DOMAIN config.profiles
      /\ \A p \in Programmable : image'.profiles[p] = ProfileOf(p)
      /\ \A p \in Programmable \ DOMAIN config.profiles :
           ProfileOf(p) = golden.image.profiles[p]
      /\ \A p \in DOMAIN config.profiles : ProfileOf(p).table = Table(p)
      /\ outcome = "done" /\ ConfigOK(config) /\ config \in Configs
      /\ UNCHANGED <<config, golden, macros, start, pending>>
  BY Assembled
<1>2. DOMAIN config.profiles \subseteq Programmable /\ 2 \in DOMAIN config.profiles
  BY <1>1, Zenon DEF ConfigOK
<1>3. golden \in Goldens
  <2>1. NoConfig.profiles = <<>> /\ DOMAIN <<>> = {}
    BY DEF NoConfig
  <2> QED BY <1>2, <2>1
<1>4. golden.image.recovered /\ \A p \in Programmable : golden.image.profiles[p].crc
  BY <1>3, GoldensAssumption
<1>5. /\ \A p \in DOMAIN config.profiles : DpiListed(p)
      /\ image' = [golden.image EXCEPT
               !.profiles = [p \in Programmable |-> ProfileOf(p)],
               !.enabled = {Safe, 2} \union DOMAIN config.profiles]
      /\ outcome' = outcome
  <2>1. UNCHANGED allocation
    BY Zenon DEF Assemble
  <2>2. outcome' = outcome
    BY <2>1 DEF allocation
  <2> QED BY <2>2, Zenon DEF Assemble, Refused
<1>6. image'.recovered
  <2>1. golden.image \in Images
    BY DEF ImageInv, Memories
  <2>2. image'.recovered = golden.image.recovered
    BY <1>5, <2>1 DEF Images
  <2> QED BY <1>4, <2>2
<1>7. ASSUME NEW p \in DOMAIN config.profiles
      PROVE  /\ SettledSettings(p, image'.profiles[p]) /\ image'.profiles[p].crc
             /\ image'.profiles[p].table = Table(p)
  BY <1>1, <1>2, <1>5, SettingsSettle
<1>8. \A p \in Programmable : image'.profiles[p].crc
  BY <1>1, <1>4, <1>7
<1>9. \A p \in DOMAIN config.profiles, r \in Routes : SettledRoute(p, r, image'.profiles[p].table[r])
  BY <1>1, <1>7, RouteSettles
<1>10. /\ \A p, f : SettledSettings(p, f)' <=> SettledSettings(p, f)
       /\ \A p, r, b : SettledRoute(p, r, b)' <=> SettledRoute(p, r, b)
  BY <1>1, SameSettled
<1> QED BY <1>1, <1>5, <1>6, <1>7, <1>8, <1>9, <1>10 DEF SettledInv

\* Of a plan, nothing but its own macros is walked, and none of them is refused.
LEMMA NoMoreDefects ==
  ASSUME StoreInv, PlayInv, VerifiedInv, Planned, EndWalk
  PROVE  defects' = defects
<1>1. origin \in pending /\ phase = "walk" /\ outcome = "done"
  BY DEF EndWalk, VerifiedInv, SettledInv
<1>2. PICK i \in DOMAIN start : origin = start[i]
  BY <1>1 DEF VerifiedInv
<1>3. verdict = "accepted"
  BY <1>1, <1>2 DEF EndWalk, PlayInv, WalkInv, OwnInv
<1> QED BY <1>3 DEF EndWalk

LEMMA VerifiedStep ==
  StoreInv /\ PlayInv /\ ListInv /\ ImageInv /\ CodeInv /\ VerifiedInv /\ [Next]_vars => VerifiedInv'
<1> SUFFICES ASSUME StoreInv, PlayInv, ListInv, ImageInv, CodeInv, VerifiedInv, [Next]_vars
             PROVE  VerifiedInv'
  OBVIOUS
<1>0. UNCHANGED <<config, golden>>
  BY ConfigFixed
<1>1. ASSUME phase' \notin {"validate", "walk", "report"}, verdict' = "idle"
      PROVE  VerifiedInv'
  BY <1>0, <1>1 DEF VerifiedInv, Planned
<1>2. ASSUME UNCHANGED <<allocation, image>>, phase \in {"validate", "walk", "report"},
             phase' # "walk" => verdict' = "idle",
             phase' = "walk" /\ verdict' # "idle" => origin' \in pending',
             Planned /\ phase' \in {"walk", "report"} =>
               /\ defects' # {} <=> Doubtful
               /\ \A a \in pending' : \E i \in DOMAIN start : a = start[i]
      PROVE  VerifiedInv'
  <2>1. UNCHANGED <<macros, start, outcome>>
    BY <1>2 DEF allocation, ledger
  <2>2. Doubtful' <=> Doubtful
    BY <1>0, <2>1, SameSettled
  <2>3. Planned' => Planned
    BY <1>0, <1>2 DEF Planned
  <2>4. Planned' => SettledInv'
    BY <1>0, <1>2, <2>1, <2>3, SettledKept DEF VerifiedInv
  <2> QED BY <1>0, <1>2, <2>1, <2>2, <2>3, <2>4 DEF VerifiedInv
<1>3. CASE ValidateConfig
  BY <1>1, <1>3 DEF ValidateConfig, Refused, VerifiedInv, walk
<1>4. CASE Build
  BY <1>1, <1>4 DEF Build, Refused, VerifiedInv, walk
<1>5. CASE AllocateStep
  BY <1>1, <1>5 DEF AllocateStep, plan, VerifiedInv, walk
<1>6. CASE AllocationFails
  BY <1>1, <1>6 DEF AllocationFails, Refused, VerifiedInv, walk
<1>7. CASE Assemble
  <2>1. phase = "allocate" /\ verdict' = "idle"
    BY <1>7 DEF Assemble, VerifiedInv, walk
  <2>2. CASE phase' = "validate"
    <3>1. SettledInv'
      BY <1>7, <2>2, Settles DEF VerifiedInv
    <3> QED BY <1>0, <2>1, <2>2, <3>1 DEF VerifiedInv
  <2>3. CASE phase' # "validate"
    BY <1>1, <1>7, <2>1, <2>3 DEF Assemble, Refused
  <2> QED BY <2>2, <2>3
<1>8. CASE ValidateImages
  <2>1. /\ phase = "validate" /\ UNCHANGED <<allocation, image>> /\ verdict' = "idle"
    BY <1>8 DEF ValidateImages, VerifiedInv, walk
  <2>2. ASSUME Planned
        PROVE  /\ defects' # {} <=> Doubtful
               /\ \A a \in pending' : \E i \in DOMAIN start : a = start[i]
    BY <1>8, <2>2, Judged, JudgedStarts DEF VerifiedInv
  <2> QED BY <1>2, <2>1, <2>2
<1>9. CASE NextStart
  <2>1. PICK a \in pending : StartWalk(a)
    BY <1>9 DEF NextStart
  <2>2. origin' = a /\ phase = "walk" /\ UNCHANGED <<allocation, image, phase, pending, defects>>
    BY <1>9, <2>1 DEF NextStart, StartWalk, plan
  <2> QED BY <1>2, <2>1, <2>2 DEF VerifiedInv
<1>10. CASE WalkStep
  <2>1. phase = "walk" /\ Walk /\ UNCHANGED <<allocation, image, phase, pending, defects>>
    BY <1>10 DEF WalkStep, plan
  <2>2. origin' = origin /\ verdict = "walking"
    BY <2>1 DEF Walk, Refuse
  <2> QED BY <1>2, <2>1, <2>2 DEF VerifiedInv
<1>11. CASE EndWalk
  <2>1. /\ phase = "walk" /\ phase' = "walk" /\ UNCHANGED <<allocation, image>>
        /\ verdict' = "idle" /\ pending' \subseteq pending
    BY <1>11 DEF EndWalk
  <2>2. Planned => defects' = defects
    BY <1>11, NoMoreDefects
  <2> QED BY <1>2, <2>1, <2>2 DEF VerifiedInv
<1>12. CASE Report
  <2>1. /\ phase = "walk" /\ UNCHANGED <<allocation, image, pending, defects>> /\ verdict' = "idle"
    BY <1>12 DEF Report, walk
  <2> QED BY <1>2, <2>1 DEF VerifiedInv
<1>13. CASE UNCHANGED vars
  <2>1. UNCHANGED <<phase, image, pending, defects, origin, verdict, allocation>>
    BY <1>13 DEF vars, plan, walk
  <2>2. CASE phase \in {"validate", "walk", "report"}
    BY <1>2, <2>1, <2>2 DEF VerifiedInv
  <2>3. CASE phase \notin {"validate", "walk", "report"}
    BY <1>1, <2>1, <2>3 DEF VerifiedInv
  <2> QED BY <2>2, <2>3
<1> QED
  BY <1>3, <1>4, <1>5, <1>6, <1>7, <1>8, <1>9, <1>10, <1>11, <1>12, <1>13 DEF Next

-----------------------------------------------------------------------------
(* What the configuration comes to                                           *)

LEMMA CodeInvariance == Spec => []CodeInv
<1>1. Init => CodeInv
  BY DEF Init, AllocationInit, CodeInv
<1>2. PictureInv => ListInv
  BY DEF PictureInv
<1> QED
  BY <1>1, <1>2, CodeStep, StoreInvariance, PictureInvariance, PTL DEF Spec

LEMMA RefusalInvariance == Spec => []RefusalInv
<1>1. Init => RefusalInv
  BY DEF Init, RefusalInv
<1>2. PictureInv => ListInv
  BY DEF PictureInv
<1> QED
  BY <1>1, <1>2, RefusalStep, StoreInvariance, PictureInvariance, CodeInvariance, PTL DEF Spec

LEMMA VerifiedInvariance == Spec => []VerifiedInv
<1>1. Init => VerifiedInv
  BY DEF Init, WalkInit, VerifiedInv, Planned
<1>2. PictureInv => ListInv /\ ImageInv
  BY DEF PictureInv
<1> QED
  BY <1>1, <1>2, VerifiedStep, StoreInvariance, PlayInvariance, PictureInvariance, CodeInvariance,
     PTL DEF Spec

\* A macro of the compiler that has been played leaves no key and no consumer
\* control held (compile_hotkey, compile_text, compile_consumer).
THEOREM MacrosRelease == Spec => []NothingHeld
<1>1. PictureInv => ListInv
  BY DEF PictureInv
<1>2. PlayInv => WalkInv
  BY DEF PlayInv
<1> QED
  BY <1>1, <1>2, HoldsNothing, StoreInvariance, PlayInvariance, PictureInvariance, CodeInvariance,
     PTL

\* What the schema takes is refused later for what only the compiler can know:
\* the layout, the effective DPI list, the room, and a mouse action that is not
\* written in lower case (validate_config against build_plan).
THEOREM SchemaSuffices == Spec => []SchemaIsEnough
<1> QED
  BY EnoughRefused, RefusalInvariance, PTL

\* The validation after an apply finds defects in a plan for an empty macro, or
\* for what an enabled profile keeps of a part of the baseline that was
\* disabled, and then always (validate_images against build_plan).
THEOREM RefusalsAreKnown == Spec => []OnlyKnownRefusals
<1>1. VerifiedInv => OnlyKnownRefusals
  BY DEF VerifiedInv, OnlyKnownRefusals, Doubtful
<1> QED
  BY <1>1, VerifiedInvariance, PTL

-----------------------------------------------------------------------------
(* Planning and validating come to an end                                    *)

\* The stages that are left, and the turns that are left of the two loops that
\* the compiler and the validator make in one of them.
Stages ==
  [config |-> 5, build |-> 4, allocate |-> 3, validate |-> 2, walk |-> 1,
   report |-> 0, refused |-> 0]

\* A macro is begun and ended once, and a page is left once.
PlacingLeft ==
  IF outcome = "busy"
  THEN 2 * (Len(macros) + 1 - m) + (IF tok = 0 THEN 1 ELSE 0) + (GlobalLast - sector)
  ELSE 0

\* An instruction is read once.
WalkingLeft ==
  IF verdict = "idle" THEN MachineSteps + 2
  ELSE IF verdict = "walking" THEN MachineSteps + 1 - Cardinality(seen)
  ELSE 1

PlanningIsShort ==
  /\ phase = "allocate" /\ outcome = "busy" =>
       PlacingLeft \in 0 .. 2 * Len(macros) + Cardinality(Global)
  /\ phase = "walk" =>
       /\ Cardinality(pending) \in 0 .. Cardinality(AllRoutes)
       /\ WalkingLeft \in 1 .. MachineSteps + 2

PlanningFalls ==
  [][\/ Stages[phase'] < Stages[phase]
     \/ phase = "allocate" /\ phase' = "allocate" /\ PlacingLeft' < PlacingLeft
     \/ /\ phase = "walk" /\ phase' = "walk"
        /\ \/ Cardinality(pending') < Cardinality(pending)
           \/ pending' = pending /\ WalkingLeft' < WalkingLeft]_vars

LEMMA PlacingBounded ==
  ASSUME StoreInv, ListInv, outcome = "busy"
  PROVE  PlacingLeft \in 0 .. 2 * Len(macros) + Cardinality(Global)
<1>1. PICK l \in Nat : l = Len(macros) /\ m <= l + 1 /\ m \in Nat \ {0}
  BY UniqueIsList DEF ListInv, StoreInv, CountInv, AllocationTypeOK
<1>2. /\ sector \in Nat /\ GlobalFirst <= sector /\ sector <= GlobalLast
      /\ GlobalFirst \in Nat /\ GlobalLast \in Nat
  BY Numbers, Store DEF StoreInv, CountInv
<1>3. Cardinality(Global) = GlobalLast - GlobalFirst + 1
  BY <1>2, IntervalSize DEF Global
<1>4. PICK b \in {0, 1} : b = IF tok = 0 THEN 1 ELSE 0
  OBVIOUS
<1>5. PlacingLeft = 2 * (l + 1 - m) + b + (GlobalLast - sector)
  BY <1>1, <1>4 DEF PlacingLeft
<1>6. 2 * (l + 1 - m) + b + (GlobalLast - sector) \in 0 .. 2 * l + (GlobalLast - GlobalFirst + 1)
  BY <1>1, <1>2, <1>4
<1> QED BY <1>1, <1>3, <1>5, <1>6

LEMMA PlacingFalls ==
  ASSUME StoreInv, ListInv, Allocation
  PROVE  PlacingLeft' < PlacingLeft
<1>1. outcome = "busy"
  BY DEF Allocation, BeginMacro, PlaceRest, PlaceFragment, MoveOn, Seal
<1>2. PICK l \in Nat : l = Len(macros) /\ m <= l + 1 /\ (tok > 0 => m <= l)
                       /\ m \in Nat \ {0} /\ tok \in Nat
  BY <1>1, UniqueIsList DEF ListInv, StoreInv, CountInv, AllocationTypeOK
<1>3. sector \in Nat /\ sector <= GlobalLast /\ GlobalLast \in Nat
  BY Numbers, Store DEF StoreInv, CountInv
<1>4. PICK b \in {0, 1} : b = IF tok = 0 THEN 1 ELSE 0
  OBVIOUS
<1>5. PlacingLeft = 2 * (l + 1 - m) + b + (GlobalLast - sector)
  BY <1>1, <1>2, <1>4 DEF PlacingLeft
<1>6. CASE outcome' # "busy"
  <2>1. PlacingLeft' = 0
    BY <1>6 DEF PlacingLeft
  <2>2. 2 * (l + 1 - m) + b + (GlobalLast - sector) > 0
    BY <1>2, <1>3, <1>4
  <2> QED BY <1>5, <2>1, <2>2
<1>7. ASSUME outcome' = "busy", macros' = macros, NEW n \in Nat, n = m', NEW c \in {0, 1},
             c = (IF tok' = 0 THEN 1 ELSE 0), NEW s \in Nat, s = sector',
             2 * n - c + s > 2 * m - b + sector
      PROVE  PlacingLeft' < PlacingLeft
  <2>1. PlacingLeft' = 2 * (l + 1 - n) + c + (GlobalLast - s)
    BY <1>2, <1>7 DEF PlacingLeft
  <2>2. \A d \in Nat, e \in {0, 1}, t \in Nat : 2 * d - e + t > 2 * m - b + sector =>
          2 * (l + 1 - d) + e + (GlobalLast - t) < 2 * (l + 1 - m) + b + (GlobalLast - sector)
    BY <1>2, <1>3, <1>4
  <2>3. 2 * (l + 1 - n) + c + (GlobalLast - s) < 2 * (l + 1 - m) + b + (GlobalLast - sector)
    BY <1>7, <2>2
  <2> QED BY <1>5, <2>1, <2>3
<1>8. CASE outcome' = "busy" /\ BeginMacro
  <2>1. /\ macros' = macros /\ m' = m /\ tok' = 1 /\ tok = 0
        /\ sector' \in {sector, sector + 1}
    BY <1>8 DEF BeginMacro, GiveUp
  <2>2. PICK s \in Nat : s = sector' /\ s >= sector
    BY <1>3, <2>1
  <2>3. b = 1
    BY <1>4, <2>1
  <2>4. \A t \in Nat : t >= sector => 2 * m - 0 + t > 2 * m - 1 + sector
    BY <1>2, <1>3
  <2>5. 2 * m - 0 + s > 2 * m - b + sector
    BY <2>2, <2>3, <2>4
  <2> QED BY <1>2, <1>7, <1>8, <2>1, <2>2, <2>5
<1>9. CASE outcome' = "busy" /\ PlaceRest
  <2>1. /\ macros' = macros /\ m' = m + 1 /\ tok' = 0 /\ tok > 0 /\ sector' = sector
    BY <1>9 DEF PlaceRest
  <2>2. 2 * (m + 1) - 1 + sector > 2 * m - 0 + sector /\ b = 0 /\ m + 1 \in Nat
    BY <1>2, <1>3, <1>4, <2>1
  <2> QED BY <1>3, <1>7, <1>9, <2>1, <2>2
<1>10. CASE outcome' = "busy" /\ (PlaceFragment \/ MoveOn)
  <2>1. /\ macros' = macros /\ m' = m /\ tok > 0 /\ sector' = sector + 1
        /\ tok' = tok \/ tok' = LastFit + 1
    BY <1>10 DEF PlaceFragment, MoveOn, GiveUp
  <2>2. tok' # 0
    <3>1. CASE PlaceFragment
      <4>1. LastFit \in Nat
        BY <1>2, <3>1, LastFitFits, InHand DEF PlaceFragment, StoreInv, CountInv
      <4> QED BY <1>2, <2>1, <4>1
    <3>2. CASE MoveOn
      BY <1>2, <1>10, <3>2 DEF MoveOn, GiveUp
    <3> QED BY <1>10, <3>1, <3>2
  <2>3. 2 * m - 0 + (sector + 1) > 2 * m - 0 + sector /\ b = 0 /\ sector + 1 \in Nat
    BY <1>2, <1>3, <1>4, <2>1
  <2> QED BY <1>2, <1>7, <1>10, <2>1, <2>2, <2>3
<1>11. CASE Seal
  BY <1>6, <1>11 DEF Seal
<1> QED BY <1>6, <1>8, <1>9, <1>10, <1>11 DEF Allocation

LEMMA WalkingBounded ==
  ASSUME TraceInv
  PROVE  WalkingLeft \in 1 .. MachineSteps + 2
<1>1. MachineSteps \in Nat
  BY Steps
<1>2. CASE verdict = "walking"
  <2>1. PICK k \in Nat : k = Cardinality(seen) /\ k + 1 <= MachineSteps
    BY <1>2, FewPlaces DEF TraceInv
  <2>2. WalkingLeft = MachineSteps + 1 - k
    BY <1>2, <2>1 DEF WalkingLeft
  <2> QED BY <1>1, <2>1, <2>2
<1>3. CASE verdict # "walking"
  BY <1>1, <1>3 DEF WalkingLeft
<1> QED BY <1>2, <1>3

LEMMA WalkingFalls ==
  ASSUME TraceInv, Walk
  PROVE  WalkingLeft' < WalkingLeft
<1>1. PICK k \in Nat, M \in Nat :
        /\ k = Cardinality(seen) /\ M = MachineSteps /\ k + 1 <= M /\ IsFiniteSet(seen)
  BY Steps, FewPlaces DEF TraceInv, Walk
<1>2. WalkingLeft = M + 1 - k
  BY <1>1 DEF WalkingLeft, Walk
<1>3. CASE verdict' = "walking"
  <2>1. at \notin seen /\ seen' = seen \union {at}
    BY <1>3 DEF Walk, Refuse
  <2>2. Cardinality(seen') = k + 1
    BY <1>1, <2>1, FS_AddElement
  <2>3. WalkingLeft' = M + 1 - (k + 1)
    BY <1>1, <1>3, <2>2 DEF WalkingLeft, MachineSteps
  <2>4. M + 1 - (k + 1) < M + 1 - k
    OBVIOUS
  <2> QED BY <1>2, <2>3, <2>4
<1>4. CASE verdict' # "walking"
  <2>1. verdict' # "idle"
    BY DEF Walk, Refuse
  <2>2. WalkingLeft' = 1
    BY <1>4, <2>1 DEF WalkingLeft
  <2>3. 1 < M + 1 - k
    BY <1>1
  <2> QED BY <1>2, <2>2, <2>3
<1> QED BY <1>3, <1>4

\* A start is walked for a route that leads there.
CountedInv == IsFiniteSet(pending) /\ Cardinality(pending) <= Cardinality(AllRoutes)

LEMMA StartsCounted == ImageInv /\ ValidateImages => CountedInv'
<1> SUFFICES ASSUME ImageInv, ValidateImages PROVE CountedInv'
  OBVIOUS
<1> DEFINE place(r) == image.profiles[r[1]].table[<<r[2], r[3]>>].place
           T == {place(r) : r \in AllRoutes}
           f == [r \in AllRoutes |-> place(r)]
<1>1. f \in Surjection(AllRoutes, T)
  BY DEF Surjection
<1>2. IsFiniteSet(T) /\ Cardinality(T) <= Cardinality(AllRoutes)
  BY <1>1, RoutesFinite, FS_Surjection
<1>3. pending' \in SUBSET T
  <2>1. ASSUME NEW a \in pending' PROVE a \in T
    <3>1. PICK p \in Enabled, r \in Routes : a = image.profiles[p].table[r].place
      BY <2>1 DEF ValidateImages
    <3>2. PICK l \in Layers, t \in TargetSet : r = <<l, t>>
      BY DEF Routes
    <3>3. <<p, l, t>> \in AllRoutes /\ a = place(<<p, l, t>>)
      BY <3>1, <3>2 DEF AllRoutes, ImageInv, Enabled
    <3> QED BY <3>3
  <2> QED BY <2>1
<1>4. IsFiniteSet(pending') /\ Cardinality(pending') <= Cardinality(T)
  BY <1>2, <1>3, FS_Subset
<1>5. PICK k \in Nat, l \in Nat, n \in Nat :
        k = Cardinality(pending') /\ l = Cardinality(T) /\ n = Cardinality(AllRoutes)
  BY <1>2, <1>4, RoutesFinite, FS_CardinalityType
<1>6. Cardinality(pending') <= Cardinality(AllRoutes)
  <2>1. k <= l /\ l <= n
    BY <1>2, <1>4, <1>5
  <2>2. k <= n
    BY <2>1
  <2> QED BY <1>5, <2>2
<1> QED BY <1>4, <1>6 DEF CountedInv, AllRoutes

LEMMA StartWalked ==
  ASSUME IsFiniteSet(pending), EndWalk, origin \in pending
  PROVE  /\ IsFiniteSet(pending') /\ Cardinality(pending') < Cardinality(pending)
         /\ pending' \subseteq pending
<1>1. PICK n \in Nat : n = Cardinality(pending)
  BY FS_CardinalityType
<1>2. pending' = pending \ {origin}
  BY DEF EndWalk
<1>3. IsFiniteSet(pending') /\ Cardinality(pending') = n - 1
  BY <1>1, <1>2, FS_RemoveElement
<1> QED BY <1>1, <1>2, <1>3

LEMMA CountedInvariance == Spec => []CountedInv
<1>1. Init => CountedInv
  <2>1. Cardinality(AllRoutes) \in Nat
    BY RoutesFinite, FS_CardinalityType
  <2> QED BY <2>1, FS_EmptySet DEF Init, CountedInv
<1>2. ImageInv /\ CountedInv /\ [Next]_vars => CountedInv'
  <2> SUFFICES ASSUME ImageInv, CountedInv, [Next]_vars PROVE CountedInv'
    OBVIOUS
  <2>1. CASE pending' = pending
    BY <2>1 DEF CountedInv, AllRoutes
  <2>2. CASE ValidateImages
    BY <2>2, StartsCounted
  <2>3. CASE EndWalk
    <3>1. pending' \in SUBSET pending
      BY <2>3 DEF EndWalk
    <3>2. IsFiniteSet(pending') /\ Cardinality(pending') <= Cardinality(pending)
      BY <3>1, FS_Subset DEF CountedInv
    <3>3. /\ Cardinality(pending') \in Nat /\ Cardinality(pending) \in Nat
          /\ Cardinality(AllRoutes) \in Nat
      BY <3>2, RoutesFinite, FS_CardinalityType DEF CountedInv
    <3>4. Cardinality(pending') <= Cardinality(AllRoutes)
      BY <3>2, <3>3 DEF CountedInv
    <3> QED BY <3>2, <3>4 DEF CountedInv, AllRoutes
  <2>4. pending' = pending \/ ValidateImages \/ EndWalk
    BY DEF Next, vars, plan, ValidateConfig, Build, AllocateStep, AllocationFails, Assemble,
      NextStart, WalkStep, Report, Refused
  <2> QED BY <2>1, <2>2, <2>3, <2>4
<1>3. PictureInv => ImageInv
  BY DEF PictureInv
<1> QED
  BY <1>1, <1>2, <1>3, PictureInvariance, PTL DEF Spec

\* The compiler and the validator come to an end on whatever they are given: a
\* configuration and a baseline, or a memory of another writer.  Every turn of
\* their loops is one less of those that the macros and the pages, the routes
\* and the places of the memory give them (codec.py:500-620, 1001-1038;
\* validator.py:58-196).
THEOREM PlanningIsBounded == Spec => []PlanningIsShort /\ PlanningFalls
<1>1. StoreInv /\ PictureInv /\ CountedInv => PlanningIsShort
  <2> SUFFICES ASSUME StoreInv, PictureInv, CountedInv PROVE PlanningIsShort
    OBVIOUS
  <2>1. Cardinality(pending) \in 0 .. Cardinality(AllRoutes)
    <3>1. Cardinality(pending) \in Nat /\ Cardinality(AllRoutes) \in Nat
      BY RoutesFinite, FS_CardinalityType DEF CountedInv
    <3> QED BY <3>1 DEF CountedInv
  <2> QED BY <2>1, PlacingBounded, WalkingBounded DEF PlanningIsShort, PictureInv
<1>2. StoreInv /\ PictureInv /\ VerifiedInv /\ CountedInv /\ [Next]_vars =>
        [\/ Stages[phase'] < Stages[phase]
         \/ phase = "allocate" /\ phase' = "allocate" /\ PlacingLeft' < PlacingLeft
         \/ /\ phase = "walk" /\ phase' = "walk"
            /\ \/ Cardinality(pending') < Cardinality(pending)
               \/ pending' = pending /\ WalkingLeft' < WalkingLeft]_vars
  <2> SUFFICES ASSUME StoreInv, PictureInv, VerifiedInv, CountedInv, Next
               PROVE  \/ Stages[phase'] < Stages[phase]
                      \/ phase = "allocate" /\ phase' = "allocate" /\ PlacingLeft' < PlacingLeft
                      \/ /\ phase = "walk" /\ phase' = "walk"
                         /\ \/ Cardinality(pending') < Cardinality(pending)
                            \/ pending' = pending /\ WalkingLeft' < WalkingLeft
    OBVIOUS
  <2>1. CASE ValidateConfig \/ Build
    BY <2>1 DEF ValidateConfig, Build, Refused, Stages
  <2>2. CASE AllocateStep
    BY <2>2, PlacingFalls DEF AllocateStep, PictureInv, plan
  <2>3. CASE AllocationFails \/ Assemble
    BY <2>3 DEF AllocationFails, Assemble, Refused, Stages
  <2>4. CASE ValidateImages \/ Report
    <3>1. \/ phase = "validate" /\ phase' = "walk"
          \/ phase = "walk" /\ phase' = "report"
      BY <2>4 DEF ValidateImages, Report
    <3> QED BY <3>1 DEF Stages
  <2>5. CASE NextStart
    <3>1. /\ phase = "walk" /\ phase' = "walk" /\ pending' = pending
          /\ verdict = "idle" /\ verdict' = "walking" /\ seen' = {}
      BY <2>5 DEF NextStart, StartWalk, plan
    <3>2. Cardinality(seen') = 0
      BY <3>1, FS_EmptySet
    <3>3. PICK M \in Nat : M = MachineSteps
      BY Steps
    <3>4. WalkingLeft = M + 2 /\ WalkingLeft' = M + 1 - 0
      BY <3>1, <3>2, <3>3 DEF WalkingLeft, MachineSteps
    <3>5. M + 1 - 0 < M + 2
      OBVIOUS
    <3> QED BY <3>1, <3>4, <3>5
  <2>6. CASE WalkStep
    BY <2>6, WalkingFalls DEF WalkStep, PictureInv, plan
  <2>7. CASE EndWalk
    <3>1. /\ phase = "walk" /\ phase' = "walk" /\ origin \in pending
      BY <2>7 DEF EndWalk, VerifiedInv
    <3> QED BY <2>7, <3>1, StartWalked DEF CountedInv
  <2> QED BY <2>1, <2>2, <2>3, <2>4, <2>5, <2>6, <2>7 DEF Next
<1> QED
  BY <1>1, <1>2, StoreInvariance, PictureInvariance, VerifiedInvariance, CountedInvariance,
     PTL DEF Spec, PlanningFalls

=============================================================================
