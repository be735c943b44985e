------------------------- MODULE SectorWrite_proofs --------------------------
(***************************************************************************)
(* Proofs about SectorWrite, for any number of mice, sectors, chunks and   *)
(* attempts: the call refines SectorPromise and never retries blindly.     *)
(***************************************************************************)
EXTENDS SectorWrite, Integers, TLAPS

\* What the retry loop maintains: an attempt is only ever begun over the image
\* the call found, so that this is what every attempt remembers as before.
Writing == {"start", "data", "end", "readback", "reconcile"}
Attempting == Positions \ {"entry", "done"}

LoopInv ==
  /\ handle \in {Own, NoUnit}
  /\ pc \in {"entry", "connect", "read", "start"} => Held = request.origin
  /\ pc \in Writing => before = request.origin
  /\ pc \in Attempting => request.sector \in Programmable
  /\ pc = "data" => sent < Chunks
  /\ pc = "done" <=> result # "pending"

Inv == TypeOK /\ LoopInv

USE UnitsAssumption, SectorsAssumption, SizesAssumption, FlashAssumption

-----------------------------------------------------------------------------

\* What a cut write leaves is an image.
LEMMA MixturesAreImages ==
  ASSUME NEW k, NEW image \in Mixtures(k)
  PROVE  image \in Images
BY DEF Mixtures

\* The invariant holds initially.
LEMMA InitInv == Init => Inv
BY DEF Init, Inv, TypeOK, LoopInv, Writing, Attempting, Positions, Results, Held

\* A write command leaves a well-formed flash.
LEMMA ReachesType ==
  ASSUME TypeOK, handle \in {Own, NoUnit}, NEW images \in SUBSET Images,
         Reaches(images)
  PROVE  flash' \in [Units -> [Sectors -> Images]]
BY DEF TypeOK, Reaches, Program, Online

\* Every step preserves the invariant.
LEMMA StepInv == Inv /\ [Next]_vars => Inv'
<1> SUFFICES ASSUME Inv, [Next]_vars PROVE Inv'
  OBVIOUS
<1> USE DEF Inv, LoopInv, Writing, Attempting, Positions, Results, device
<1>1. CASE RefuseSector
  BY <1>1 DEF RefuseSector, Return, TypeOK, Held
<1>2. CASE Accept
  BY <1>2 DEF Accept, Goto, TypeOK, Held
<1>3. CASE ConnectFails
  BY <1>3 DEF ConnectFails, Return, TypeOK, Held
<1>4. CASE Connect
  BY <1>4 DEF Connect, Goto, TypeOK, Held
<1>5. CASE ReadBefore
  BY <1>5 DEF ReadBefore, Return, Goto, TypeOK, Held
<1>6. CASE StartRefused
  BY <1>6 DEF StartRefused, Return, TypeOK, Held
<1>7. CASE WriteStart
  <2>1. flash' \in [Units -> [Sectors -> Images]]
    BY <1>7, ReachesType, MixturesAreImages DEF WriteStart
  <2>2. sent' \in 0..Chunks /\ sent' < Chunks
    BY <1>7 DEF WriteStart
  <2> QED
    BY <1>7, <2>1, <2>2
    DEF WriteStart, CaughtFailure, Escapes, Return, Goto, TypeOK
<1>8. CASE WriteData
  <2>1. flash' \in [Units -> [Sectors -> Images]]
    BY <1>8, ReachesType, MixturesAreImages DEF WriteData
  <2>2. sent' \in 0..Chunks /\ (pc' = "data" => sent' < Chunks)
    BY <1>8 DEF WriteData, CaughtFailure, Escapes, Return, Goto, TypeOK
  <2> QED
    BY <1>8, <2>1, <2>2
    DEF WriteData, CaughtFailure, Escapes, Return, Goto, TypeOK
<1>9. CASE WriteEnd
  <2>1. flash' \in [Units -> [Sectors -> Images]]
    BY <1>9, ReachesType DEF WriteEnd, TypeOK
  <2> QED
    BY <1>9, <2>1 DEF WriteEnd, Escapes, Return, Goto, TypeOK
<1>10. CASE Readback
  BY <1>10 DEF Readback, CaughtFailure, Escapes, Return, Goto, TypeOK, Held
<1>11. CASE ReconcileFails
  BY <1>11 DEF ReconcileFails, Return, TypeOK, Held
<1>12. CASE Reconcile
  BY <1>12 DEF Reconcile, Retries, NextAttempt, Return, Goto, TypeOK, Held
<1>13. CASE Replug
  BY <1>13 DEF Replug, TypeOK, Held
<1>14. CASE UNCHANGED vars
  BY <1>14 DEF vars, TypeOK, Held
<1> QED
  BY <1>1, <1>2, <1>3, <1>4, <1>5, <1>6, <1>7, <1>8, <1>9, <1>10, <1>11,
     <1>12, <1>13, <1>14 DEF Next, Step

\* The invariant holds throughout: types, and an attempt starts over the image
\* the call found.
THEOREM Invariance == Spec => []Inv
BY InitInv, StepInv, PTL DEF Spec

\* Every variable of a call of fresh_write_sector keeps its type.
THEOREM TypeCorrect == Spec => []TypeOK
<1>1. Inv => TypeOK
  BY DEF Inv
<1> QED
  BY <1>1, Invariance, PTL

-----------------------------------------------------------------------------
(* Refinement of SectorPromise *)

\* A write command moves only the requested sector of the bound unit, which is
\* programmable.
LEMMA ReachesTouches ==
  ASSUME Inv, pc \in Attempting, NEW images \in SUBSET Images, Reaches(images)
  PROVE  Promise!Touch
<1>1. CASE UNCHANGED flash
  BY <1>1 DEF Promise!Touch
<1>2. CASE Online /\ \E image \in images : Program(image)
  BY <1>2 DEF Inv, LoopInv, Online, Program, Promise!Touch
<1> QED
  BY <1>1, <1>2 DEF Reaches

\* An exception other than the three outcomes promises nothing.
LEMMA RaisedIsReturn ==
  ASSUME result = "pending", result' = "raised", UNCHANGED request,
         Promise!Touch
  PROVE  Promise!Return
BY DEF Promise!Return, Promise!Outcomes, Promise!Permitted

\* Every step is a step of SectorPromise, or invisible to it.
LEMMA StepRefines ==
  ASSUME Inv, [Next]_vars
  PROVE  [Promise!Next]_(Promise!vars)
<1> USE DEF Promise!vars, Promise!Next
<1>1. pc \in Attempting \cup {"entry"} => result = "pending"
  BY DEF Inv, LoopInv, Attempting
<1>2. UNCHANGED flash => Promise!Touch
  BY DEF Promise!Touch
\* Actions that only move the program counter, or raise without a command.
<1>3. CASE Accept \/ Connect \/ Replug \/ UNCHANGED vars
  BY <1>3 DEF Accept, Connect, Replug, vars, Goto, device
<1>4. CASE RefuseSector \/ ConnectFails \/ StartRefused \/ ReconcileFails
  <2>1. result = "pending" /\ result' = "raised" /\ UNCHANGED <<flash, request>>
    BY <1>1, <1>4
    DEF RefuseSector, ConnectFails, StartRefused, ReconcileFails, Return,
        device, Attempting, Positions
  <2> QED
    BY <2>1, <1>2, RaisedIsReturn
<1>5. CASE ReadBefore
  <2>1. result = "pending" /\ Held = request.origin /\ UNCHANGED <<flash, request>>
    BY <1>1, <1>5
    DEF ReadBefore, Inv, LoopInv, device, Attempting, Positions
  <2>2. CASE result' = "committed" /\ Held = request.target
    BY <2>1, <2>2, <1>2
    DEF Promise!Return, Promise!Outcomes, Promise!Permitted, Held
  <2>3. CASE result' = "raised"
    BY <2>1, <2>3, <1>2, RaisedIsReturn
  <2> QED
    BY <1>5, <2>1, <2>2, <2>3 DEF ReadBefore, Return, Goto
<1>6. CASE WriteStart \/ WriteData \/ WriteEnd
  <2>1. result = "pending" /\ UNCHANGED request
    BY <1>1, <1>6
    DEF WriteStart, WriteData, WriteEnd, Attempting, Positions
  <2>2. Promise!Touch
    BY <1>6, ReachesTouches, MixturesAreImages
    DEF WriteStart, WriteData, WriteEnd, Attempting, Positions, Inv, TypeOK
  <2>3. result' \in {"pending", "raised"}
    BY <1>6, <2>1
    DEF WriteStart, WriteData, WriteEnd, CaughtFailure, Escapes, Return, Goto
  <2> QED
    BY <2>1, <2>2, <2>3, RaisedIsReturn DEF Promise!Progress
<1>7. CASE Readback
  <2>1. result = "pending" /\ UNCHANGED <<flash, request>>
    BY <1>1, <1>7 DEF Readback, device, Attempting, Positions
  <2>2. CASE result' = "committed" /\ Held = request.target
    BY <2>1, <2>2, <1>2
    DEF Promise!Return, Promise!Outcomes, Promise!Permitted, Held
  <2>3. CASE result' = "raised"
    BY <2>1, <2>3, <1>2, RaisedIsReturn
  <2> QED
    BY <1>7, <2>1, <2>2, <2>3
    DEF Readback, CaughtFailure, Escapes, Return, Goto
<1>8. CASE Reconcile
  <2>1. /\ result = "pending" /\ UNCHANGED <<flash, request>>
        /\ before = request.origin
    BY <1>1, <1>8
    DEF Reconcile, device, Attempting, Positions, Inv, LoopInv, Writing
  <2>2. CASE result' = "committed" /\ Held = request.target
    BY <2>1, <2>2, <1>2
    DEF Promise!Return, Promise!Outcomes, Promise!Permitted, Held
  <2>3. CASE result' = "unchanged" /\ Held = before
    BY <2>1, <2>3, <1>2
    DEF Promise!Return, Promise!Outcomes, Promise!Permitted, Held
  <2>4. CASE result' = "indeterminate" /\ Held \notin {request.target, before}
    BY <2>1, <2>4, <1>2
    DEF Promise!Return, Promise!Outcomes, Promise!Permitted, Held
  <2> QED
    BY <1>8, <2>1, <2>2, <2>3, <2>4 DEF Reconcile, Return, Goto
<1> QED
  BY <1>3, <1>4, <1>5, <1>6, <1>7, <1>8 DEF Next, Step

\* Each way fresh_write_sector returns tells the truth about the sector, and no
\* other sector of any mouse is touched.
THEOREM Refinement == Spec => ImplementsPromise
<1>1. Init => Promise!Init
  BY DEF Init, Promise!Init
<1>2. Inv /\ [Next]_vars => [Promise!Next]_(Promise!vars)
  BY StepRefines
<1> QED
  BY <1>1, <1>2, Invariance, PTL DEF Spec, ImplementsPromise, Promise!Spec

-----------------------------------------------------------------------------

\* A write session is only opened over the image the call found.
THEOREM RetriesAreNotBlind == Spec => NoBlindRetry
<1>1. Inv => (pc = "start" => flash[Own][request.sector] = request.origin)
  BY DEF Inv, LoopInv, Held
<1>2. Inv => [(pc = "start" /\ ~observed') =>
                 flash[Own][request.sector] = request.origin]_vars
  BY <1>1
<1> QED
  BY <1>2, Invariance, PTL DEF Spec, NoBlindRetry

-----------------------------------------------------------------------------
(* The retry loop is bounded *)

\* The steps of an attempt: to connect, to read the sector, to open the session,
\* its chunks, to close it, to read it back and to classify what it left.
AttemptLength == Chunks + 6

\* Those that the present attempt may still take.
AttemptLeft ==
  CASE pc = "connect"   -> Chunks + 6
    [] pc = "read"      -> Chunks + 5
    [] pc = "start"     -> Chunks + 4
    [] pc = "data"      -> (Chunks - sent) + 3
    [] pc = "end"       -> 3
    [] pc = "readback"  -> 2
    [] pc = "reconcile" -> 1
    [] OTHER            -> 0

\* Those that the call may still take.
StepsLeft ==
  CASE pc = "entry" -> Attempts * AttemptLength + 1
    [] pc = "done"  -> 0
    [] OTHER        -> (Attempts - attempt) * AttemptLength + AttemptLeft

StepsBounded ==
  /\ StepsLeft \in 0 .. Attempts * AttemptLength + 1
  /\ StepsLeft = 0 <=> pc = "done"

StepsFall ==
  [][(Step => StepsLeft' < StepsLeft) /\ (Replug => StepsLeft' = StepsLeft)]_vars

\* Attempts that are left make a natural number of steps, and one attempt less
\* makes AttemptLength of them less.
LEMMA Rounds ==
  ASSUME NEW a \in 1..Attempts, NEW k \in Nat
  PROVE  /\ (Attempts - a) * k \in Nat
         /\ (Attempts - a) * k + k <= Attempts * k
         /\ a < Attempts =>
              (Attempts - (a + 1)) * k = (Attempts - a) * k - k
<1>1. PICK n \in Nat : n = Attempts - a
  OBVIOUS
<1>2. n * k \in Nat
  BY <1>1
<1>3. Attempts * k = (n * k) + (a * k)
  BY <1>1
<1>4. a * k = ((a - 1) * k) + k
  OBVIOUS
<1>5. (a - 1) * k \in Nat
  <2>1. PICK b \in Nat : b = a - 1
    OBVIOUS
  <2> QED
    BY <2>1
<1>6. a < Attempts => (n - 1) * k = (n * k) - k
  BY <1>1
<1>7. (Attempts - (a + 1)) = n - 1
  BY <1>1
<1> QED
  BY <1>1, <1>2, <1>3, <1>4, <1>5, <1>6, <1>7

\* The measure is a natural number, and zero when the call has returned.
LEMMA LeftBounded == Inv => StepsBounded
<1> SUFFICES ASSUME Inv PROVE StepsBounded
  OBVIOUS
<1>1. PICK rounds \in Nat :
        /\ rounds = (Attempts - attempt) * AttemptLength
        /\ rounds + AttemptLength <= Attempts * AttemptLength
  BY Rounds DEF AttemptLength, Inv, TypeOK
<1>2. PICK all \in Nat : all = Attempts * AttemptLength
  BY DEF AttemptLength
<1>3. pc \notin {"entry", "done"} => AttemptLeft \in 1..AttemptLength
  BY DEF AttemptLeft, AttemptLength, Inv, TypeOK, LoopInv, Positions
<1>4. CASE pc = "entry"
  <2>1. StepsLeft = all + 1
    BY <1>2, <1>4 DEF StepsLeft
  <2> QED
    BY <1>2, <1>4, <2>1 DEF StepsBounded
<1>5. CASE pc = "done"
  <2>1. StepsLeft = 0
    BY <1>5 DEF StepsLeft
  <2> QED
    BY <1>2, <1>5, <2>1 DEF StepsBounded
<1>6. CASE pc \notin {"entry", "done"}
  <2>1. StepsLeft = rounds + AttemptLeft
    BY <1>1, <1>6 DEF StepsLeft
  <2> QED
    BY <1>1, <1>2, <1>3, <1>6, <2>1 DEF StepsBounded, AttemptLength
<1> QED
  BY <1>4, <1>5, <1>6

\* Each step of the call lowers the measure.
LEMMA StepLowers ==
  ASSUME Inv, Inv', Step
  PROVE  StepsLeft' < StepsLeft
<1>1. PICK rounds \in Nat, after \in Int :
        /\ rounds = (Attempts - attempt) * AttemptLength
        /\ rounds + AttemptLength <= Attempts * AttemptLength
        /\ after = (Attempts - attempt') * AttemptLength
        /\ attempt' = attempt => after = rounds
        /\ attempt < Attempts /\ attempt' = attempt + 1
             => after = rounds - AttemptLength
  <2>1. attempt \in 1..Attempts /\ attempt' \in 1..Attempts /\ AttemptLength \in Nat
    BY DEF Inv, TypeOK, AttemptLength
  <2>2. PICK k \in Nat : k = AttemptLength
    BY <2>1
  <2>3. /\ (Attempts - attempt) * k \in Nat
        /\ (Attempts - attempt) * k + k <= Attempts * k
        /\ attempt < Attempts =>
             (Attempts - (attempt + 1)) * k = (Attempts - attempt) * k - k
    BY <2>1, Rounds
  <2>4. (Attempts - attempt') * k \in Int
    BY <2>1
  <2> QED
    BY <2>2, <2>3, <2>4
<1>2. PICK all \in Nat : all = Attempts * AttemptLength
  BY DEF AttemptLength
<1>3. StepsLeft =
        IF pc = "entry" THEN all + 1 ELSE IF pc = "done" THEN 0 ELSE rounds + AttemptLeft
  BY <1>1, <1>2 DEF StepsLeft
<1>4. StepsLeft' =
        IF pc' = "entry" THEN all + 1 ELSE IF pc' = "done" THEN 0
        ELSE after + AttemptLeft'
  BY <1>1, <1>2 DEF StepsLeft, AttemptLength
<1>5. pc' = "done" => StepsLeft' < StepsLeft
  <2>1. pc # "done"
    BY DEF Step, RefuseSector, Accept, ConnectFails, Connect, ReadBefore, StartRefused,
           WriteStart, WriteData, WriteEnd, Readback, ReconcileFails, Reconcile
  <2> QED
    BY <1>4, <2>1, LeftBounded DEF StepsBounded
<1>6. CASE Reconcile
  <2>1. CASE attempt < Attempts /\ attempt' = attempt + 1 /\ pc' = "connect"
    BY <1>1, <1>3, <1>4, <1>6, <2>1 DEF Reconcile, AttemptLeft, AttemptLength
  <2> QED
    BY <1>5, <1>6, <2>1
    DEF Reconcile, Retries, NextAttempt, Return, Goto, Inv, TypeOK
<1>7. CASE Accept
  BY <1>1, <1>2, <1>3, <1>4, <1>7
  DEF Accept, Goto, AttemptLeft, AttemptLength, Inv, TypeOK
<1>8. CASE WriteData /\ pc' = "data"
  <2>1. pc = "data" /\ attempt' = attempt /\ sent' = sent + 1
    BY <1>8 DEF WriteData, Return, Goto, CaughtFailure, Escapes
  <2> QED
    BY <1>1, <1>3, <1>4, <1>8, <2>1 DEF AttemptLeft, Inv, TypeOK
<1>9. CASE /\ pc' # "done"
           /\ \/ Connect \/ ReadBefore \/ WriteStart \/ WriteEnd \/ Readback
              \/ WriteData /\ pc' # "data"
  <2>1. attempt' = attempt
    BY <1>9 DEF Connect, ReadBefore, WriteStart, WriteData, WriteEnd, Readback
  <2>2. \/ pc = "connect" /\ pc' = "read"
        \/ pc = "read" /\ pc' = "start"
        \/ pc = "start" /\ pc' = "data" /\ sent' = 0
        \/ pc = "start" /\ pc' = "reconcile"
        \/ pc = "data" /\ pc' \in {"end", "reconcile"}
        \/ pc = "end" /\ pc' = "readback"
        \/ pc = "readback" /\ pc' = "reconcile"
    BY <1>9
    DEF Connect, ReadBefore, WriteStart, WriteData, WriteEnd, Readback,
        Return, Goto, CaughtFailure, Escapes
  <2> QED
    BY <1>1, <1>3, <1>4, <2>1, <2>2 DEF AttemptLeft, Inv, TypeOK, LoopInv
<1>10. CASE RefuseSector \/ ConnectFails \/ StartRefused \/ ReconcileFails
  BY <1>5, <1>10
  DEF RefuseSector, ConnectFails, StartRefused, ReconcileFails, Return
<1> QED
  BY <1>5, <1>6, <1>7, <1>8, <1>9, <1>10 DEF Step

\* A call of fresh_write_sector takes at most Attempts * (Chunks + 6) + 1 steps, 67
\* with the 16 chunks and 3 attempts of the code: each of them brings it nearer to
\* its end, and no plugging and unplugging takes it back.
THEOREM CallIsBounded == Spec => []StepsBounded /\ StepsFall
<1>1. Inv /\ Inv' => [ (Step => StepsLeft' < StepsLeft)
                        /\ (Replug => StepsLeft' = StepsLeft)]_vars
  <2>1. Replug => StepsLeft' = StepsLeft
    BY DEF Replug, StepsLeft, AttemptLeft, AttemptLength
  <2> QED
    BY <2>1, StepLowers
<1> QED
  BY <1>1, LeftBounded, Invariance, PTL DEF StepsFall
=============================================================================
