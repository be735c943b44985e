------------------------------ MODULE Tui_proofs ------------------------------
(***************************************************************************)
(* Proofs about Tui, for any number of operations of any kinds: what the   *)
(* screen shows is what the workers do.                                    *)
(***************************************************************************)
EXTENDS Tui, FiniteSetTheorems, TLAPS

USE RequestsAssumption, BoundAssumption

\* The operations, the screen and the worker in service: a worker is live from
\* its dispatch until its end has been handed over.
Live(j) == j.type # "cancel" /\ j.pc \notin {"pop", "retire"}

Idling(m) == m.active.op = 0

PersistentPhases == {"confirming", "revalidating", "armed"} \cup WritePhases

\* What the reducer alone keeps true of the model.
ActiveInv(m) ==
  LET a == m.active IN
  /\ a.op = 0 => a = Idle
  /\ a.op # 0 => a.kind \in Kinds
  /\ a.kind # "persistent" => a.phase = "none" /\ ~a.exec
  /\ a.kind = "persistent" =>
       a.phase \in (IF a.exec THEN PersistentPhases ELSE PreExecution)
  /\ a.fault => a.exec /\ a.phase \in WritePhases
  /\ a.deferred => a.phase \in WritePhases

HeldInv(m) ==
  /\ m.prepared # 0 => m.prepared = m.active.op /\ m.active.kind = "persistent"
  /\ (m.active.kind = "persistent" /\ ~m.active.exec) =>
       (m.prepared # 0 <=> m.active.phase # "preparing")
  /\ m.terminal.op # 0 => m.terminal.op # m.active.op

ModelInv(m) ==
  /\ ActiveInv(m) /\ HeldInv(m)
  /\ m.message \cup m.disclosure \subseteq Visible(Levels, m.surface)
  /\ m.surface = Shareable => m.prepared = 0 /\ ~m.paths

\* A preparation whose cancellation is acknowledged is not kept.
Tidy(m) ==
  m.active.kind = "persistent" /\ ~m.active.exec /\ m.active.cancel = "acked" =>
    m.prepared = 0

\* The positions a worker of each type goes through.
JobInv ==
  \A j \in jobs :
    /\ j.type = "cancel" => j.pc \in {"queued", "lock", "ack"}
    /\ j.type \in {"start", "refresh"} =>
         j.pc \in {"queued", "call", "finish", "retire"} /\ j.kind # "persistent"
    /\ j.type = "prepare" =>
         j.pc \in {"queued", "call", "retire"} /\ j.kind = "persistent"
    /\ j.type = "execute" =>
         /\ j.kind = "persistent"
         /\ j.pc \in {"queued", "register", "running", "cleared", "pop", "retire"}
         /\ j.pc \in {"running", "cleared"} => j.phase \in PersistentPhases
    /\ j.type # "execute" => j.phase = "none"
    /\ j.pc \in {"queued", "register"} => j.phase = "none"
    /\ j.pc = "cleared" => j.phase \notin {"reconciling", "post"}

\* Nothing is older than the operations issued, nor newer than the active one.
AgeInv ==
  /\ Active.op <= issued /\ model.terminal.op <= issued /\ retired <= issued
  /\ \A j \in jobs : j.op <= issued /\ (Active.op # 0 => j.op <= Active.op)
  /\ \A d \in dispatched : d[2] <= issued
  /\ \A op \in Ops : token[op] # "none" => op <= issued
  /\ \A op \in wrote : op <= issued

\* What a live worker does is what the screen shows.
LiveInv ==
  /\ \A j, k \in jobs : Live(j) /\ Live(k) => j = k
  /\ \A j \in jobs : Live(j) =>
       /\ j.op = Active.op /\ j.kind = Active.kind /\ ~Active.fault
       /\ j.type = "prepare" => Active.phase = "preparing"
       /\ j.type = "execute" =>
            /\ Active.exec
            /\ Active.phase = IF j.pc \in {"queued", "register"}
                              THEN "confirming" ELSE j.phase
       /\ j.pc = "queued" => <<j.type, j.op>> \notin dispatched
  /\ \A j \in jobs : 
       j.type # "cancel" /\ ~Live(j) => j.op # Active.op \/ Active.fault
  /\ <<"execute", Active.op>> \in dispatched => Active.exec

\* The token of the execution and the cancellations on their way to it.
TokenInv ==
  /\ \A op \in Ops : op = Active.op /\ token[op] # "none" => Active.exec
  /\ \A j \in jobs : j.type = "execute" /\ Live(j) =>
       (token[j.op] = "none" <=> j.pc \in {"queued", "register"})
  /\ \A j \in jobs : j.type = "cancel" /\ j.op = Active.op => Active.cancel # "no"

Acked ==
  \/ Active.cancel = "acked"
  \/ \E j \in jobs : j.type = "cancel" /\ j.op = Active.op /\ j.pc = "ack"

AckInv ==
  Active.exec /\ Acked =>
    \A j \in jobs : j.type = "execute" /\ Live(j) =>
      token[j.op] = "cancelled" \/ (j.pc \in {"queued", "register"} /\ j.op \in pending)

WroteInv ==
  /\ Active.op \in wrote => Active.exec /\ Active.phase \in WritePhases
  /\ HonestTerminal

\* A cancellation that is asked for has a worker that will acknowledge it, and
\* not one that will be dropped as a repetition.
Carries(j) ==
  /\ j.type = "cancel" /\ j.op = Active.op
  /\ j.pc = "queued" => <<"cancel", j.op>> \notin dispatched

CarryInv ==
  /\ <<"cancel", Active.op>> \in dispatched => Active.cancel # "no"
  /\ Active.cancel = "asked" /\ Active.phase \notin WritePhases =>
       \E j \in jobs : Carries(j)

ScreenInv ==
  /\ ServesTheScreen
  /\ model.readOnly => Active.kind \notin {"switch", "persistent"}
  /\ exited => \A j \in jobs : j.type = "execute" => ~Live(j)

RunnerInv ==
  /\ JobInv /\ AgeInv /\ LiveInv /\ TokenInv /\ AckInv /\ WroteInv
  /\ CarryInv /\ ScreenInv

IInv == TypeOK /\ ModelInv(model) /\ Tidy(model) /\ RunnerInv
-----------------------------------------------------------------------------
(* The reducer *)

Actives ==
  [op : 0..MaxOps, kind : Kinds \cup {"none"},
   phase : PreExecution \cup WritePhases \cup {"none", "revalidating", "armed"},
   exec : BOOLEAN, cancel : {"no", "asked", "acked"},
   deferred : BOOLEAN, fault : BOOLEAN]
Terminals == [op : 0..MaxOps, outcome : {"none", "success", "failure"}, wrote : BOOLEAN]
Models ==
  [active : Actives, terminal : Terminals,
   prepared : 0..MaxOps, reviewed : BOOLEAN, exact : BOOLEAN,
   paths : BOOLEAN, surface : Levels, message : SUBSET Levels,
   disclosure : SUBSET Levels, readOnly : BOOLEAN]

Sound(m) == m \in Models /\ ModelInv(m)

LEMMA IdleFields ==
  /\ Idle \in Actives
  /\ Idle.op = 0 /\ Idle.kind = "none" /\ Idle.phase = "none" /\ Idle.exec = FALSE
  /\ Idle.cancel = "no" /\ Idle.deferred = FALSE /\ Idle.fault = FALSE
<1>1. Begin(0, "read") \in Actives
  BY DEF Begin, Actives, Kinds
<1>2. Idle = [Begin(0, "read") EXCEPT !.kind = "none"]
  BY DEF Idle
<1>3. Idle \in Actives
  BY <1>1, <1>2 DEF Actives
<1> QED BY <1>1, <1>2, <1>3 DEF Actives, Begin

\* The user is waited for exactly while a preparation is held.
LEMMA Awaiting ==
  ASSUME NEW m, Sound(m)
  PROVE  AwaitsUser(m, m.active.op) <=>
           m.active.kind = "persistent" /\ ~m.active.exec /\ m.active.phase # "preparing"
BY IdleFields DEF Sound, ModelInv, ActiveInv, HeldInv, AwaitsUser, IsCurrent, Models, Actives,
  PreExecution

\* Leaving the program's surfaces and inputs as they are, a change of the
\* operation that keeps its own invariants.
LEMMA InitialSound ==
  /\ Sound(InitialModel)
  /\ InitialModel.active = Idle /\ InitialModel.terminal.op = 0 /\ InitialModel.readOnly = FALSE
BY IdleFields DEF Sound, ModelInv, ActiveInv, HeldInv, InitialModel, Models, NoTerminal,
  Terminals, Visible, Levels, Shareable, Local, Private

LEMMA SurfaceSound ==
  ASSUME NEW m, Sound(m), NEW s \in Levels,
         NEW n, n = ChangePrivacySurface(m, s)
  PROVE  /\ Sound(n) /\ n.terminal = m.terminal /\ n.readOnly = m.readOnly
         /\ \/ n.active = m.active
            \/ n.active = Idle /\ AwaitsUser(m, m.active.op)
<1> DEFINE cleared == m.prepared # 0 /\ Local > s
           held == m.prepared # 0 /\ ~cleared
           abandoned == /\ cleared /\ ~m.active.exec
                        /\ m.active.phase \in {"prepared", "reviewing", "confirming"}
<1>f. /\ n.active = IF abandoned THEN Idle ELSE m.active
      /\ n.surface = s /\ n.terminal = m.terminal /\ n.readOnly = m.readOnly
      /\ n.prepared = IF held THEN m.prepared ELSE 0
      /\ n.message = Visible(m.message, s) /\ n.disclosure = Visible(m.disclosure, s)
  BY DEF Sound, Models, ChangePrivacySurface
<1>g. /\ n.reviewed = (held /\ m.reviewed) /\ n.exact = (held /\ m.exact)
      /\ n.paths = (s # Shareable /\ m.paths)
  BY DEF Sound, Models, ChangePrivacySurface
<1>h. n = [m EXCEPT !.active = n.active, !.surface = n.surface, !.prepared = n.prepared,
                    !.reviewed = n.reviewed, !.exact = n.exact, !.paths = n.paths,
                    !.message = n.message, !.disclosure = n.disclosure]
  BY DEF Sound, Models, ChangePrivacySurface
<1>i. /\ n.active \in Actives /\ n.surface \in Levels /\ n.prepared \in 0 .. MaxOps
      /\ n.message \in SUBSET Levels /\ n.disclosure \in SUBSET Levels
  BY <1>f, IdleFields DEF Sound, Models, Visible
<1>j. n.reviewed \in BOOLEAN /\ n.exact \in BOOLEAN /\ n.paths \in BOOLEAN
  BY <1>g
<1>1. n \in Models
  BY <1>h, <1>i, <1>j DEF Sound, Models
<1>2. n.terminal = m.terminal /\ n.readOnly = m.readOnly
  BY DEF Sound, Models, ChangePrivacySurface
<1>3. n.active = m.active \/ (n.active = Idle /\ AwaitsUser(m, m.active.op))
  <2>1. abandoned => AwaitsUser(m, m.active.op)
    <3>1. Sound(m) => (m.prepared # 0 => m.active.kind = "persistent")
      BY DEF Sound, ModelInv, HeldInv
    <3> QED BY <3>1, Awaiting
  <2> QED BY <2>1, <1>f
<1>4. ActiveInv(n)
  BY <1>3, IdleFields DEF Sound, ModelInv, ActiveInv
<1>5. HeldInv(n)
  <2>1. HeldInv(m) /\ ActiveInv(m) /\ n.terminal.op = m.terminal.op
    BY <1>f DEF Sound, ModelInv
  <2>2. CASE abandoned
    <3>1. n.active = Idle /\ n.prepared = 0
      BY <2>2, <1>f
    <3> QED BY <3>1, IdleFields DEF HeldInv
  <2>3. CASE ~abandoned
    <3>1. n.active = m.active
      BY <2>3, <1>f
    <3>2. cleared => m.active.kind # "persistent" \/ m.active.exec
      BY <2>1, <2>3 DEF HeldInv, ActiveInv, PreExecution
    <3>3. n.prepared = IF cleared THEN 0 ELSE m.prepared
      BY <1>f
    <3> QED BY <2>1, <3>1, <3>2, <3>3 DEF HeldInv
  <2> QED BY <2>2, <2>3
<1>6. n.message \cup n.disclosure \subseteq Visible(Levels, n.surface)
  BY <1>1, <1>f DEF Sound, Models, Visible
<1>7. n.surface = Shareable => n.prepared = 0 /\ ~n.paths
  <2>1. n.surface = Shareable => n.prepared = 0
    BY <1>f DEF Sound, Models, Levels, Local, Shareable, Private
  <2> QED BY <2>1, <1>f, <1>g
<1> QED BY <1>1, <1>2, <1>3, <1>4, <1>5, <1>6, <1>7 DEF Sound, ModelInv

LEMMA AbandonSound ==
  ASSUME NEW m, Sound(m), NEW n, n = Abandon(m)
  PROVE  /\ Sound(n) /\ Tidy(n) /\ n.terminal = m.terminal /\ n.readOnly = m.readOnly
         /\ \/ n.active = m.active
            \/ n.active = Idle /\ AwaitsUser(m, m.active.op) /\ ~Tidy(m)
<1>1. CASE Tidy(m)
  <2>1. n = m
    BY <1>1 DEF Abandon, Tidy
  <2> QED BY <1>1, <2>1
<1>2. CASE ~Tidy(m)
  <2>1. /\ m.active.kind = "persistent" /\ ~m.active.exec /\ m.active.cancel = "acked"
        /\ m.prepared # 0
    BY <1>2 DEF Tidy
  <2>2. n = ChangePrivacySurface(m, Shareable) /\ Shareable \in Levels
    BY <2>1 DEF Abandon, Levels
  <2>3. /\ Sound(n) /\ n.terminal = m.terminal /\ n.readOnly = m.readOnly
        /\ \/ n.active = m.active
           \/ n.active = Idle /\ AwaitsUser(m, m.active.op)
    BY <2>2, SurfaceSound
  <2>4. n.surface = Shareable
    BY <2>2 DEF ChangePrivacySurface, Sound, Models
  <2>5. Tidy(n)
    BY <2>3, <2>4 DEF Tidy, Sound, ModelInv
  <2> QED BY <1>2, <2>3, <2>5
<1> QED BY <1>1, <1>2

\* The operation on the screen is the same, at most further in its review.
Tended(m, n) ==
  /\ (n.terminal = m.terminal \/ n.terminal.op = 0) /\ n.readOnly = m.readOnly
  /\ n.active.op = m.active.op /\ n.active.kind = m.active.kind
  /\ n.active.exec = m.active.exec /\ n.active.fault = m.active.fault
  /\ n.active.cancel = m.active.cancel
  /\ \/ n.active.phase = m.active.phase
     \/ AwaitsUser(m, m.active.op) /\ n.active.phase \in {"reviewing", "confirming"}

LEMMA TendedTwice ==
  ASSUME NEW k, NEW m, NEW n, Sound(k), Sound(m), Tended(k, m), Tended(m, n)
  PROVE  Tended(k, n)
<1>1. AwaitsUser(m, m.active.op) => AwaitsUser(k, k.active.op)
  BY Awaiting DEF Tended
<1> QED BY <1>1 DEF Tended

\* A step of the review.
LEMMA ReviewSound ==
  ASSUME NEW m, Sound(m), Tidy(m), NEW b \in BOOLEAN, NEW op,
         NEW n, n \in {EnterReview(m, op), ReviewAcknowledged(m, op, b),
                       ConfirmationChanged(m, op, b)}
  PROVE  Sound(n) /\ Tidy(n) /\ Tended(m, n)
<1>1. CASE n = m
  BY <1>1 DEF Tended
<1>2. CASE n # m
  <2>1. AwaitsUser(m, op) /\ op = m.active.op
    BY <1>2 DEF EnterReview, ReviewAcknowledged, ConfirmationChanged, AwaitsUser, IsCurrent
  <2>2. /\ op # 0 /\ m.prepared # 0 /\ m.active.kind = "persistent"
        /\ ~m.active.exec /\ m.active.phase \in PreExecution
    BY <2>1 DEF AwaitsUser, IsCurrent, Sound, ModelInv, HeldInv
  <2>3. PICK p, r, x :
          /\ n = [m EXCEPT !.active.phase = p, !.reviewed = r, !.exact = x]
          /\ p \in {m.active.phase, "reviewing", "confirming"}
          /\ r \in BOOLEAN /\ x \in BOOLEAN
    <3>1. CASE n = EnterReview(m, op)
      <4>1. n = [m EXCEPT !.active.phase = "reviewing", !.reviewed = m.reviewed, !.exact = m.exact]
        BY <3>1, <2>1 DEF EnterReview, Sound, Models, Actives
      <4> QED BY <4>1 DEF Sound, Models
    <3>2. CASE n = ReviewAcknowledged(m, op, b)
      <4>1. n = [m EXCEPT !.active.phase = m.active.phase, !.reviewed = b, !.exact = m.exact]
        BY <3>2, <2>1 DEF ReviewAcknowledged, Sound, Models, Actives
      <4> QED BY <4>1 DEF Sound, Models
    <3>3. CASE n = ConfirmationChanged(m, op, b)
      <4>1. n = [m EXCEPT !.active.phase = "confirming", !.reviewed = m.reviewed, !.exact = b]
        BY <3>3, <2>1 DEF ConfirmationChanged, Sound, Models, Actives
      <4> QED BY <4>1 DEF Sound, Models
    <3> QED BY <3>1, <3>2, <3>3
  <2>4. n \in Models
    BY <2>3 DEF Sound, Models, Actives, PreExecution
  <2>5. /\ n.terminal = m.terminal /\ n.readOnly = m.readOnly /\ n.prepared = m.prepared
        /\ n.surface = m.surface /\ n.message = m.message /\ n.disclosure = m.disclosure
        /\ n.paths = m.paths
        /\ n.active = [m.active EXCEPT !.phase = p]
    BY <2>3 DEF Sound, Models
  <2>6. /\ n.active.op = m.active.op /\ n.active.kind = m.active.kind
        /\ n.active.exec = m.active.exec /\ n.active.fault = m.active.fault
        /\ n.active.cancel = m.active.cancel
        /\ n.active.phase = p /\ ~n.active.deferred
    BY <2>1, <2>5, Awaiting DEF Sound, Models, Actives, ModelInv, ActiveInv, PreExecution, WritePhases
  <2>7. Tended(m, n)
    BY <2>1, <2>3, <2>5, <2>6 DEF Tended
  <2>8. ModelInv(n)
    BY <2>2, <2>3, <2>5, <2>6 DEF Sound, ModelInv, ActiveInv, HeldInv, PreExecution
  <2>9. Tidy(n)
    BY <2>5, <2>6 DEF Tidy
  <2> QED BY <2>4, <2>7, <2>8, <2>9 DEF Sound
<1> QED BY <1>1, <1>2

\* Inputs and payloads are no part of the operation.
LEMMA InputSound ==
  ASSUME NEW m, Sound(m), Tidy(m), NEW b \in BOOLEAN, NEW payload \in SUBSET Levels,
         NEW n, n \in {PathChanged(m, b), SetDisclosure(m, payload)}
  PROVE  Sound(n) /\ Tidy(n) /\ Tended(m, n)
<1>1. CASE n = m
  BY <1>1 DEF Tended
<1>2. CASE n # m /\ n = PathChanged(m, b)
  <2>1. m.active = Idle
    BY <1>2 DEF PathChanged
  <2>2. PICK s \in Levels :
          /\ n = [m EXCEPT !.paths = b, !.surface = s]
          /\ m.surface <= s /\ (b => s # Shareable)
    <3>1. n = [m EXCEPT !.paths = b,
                        !.surface = IF b /\ m.surface = Shareable THEN Local ELSE m.surface]
      BY <1>2, <2>1 DEF PathChanged, Sound, Models
    <3>2. CASE b /\ m.surface = Shareable
      BY <3>1, <3>2 DEF Levels, Local, Shareable, Sound, Models
    <3>3. CASE ~(b /\ m.surface = Shareable)
      <4>1. n = [m EXCEPT !.paths = b, !.surface = m.surface]
        BY <3>1, <3>3
      <4>2. m.surface \in Levels /\ m.surface <= m.surface
        BY DEF Levels, Local, Shareable, Private, Sound, Models
      <4> QED BY <4>1, <4>2, <3>3
    <3> QED BY <3>2, <3>3
  <2>3. n \in Models
    BY <2>2 DEF Sound, Models
  <2>4. /\ n.terminal = m.terminal /\ n.readOnly = m.readOnly /\ n.prepared = m.prepared
        /\ n.message = m.message /\ n.disclosure = m.disclosure /\ n.active = m.active
        /\ n.surface = s /\ n.paths = b
    BY <2>2 DEF Sound, Models
  <2>5. m.prepared = 0
    BY <2>1, IdleFields DEF Sound, ModelInv, HeldInv
  <2>6. Visible(Levels, m.surface) \subseteq Visible(Levels, n.surface)
    BY <2>2, <2>4 DEF Visible, Levels, Local, Shareable, Private, Sound, Models
  <2>7. ModelInv(n)
    BY <2>2, <2>4, <2>5, <2>6 DEF Sound, ModelInv, ActiveInv, HeldInv
  <2> QED BY <2>3, <2>4, <2>7 DEF Sound, Tidy, Tended
<1>3. CASE n = SetDisclosure(m, payload)
  <2>1. n = [m EXCEPT !.disclosure = Visible(payload, m.surface)]
    BY <1>3 DEF SetDisclosure
  <2>2. Visible(payload, m.surface) \in SUBSET Visible(Levels, m.surface)
    BY DEF Visible
  <2>3. /\ n.terminal = m.terminal /\ n.readOnly = m.readOnly /\ n.prepared = m.prepared
        /\ n.message = m.message /\ n.disclosure = Visible(payload, m.surface)
        /\ n.active = m.active /\ n.surface = m.surface /\ n.paths = m.paths
    BY <2>1 DEF Sound, Models
  <2>4. n \in Models
    BY <2>1, <2>2 DEF Sound, Models, Visible
  <2>5. ModelInv(n)
    BY <2>2, <2>3 DEF Sound, ModelInv, ActiveInv, HeldInv
  <2> QED BY <2>3, <2>4, <2>5 DEF Sound, Tidy, Tended
<1> QED BY <1>1, <1>2, <1>3

LEMMA CompatibilitySound ==
  ASSUME NEW m, Sound(m), Tidy(m), NEW b \in BOOLEAN, NEW n, n = CompatibilityChanged(m, b)
  PROVE  /\ Sound(n) /\ Tidy(n)
         /\ n.active = m.active /\ n.terminal = m.terminal /\ n.readOnly = b
<1>1. n = [m EXCEPT !.readOnly = b]
  BY DEF CompatibilityChanged
<1>2. n \in Models
  BY <1>1 DEF Sound, Models
<1>3. /\ n.terminal = m.terminal /\ n.readOnly = b /\ n.prepared = m.prepared
      /\ n.message = m.message /\ n.disclosure = m.disclosure
      /\ n.active = m.active /\ n.surface = m.surface /\ n.paths = m.paths
  BY <1>1 DEF Sound, Models
<1>4. ModelInv(n)
  BY <1>3 DEF Sound, ModelInv, ActiveInv, HeldInv
<1> QED BY <1>2, <1>3, <1>4 DEF Sound, Tidy

\* A new operation, for an identity that no terminal is about.
LEMMA BeginSound ==
  ASSUME NEW m, Sound(m), m.active = Idle, NEW op \in Ops, NEW kind \in Kinds,
         NEW n \in Models, n.active = Begin(op, kind), n.terminal.op # op,
         n.message \in {{}, m.message}, n.prepared = m.prepared,
         n.disclosure = m.disclosure, n.surface = m.surface, n.paths = m.paths
  PROVE  Sound(n) /\ Tidy(n)
<1>1. m.prepared = 0
  BY IdleFields DEF Sound, ModelInv, HeldInv
<1>2. /\ Begin(op, kind).op = op /\ Begin(op, kind).kind = kind
      /\ Begin(op, kind).phase = IF kind = "persistent" THEN "preparing" ELSE "none"
      /\ Begin(op, kind).exec = FALSE /\ Begin(op, kind).fault = FALSE
      /\ Begin(op, kind).cancel = "no" /\ Begin(op, kind).deferred = FALSE
  BY DEF Begin
<1>3. ActiveInv(n)
  BY <1>2 DEF ActiveInv, PreExecution, Ops
<1>4. HeldInv(n)
  BY <1>1, <1>2 DEF HeldInv
<1>5. ModelInv(n)
  BY <1>3, <1>4 DEF Sound, ModelInv
<1> QED BY <1>2, <1>5 DEF Sound, Tidy

LEMMA BeginType ==
  ASSUME NEW op \in Ops, NEW kind \in Kinds
  PROVE  Begin(op, kind) \in Actives
BY DEF Begin, Actives, Ops, PreExecution

LEMMA RequestSound ==
  ASSUME NEW m, Sound(m), Tidy(m), NEW op \in Ops, NEW kind \in Kinds, m.terminal.op # op,
         NEW r, r = OperationRequested(m, op, kind) \/ (r = RefreshRequested(m, op) /\ kind = "read")
  PROVE  \/ r = Keep(m) /\ m.active # Idle
         \/ /\ m.active = Idle /\ Sound(r.m) /\ Tidy(r.m)
            /\ r.m.active = Begin(op, kind) /\ r.m.readOnly = m.readOnly
            /\ r.m.terminal \in {m.terminal, NoTerminal}
            /\ \E type \in {"start", "refresh", "prepare"} :
                 /\ r.fx = {[type |-> type, op |-> op, kind |-> kind]}
                 /\ (type = "prepare") <=> (kind = "persistent")
<1>1. CASE m.active # Idle
  BY <1>1 DEF OperationRequested, RefreshRequested
<1>2. CASE m.active = Idle /\ r = OperationRequested(m, op, kind)
  <2> DEFINE type == IF kind = "persistent" THEN "prepare" ELSE "start"
  <2>0. PICK n : n = [m EXCEPT !.active = Begin(op, kind), !.terminal = NoTerminal, !.message = {}]
    OBVIOUS
  <2>1. r = Do(n, type)
    BY <1>2, <2>0 DEF OperationRequested
  <2>2. r.m = n /\ r.fx = {[type |-> type, op |-> n.active.op, kind |-> n.active.kind]}
    BY <2>1 DEF Do
  <2>3. NoTerminal \in Terminals /\ NoTerminal.op # op
    BY DEF NoTerminal, Terminals, Ops
  <2>6. /\ n \in Models /\ n.active = Begin(op, kind) /\ n.terminal = NoTerminal /\ n.message = {}
        /\ n.prepared = m.prepared /\ n.disclosure = m.disclosure
        /\ n.surface = m.surface /\ n.paths = m.paths /\ n.readOnly = m.readOnly
    BY <2>0, <2>3, BeginType DEF Sound, Models
  <2>4. Sound(n) /\ Tidy(n)
    BY <1>2, <2>3, <2>6, BeginSound
  <2>5. n.active.op = op /\ n.active.kind = kind
    BY <2>6 DEF Begin
  <2> QED BY <1>2, <2>2, <2>4, <2>5, <2>6
<1>3. CASE m.active = Idle /\ r = RefreshRequested(m, op) /\ kind = "read"
  <2>0. PICK n : n = [m EXCEPT !.active = Begin(op, "read")]
    OBVIOUS
  <2>1. r = Do(n, "refresh")
    BY <1>3, <2>0 DEF RefreshRequested
  <2>2. r.m = n /\ r.fx = {[type |-> "refresh", op |-> n.active.op, kind |-> n.active.kind]}
    BY <2>1 DEF Do
  <2>3. /\ n = [m EXCEPT !.active = Begin(op, "read"), !.terminal = m.terminal, !.message = m.message]
        /\ m.terminal \in Terminals
    BY <2>0 DEF Sound, Models
  <2>6. /\ n \in Models /\ n.active = Begin(op, "read") /\ n.terminal = m.terminal
        /\ n.message = m.message
        /\ n.prepared = m.prepared /\ n.disclosure = m.disclosure
        /\ n.surface = m.surface /\ n.paths = m.paths /\ n.readOnly = m.readOnly
    BY <1>3, <2>3, BeginType DEF Sound, Models
  <2>4. Sound(n) /\ Tidy(n)
    BY <1>3, <2>6, BeginSound
  <2>5. n.active.op = op /\ n.active.kind = kind
    BY <1>3, <2>6 DEF Begin
  <2> QED BY <1>3, <2>2, <2>4, <2>5, <2>6
<1> QED BY <1>1, <1>2, <1>3

\* A change of the operation in service alone.
LEMMA ServiceSound ==
  ASSUME NEW m, Sound(m), NEW n \in Models, ActiveInv(n),
         n.active.op = m.active.op, n.active.kind = m.active.kind,
         n.prepared = m.prepared, n.terminal.op \in {m.terminal.op, 0},
         n.message \in {m.message, {Shareable}}, n.disclosure = m.disclosure,
         n.surface = m.surface, n.paths = m.paths,
         (n.active.kind = "persistent" /\ ~n.active.exec) =>
           (n.prepared # 0 <=> n.active.phase # "preparing")
  PROVE  Sound(n)
<1>1. HeldInv(n)
  BY DEF Sound, ModelInv, HeldInv
<1>2. {Shareable} \subseteq Visible(Levels, n.surface)
  BY DEF Visible, Levels, Shareable, Local, Private, Models
<1> QED BY <1>1, <1>2 DEF Sound, ModelInv

LEMMA SubmitSound ==
  ASSUME NEW m, Sound(m), Tidy(m), NEW op,
         NEW r, r = ConfirmationSubmitted(m, op)
  PROVE  \/ r = Keep(m)
         \/ /\ AwaitsUser(m, op) /\ op = m.active.op
            /\ m.active.phase = "confirming" /\ m.active.cancel = "no"
            /\ Sound(r.m) /\ Tidy(r.m)
            /\ r.m.active = [m.active EXCEPT !.exec = TRUE]
            /\ r.m.terminal = m.terminal /\ r.m.readOnly = m.readOnly
            /\ r.fx = {[type |-> "execute", op |-> op, kind |-> m.active.kind]}
<1>1. CASE /\ AwaitsUser(m, op) /\ m.active.phase = "confirming"
           /\ m.reviewed /\ m.exact /\ m.active.cancel = "no"
  <2>1. PICK n : n = [m EXCEPT !.active.exec = TRUE]
    OBVIOUS
  <2>2. r = Do(n, "execute")
    BY <1>1, <2>1 DEF ConfirmationSubmitted
  <2>3. op = m.active.op /\ op # 0 /\ m.active.kind = "persistent"
    BY <1>1 DEF AwaitsUser, IsCurrent, Sound, ModelInv, HeldInv
  <2>4. /\ n \in Models /\ n.active = [m.active EXCEPT !.exec = TRUE]
        /\ n.prepared = m.prepared /\ n.terminal = m.terminal /\ n.readOnly = m.readOnly
        /\ n.message = m.message /\ n.disclosure = m.disclosure
        /\ n.surface = m.surface /\ n.paths = m.paths
    BY <2>1 DEF Sound, Models, Actives
  <2>5. /\ n.active.op = m.active.op /\ n.active.kind = m.active.kind /\ n.active.exec = TRUE
        /\ n.active.phase = m.active.phase /\ n.active.fault = m.active.fault
        /\ n.active.deferred = m.active.deferred
    BY <2>4 DEF Sound, Models, Actives
  <2>6. ActiveInv(n)
    BY <1>1, <2>3, <2>5 DEF ActiveInv, Sound, ModelInv, PersistentPhases, WritePhases
  <2>7. Sound(n)
    BY <2>4, <2>5, <2>6, ServiceSound
  <2>8. Tidy(n)
    BY <2>5 DEF Tidy
  <2>9. r.m = n /\ r.fx = {[type |-> "execute", op |-> n.active.op, kind |-> n.active.kind]}
    BY <2>2 DEF Do
  <2> QED BY <1>1, <2>3, <2>4, <2>5, <2>7, <2>8, <2>9
<1> QED BY <1>1 DEF ConfirmationSubmitted

LEMMA CancelSound ==
  ASSUME NEW m, Sound(m), Tidy(m), NEW op,
         NEW r, r = CancellationRequested(m, op)
  PROVE  \/ r.fx = {} /\ Sound(r.m) /\ Tidy(r.m) /\ Tended(m, r.m)
         \/ /\ op = m.active.op /\ op # 0 /\ m.active.phase \notin WritePhases
            /\ Sound(r.m) /\ Tidy(r.m)
            /\ r.m.terminal = m.terminal /\ r.m.readOnly = m.readOnly
            /\ \E c \in {"asked", "acked"} :
                 /\ r.m.active = [m.active EXCEPT !.cancel = c]
                 /\ c = "acked" <=> m.active.cancel = "acked"
            /\ r.fx = {[type |-> "cancel", op |-> op, kind |-> m.active.kind]}
<1>1. CASE ~IsCurrent(m, op)
  BY <1>1 DEF CancellationRequested, Keep, Tended
<1>2. CASE IsCurrent(m, op) /\ NonCancellable(m)
  <2>1. PICK n : n = [m EXCEPT !.active.deferred = TRUE]
    OBVIOUS
  <2>2. r = Keep(n)
    BY <1>2, <2>1 DEF CancellationRequested
  <2>3. /\ n \in Models /\ n.active = [m.active EXCEPT !.deferred = TRUE]
        /\ n.prepared = m.prepared /\ n.terminal = m.terminal /\ n.readOnly = m.readOnly
        /\ n.message = m.message /\ n.disclosure = m.disclosure
        /\ n.surface = m.surface /\ n.paths = m.paths
    BY <2>1 DEF Sound, Models, Actives
  <2>4. /\ n.active.op = m.active.op /\ n.active.kind = m.active.kind
        /\ n.active.exec = m.active.exec /\ n.active.cancel = m.active.cancel
        /\ n.active.phase = m.active.phase /\ n.active.fault = m.active.fault
    BY <2>3 DEF Sound, Models, Actives
  <2>5. ActiveInv(n)
    BY <1>2, <2>4 DEF ActiveInv, Sound, ModelInv, IsCurrent, NonCancellable
  <2>6. Sound(n)
    BY <2>3, <2>4, <2>5, ServiceSound DEF Sound, ModelInv, HeldInv
  <2>7. Tidy(n) /\ Tended(m, n)
    BY <2>3, <2>4 DEF Tidy, Tended
  <2> QED BY <2>2, <2>6, <2>7 DEF Keep
<1>3. CASE IsCurrent(m, op) /\ ~NonCancellable(m)
  <2>1. PICK c \in {"asked", "acked"} : c = IF m.active.cancel = "acked" THEN "acked" ELSE "asked"
    OBVIOUS
  <2>2. PICK n : n = [m EXCEPT !.active.cancel = c]
    OBVIOUS
  <2>3. n = [m EXCEPT !.active.cancel = IF @ = "acked" THEN @ ELSE "asked"]
    BY <2>1, <2>2
  <2>4. r = Do(n, "cancel")
    BY <1>3, <2>3 DEF CancellationRequested
  <2>5. op = m.active.op /\ op # 0 /\ m.active.phase \notin WritePhases
    BY <1>3 DEF IsCurrent, NonCancellable
  <2>6. /\ n \in Models /\ n.active = [m.active EXCEPT !.cancel = c]
        /\ n.prepared = m.prepared /\ n.terminal = m.terminal /\ n.readOnly = m.readOnly
        /\ n.message = m.message /\ n.disclosure = m.disclosure
        /\ n.surface = m.surface /\ n.paths = m.paths
    BY <2>2 DEF Sound, Models, Actives
  <2>7. /\ n.active.op = m.active.op /\ n.active.kind = m.active.kind
        /\ n.active.exec = m.active.exec /\ n.active.cancel = c
        /\ n.active.phase = m.active.phase /\ n.active.fault = m.active.fault
        /\ n.active.deferred = m.active.deferred
    BY <2>6 DEF Sound, Models, Actives
  <2>8. ActiveInv(n)
    BY <2>5, <2>7 DEF ActiveInv, Sound, ModelInv
  <2>9. Sound(n)
    BY <2>6, <2>7, <2>8, ServiceSound DEF Sound, ModelInv, HeldInv
  <2>10. Tidy(n)
    BY <2>1, <2>6, <2>7 DEF Tidy
  <2>11. r.m = n /\ r.fx = {[type |-> "cancel", op |-> n.active.op, kind |-> n.active.kind]}
    BY <2>4 DEF Do
  <2>12. r.fx = {[type |-> "cancel", op |-> op, kind |-> m.active.kind]}
    BY <2>5, <2>7, <2>11
  <2>13. c = "acked" <=> m.active.cancel = "acked"
    BY <2>1
  <2> QED BY <2>5, <2>6, <2>9, <2>10, <2>11, <2>12, <2>13
<1> QED BY <1>1, <1>2, <1>3

LEMMA AcknowledgedSound ==
  ASSUME NEW m, Sound(m), NEW op,
         NEW n, n = CancellationAcknowledged(m, op)
  PROVE  \/ n = m
         \/ /\ op = m.active.op /\ op # 0 /\ m.active.cancel # "no"
            /\ Sound(n)
            /\ n.active = [m.active EXCEPT !.cancel = "acked"]
            /\ n.terminal = m.terminal /\ n.readOnly = m.readOnly
<1>1. CASE n = m
  BY <1>1
<1>2. CASE n # m
  <2>1. /\ op = m.active.op /\ op # 0 /\ m.active.cancel # "no"
        /\ n = [m EXCEPT !.active.cancel = "acked"]
    BY <1>2 DEF CancellationAcknowledged, IsCurrent
  <2>6. /\ n \in Models /\ n.active = [m.active EXCEPT !.cancel = "acked"]
        /\ n.prepared = m.prepared /\ n.terminal = m.terminal /\ n.readOnly = m.readOnly
        /\ n.message = m.message /\ n.disclosure = m.disclosure
        /\ n.surface = m.surface /\ n.paths = m.paths
    BY <2>1 DEF Sound, Models, Actives
  <2>7. /\ n.active.op = m.active.op /\ n.active.kind = m.active.kind
        /\ n.active.exec = m.active.exec
        /\ n.active.phase = m.active.phase /\ n.active.fault = m.active.fault
        /\ n.active.deferred = m.active.deferred
    BY <2>6 DEF Sound, Models, Actives
  <2>8. ActiveInv(n)
    BY <2>1, <2>7 DEF ActiveInv, Sound, ModelInv
  <2>9. Sound(n)
    BY <2>6, <2>7, <2>8, ServiceSound DEF Sound, ModelInv, HeldInv
  <2> QED BY <2>1, <2>6, <2>9
<1> QED BY <1>1, <1>2

LEMMA ProgressSound ==
  ASSUME NEW m, Sound(m), Tidy(m), NEW op, op = m.active.op, op # 0, m.active.exec,
         m.active.phase # "post",
         NEW next, next = Follows(m.active.phase),
         NEW n, n = PersistentProgress(m, op, next)
  PROVE  /\ Sound(n) /\ Tidy(n) /\ next \in PersistentPhases
         /\ m.active.phase \in WritePhases => next \in WritePhases
         /\ n.active = [m.active EXCEPT !.phase = next]
         /\ n.terminal = m.terminal /\ n.readOnly = m.readOnly
<1>1. m.active.kind = "persistent" /\ m.active.phase \in PersistentPhases
  BY DEF Sound, ModelInv, ActiveInv, Models, Actives
<1>2. /\ next \in PersistentPhases \ {"confirming"}
      /\ m.active.phase \in WritePhases => next \in WritePhases
  BY <1>1 DEF Follows, PersistentPhases, WritePhases
<1>3. n = [m EXCEPT !.active.phase = next]
  BY DEF PersistentProgress, IsCurrent
<1>4. /\ n \in Models /\ n.active = [m.active EXCEPT !.phase = next]
      /\ n.prepared = m.prepared /\ n.terminal = m.terminal /\ n.readOnly = m.readOnly
      /\ n.message = m.message /\ n.disclosure = m.disclosure
      /\ n.surface = m.surface /\ n.paths = m.paths
  <2>1. next \in PreExecution \cup WritePhases \cup {"none", "revalidating", "armed"}
    BY <1>2 DEF PersistentPhases
  <2> QED BY <2>1, <1>3 DEF Sound, Models, Actives
<1>5. /\ n.active.op = m.active.op /\ n.active.kind = m.active.kind
      /\ n.active.exec = m.active.exec /\ n.active.cancel = m.active.cancel
      /\ n.active.phase = next /\ n.active.fault = m.active.fault
      /\ n.active.deferred = m.active.deferred
  BY <1>4 DEF Sound, Models, Actives
<1>6. ActiveInv(n)
  BY <1>1, <1>2, <1>5 DEF ActiveInv, Sound, ModelInv
<1>7. Sound(n)
  BY <1>4, <1>5, <1>6, ServiceSound
<1> QED BY <1>2, <1>4, <1>5, <1>7 DEF Tidy

\* The preparation of the operation in service is received.
LEMMA PreparedSound ==
  ASSUME NEW m, Sound(m), NEW op, op = m.active.op, op # 0,
         m.active.kind = "persistent", ~m.active.exec,
         NEW n, n = PreparedReceived(m, op)
  PROVE  /\ Sound(n)
         /\ n.active = [m.active EXCEPT !.phase = "prepared"]
         /\ n.terminal = m.terminal /\ n.readOnly = m.readOnly
<1>1. m.active.phase \in PreExecution
  BY DEF Sound, ModelInv, ActiveInv
<1>2. PICK s \in Levels : s = (IF m.surface < Local THEN Local ELSE m.surface)
  BY DEF Sound, Models, Levels
<1>3. n = [m EXCEPT !.active.phase = "prepared", !.surface = s,
                    !.prepared = op, !.reviewed = FALSE, !.exact = FALSE]
  BY <1>1, <1>2 DEF PreparedReceived, IsCurrent
<1>4. /\ n \in Models /\ n.active = [m.active EXCEPT !.phase = "prepared"]
      /\ n.prepared = op /\ n.terminal = m.terminal /\ n.readOnly = m.readOnly
      /\ n.message = m.message /\ n.disclosure = m.disclosure
      /\ n.surface = s /\ n.paths = m.paths
  <2>1. PICK a \in Actives, x \in BOOLEAN :
          a = [m.active EXCEPT !.phase = "prepared"] /\ x = FALSE
    BY DEF Sound, Models, Actives, PreExecution
  <2>2. n = [m EXCEPT !.active = a, !.surface = s, !.prepared = op, !.reviewed = x, !.exact = x]
    BY <1>3, <2>1
  <2>3. op \in 0 .. MaxOps
    BY DEF Sound, Models, Actives
  <2>4. a \in Actives /\ x \in BOOLEAN
    BY <2>1
  <2>5. n \in Models
    BY <2>2, <2>3, <2>4 DEF Sound, Models
  <2>6. /\ n.active = a /\ n.prepared = op /\ n.terminal = m.terminal /\ n.readOnly = m.readOnly
        /\ n.message = m.message /\ n.disclosure = m.disclosure
        /\ n.surface = s /\ n.paths = m.paths
    BY <2>2 DEF Sound, Models
  <2> QED BY <2>1, <2>5, <2>6
<1>5. /\ n.active.op = m.active.op /\ n.active.kind = m.active.kind
      /\ n.active.exec = m.active.exec /\ n.active.phase = "prepared"
      /\ n.active.fault = m.active.fault /\ ~n.active.deferred
  BY <1>1, <1>4 DEF Sound, Models, Actives, ModelInv, ActiveInv, PreExecution, WritePhases
<1>6. ActiveInv(n)
  BY <1>5 DEF ActiveInv, Sound, ModelInv, PreExecution
<1>7. HeldInv(n)
  BY <1>4, <1>5 DEF HeldInv, Sound, ModelInv
<1>8. s # Shareable /\ Visible(Levels, m.surface) \subseteq Visible(Levels, s)
  BY <1>2 DEF Sound, Models, Visible, Levels, Shareable, Local, Private
<1> QED BY <1>4, <1>6, <1>7, <1>8 DEF Sound, ModelInv

\* The operation in service is over.
Over(m, n, w) ==
  /\ Sound(n) /\ Tidy(n) /\ n.active = Idle /\ n.readOnly = m.readOnly
  /\ n.terminal.op = m.active.op /\ n.terminal.wrote = w

LEMMA EndSound ==
  ASSUME NEW m, Sound(m), m.active.op # 0, NEW w \in BOOLEAN, NEW p \in Levels,
         NEW outcome \in {"success", "failure"},
         NEW n, n = End(m, outcome, w, p)
  PROVE  Over(m, n, w)
<1>1. PICK k : k = IF m.active.kind = "persistent" THEN Released(m) ELSE [m EXCEPT !.active = Idle]
  OBVIOUS
<1>2. /\ k \in Models /\ k.active = Idle /\ k.prepared = 0 /\ k.readOnly = m.readOnly
      /\ k.disclosure = m.disclosure /\ k.surface = m.surface
  <2>1. CASE m.active.kind = "persistent"
    <3>1. PICK x \in BOOLEAN : x = FALSE
      OBVIOUS
    <3>2. k = [m EXCEPT !.active = Idle, !.prepared = 0, !.reviewed = x, !.exact = x, !.paths = x]
      BY <1>1, <2>1, <3>1 DEF Released
    <3>3. 0 \in 0 .. MaxOps
      OBVIOUS
    <3> QED BY <3>1, <3>2, <3>3, IdleFields DEF Sound, Models
  <2>2. CASE m.active.kind # "persistent"
    BY <1>1, <2>2, IdleFields DEF Sound, ModelInv, HeldInv, Models
  <2> QED BY <2>1, <2>2
<1>3. m.surface = Shareable => ~k.paths
  BY <1>1 DEF Released, Sound, ModelInv, Models
<1>4. PICK t \in Terminals :
        t = [op |-> m.active.op, outcome |-> outcome, wrote |-> w]
  BY DEF Terminals, Sound, Models, Actives
<1>5. Visible({p}, m.surface) \in SUBSET Visible(Levels, m.surface)
  BY DEF Visible
<1>6. n = [k EXCEPT !.terminal = t, !.message = Visible({p}, m.surface)]
  BY <1>1, <1>4 DEF End
<1>7. Visible({p}, m.surface) \in SUBSET Levels
  BY DEF Visible
<1>8. /\ n \in Models /\ n.active = Idle /\ n.prepared = 0 /\ n.readOnly = m.readOnly
      /\ n.disclosure = m.disclosure /\ n.surface = m.surface /\ n.terminal = t
      /\ n.message = Visible({p}, m.surface) /\ n.paths = k.paths
  BY <1>2, <1>6, <1>7 DEF Models
<1>9. t.op = m.active.op /\ t.wrote = w
  BY <1>4
<1>10. ActiveInv(n)
  BY <1>8, IdleFields DEF ActiveInv
<1>11. HeldInv(n)
  BY <1>8, <1>9, IdleFields DEF HeldInv
<1>12. ModelInv(n)
  BY <1>3, <1>5, <1>8, <1>10, <1>11 DEF Sound, ModelInv
<1>13. Tidy(n)
  BY <1>8, IdleFields DEF Tidy
<1> QED BY <1>8, <1>9, <1>12, <1>13 DEF Sound, Over

\* The ends of an ordinary operation.
LEMMA OrdinarySound ==
  ASSUME NEW m, Sound(m), NEW op, op = m.active.op, op # 0, m.active.kind # "persistent",
         NEW p \in Levels,
         NEW n, n \in {ApplicationCompleted(m, op, p), ApplicationFailed(m, op, p),
                       WorkerTransportFault(m, op)}
  PROVE  Over(m, n, FALSE)
<1>1. Shareable \in Levels /\ m.active.phase \notin WritePhases
  BY DEF Levels, Sound, ModelInv, ActiveInv, WritePhases
<1>2. \E outcome \in {"success", "failure"}, q \in Levels : n = End(m, outcome, FALSE, q)
  BY <1>1 DEF ApplicationCompleted, ApplicationFailed, WorkerTransportFault, IsCurrent, NonCancellable
<1> QED BY <1>2, EndSound

\* The failures of a preparation that is not received, and of an execution
\* that has not reported WRITING.
LEMMA FailedSound ==
  ASSUME NEW m, Sound(m), NEW op, op = m.active.op, op # 0, m.active.kind = "persistent",
         m.active.exec \/ m.active.phase = "preparing",
         m.active.phase \notin WritePhases,
         NEW p \in Levels,
         NEW n, n \in {ApplicationFailed(m, op, p), WorkerTransportFault(m, op)}
  PROVE  Over(m, n, FALSE)
<1>1. Shareable \in Levels
  BY DEF Levels
<1>2. \E q \in Levels : n = End(m, "failure", FALSE, q)
  BY <1>1 DEF ApplicationFailed, WorkerTransportFault, IsCurrent, NonCancellable
<1> QED BY <1>2, EndSound

\* A fault once WRITING was reported leaves the operation unresolved.
LEMMA UnresolvedSound ==
  ASSUME NEW m, Sound(m), Tidy(m), NEW op, op = m.active.op, op # 0, m.active.kind = "persistent",
         m.active.exec, m.active.phase \in WritePhases,
         NEW n, n = WorkerTransportFault(m, op)
  PROVE  /\ Sound(n) /\ Tidy(n) /\ n.active = [m.active EXCEPT !.fault = TRUE]
         /\ n.terminal.op = 0 /\ n.readOnly = m.readOnly
<1>1. n = [m EXCEPT !.active.fault = TRUE, !.terminal = NoTerminal, !.message = {Shareable}]
  BY DEF WorkerTransportFault, IsCurrent, NonCancellable
<1>2. NoTerminal \in Terminals /\ NoTerminal.op = 0 /\ Shareable \in Levels
  BY DEF NoTerminal, Terminals, Levels
<1>3. /\ n \in Models /\ n.active = [m.active EXCEPT !.fault = TRUE]
      /\ n.prepared = m.prepared /\ n.terminal = NoTerminal /\ n.readOnly = m.readOnly
      /\ n.message = {Shareable} /\ n.disclosure = m.disclosure
      /\ n.surface = m.surface /\ n.paths = m.paths
  <2>1. PICK a \in Actives : a = [m.active EXCEPT !.fault = TRUE]
    BY DEF Sound, Models, Actives
  <2>2. n = [m EXCEPT !.active = a, !.terminal = NoTerminal, !.message = {Shareable}]
    BY <1>1, <2>1
  <2>3. a \in Actives /\ {Shareable} \in SUBSET Levels
    BY <1>2, <2>1
  <2>4. n \in Models
    BY <1>2, <2>2, <2>3 DEF Sound, Models
  <2>5. /\ n.active = a /\ n.prepared = m.prepared /\ n.terminal = NoTerminal
        /\ n.readOnly = m.readOnly /\ n.message = {Shareable} /\ n.disclosure = m.disclosure
        /\ n.surface = m.surface /\ n.paths = m.paths
    BY <2>2 DEF Sound, Models
  <2> QED BY <2>1, <2>4, <2>5
<1>4. /\ n.active.op = m.active.op /\ n.active.kind = m.active.kind
      /\ n.active.exec = m.active.exec /\ n.active.cancel = m.active.cancel
      /\ n.active.phase = m.active.phase
  BY <1>3 DEF Sound, Models, Actives
<1>5. ActiveInv(n)
  BY <1>4 DEF ActiveInv, Sound, ModelInv
<1>6. Sound(n)
  BY <1>2, <1>3, <1>4, <1>5, ServiceSound
<1> QED BY <1>2, <1>3, <1>4, <1>6 DEF Tidy

LEMMA CompletedSound ==
  ASSUME NEW m, Sound(m), NEW op, op = m.active.op, op # 0, m.active.exec,
         NEW success \in BOOLEAN, NEW checked \in BOOLEAN, NEW w \in BOOLEAN,
         NEW n, n = PersistentCompleted(m, op, [success |-> success, checked |-> checked, wrote |-> w])
  PROVE  Over(m, n, w)
<1>1. Local \in Levels
  BY DEF Levels
<1>2. PICK outcome \in {"success", "failure"} :
        outcome = IF success /\ w /\ checked THEN "success" ELSE "failure"
  OBVIOUS
<1>3. n = End(m, outcome, w, Local)
  BY <1>2 DEF PersistentCompleted, IsCurrent
<1> QED BY <1>1, <1>3, EndSound

-----------------------------------------------------------------------------
(* The runner: its steps as the workers and the screen see them *)

RunnerTypeOK ==
  /\ issued \in 0..MaxOps /\ jobs \subseteq Jobs
  /\ retired \in 0..MaxOps /\ dispatched \subseteq Types \X Ops
  /\ token \in [Ops -> {"none", "live", "cancelled"}] /\ pending \subseteq Ops
  /\ exited \in BOOLEAN /\ wrote \subseteq Ops

LEMMA TypeParts == TypeOK <=> model \in Models /\ RunnerTypeOK
BY DEF TypeOK, RunnerTypeOK, Models, Actives, Terminals

LEMMA InvParts == IInv <=> Sound(model) /\ Tidy(model) /\ RunnerTypeOK /\ RunnerInv
BY TypeParts DEF IInv, Sound

LEMMA NextTypeParts == TypeOK' <=> model' \in Models /\ RunnerTypeOK'
BY DEF TypeOK, RunnerTypeOK, Models, Actives, Terminals

LEMMA NextInvParts == IInv' <=> Sound(model') /\ Tidy(model') /\ RunnerTypeOK' /\ RunnerInv'
BY NextTypeParts DEF IInv, Sound

LEMMA ActiveTypes ==
  ASSUME NEW m, Sound(m)
  PROVE  /\ m.active \in Actives /\ m.active.op \in 0 .. MaxOps /\ m.terminal.op \in 0 .. MaxOps
         /\ m.active.exec \in BOOLEAN /\ m.active.fault \in BOOLEAN
         /\ m.active.op = 0 => m.active = Idle
         /\ m.active.kind \in Kinds \cup {"none"}
         /\ m.active.op # 0 => m.active.kind \in Kinds
BY DEF Sound, Models, Actives, Terminals, ModelInv, ActiveInv

LEMMA JobTypes ==
  ASSUME RunnerTypeOK, NEW j \in jobs
  PROVE  /\ j \in Jobs /\ j.op \in Ops /\ j.op \in Nat \ {0}
         /\ j.type \in Types /\ j.pc \in Pcs /\ j.kind \in Kinds
BY DEF RunnerTypeOK, Jobs, Ops

\* The user is waited for, said of the operation alone.
Waits(a) == a.kind = "persistent" /\ ~a.exec /\ a.phase # "preparing"

\* Parts of ScreenInv, with the reducer out of sight.
Served ==
  Active.op # 0 /\ ~Active.fault =>
    /\ Active.op > retired
    /\ Waits(Active) \/ \E j \in jobs : Live(j) /\ j.op = Active.op

LEMMA ServedScreen ==
  ASSUME Sound(model) PROVE ServesTheScreen <=> Served
<1>1. Active.op # 0 => (AwaitsUser(model, Active.op) <=> Waits(Active))
  BY Awaiting DEF Active, Waits
<1> QED BY <1>1 DEF ServesTheScreen, Served, Live

LEMMA NextServedScreen ==
  ASSUME Sound(model') PROVE ServesTheScreen' <=> Served'
<1>1. (Active.op # 0)' => (AwaitsUser(model', model'.active.op) <=> Waits(model'.active))
  BY Awaiting DEF Active, Waits
<1> QED BY <1>1 DEF ServesTheScreen, Served, Live, Active, Waits

\* The cancellation of the operation on the screen is carried on.
LEMMA CarryKept ==
  ASSUME CarryInv, model'.active.op = model.active.op,
         model'.active.cancel = model.active.cancel,
         model.active.phase \in WritePhases => model'.active.phase \in WritePhases,
         <<"cancel", model.active.op>> \in dispatched' =>
           <<"cancel", model.active.op>> \in dispatched,
         \A j \in jobs : Carries(j) => \/ j \in jobs' \/ Active.cancel # "asked"
                                       \/ Active.phase \in WritePhases
  PROVE  CarryInv'
<1>1. <<"cancel", Active.op>> \in dispatched' => Active.cancel # "no"
  BY DEF CarryInv, Active
<1>2. ASSUME Active.cancel = "asked", model'.active.phase \notin WritePhases
      PROVE  \E j \in jobs' : Carries(j)'
  <2>1. PICK j \in jobs : Carries(j)
    BY <1>2 DEF CarryInv, Active
  <2>2. j \in jobs'
    BY <1>2, <2>1 DEF Active
  <2>3. Carries(j)'
    BY <2>1 DEF Carries, Active
  <2> QED BY <2>2, <2>3
<1> QED BY <1>1, <1>2 DEF CarryInv, Active

\* The operation stays on the screen; no worker but those of cancellations
\* leaves, and nothing that they do is undone.
LEMMA TendedStep ==
  ASSUME IInv, Sound(model'), Tidy(model'), Tended(model, model'),
         jobs' \subseteq jobs, \A j \in jobs : j.type # "cancel" => j \in jobs',
         \A j \in jobs : Carries(j) => \/ j \in jobs' \/ Active.cancel # "asked"
                                       \/ Active.phase \in WritePhases,
         UNCHANGED <<runner, wrote>>, issued' \in issued .. MaxOps,
         exited' \in BOOLEAN, exited' = exited \/ ~Executing
  PROVE  IInv'
<1> USE InvParts
<1>0. RunnerTypeOK' /\ issued <= issued' /\ issued \in Nat /\ issued' \in Nat
  BY DEF RunnerTypeOK, runner
<1>1. JobInv'
  BY DEF RunnerInv, JobInv
<1>2. AgeInv'
  BY <1>0, ActiveTypes, JobTypes DEF RunnerInv, AgeInv, Tended, runner, Active, RunnerTypeOK, Ops
<1>3. AwaitsUser(model, model.active.op) => \A j \in jobs : ~(Live(j) /\ j.type = "execute") /\ ~(Live(j) /\ j.type = "prepare")
  BY Awaiting DEF RunnerInv, LiveInv, Active
<1>4. LiveInv'
  BY <1>3 DEF RunnerInv, LiveInv, Tended, runner, Active, Live
<1>5. TokenInv'
  BY DEF RunnerInv, TokenInv, Tended, runner, Active, Live
<1>6. AckInv'
  BY DEF RunnerInv, AckInv, Acked, Tended, runner, Active, Live
<1>7. WroteInv'
  <2>1. AwaitsUser(model, model.active.op) => model.active.op \notin wrote
    BY DEF RunnerInv, WroteInv, Active, AwaitsUser
  <2>2. 0 \notin wrote
    BY DEF RunnerTypeOK, Ops
  <2> QED BY <2>1, <2>2 DEF RunnerInv, WroteInv, HonestTerminal, Tended, runner, Active
<1>8. ScreenInv'
  <2>1. Served
    BY ServedScreen DEF RunnerInv, ScreenInv
  <2>2. Waits(model.active) => Waits(model'.active)
    BY DEF Tended, Waits
  <2>3. Served'
    BY <2>1, <2>2 DEF Served, Tended, runner, Active, Live
  <2>4. exited' => \A j \in jobs' : j.type = "execute" => ~Live(j)
    BY DEF RunnerInv, ScreenInv, LiveInv, Active, Executing, JobInv
  <2>5. model'.readOnly => model'.active.kind \notin {"switch", "persistent"}
    BY DEF RunnerInv, ScreenInv, Tended, Active
  <2> QED BY <2>3, <2>4, <2>5, NextServedScreen DEF ScreenInv, Active, Live
<1>9. CarryInv'
  <2>1. AwaitsUser(model, model.active.op) => model.active.phase \notin WritePhases
    BY DEF AwaitsUser, PreExecution, WritePhases
  <2> QED BY <2>1, CarryKept DEF RunnerInv, Tended, runner
<1> QED BY <1>0, <1>1, <1>2, <1>4, <1>5, <1>6, <1>7, <1>8, <1>9, NextInvParts DEF RunnerInv

\* The operation leaves the screen, with or without a terminal of its own, and
\* its worker leaves the service.
LEMMA LeaveStep ==
  ASSUME IInv, Sound(model'), Tidy(model'), model.active.op # 0,
         model'.active = Idle, model'.readOnly = model.readOnly,
         model'.terminal.op \in 0 .. issued, HonestTerminal',
         jobs' \subseteq Jobs, JobInv',
         \A k \in jobs' : ~Live(k) /\ \E i \in jobs : i.op = k.op,
         RetireOperation(model.active.op), UNCHANGED <<issued, exited, wrote>>
  PROVE  IInv'
<1> USE InvParts, IdleFields
<1>a. model.active.op \in 1 .. MaxOps /\ retired \in 0 .. MaxOps /\ issued \in 0 .. MaxOps
  BY ActiveTypes DEF RunnerTypeOK
<1>b. /\ retired' \in 0 .. MaxOps
      /\ retired' \in {retired, model.active.op} /\ dispatched' \subseteq dispatched
      /\ token' \in [Ops -> {"none", "live", "cancelled"}]
      /\ \A op \in Ops : token'[op] \in {token[op], "none"}
      /\ pending' \subseteq pending
  BY <1>a DEF RetireOperation, RunnerTypeOK, Ops
<1>0. RunnerTypeOK'
  BY <1>b DEF RunnerTypeOK
<1>1. AgeInv'
  BY <1>a, <1>b, <1>0 DEF RunnerInv, AgeInv, Active, RunnerTypeOK
<1>2. 0 \notin wrote /\ \A t : <<t, 0>> \notin dispatched'
  BY <1>0 DEF RunnerTypeOK, Ops
<1>3. \A k \in jobs' : k.op # 0
  BY <1>0 DEF RunnerTypeOK, Jobs, Ops
<1>4. LiveInv'
  BY <1>2, <1>3 DEF LiveInv, Active, Live
<1>5. TokenInv'
  BY <1>3 DEF TokenInv, Active, Live, Ops
<1>6. AckInv' /\ WroteInv'
  BY <1>2 DEF AckInv, WroteInv, Active
<1>7. ScreenInv'
  <2>1. ServesTheScreen'
    BY NextServedScreen DEF Served, Active
  <2> QED BY <2>1 DEF ScreenInv, Active, Live
<1>8. CarryInv'
  BY <1>2 DEF CarryInv, Active
<1> QED BY <1>0, <1>1, <1>4, <1>5, <1>6, <1>7, <1>8, NextInvParts DEF RunnerInv

\* No worker is live while the screen is idle or waits for the user.
LEMMA NobodyLive ==
  ASSUME IInv, Active = Idle \/ AwaitsUser(model, model.active.op)
  PROVE  \A j \in jobs : ~Live(j)
<1> SUFFICES ASSUME NEW j \in jobs, Live(j) PROVE FALSE
  OBVIOUS
<1>1. Sound(model) /\ RunnerTypeOK /\ JobInv /\ LiveInv
  BY InvParts DEF RunnerInv
<1>2. /\ j.op = Active.op /\ j.kind = Active.kind
      /\ j.type = "prepare" => Active.phase = "preparing"
      /\ j.type = "execute" => Active.exec
  BY <1>1 DEF LiveInv
<1>3. j.op # 0 /\ j.type \in Types
  BY <1>1, JobTypes
<1>4. CASE Active = Idle
  BY <1>2, <1>3, <1>4, IdleFields
<1>5. CASE AwaitsUser(model, model.active.op)
  <2>1. Waits(Active)
    BY <1>1, <1>5, Awaiting DEF Waits, Active
  <2>2. j.type \notin {"start", "refresh"}
    BY <1>1, <1>2, <2>1 DEF JobInv, Waits
  <2> QED BY <1>2, <1>3, <2>1, <2>2 DEF Waits, Live, Types
<1> QED BY <1>4, <1>5

\* A new operation and its worker.
LEMMA BeginStep ==
  ASSUME IInv, Sound(model'), Tidy(model'), model.active = Idle,
         NEW op \in Ops, issued < MaxOps, op = issued + 1, issued' = op,
         NEW kind \in Kinds, model'.active = Begin(op, kind),
         model'.readOnly = model.readOnly,
         model.readOnly => kind \notin {"switch", "persistent"},
         model'.terminal \in {model.terminal, NoTerminal},
         NEW type \in {"start", "refresh", "prepare"}, type = "prepare" <=> kind = "persistent",
         NEW k, k = [type |-> type, op |-> op, kind |-> kind, pc |-> "queued", phase |-> "none"],
         jobs' = jobs \cup {k}, UNCHANGED <<runner, exited, wrote>>
  PROVE  IInv'
<1> USE InvParts
<1>a. /\ k \in Jobs /\ k.type = type /\ k.op = op /\ k.kind = kind
      /\ k.pc = "queued" /\ k.phase = "none"
  BY DEF Jobs, Types, Pcs
<1>b. /\ model'.active.op = op /\ model'.active.kind = kind /\ model'.active.exec = FALSE
      /\ model'.active.fault = FALSE /\ model'.active.cancel = "no"
      /\ model'.active.phase = IF kind = "persistent" THEN "preparing" ELSE "none"
  BY DEF Begin
<1>c. NoTerminal.op = 0
  BY DEF NoTerminal
<1>0. RunnerTypeOK'
  BY <1>a DEF RunnerTypeOK, runner
<1>1. JobInv'
  BY <1>a DEF RunnerInv, JobInv
<1>d. /\ issued \in Nat /\ op \in Nat \ {0} /\ issued < op /\ model.terminal.op \in Nat
      /\ model.terminal.op <= issued /\ retired \in Nat /\ retired <= issued
      /\ \A j \in jobs : j.op \in Nat /\ j.op <= issued
      /\ \A d \in dispatched : d[2] \in Nat /\ d[2] <= issued
      /\ \A o \in Ops : o \in Nat /\ (token[o] # "none" => o <= issued)
      /\ \A o \in wrote : o \in Nat /\ o <= issued
  BY ActiveTypes, JobTypes DEF RunnerTypeOK, RunnerInv, AgeInv, Active, Ops
<1>e. 0 \in Nat /\ 0 <= op /\ op <= op
  BY <1>d
<1>2. AgeInv'
  BY <1>a, <1>b, <1>c, <1>d, <1>e DEF AgeInv, Active, runner
<1>f. \A j \in jobs : ~Live(j)
  BY NobodyLive DEF Active
<1>3. LiveInv'
  <2>1. <<type, op>> \notin dispatched /\ <<"execute", op>> \notin dispatched
    BY <1>d
  <2>2. \A j \in jobs : j.op # op
    BY <1>d
  <2> QED BY <2>1, <2>2, <1>a, <1>b, <1>f DEF LiveInv, Active, runner, Live
<1>4. TokenInv'
  <2>1. \A o \in Ops : token[o] # "none" => o # op
    BY <1>d
  <2>2. \A j \in jobs : j.op # op
    BY <1>d
  <2> QED BY <2>1, <2>2, <1>a, <1>b, <1>f DEF TokenInv, Active, runner, Live
<1>5. AckInv'
  BY <1>b DEF AckInv, Active
<1>6. WroteInv'
  <2>1. op \notin wrote /\ 0 \notin wrote
    BY <1>d DEF RunnerTypeOK, Ops
  <2> QED BY <2>1, <1>b, <1>c DEF RunnerInv, WroteInv, HonestTerminal, Active
<1>7. ScreenInv'
  <2>1. k \in jobs' /\ Live(k) /\ k.op = model'.active.op /\ model'.active.op > retired'
    BY <1>a, <1>b, <1>d DEF Live, runner
  <2>2. ServesTheScreen'
    BY <2>1, NextServedScreen DEF Served, Active
  <2>3. exited' => \A j \in jobs' : j.type = "execute" => ~Live(j)
    BY <1>a, <1>f DEF Live
  <2> QED BY <2>2, <2>3, <1>b DEF ScreenInv, Active, Live
<1>8. CarryInv'
  <2>1. <<"cancel", op>> \notin dispatched
    BY <1>d
  <2> QED BY <2>1, <1>b DEF CarryInv, Active, runner
<1> QED BY <1>0, <1>1, <1>2, <1>3, <1>4, <1>5, <1>6, <1>7, <1>8, NextInvParts DEF RunnerInv

\* The confirmed operation and its worker.
LEMMA SubmitStep ==
  ASSUME IInv, Sound(model'), Tidy(model'), AwaitsUser(model, model.active.op), ~exited,
         model.active.phase = "confirming", model.active.cancel = "no",
         model'.active = [model.active EXCEPT !.exec = TRUE],
         model'.terminal = model.terminal, model'.readOnly = model.readOnly,
         NEW k, k = [type |-> "execute", op |-> model.active.op, kind |-> model.active.kind,
                     pc |-> "queued", phase |-> "none"],
         jobs' = jobs \cup {k}, UNCHANGED <<runner, issued, exited, wrote>>
  PROVE  IInv'
<1> USE InvParts
<1>a. model.active \in Actives /\ model.active.op # 0 /\ model.active.op \in Ops
      /\ Waits(model.active) /\ model.active.kind = "persistent"
      /\ model.active.exec = FALSE /\ model.active.fault = FALSE
  BY ActiveTypes, Awaiting DEF AwaitsUser, IsCurrent, Ops, Waits, Sound, ModelInv, ActiveInv
<1>b. /\ model'.active.op = model.active.op /\ model'.active.kind = "persistent"
      /\ model'.active.exec = TRUE /\ model'.active.fault = FALSE
      /\ model'.active.cancel = "no" /\ model'.active.phase = "confirming"
  BY <1>a DEF Actives
<1>c. /\ k \in Jobs /\ k.type = "execute" /\ k.op = model.active.op /\ k.kind = "persistent"
      /\ k.pc = "queued" /\ k.phase = "none"
  BY <1>a DEF Jobs, Types, Pcs, Kinds
<1>0. RunnerTypeOK'
  BY <1>c DEF RunnerTypeOK, runner
<1>1. JobInv'
  BY <1>c DEF RunnerInv, JobInv
<1>2. AgeInv'
  BY <1>a, <1>b, <1>c, ActiveTypes DEF RunnerInv, AgeInv, Active, runner
<1>d. \A j \in jobs : ~Live(j)
  BY NobodyLive DEF Active
<1>e. <<"execute", model.active.op>> \notin dispatched /\ token[model.active.op] = "none"
  BY <1>a DEF RunnerInv, LiveInv, TokenInv, Active
<1>3. LiveInv'
  BY <1>b, <1>c, <1>d, <1>e DEF RunnerInv, LiveInv, Active, runner, Live
<1>4. TokenInv'
  BY <1>a, <1>b, <1>c, <1>d, <1>e DEF RunnerInv, TokenInv, Active, runner, Live
<1>5. AckInv'
  BY <1>a, <1>b, <1>c DEF RunnerInv, TokenInv, AckInv, Acked, Active
<1>6. WroteInv'
  BY <1>a, <1>b DEF RunnerInv, WroteInv, HonestTerminal, Active
<1>7. ScreenInv'
  <2>1. Served
    BY ServedScreen DEF RunnerInv, ScreenInv
  <2>2. k \in jobs' /\ Live(k) /\ k.op = model'.active.op
    BY <1>b, <1>c DEF Live
  <2>3. ServesTheScreen'
    BY <2>1, <2>2, <1>a, <1>b, NextServedScreen DEF Served, Active, runner
  <2> QED BY <2>3, <1>a, <1>b DEF RunnerInv, ScreenInv, Active, Live
<1>8. CarryInv'
  BY <1>a, <1>b, CarryKept DEF RunnerInv, runner, WritePhases
<1> QED BY <1>0, <1>1, <1>2, <1>3, <1>4, <1>5, <1>6, <1>7, <1>8, NextInvParts DEF RunnerInv

\* A cancellation is asked for, and has a worker of its own.
LEMMA CancelStep ==
  ASSUME IInv, Sound(model'), Tidy(model'), ~exited, model.active.op # 0,
         NEW c \in {"asked", "acked"}, model'.active = [model.active EXCEPT !.cancel = c],
         c = "acked" <=> model.active.cancel = "acked",
         model'.terminal = model.terminal, model'.readOnly = model.readOnly,
         NEW k, k = [type |-> "cancel", op |-> model.active.op, kind |-> model.active.kind,
                     pc |-> "queued", phase |-> "none"],
         jobs' = jobs \cup {k}, UNCHANGED <<runner, issued, exited, wrote>>
  PROVE  IInv'
<1> USE InvParts
<1>a. model.active \in Actives /\ model.active.op \in Ops /\ model.active.kind \in Kinds
  BY ActiveTypes DEF Ops
<1>b. /\ model'.active.op = model.active.op /\ model'.active.kind = model.active.kind
      /\ model'.active.exec = model.active.exec /\ model'.active.fault = model.active.fault
      /\ model'.active.cancel = c /\ model'.active.phase = model.active.phase
  BY <1>a DEF Actives
<1>c. /\ k \in Jobs /\ k.type = "cancel" /\ k.op = model.active.op
      /\ k.pc = "queued" /\ k.phase = "none"
  BY <1>a DEF Jobs, Types, Pcs
<1>0. RunnerTypeOK'
  BY <1>c DEF RunnerTypeOK, runner
<1>1. JobInv'
  BY <1>c DEF RunnerInv, JobInv
<1>2. AgeInv'
  BY <1>a, <1>b, <1>c, ActiveTypes DEF RunnerInv, AgeInv, Active, runner
<1>3. LiveInv'
  BY <1>b, <1>c DEF RunnerInv, LiveInv, Active, runner, Live
<1>4. TokenInv'
  BY <1>a, <1>b, <1>c DEF RunnerInv, TokenInv, Active, runner, Live
<1>5. AckInv'
  <2>1. Acked' => Acked
    BY <1>b, <1>c DEF Acked, Active
  <2> QED BY <2>1, <1>b, <1>c DEF RunnerInv, AckInv, Active, runner, Live
<1>6. WroteInv'
  BY <1>a, <1>b DEF RunnerInv, WroteInv, HonestTerminal, Active
<1>7. ScreenInv'
  <2>1. Served
    BY ServedScreen DEF RunnerInv, ScreenInv
  <2>2. Waits(model.active) <=> Waits(model'.active)
    BY <1>b DEF Waits
  <2>3. ServesTheScreen'
    BY <2>1, <2>2, <1>b, NextServedScreen DEF Served, Active, runner
  <2> QED BY <2>3, <1>b DEF RunnerInv, ScreenInv, Active
<1>8. CarryInv'
  <2>1. CASE model.active.cancel = "asked"
    BY <2>1, <1>b, CarryKept DEF RunnerInv, runner
  <2>2. CASE model.active.cancel = "acked"
    BY <2>2, <1>b DEF CarryInv, Active
  <2>3. CASE model.active.cancel \notin {"asked", "acked"}
    <3>1. <<"cancel", model.active.op>> \notin dispatched
      BY <2>3, <1>a DEF RunnerInv, CarryInv, Active, Actives
    <3>2. Carries(k)'
      BY <3>1, <1>b, <1>c DEF Carries, Active, runner
    <3> QED BY <3>2, <1>b DEF CarryInv, Active
  <2> QED BY <2>1, <2>2, <2>3
<1> QED BY <1>0, <1>1, <1>2, <1>3, <1>4, <1>5, <1>6, <1>7, <1>8, NextInvParts DEF RunnerInv

\* The worker of a cancellation hands its acknowledgement over, and leaves.
LEMMA AcknowledgeStep ==
  ASSUME IInv, Sound(model'), Tidy(model'), NEW j \in jobs, j.pc = "ack",
         j.op = model.active.op, model.active.op # 0,
         model'.active = [model.active EXCEPT !.cancel = "acked"],
         model'.terminal = model.terminal, model'.readOnly = model.readOnly,
         jobs' = jobs \ {j}, UNCHANGED <<runner, issued, exited, wrote>>
  PROVE  IInv'
<1> USE InvParts
<1>a. model.active \in Actives /\ model.active.op \in Ops
  BY ActiveTypes DEF Ops
<1>b. /\ model'.active.op = model.active.op /\ model'.active.kind = model.active.kind
      /\ model'.active.exec = model.active.exec /\ model'.active.fault = model.active.fault
      /\ model'.active.cancel = "acked" /\ model'.active.phase = model.active.phase
  BY <1>a DEF Actives
<1>c. j.type = "cancel"
  BY JobTypes DEF RunnerInv, JobInv, Types
<1>0. RunnerTypeOK'
  BY DEF RunnerTypeOK, runner
<1>1. JobInv'
  BY DEF RunnerInv, JobInv
<1>2. AgeInv'
  BY <1>a, <1>b, ActiveTypes DEF RunnerInv, AgeInv, Active, runner
<1>3. LiveInv'
  BY <1>b DEF RunnerInv, LiveInv, Active, runner, Live
<1>4. TokenInv'
  BY <1>a, <1>b DEF RunnerInv, TokenInv, Active, runner, Live
<1>5. AckInv'
  <2>1. Acked
    BY <1>c DEF Acked, Active
  <2> QED BY <2>1, <1>b DEF RunnerInv, AckInv, Active, runner, Live
<1>6. WroteInv'
  BY <1>a, <1>b DEF RunnerInv, WroteInv, HonestTerminal, Active
<1>7. ScreenInv'
  <2>1. Served
    BY ServedScreen DEF RunnerInv, ScreenInv
  <2>2. Waits(model.active) <=> Waits(model'.active)
    BY <1>b DEF Waits
  <2>3. ServesTheScreen'
    BY <2>1, <2>2, <1>b, <1>c, NextServedScreen DEF Served, Active, runner, Live
  <2> QED BY <2>3, <1>b DEF RunnerInv, ScreenInv, Active
<1>8. CarryInv'
  BY <1>b DEF CarryInv, Active
<1> QED BY <1>0, <1>1, <1>2, <1>3, <1>4, <1>5, <1>6, <1>7, <1>8, NextInvParts DEF RunnerInv

\* A worker at its next position.
LEMMA Moved ==
  ASSUME NEW j \in Jobs, NEW pc \in Pcs, NEW k, k = [j EXCEPT !.pc = pc]
  PROVE  /\ k \in Jobs /\ k.pc = pc /\ k.type = j.type /\ k.op = j.op
         /\ k.kind = j.kind /\ k.phase = j.phase
BY DEF Jobs

\* What is known of a live worker.
LEMMA LiveFacts ==
  ASSUME IInv, NEW j \in jobs, Live(j)
  PROVE  /\ j.op = model.active.op /\ j.op \in Ops /\ j.op # 0 /\ j.kind = model.active.kind
         /\ model.active.fault = FALSE /\ j.type \in Types \ {"cancel"}
         /\ j \in Jobs /\ \A i \in jobs : Live(i) => i = j
         /\ j.type = "prepare" =>
              /\ model.active.kind = "persistent" /\ ~model.active.exec
              /\ model.active.phase = "preparing" /\ j.pc \in {"queued", "call"}
         /\ j.type \in {"start", "refresh"} =>
              /\ model.active.kind # "persistent" /\ ~model.active.exec
              /\ j.pc \in {"queued", "call", "finish"}
         /\ j.type = "execute" =>
              /\ model.active.exec /\ model.active.kind = "persistent"
              /\ j.pc \in {"queued", "register", "running", "cleared"}
              /\ model.active.phase = IF j.pc \in {"queued", "register"}
                                      THEN "confirming" ELSE j.phase
              /\ j.phase \in PersistentPhases \cup {"none"}
         /\ j.pc = "queued" => <<j.type, j.op>> \notin dispatched
         /\ model.active.op > retired
<1>1. Sound(model) /\ RunnerTypeOK /\ JobInv /\ LiveInv /\ ScreenInv
  BY InvParts DEF RunnerInv
<1>2. j \in Jobs /\ j.op \in Ops /\ j.op # 0 /\ j.type \in Types /\ model.active.fault \in BOOLEAN
  BY <1>1, JobTypes, ActiveTypes
<1>3. /\ j.op = model.active.op /\ j.kind = model.active.kind /\ ~model.active.fault
      /\ \A i \in jobs : Live(i) => i = j
      /\ j.type = "prepare" => model.active.phase = "preparing"
      /\ j.type = "execute" =>
           /\ model.active.exec
           /\ model.active.phase = IF j.pc \in {"queued", "register"}
                                   THEN "confirming" ELSE j.phase
      /\ j.pc = "queued" => <<j.type, j.op>> \notin dispatched
  BY <1>1 DEF LiveInv, Active
<1>4. model.active.op > retired
  BY <1>1, <1>2, <1>3, ServedScreen DEF ScreenInv, Served, Active
<1>5. /\ j.type = "prepare" => j.kind = "persistent" /\ j.pc \in {"queued", "call"}
      /\ j.type \in {"start", "refresh"} => j.kind # "persistent" /\ j.pc \in {"queued", "call", "finish"}
      /\ j.type = "execute" => /\ j.kind = "persistent"
                               /\ j.pc \in {"queued", "register", "running", "cleared"}
                               /\ j.phase \in PersistentPhases \cup {"none"}
  BY <1>1 DEF JobInv, Live
<1>6. /\ j.type = "prepare" => ~model.active.exec
      /\ j.kind # "persistent" => ~model.active.exec
  BY <1>1, <1>3 DEF Sound, ModelInv, ActiveInv, PersistentPhases, WritePhases
<1>7. j.type # "cancel"
  BY DEF Live
<1> QED BY <1>2, <1>3, <1>4, <1>5, <1>6, <1>7

\* A live worker goes on, and the screen with it.
LEMMA AdvanceStep ==
  ASSUME IInv, Sound(model'), Tidy(model'), NEW j \in jobs, Live(j), NEW k \in Jobs, Live(k),
         k.type = j.type, k.op = j.op, k.kind = j.kind, k.pc # "queued",
         jobs' = (jobs \ {j}) \cup {k}, JobInv',
         model'.active.op = model.active.op, model'.active.kind = model.active.kind,
         model'.active.exec = model.active.exec, model'.active.fault = model.active.fault,
         model'.active.cancel = model.active.cancel, model'.terminal = model.terminal,
         j.type # "execute" => model'.active.phase = model.active.phase,
         j.type = "execute" =>
           model'.active.phase = IF k.pc = "register" THEN "confirming" ELSE k.phase,
         model.active.phase \in WritePhases => model'.active.phase \in WritePhases,
         model'.readOnly \in BOOLEAN, model'.readOnly = model.readOnly \/ j.kind = "probe",
         UNCHANGED <<issued, retired, exited>>, ~exited,
         dispatched' \subseteq dispatched \cup {<<j.type, j.op>>},
         token' \in [Ops -> {"none", "live", "cancelled"}], pending' \subseteq Ops,
         \A o \in Ops \ {j.op} : token'[o] = token[o],
         IF j.type = "execute"
         THEN /\ token'[j.op] = "none" <=> k.pc = "register"
              /\ token[j.op] = "cancelled" \/ (j.op \in pending /\ j.pc \in {"queued", "register"}) =>
                   token'[j.op] = "cancelled" \/ (j.op \in pending' /\ k.pc = "register")
         ELSE token'[j.op] = token[j.op],
         wrote' = wrote \/ (wrote' = wrote \cup {j.op} /\ model'.active.phase \in WritePhases
                            /\ j.type = "execute")
  PROVE  IInv'
<1> USE InvParts
<1>a. /\ j.op = model.active.op /\ j.op \in Ops /\ j.op # 0 /\ j.op \in Nat /\ j.kind = model.active.kind
      /\ model.active.fault = FALSE /\ j.type \in Types \ {"cancel"}
      /\ \A i \in jobs : Live(i) => i = j
      /\ j.type = "execute" => model.active.exec
      /\ j.type = "prepare" => model.active.phase = "preparing"
      /\ j.op <= issued /\ issued \in Nat
  <2>1. RunnerTypeOK /\ AgeInv
    BY DEF RunnerInv
  <2>2. j.op \in Nat /\ j.op <= issued /\ issued \in Nat
    BY <2>1, JobTypes DEF RunnerTypeOK, AgeInv
  <2> QED BY <2>2, LiveFacts
<1>0. RunnerTypeOK'
  BY <1>a DEF RunnerTypeOK
<1>1. AgeInv'
  BY <1>a, ActiveTypes DEF RunnerInv, AgeInv, Active, Ops, RunnerTypeOK
<1>2. LiveInv'
  <2>1. \A i \in jobs' : Live(i) <=> i = k
    BY <1>a
  <2>2. \A i \in jobs' : i.type # "cancel" /\ ~Live(i) => i.op # model'.active.op
    BY <1>a DEF RunnerInv, LiveInv, Active
  <2>3. <<"execute", model'.active.op>> \in dispatched' => model'.active.exec
    BY <1>a DEF RunnerInv, LiveInv, Active
  <2>4. /\ k.op = model'.active.op /\ k.kind = model'.active.kind /\ ~model'.active.fault
        /\ k.type = "prepare" => model'.active.phase = "preparing"
        /\ k.type = "execute" =>
             /\ model'.active.exec
             /\ model'.active.phase = IF k.pc \in {"queued", "register"}
                                      THEN "confirming" ELSE k.phase
    BY <1>a
  <2> QED BY <2>1, <2>2, <2>3, <2>4 DEF LiveInv, Active
<1>3. TokenInv'
  <2>1. \A o \in Ops : o = model'.active.op /\ token'[o] # "none" => model'.active.exec
    BY <1>a DEF RunnerInv, TokenInv, Active
  <2>2. \A i \in jobs' : i.type = "execute" /\ Live(i) =>
          (token'[i.op] = "none" <=> i.pc \in {"queued", "register"})
    BY <1>a
  <2>3. \A i \in jobs' : i.type = "cancel" /\ i.op = model'.active.op => model'.active.cancel # "no"
    BY <1>a DEF RunnerInv, TokenInv, Active
  <2> QED BY <2>1, <2>2, <2>3 DEF TokenInv, Active
<1>4. AckInv'
  <2>1. Acked' => Acked
    BY <1>a DEF Acked, Active
  <2>2. (Active.exec /\ Acked)' /\ j.type = "execute" =>
          token'[k.op] = "cancelled" \/ (k.pc \in {"queued", "register"} /\ k.op \in pending')
    BY <2>1, <1>a DEF RunnerInv, AckInv, Active
  <2> QED BY <2>2, <1>a DEF AckInv, Active
<1>5. WroteInv'
  <2>1. model.terminal.op # 0 => model.terminal.op # model.active.op
    BY DEF Sound, ModelInv, HeldInv
  <2> QED BY <2>1, <1>a DEF RunnerInv, WroteInv, HonestTerminal, Active
<1>6. ScreenInv'
  <2>1. model'.active.op > retired'
    BY LiveFacts
  <2>2. ServesTheScreen'
    BY <2>1, <1>a, NextServedScreen DEF Served, Active
  <2> QED BY <2>2, <1>a DEF RunnerInv, ScreenInv, Active
<1>7. CarryInv'
  <2>1. \A i \in jobs : Carries(i) => i \in jobs'
    BY <1>a DEF Carries
  <2> QED BY <2>1, <1>a, CarryKept DEF RunnerInv
<1> QED BY <1>0, <1>1, <1>2, <1>3, <1>4, <1>5, <1>6, <1>7, NextInvParts DEF RunnerInv

\* A preparation is received and kept: the worker leaves, the user is awaited.
LEMMA PreparedStep ==
  ASSUME IInv, Sound(model'), Tidy(model'), NEW j \in jobs, Live(j), j.type = "prepare",
         model'.active = [model.active EXCEPT !.phase = "prepared"],
         model'.terminal = model.terminal, model'.readOnly = model.readOnly,
         jobs' = jobs \ {j}, UNCHANGED <<runner, issued, exited, wrote>>
  PROVE  IInv'
<1> USE InvParts
<1>a. model.active \in Actives /\ model.active.kind = "persistent" /\ ~model.active.exec
      /\ model.active.fault = FALSE /\ model.active.op # 0
      /\ model.active.op > retired /\ \A i \in jobs : Live(i) => i = j
  BY ActiveTypes, LiveFacts
<1>b. /\ model'.active.op = model.active.op /\ model'.active.kind = model.active.kind
      /\ model'.active.exec = model.active.exec /\ model'.active.fault = model.active.fault
      /\ model'.active.cancel = model.active.cancel /\ model'.active.phase = "prepared"
  BY <1>a DEF Actives
<1>0. RunnerTypeOK'
  BY DEF RunnerTypeOK, runner
<1>1. JobInv'
  BY DEF RunnerInv, JobInv
<1>2. AgeInv'
  BY <1>a, <1>b, ActiveTypes DEF RunnerInv, AgeInv, Active, runner
<1>3. LiveInv'
  BY <1>a, <1>b DEF RunnerInv, LiveInv, Active, runner
<1>4. TokenInv'
  BY <1>a, <1>b DEF RunnerInv, TokenInv, Active, runner
<1>5. AckInv'
  BY <1>a, <1>b DEF AckInv, Active
<1>6. WroteInv'
  BY <1>a, <1>b DEF RunnerInv, WroteInv, HonestTerminal, Active
<1>7. ScreenInv'
  <2>1. ServesTheScreen'
    BY <1>a, <1>b, NextServedScreen DEF Served, Waits, Active, runner
  <2> QED BY <2>1, <1>b DEF RunnerInv, ScreenInv, Active
<1>8. CarryInv'
  <2>1. model.active.phase \notin WritePhases
    BY LiveFacts DEF WritePhases
  <2>2. \A i \in jobs : Carries(i) => i \in jobs'
    BY DEF Carries
  <2> QED BY <2>1, <2>2, <1>b, CarryKept DEF RunnerInv, runner
<1> QED BY <1>0, <1>1, <1>2, <1>3, <1>4, <1>5, <1>6, <1>7, <1>8, NextInvParts DEF RunnerInv

\* An execution breaks once WRITING was reported: it stays, unresolved.
LEMMA UnresolvedStep ==
  ASSUME IInv, Sound(model'), Tidy(model'), NEW j \in jobs, Live(j), j.type = "execute",
         model.active.phase \in WritePhases,
         model'.active = [model.active EXCEPT !.fault = TRUE],
         model'.terminal.op = 0, model'.readOnly = model.readOnly,
         NEW k \in Jobs, k.type = j.type, k.op = j.op, ~Live(k),
         jobs' = (jobs \ {j}) \cup {k}, JobInv', UNCHANGED <<runner, issued, exited, wrote>>
  PROVE  IInv'
<1> USE InvParts
<1>a. model.active \in Actives /\ model.active.exec /\ j.op \in Ops
      /\ j.op = model.active.op /\ \A i \in jobs : Live(i) => i = j
  BY ActiveTypes, LiveFacts
<1>b. /\ model'.active.op = model.active.op /\ model'.active.kind = model.active.kind
      /\ model'.active.exec = model.active.exec /\ model'.active.fault = TRUE
      /\ model'.active.cancel = model.active.cancel
      /\ model'.active.phase = model.active.phase
  BY <1>a DEF Actives
<1>c. \A i \in jobs' : ~Live(i)
  BY <1>a
<1>0. RunnerTypeOK'
  BY DEF RunnerTypeOK, runner
<1>2. AgeInv'
  BY <1>a, <1>b, ActiveTypes DEF RunnerInv, AgeInv, Active, runner, RunnerTypeOK
<1>3. LiveInv'
  BY <1>a, <1>b, <1>c DEF RunnerInv, LiveInv, Active, runner
<1>4. TokenInv'
  BY <1>a, <1>b, <1>c DEF RunnerInv, TokenInv, Active, runner
<1>5. AckInv'
  BY <1>c DEF AckInv
<1>6. WroteInv'
  <2>1. 0 \notin wrote
    BY DEF RunnerTypeOK, Ops
  <2> QED BY <2>1, <1>a, <1>b DEF RunnerInv, WroteInv, HonestTerminal, Active
<1>7. ScreenInv'
  <2>1. ServesTheScreen'
    BY <1>b, NextServedScreen DEF Served, Active
  <2> QED BY <2>1, <1>b, <1>c DEF RunnerInv, ScreenInv, Active
<1>8. CarryInv'
  <2>1. \A i \in jobs : Carries(i) => i \in jobs'
    BY DEF Carries
  <2> QED BY <2>1, <1>b, CarryKept DEF RunnerInv, runner
<1> QED BY <1>0, <1>2, <1>3, <1>4, <1>5, <1>6, <1>7, <1>8, NextInvParts DEF RunnerInv

\* A worker whose end was handed over puts its operation away.
LEMMA PutAwayStep ==
  ASSUME IInv, NEW j \in jobs, j.pc \in {"pop", "retire"},
         \/ jobs' = jobs \ {j}
         \/ \E k \in Jobs : /\ jobs' = (jobs \ {j}) \cup {k}
                            /\ k.type = j.type /\ k.op = j.op /\ ~Live(k),
         JobInv',
         retired' \in 0 .. MaxOps, retired' = retired \/ retired' = j.op,
         dispatched' \subseteq dispatched, token' = [token EXCEPT ![j.op] = "none"],
         pending' = pending \ {j.op}, UNCHANGED <<model, issued, exited, wrote>>
  PROVE  IInv'
<1> USE InvParts
<1>a. j.type # "cancel" /\ ~Live(j) /\ j.op \in Ops /\ j.op \in Nat \ {0}
  BY JobTypes DEF RunnerInv, JobInv, Live
<1>b. j.op # model.active.op \/ model.active.fault
  BY <1>a DEF RunnerInv, LiveInv, Active
<1>c. /\ jobs' \subseteq Jobs
      /\ \A i \in jobs' : i \in jobs \/ (i.type = j.type /\ i.op = j.op /\ ~Live(i))
      /\ \A i \in jobs : i # j => i \in jobs'
  BY DEF RunnerTypeOK
<1>d. \A i \in jobs' : Live(i) => i \in jobs /\ i.op = model.active.op /\ i.op # j.op
  BY <1>b, <1>c, LiveFacts
<1>e. /\ token' \in [Ops -> {"none", "live", "cancelled"}]
      /\ \A o \in Ops : token'[o] = IF o = j.op THEN "none" ELSE token[o]
  BY DEF RunnerTypeOK
<1>0. RunnerTypeOK'
  BY <1>c, <1>e DEF RunnerTypeOK
<1>1. AgeInv'
  BY <1>a, <1>c, <1>e DEF RunnerInv, AgeInv, Active
<1>2. LiveInv'
  BY <1>a, <1>b, <1>c, <1>d DEF RunnerInv, LiveInv, Active
<1>3. TokenInv'
  <2>1. \A i \in jobs' : i.type = "execute" /\ Live(i) => token'[i.op] = token[i.op]
    BY <1>d, <1>e, LiveFacts
  <2>2. \A i \in jobs' : i.type = "cancel" => i \in jobs
    BY <1>a, <1>c
  <2> QED BY <2>1, <2>2, <1>d, <1>e DEF RunnerInv, TokenInv, Active
<1>4. AckInv'
  <2>1. Acked' => Acked
    BY <1>a, <1>c DEF Acked, Active
  <2>2. \A i \in jobs' : Live(i) => token'[i.op] = token[i.op] /\ (i.op \in pending => i.op \in pending')
    BY <1>d, <1>e, LiveFacts
  <2> QED BY <2>1, <2>2, <1>d DEF RunnerInv, AckInv, Active
<1>5. WroteInv'
  BY DEF RunnerInv, WroteInv, HonestTerminal, Active
<1>6. ScreenInv'
  <2>1. Served
    BY ServedScreen DEF RunnerInv, ScreenInv
  <2>2. Active.op # 0 /\ ~Active.fault => Active.op > j.op
    BY <1>a, <1>b, ActiveTypes DEF RunnerInv, AgeInv, Active
  <2>3. \A i \in jobs : Live(i) => i \in jobs'
    BY <1>a, <1>c
  <2>4. Served'
    BY <2>1, <2>2, <2>3 DEF Served, Active
  <2>5. ServesTheScreen'
    BY <2>4, NextServedScreen
  <2> QED BY <2>5, <1>d DEF RunnerInv, ScreenInv, Active
<1>7. CarryInv'
  <2>1. \A i \in jobs : Carries(i) => i \in jobs'
    BY <1>a, <1>c DEF Carries
  <2> QED BY <2>1, CarryKept DEF RunnerInv
<1> QED BY <1>0, <1>1, <1>2, <1>3, <1>4, <1>5, <1>6, <1>7, NextInvParts DEF RunnerInv

\* The worker of a cancellation goes on or is dropped.
LEMMA CancelWorkStep ==
  ASSUME IInv, NEW j \in jobs, j.type = "cancel",
         \/ /\ jobs' = jobs \ {j} /\ dispatched' = dispatched /\ j.pc = "queued"
            /\ j.op <= retired \/ <<j.type, j.op>> \in dispatched
            /\ token' = token /\ pending' = pending
         \/ /\ \E k \in Jobs : /\ jobs' = (jobs \ {j}) \cup {k}
                               /\ k.type = j.type /\ k.op = j.op /\ k.pc = "lock"
            /\ token' = token /\ pending' = pending
         \/ /\ \E k \in Jobs : /\ jobs' = (jobs \ {j}) \cup {k}
                               /\ k.type = j.type /\ k.op = j.op /\ k.pc = "ack"
            /\ IF token[j.op] = "none"
               THEN pending' = pending \cup {j.op} /\ token' = token
               ELSE token' = [token EXCEPT ![j.op] = "cancelled"] /\ pending' = pending,
         JobInv', dispatched' \subseteq dispatched \cup {<<j.type, j.op>>},
         UNCHANGED <<model, retired, issued, exited, wrote>>
  PROVE  IInv'
<1> USE InvParts
<1>a. ~Live(j) /\ j.op \in Ops /\ j.op \in Nat /\ j.op <= issued
  BY JobTypes DEF RunnerInv, AgeInv, Live
<1>b. /\ jobs' \subseteq Jobs
      /\ \A i \in jobs' : i \in jobs \/ (i.type = "cancel" /\ i.op = j.op)
      /\ \A i \in jobs : i.type # "cancel" => i \in jobs'
      /\ \A i \in jobs' : Live(i) => i \in jobs
  BY DEF RunnerTypeOK, Live
<1>c. /\ token' \in [Ops -> {"none", "live", "cancelled"}]
      /\ \A o \in Ops : token'[o] = token[o] \/ (o = j.op /\ token[o] # "none" /\ token'[o] = "cancelled")
      /\ pending \subseteq pending' /\ pending' \subseteq Ops
  BY <1>a DEF RunnerTypeOK
<1>0. RunnerTypeOK'
  BY <1>a, <1>b, <1>c DEF RunnerTypeOK, Types
<1>1. AgeInv'
  BY <1>a, <1>b, <1>c DEF RunnerInv, AgeInv, Active
<1>2. LiveInv'
  BY <1>b DEF RunnerInv, LiveInv, Active, Live
<1>3. TokenInv'
  BY <1>b, <1>c DEF RunnerInv, TokenInv, Active, Live, RunnerTypeOK, Jobs
<1>4. AckInv'
  <2> SUFFICES ASSUME Active.exec, Acked', NEW i \in jobs, i.type = "execute", Live(i)
               PROVE  token'[i.op] = "cancelled"
                        \/ (i.pc \in {"queued", "register"} /\ i.op \in pending')
    BY <1>b DEF AckInv, Active
  <2>1. i.op = Active.op /\ i.op \in Ops /\ (token[i.op] = "none" <=> i.pc \in {"queued", "register"})
    BY LiveFacts DEF Active, RunnerInv, TokenInv
  <2>2. CASE Acked
    BY <2>1, <2>2, <1>c DEF RunnerInv, AckInv
  <2>3. CASE ~Acked
    <3>1. PICK k \in jobs' : k.type = "cancel" /\ k.op = Active.op /\ k.pc = "ack" /\ k \notin jobs
      BY <2>3 DEF Acked, Active
    <3>2. j.op = Active.op /\ ~(token' = token /\ pending' = pending /\ k.pc = "lock")
      BY <3>1, <1>b
    <3>3. /\ IF token[j.op] = "none"
             THEN pending' = pending \cup {j.op} /\ token' = token
             ELSE token' = [token EXCEPT ![j.op] = "cancelled"] /\ pending' = pending
      BY <3>1, <3>2
    <3>4. CASE token[j.op] = "none"
      BY <3>2, <3>3, <3>4, <2>1
    <3>5. CASE token[j.op] # "none"
      BY <3>2, <3>3, <3>5, <2>1 DEF RunnerTypeOK
    <3> QED BY <3>4, <3>5
  <2> QED BY <2>2, <2>3
<1>5. WroteInv'
  BY DEF RunnerInv, WroteInv, HonestTerminal, Active
<1>6. ScreenInv'
  <2>1. Served
    BY ServedScreen DEF RunnerInv, ScreenInv
  <2>2. Served'
    BY <2>1, <1>b DEF Served, Active, Live
  <2>3. ServesTheScreen'
    BY <2>2, NextServedScreen
  <2> QED BY <2>3, <1>b DEF RunnerInv, ScreenInv, Active
<1>7. CarryInv'
  <2>1. j.op = Active.op => Active.cancel # "no"
    BY DEF RunnerInv, TokenInv
  <2>2. <<"cancel", Active.op>> \in dispatched' => Active.cancel # "no"
    BY <2>1 DEF RunnerInv, CarryInv
  <2>3. ASSUME Active.cancel = "asked", Active.phase \notin WritePhases
        PROVE  \E i \in jobs' : Carries(i)'
    <3>1. PICK i \in jobs : Carries(i)
      BY <2>3 DEF RunnerInv, CarryInv
    <3>2. CASE j.op # Active.op
      <4>1. i \in jobs' /\ i.op # j.op
        BY <3>1, <3>2 DEF Carries
      <4>2. <<"cancel", i.op>> \in dispatched' => <<"cancel", i.op>> \in dispatched
        BY <4>1
      <4> QED BY <3>1, <4>1, <4>2 DEF Carries, Active
    <3>3. CASE /\ j.op = Active.op
               /\ \E k \in jobs' : k.type = j.type /\ k.op = j.op /\ k.pc # "queued"
      BY <3>3 DEF Carries, Active
    <3>4. CASE /\ j.op = Active.op
               /\ jobs' = jobs \ {j} /\ dispatched' = dispatched /\ j.pc = "queued"
               /\ j.op <= retired \/ <<j.type, j.op>> \in dispatched
      <4>1. Active.op > retired
        <5>1. Sound(model) => (model.active.fault => model.active.phase \in WritePhases)
          BY DEF Sound, ModelInv, ActiveInv
        <5>2. Served /\ j.op # 0
          BY <1>a, ServedScreen DEF RunnerInv, ScreenInv, Ops
        <5> QED BY <2>3, <3>4, <5>1, <5>2 DEF Served, Active
      <4>2. j.pc = "queued" /\ <<"cancel", j.op>> \in dispatched /\ dispatched' = dispatched
        BY <3>4, <4>1, ActiveTypes DEF RunnerTypeOK, Active
      <4>3. i # j
        BY <3>1, <4>2 DEF Carries
      <4> QED BY <3>1, <3>4, <4>2, <4>3 DEF Carries, Active
    <3>5. \/ \E k \in jobs' : k.type = j.type /\ k.op = j.op /\ k.pc # "queued"
          \/ /\ jobs' = jobs \ {j} /\ dispatched' = dispatched /\ j.pc = "queued"
             /\ j.op <= retired \/ <<j.type, j.op>> \in dispatched
      OBVIOUS
    <3> QED BY <3>2, <3>3, <3>4, <3>5
  <2> QED BY <2>2, <2>3 DEF CarryInv, Active
<1> QED BY <1>0, <1>1, <1>2, <1>3, <1>4, <1>5, <1>6, <1>7, NextInvParts DEF RunnerInv

-----------------------------------------------------------------------------
(* The actions *)

\* What the event loop makes of the result of the reducer.
LEMMA AcceptFacts ==
  ASSUME NEW r, Sound(r.m), NEW workers, AcceptEvent(r, workers)
  PROVE  /\ Sound(model') /\ Tidy(model')
         /\ model'.terminal = r.m.terminal /\ model'.readOnly = r.m.readOnly
         /\ \/ model'.active = r.m.active
            \/ model'.active = Idle /\ AwaitsUser(r.m, r.m.active.op) /\ ~Tidy(r.m)
         /\ jobs' = workers \cup Dispatch(r.fx)
         /\ IF model.active.op # 0 /\ model'.active.op # model.active.op
            THEN RetireOperation(model.active.op) ELSE UNCHANGED runner
<1>1. model' = Abandon(r.m)
  BY DEF AcceptEvent
<1>2. /\ jobs' = workers \cup Dispatch(r.fx)
      /\ IF model.active.op # 0 /\ model'.active.op # model.active.op
         THEN RetireOperation(model.active.op) ELSE UNCHANGED runner
  BY DEF AcceptEvent
<1> QED BY <1>1, <1>2, AbandonSound

LEMMA DispatchNone == Dispatch({}) = {}
BY DEF Dispatch

LEMMA DispatchOne ==
  ASSUME NEW type, NEW op, NEW kind
  PROVE  Dispatch({[type |-> type, op |-> op, kind |-> kind]}) =
           {[type |-> type, op |-> op, kind |-> kind, pc |-> "queued", phase |-> "none"]}
BY DEF Dispatch

LEMMA KeepFields == ASSUME NEW m PROVE Keep(m).m = m /\ Keep(m).fx = {}
BY DEF Keep

LEMMA Reflexive == ASSUME NEW m PROVE Tended(m, m)
BY DEF Tended

LEMMA SameAbandon == ASSUME NEW m, Tidy(m) PROVE Abandon(m) = m
BY DEF Abandon, Tidy

\* An event of the user that only tends the operation.
LEMMA UserTends ==
  ASSUME IInv, NEW r, User(r), r.fx = {}, Sound(r.m), Tidy(r.m), Tended(model, r.m),
         issued' \in issued .. MaxOps
  PROVE  IInv'
<1>1. AcceptEvent(r, jobs) /\ exited' = exited /\ wrote' = wrote
  BY DEF User
<1>2. model' = r.m
  BY <1>1, SameAbandon DEF AcceptEvent
<1>3. jobs' = jobs
  BY <1>1, AcceptFacts, DispatchNone
<1>4. model'.active.op = model.active.op
  BY <1>2 DEF Tended
<1>5. UNCHANGED runner
  BY <1>1, <1>4, AcceptFacts
<1>6. exited' \in BOOLEAN
  BY <1>1, InvParts DEF RunnerTypeOK
<1> QED BY <1>1, <1>2, <1>3, <1>5, <1>6, TendedStep

LEMMA IssuedStays == IInv => issued \in issued .. MaxOps
BY InvParts DEF RunnerTypeOK

LEMMA RequestInv ==
  ASSUME IInv, NEW kind \in Kinds, issued < MaxOps, issued' = issued + 1,
         NEW r, User(r),
         r = OperationRequested(model, issued', kind) \/ (r = RefreshRequested(model, issued') /\ kind = "read"),
         ~(model.readOnly /\ kind \in {"switch", "persistent"})
  PROVE  IInv'
<1>1. PICK op \in Ops : op = issued + 1 /\ op = issued'
  BY InvParts DEF RunnerTypeOK, Ops
<1>2. model.terminal.op # op
  BY <1>1, InvParts, ActiveTypes DEF RunnerTypeOK, RunnerInv, AgeInv, Active
<1>3. Sound(model) /\ Tidy(model)
  BY InvParts
<1>4. CASE r = Keep(model)
  <2>1. issued' \in issued .. MaxOps
    BY InvParts DEF RunnerTypeOK
  <2> QED BY <1>3, <1>4, <2>1, KeepFields, Reflexive, UserTends
<1>5. CASE r # Keep(model)
  <2>1. /\ model.active = Idle /\ Sound(r.m) /\ Tidy(r.m)
        /\ r.m.active = Begin(op, kind) /\ r.m.readOnly = model.readOnly
        /\ r.m.terminal \in {model.terminal, NoTerminal}
        /\ \E type \in {"start", "refresh", "prepare"} :
             /\ r.fx = {[type |-> type, op |-> op, kind |-> kind]}
             /\ (type = "prepare") <=> (kind = "persistent")
    BY <1>1, <1>2, <1>3, <1>5, RequestSound
  <2>2. PICK type \in {"start", "refresh", "prepare"} :
             /\ r.fx = {[type |-> type, op |-> op, kind |-> kind]}
             /\ (type = "prepare") <=> (kind = "persistent")
    BY <2>1
  <2>3. AcceptEvent(r, jobs) /\ UNCHANGED <<exited, wrote>>
    BY DEF User
  <2>4. model' = r.m
    BY <2>1, <2>3, SameAbandon DEF AcceptEvent
  <2>5. PICK k : k = [type |-> type, op |-> op, kind |-> kind, pc |-> "queued", phase |-> "none"]
    OBVIOUS
  <2>6. jobs' = jobs \cup {k}
    <3>1. jobs' = jobs \cup Dispatch(r.fx)
      BY <2>1, <2>3, AcceptFacts
    <3>2. Dispatch(r.fx) = {k}
      BY <2>2, <2>5, DispatchOne
    <3> QED BY <3>1, <3>2
  <2>7. UNCHANGED runner
    BY <2>1, <2>3, AcceptFacts, IdleFields
  <2> QED BY <1>1, <2>1, <2>2, <2>3, <2>4, <2>5, <2>6, <2>7, BeginStep
<1> QED BY <1>4, <1>5

LEMMA EnterPathInv == ASSUME IInv, NEW b \in BOOLEAN, EnterPath(b) PROVE IInv'
<1>1. PICK n : n = PathChanged(model, b)
  OBVIOUS
<1>2. User(Keep(n)) /\ issued' = issued
  BY <1>1 DEF EnterPath
<1>3. Sound(n) /\ Tidy(n) /\ Tended(model, n)
  <2>1. n \in {PathChanged(model, b), SetDisclosure(model, {})} /\ {} \in SUBSET Levels
    BY <1>1
  <2> QED BY <2>1, InvParts, InputSound
<1> QED BY <1>2, <1>3, IssuedStays, KeepFields, UserTends

LEMMA CheckReviewInv == ASSUME IInv, NEW b \in BOOLEAN, CheckReview(b) PROVE IInv'
<1> DEFINE op == model.active.op
<1>1. PICK n1, n2, n3, n :
        /\ n1 = EnterReview(model, op) /\ n2 = ReviewAcknowledged(n1, op, b)
        /\ n3 = ConfirmationChanged(n2, op, n2.exact)
        /\ n = IF b THEN n3 ELSE n2
  OBVIOUS
<1>2. User(Keep(n)) /\ issued' = issued
  BY <1>1 DEF CheckReview
<1>3. Sound(n1) /\ Tidy(n1) /\ Tended(model, n1)
  BY <1>1, InvParts, ReviewSound
<1>4. Sound(n2) /\ Tidy(n2) /\ Tended(n1, n2) /\ n2.exact \in BOOLEAN
  <2>1. Sound(n2) /\ Tidy(n2) /\ Tended(n1, n2)
    BY <1>1, <1>3, ReviewSound
  <2> QED BY <2>1 DEF Sound, Models
<1>5. Sound(n3) /\ Tidy(n3) /\ Tended(n2, n3)
  BY <1>1, <1>4, ReviewSound
<1>6. Tended(model, n2)
  BY <1>3, <1>4, InvParts, TendedTwice
<1>7. Tended(model, n3)
  BY <1>4, <1>5, <1>6, InvParts, TendedTwice
<1>8. Sound(n) /\ Tidy(n) /\ Tended(model, n)
  BY <1>1, <1>4, <1>5, <1>6, <1>7
<1> QED BY <1>2, <1>8, IssuedStays, KeepFields, UserTends

LEMMA TypeConfirmationInv == ASSUME IInv, NEW b \in BOOLEAN, TypeConfirmation(b) PROVE IInv'
<1>1. PICK n : n = ConfirmationChanged(model, model.active.op, b)
  OBVIOUS
<1>2. User(Keep(n)) /\ issued' = issued
  BY <1>1 DEF TypeConfirmation
<1>3. Sound(n) /\ Tidy(n) /\ Tended(model, n)
  BY <1>1, InvParts, ReviewSound
<1> QED BY <1>2, <1>3, IssuedStays, KeepFields, UserTends

LEMMA SubmitInv == ASSUME IInv, SubmitConfirmation PROVE IInv'
<1>1. PICK op, r : op = model.active.op /\ r = ConfirmationSubmitted(model, op)
  OBVIOUS
<1>2. User(r) /\ issued' = issued
  BY <1>1 DEF SubmitConfirmation
<1>3. Sound(model) /\ Tidy(model)
  BY InvParts
<1>4. CASE r = Keep(model)
  BY <1>2, <1>3, <1>4, IssuedStays, KeepFields, Reflexive, UserTends
<1>5. CASE r # Keep(model)
  <2>1. /\ AwaitsUser(model, op)
        /\ model.active.phase = "confirming" /\ model.active.cancel = "no"
        /\ Sound(r.m) /\ Tidy(r.m)
        /\ r.m.active = [model.active EXCEPT !.exec = TRUE]
        /\ r.m.terminal = model.terminal /\ r.m.readOnly = model.readOnly
        /\ r.fx = {[type |-> "execute", op |-> op, kind |-> model.active.kind]}
    BY <1>1, <1>3, <1>5, SubmitSound
  <2>2. AcceptEvent(r, jobs) /\ UNCHANGED <<exited, wrote>> /\ ~exited
    BY <1>2 DEF User
  <2>3. model' = r.m
    BY <2>1, <2>2, SameAbandon DEF AcceptEvent
  <2>4. PICK k : k = [type |-> "execute", op |-> op, kind |-> model.active.kind,
                      pc |-> "queued", phase |-> "none"]
    OBVIOUS
  <2>5. jobs' = jobs \cup {k}
    <3>1. jobs' = jobs \cup Dispatch(r.fx)
      BY <2>1, <2>2, AcceptFacts
    <3>2. Dispatch(r.fx) = {k}
      BY <2>1, <2>4 DEF Dispatch
    <3> QED BY <3>1, <3>2
  <2>6. model'.active.op = model.active.op
    BY <1>3, <2>1, <2>3, ActiveTypes DEF Actives
  <2>7. UNCHANGED runner
    BY <2>1, <2>2, <2>6, AcceptFacts
  <2> QED BY <1>1, <1>2, <2>1, <2>2, <2>3, <2>4, <2>5, <2>7, SubmitStep
<1> QED BY <1>4, <1>5

\* The cancel button, Esc, and leaving while something is executed.
LEMMA CancellationInv ==
  ASSUME IInv, NEW op, op = model.active.op, NEW r, r = CancellationRequested(model, op),
         User(r), issued' = issued
  PROVE  IInv'
<1>1. Sound(model) /\ Tidy(model)
  BY InvParts
<1>2. CASE r.fx = {} /\ Sound(r.m) /\ Tidy(r.m) /\ Tended(model, r.m)
  BY <1>2, IssuedStays, UserTends
<1>3. CASE ~(r.fx = {} /\ Sound(r.m) /\ Tidy(r.m) /\ Tended(model, r.m))
  <2>1. /\ op # 0
        /\ Sound(r.m) /\ Tidy(r.m)
        /\ r.m.terminal = model.terminal /\ r.m.readOnly = model.readOnly
        /\ \E c \in {"asked", "acked"} :
             /\ r.m.active = [model.active EXCEPT !.cancel = c]
             /\ c = "acked" <=> model.active.cancel = "acked"
        /\ r.fx = {[type |-> "cancel", op |-> op, kind |-> model.active.kind]}
    BY <1>1, <1>3, CancelSound
  <2>2. AcceptEvent(r, jobs) /\ UNCHANGED <<exited, wrote>> /\ ~exited
    BY DEF User
  <2>3. model' = r.m
    BY <2>1, <2>2, SameAbandon DEF AcceptEvent
  <2>4. PICK k : k = [type |-> "cancel", op |-> op, kind |-> model.active.kind,
                      pc |-> "queued", phase |-> "none"]
    OBVIOUS
  <2>5. jobs' = jobs \cup {k}
    <3>1. jobs' = jobs \cup Dispatch(r.fx)
      BY <2>1, <2>2, AcceptFacts
    <3>2. Dispatch(r.fx) = {k}
      BY <2>1, <2>4 DEF Dispatch
    <3> QED BY <3>1, <3>2
  <2>6. PICK c \in {"asked", "acked"} :
             /\ r.m.active = [model.active EXCEPT !.cancel = c]
             /\ c = "acked" <=> model.active.cancel = "acked"
    BY <2>1
  <2>7. model'.active.op = model.active.op
    BY <1>1, <2>6, <2>3, ActiveTypes DEF Actives
  <2>8. UNCHANGED runner
    BY <2>1, <2>2, <2>7, AcceptFacts
  <2> QED BY <2>1, <2>2, <2>3, <2>4, <2>5, <2>6, <2>8, CancelStep
<1> QED BY <1>2, <1>3

LEMMA BackSound ==
  ASSUME Sound(model), model.active.op = 0
  PROVE  Sound(Back) /\ Tidy(Back) /\ Tended(model, Back)
<1>1. PICK x \in BOOLEAN : x = model.readOnly
  BY DEF Sound, Models
<1>2. Back = [InitialModel EXCEPT !.surface = Shareable, !.readOnly = x]
  BY <1>1 DEF Back
<1>3. Sound(InitialModel) /\ InitialModel.active = Idle /\ InitialModel.terminal.op = 0
      /\ InitialModel.surface = Shareable
  BY InitialSound DEF InitialModel
<1>4. Back = CompatibilityChanged(InitialModel, x)
  BY <1>2, <1>3 DEF CompatibilityChanged, Sound, Models
<1>5. Tidy(InitialModel)
  BY <1>3, IdleFields DEF Tidy
<1>6. /\ Sound(Back) /\ Tidy(Back)
      /\ Back.active = Idle /\ Back.terminal = InitialModel.terminal /\ Back.readOnly = x
  BY <1>3, <1>4, <1>5, CompatibilitySound
<1>7. model.active = Idle
  BY ActiveTypes
<1> QED BY <1>1, <1>3, <1>6, <1>7 DEF Tended

LEMMA CancelOrBackInv == ASSUME IInv, CancelOrBack PROVE IInv'
<1>1. CASE model.active.op # 0
  <2>1. PICK op, r : op = model.active.op /\ r = CancellationRequested(model, op)
    OBVIOUS
  <2>2. User(r) /\ issued' = issued
    BY <1>1, <2>1 DEF CancelOrBack
  <2> QED BY <2>1, <2>2, CancellationInv
<1>2. CASE model.active.op = 0
  <2>1. User(Keep(Back)) /\ issued' = issued
    BY <1>2 DEF CancelOrBack
  <2>2. Sound(Back) /\ Tidy(Back) /\ Tended(model, Back)
    BY <1>2, InvParts, BackSound
  <2> QED BY <2>1, <2>2, IssuedStays, KeepFields, UserTends
<1> QED BY <1>1, <1>2

LEMMA SafeQuitInv == ASSUME IInv, SafeQuit PROVE IInv'
<1>1. CASE Executing
  <2>1. PICK op, r : op = model.active.op /\ r = CancellationRequested(model, op)
    OBVIOUS
  <2>2. User(r) /\ issued' = issued
    BY <1>1, <2>1 DEF SafeQuit
  <2> QED BY <2>1, <2>2, CancellationInv
<1>2. CASE ~Executing
  <2>1. exited' = TRUE /\ issued' = issued /\ UNCHANGED <<model, jobs, runner, wrote>>
    BY <1>2 DEF SafeQuit
  <2> QED BY <1>2, <2>1, InvParts, IssuedStays, Reflexive, TendedStep
<1> QED BY <1>1, <1>2

LEMMA CyclePrivacyInv == ASSUME IInv, CyclePrivacy PROVE IInv'
<1>1. PICK target : target = (model.surface + 1) % 3
  OBVIOUS
<1>2. PICK m : m = ChangePrivacySurface(model, target)
  OBVIOUS
<1>3. PICK n : n = CASE target = Private   -> SetDisclosure(m, {Private})
                     [] target = Shareable -> SetDisclosure(m, {})
                     [] OTHER              -> m
  OBVIOUS
<1>4. User(Keep(n)) /\ issued' = issued
  BY <1>1, <1>2, <1>3 DEF CyclePrivacy
<1>5. Sound(model) /\ Tidy(model) /\ RunnerTypeOK
  BY InvParts
<1>6. target \in Levels
  BY <1>1, <1>5 DEF Sound, Models, Levels, Shareable, Local, Private
<1>7. /\ Sound(m) /\ m.terminal = model.terminal /\ m.readOnly = model.readOnly
      /\ \/ m.active = model.active
         \/ m.active = Idle /\ AwaitsUser(model, model.active.op)
  BY <1>2, <1>5, <1>6, SurfaceSound
<1>8. Tidy(m)
  <2>1. m.prepared = model.prepared \/ m.prepared = 0
    BY <1>2, <1>5 DEF ChangePrivacySurface, Sound, Models
  <2> QED BY <2>1, <1>5, <1>7, IdleFields DEF Tidy
<1>9. Sound(n) /\ Tidy(n) /\ n.active = m.active /\ n.terminal = m.terminal /\ n.readOnly = m.readOnly
  <2>1. ASSUME NEW payload \in SUBSET Levels, NEW k, k = SetDisclosure(m, payload)
        PROVE  Sound(k) /\ Tidy(k) /\ k.active = m.active /\ k.terminal = m.terminal
               /\ k.readOnly = m.readOnly
    <3>1. k \in {PathChanged(m, TRUE), SetDisclosure(m, payload)} /\ TRUE \in BOOLEAN
      BY <2>1
    <3>2. Sound(k) /\ Tidy(k)
      BY <3>1, <1>7, <1>8, InputSound
    <3> QED BY <2>1, <3>2, <1>7 DEF SetDisclosure, Sound, Models
  <2>2. {Private} \in SUBSET Levels /\ {} \in SUBSET Levels
    BY DEF Levels
  <2>3. \/ n = m
        \/ \E payload \in SUBSET Levels : n = SetDisclosure(m, payload)
    BY <1>3, <2>2
  <2> QED BY <2>1, <2>3, <1>7, <1>8
<1>10. AcceptEvent(Keep(n), jobs) /\ UNCHANGED <<exited, wrote>> /\ ~exited
  BY <1>4 DEF User
<1>11. model' = n /\ jobs' = jobs
       /\ IF model.active.op # 0 /\ model'.active.op # model.active.op
          THEN RetireOperation(model.active.op) ELSE UNCHANGED runner
  BY <1>9, <1>10, SameAbandon, AcceptFacts, KeepFields, DispatchNone DEF AcceptEvent
<1>12. CASE m.active = model.active
  BY <1>4, <1>7, <1>9, <1>12, IssuedStays, KeepFields, UserTends DEF Tended
<1>13. CASE m.active # model.active
  <2>1. m.active = Idle /\ AwaitsUser(model, model.active.op)
    BY <1>7, <1>13
  <2>2. \A j \in jobs : ~Live(j)
    BY <2>1, NobodyLive
  <2>3. model.active.op # 0
    BY <2>1 DEF AwaitsUser, IsCurrent
  <2>4. RetireOperation(model.active.op)
    BY <1>9, <1>11, <2>1, <2>3, IdleFields
  <2>5. JobInv' /\ jobs' \subseteq Jobs
    BY <1>11, InvParts DEF RunnerInv, JobInv, RunnerTypeOK
  <2>6. model'.terminal.op \in 0 .. issued /\ HonestTerminal'
    <3>1. HonestTerminal /\ AgeInv
      BY InvParts DEF RunnerInv, WroteInv
    <3>2. model'.terminal = model.terminal /\ wrote' = wrote
      BY <1>7, <1>9, <1>10, <1>11
    <3> QED BY <3>1, <3>2, <1>5, ActiveTypes DEF HonestTerminal, AgeInv, RunnerTypeOK
  <2> QED BY <1>4, <1>7, <1>9, <1>10, <1>11, <2>1, <2>2, <2>3, <2>4, <2>5, <2>6, LeaveStep
<1> QED BY <1>12, <1>13

\* The event of a worker, which the reducer answers with n.
LEMMA EmitFacts ==
  ASSUME NEW n, Sound(n), NEW workers, Emit(Keep(n), workers)
  PROVE  /\ Sound(model') /\ Tidy(model')
         /\ model'.terminal = n.terminal /\ model'.readOnly = n.readOnly
         /\ \/ model'.active = n.active
            \/ model'.active = Idle /\ AwaitsUser(n, n.active.op) /\ ~Tidy(n)
         /\ Tidy(n) => model' = n
         /\ jobs' = workers /\ issued' = issued /\ exited' = exited
         /\ IF model.active.op # 0 /\ model'.active.op # model.active.op
            THEN RetireOperation(model.active.op) ELSE UNCHANGED runner
<1>1. AcceptEvent(Keep(n), workers) /\ UNCHANGED <<issued, exited>>
  BY DEF Emit
<1>2. Keep(n).m = n /\ Keep(n).fx = {}
  BY KeepFields
<1>3. Tidy(n) => model' = n
  BY <1>1, <1>2, SameAbandon DEF AcceptEvent
<1>4. jobs' = workers
  BY <1>1, <1>2, AcceptFacts, DispatchNone
<1> QED BY <1>1, <1>2, <1>3, <1>4, AcceptFacts

LEMMA QueuedLive ==
  ASSUME IInv, NEW j \in jobs, j.type # "cancel", j.pc \notin {"pop", "retire"}
  PROVE  Live(j)
BY DEF Live

\* Positions only the worker of one type takes.
LEMMA WorkerTypes ==
  ASSUME IInv, NEW j \in jobs
  PROVE  /\ j.pc \in {"lock", "ack"} => j.type = "cancel"
         /\ j.pc \in {"register", "running", "cleared", "pop"} => j.type = "execute"
         /\ j.pc = "finish" => j.type \in {"start", "refresh"}
         /\ j.pc \in {"call", "retire"} => j.type # "cancel"
         /\ j.pc = "cleared" => j.phase \notin {"reconciling", "post"}
         /\ j.pc \in {"running", "cleared"} => j.phase \in PersistentPhases
         /\ j.pc \in {"queued", "register"} => j.phase = "none"
         /\ j.type # "execute" => j.phase = "none"
         /\ j \in Jobs /\ j.type \in Types
<1>1. JobInv /\ j.type \in Types /\ j \in Jobs
  BY InvParts, JobTypes DEF RunnerInv
<1> QED BY <1>1 DEF JobInv, Types

LEMMA ClaimEffectInv == ASSUME IInv, ~exited, NEW j \in jobs, ClaimEffect(j) PROVE IInv'
<1>1. PICK fresh \in BOOLEAN :
        /\ fresh <=> (j.op > retired /\ <<j.type, j.op>> \notin dispatched)
        /\ dispatched' = dispatched \cup (IF fresh THEN {<<j.type, j.op>>} ELSE {})
        /\ Silent(IF fresh THEN Become(j, AfterClaim(j.type)) ELSE Without(j))
        /\ j.pc = "queued" /\ UNCHANGED <<retired, token, pending, wrote>>
  BY DEF ClaimEffect
<1>2. UNCHANGED <<model, issued, exited>> /\ dispatched' \subseteq dispatched \cup {<<j.type, j.op>>}
  BY <1>1 DEF Silent
<1>3. AfterClaim(j.type) \in Pcs
  BY DEF AfterClaim, Pcs
<1>4. PICK k : k = [j EXCEPT !.pc = AfterClaim(j.type)]
  OBVIOUS
<1>5. /\ k \in Jobs /\ k.pc = AfterClaim(j.type) /\ k.type = j.type /\ k.op = j.op
      /\ k.kind = j.kind /\ k.phase = j.phase
  BY <1>3, <1>4, WorkerTypes, Moved
<1>6. jobs' = IF fresh THEN (jobs \ {j}) \cup {k} ELSE jobs \ {j}
  BY <1>1, <1>4 DEF Silent, Become, Without
<1>7. Sound(model) /\ Tidy(model) /\ JobInv /\ RunnerTypeOK /\ j.phase = "none"
  BY <1>1, InvParts, WorkerTypes DEF RunnerInv
<1>8. JobInv'
  <2>1. JobInv /\ k.phase = "none" /\ j.type \in Types
    BY <1>5, <1>7, WorkerTypes
  <2> QED BY <2>1, <1>5, <1>6 DEF JobInv, AfterClaim, Types
<1>9. CASE j.type = "cancel"
  <2>1. k.pc = "lock"
    BY <1>5, <1>9 DEF AfterClaim
  <2>2. CASE fresh
    <3>1. \E i \in Jobs : /\ jobs' = (jobs \ {j}) \cup {i}
                          /\ i.type = j.type /\ i.op = j.op /\ i.pc = "lock"
      BY <2>1, <2>2, <1>5, <1>6
    <3> QED BY <3>1, <1>1, <1>2, <1>8, <1>9, CancelWorkStep
  <2>3. CASE ~fresh
    <3>1. j.op <= retired \/ <<j.type, j.op>> \in dispatched
      BY <2>3, <1>1, <1>7, JobTypes DEF RunnerTypeOK
    <3>2. jobs' = jobs \ {j} /\ dispatched' = dispatched
      BY <2>3, <1>1, <1>6
    <3> QED BY <3>1, <3>2, <1>1, <1>2, <1>8, <1>9, CancelWorkStep
  <2> QED BY <2>2, <2>3
<1>10. CASE j.type # "cancel"
  <2>1. Live(j) /\ fresh
    BY <1>1, <1>10, LiveFacts, QueuedLive
  <2>2. Live(k) /\ k.pc # "queued"
    BY <1>5, <1>10 DEF Live, AfterClaim
  <2>3. j.type = "execute" =>
          /\ k.pc = "register" /\ model.active.phase = "confirming"
          /\ (token[j.op] = "none" <=> k.pc = "register")
    BY <1>1, <1>5, <1>7, <2>1, LiveFacts, InvParts DEF AfterClaim, RunnerInv, TokenInv
  <2>4. model.readOnly \in BOOLEAN
    BY <1>7 DEF Sound, Models
  <2>5. /\ token' \in [Ops -> {"none", "live", "cancelled"}] /\ pending' \subseteq Ops
        /\ token' = token /\ pending' = pending /\ wrote' = wrote /\ retired' = retired
    BY <1>1, <1>7 DEF RunnerTypeOK
  <2> QED BY <1>2, <1>5, <1>6, <1>7, <1>8, <2>1, <2>2, <2>3, <2>4, <2>5, AdvanceStep
<1> QED BY <1>9, <1>10

LEMMA RequestCancellationInv ==
  ASSUME IInv, ~exited, NEW j \in jobs, RequestCancellation(j) PROVE IInv'
<1>1. /\ j.pc = "lock" /\ jobs' = Become(j, "ack") /\ UNCHANGED <<model, issued, exited>>
      /\ IF token[j.op] = "none"
         THEN pending' = pending \cup {j.op} /\ token' = token
         ELSE token' = [token EXCEPT ![j.op] = "cancelled"] /\ pending' = pending
      /\ UNCHANGED <<retired, dispatched, wrote>>
  BY DEF RequestCancellation, Silent
<1>2. PICK k : k = [j EXCEPT !.pc = "ack"]
  OBVIOUS
<1>3. "ack" \in Pcs /\ j.type = "cancel" /\ j \in Jobs /\ j.phase = "none"
  BY <1>1, WorkerTypes DEF Pcs
<1>4. /\ k \in Jobs /\ k.pc = "ack" /\ k.type = j.type /\ k.op = j.op /\ k.phase = j.phase
  BY <1>2, <1>3, Moved
<1>5. jobs' = (jobs \ {j}) \cup {k}
  BY <1>1, <1>2 DEF Become, Without
<1>6. JobInv'
  BY <1>3, <1>4, <1>5, InvParts DEF RunnerInv, JobInv
<1> QED BY <1>1, <1>3, <1>4, <1>5, <1>6, CancelWorkStep

LEMMA GoneJobs ==
  ASSUME IInv, NEW j \in jobs, jobs' = jobs \ {j}
  PROVE  JobInv' /\ jobs' \subseteq Jobs
BY InvParts DEF RunnerInv, JobInv, RunnerTypeOK

LEMMA AcknowledgeInv == ASSUME IInv, ~exited, NEW j \in jobs, Acknowledge(j) PROVE IInv'
<1>1. PICK n : n = CancellationAcknowledged(model, j.op)
  OBVIOUS
<1>2. j.pc = "ack" /\ Emit(Keep(n), jobs \ {j}) /\ wrote' = wrote
  BY <1>1 DEF Acknowledge, Without
<1>3. Sound(model) /\ Tidy(model)
  BY InvParts
<1>4. j.type = "cancel"
  BY <1>2, WorkerTypes
<1>5. CASE n = model
  <2>1. model' = model /\ jobs' = jobs \ {j} /\ issued' = issued /\ exited' = exited /\ UNCHANGED runner
    BY <1>2, <1>3, <1>5, EmitFacts
  <2>2. exited' \in BOOLEAN
    BY <2>1, InvParts DEF RunnerTypeOK
  <2>3. Carries(j) => Active.cancel # "asked" \/ Active.phase \in WritePhases
    <3> SUFFICES ASSUME Carries(j), Active.cancel = "asked", Active.phase \notin WritePhases
                 PROVE  FALSE
      OBVIOUS
    <3>1. j.op = model.active.op /\ j.op # 0
      BY InvParts, JobTypes DEF Carries, Active
    <3>2. ~model.active.deferred /\ ~NonCancellable(model)
      BY <1>3 DEF Sound, ModelInv, ActiveInv, Active, NonCancellable
    <3>3. n = [model EXCEPT !.active.cancel = "acked"]
      BY <1>1, <3>1, <3>2 DEF CancellationAcknowledged, IsCurrent, Active
    <3>4. n.active.cancel = "acked"
      BY <1>3, <3>3 DEF Sound, Models, Actives
    <3> QED BY <1>5, <3>4 DEF Active
  <2> QED BY <1>2, <1>3, <1>4, <2>1, <2>2, <2>3, IssuedStays, Reflexive, TendedStep
<1>6. CASE n # model
  <2>1. /\ j.op = model.active.op /\ model.active.op # 0 /\ Sound(n)
        /\ n.active = [model.active EXCEPT !.cancel = "acked"]
        /\ n.terminal = model.terminal /\ n.readOnly = model.readOnly
    BY <1>1, <1>3, <1>6, AcknowledgedSound
  <2>2. /\ n.active.op = model.active.op /\ n.active.kind = model.active.kind
        /\ n.active.exec = model.active.exec /\ n.active.phase = model.active.phase
    BY <1>3, <2>1, ActiveTypes DEF Actives
  <2>3. CASE model'.active = n.active
    <3>1. UNCHANGED runner
      BY <1>2, <2>1, <2>2, <2>3, EmitFacts
    <3> QED BY <1>2, <2>1, <2>3, <3>1, EmitFacts, AcknowledgeStep
  <2>4. CASE model'.active # n.active
    <3>1. model'.active = Idle /\ AwaitsUser(n, n.active.op)
      BY <1>2, <2>1, <2>4, EmitFacts
    <3>2. AwaitsUser(model, model.active.op)
      BY <3>1, <2>1, <2>2, <1>3, Awaiting
    <3>3. \A i \in jobs : ~Live(i)
      BY <3>2, NobodyLive
    <3>4. /\ Sound(model') /\ Tidy(model') /\ jobs' = jobs \ {j} /\ issued' = issued /\ exited' = exited
          /\ model'.terminal = model.terminal /\ model'.readOnly = model.readOnly
      BY <1>2, <2>1, EmitFacts
    <3>5. RetireOperation(model.active.op)
      BY <1>2, <2>1, <3>1, IdleFields, EmitFacts
    <3>6. JobInv' /\ jobs' \subseteq Jobs
      BY <3>4, GoneJobs
    <3>7. model'.terminal.op \in 0 .. issued /\ HonestTerminal'
      <4>1. HonestTerminal /\ AgeInv /\ RunnerTypeOK
        BY InvParts DEF RunnerInv, WroteInv
      <4> QED BY <4>1, <1>2, <1>3, <3>4, ActiveTypes DEF HonestTerminal, AgeInv, RunnerTypeOK
    <3> QED BY <1>2, <2>1, <3>1, <3>3, <3>4, <3>5, <3>6, <3>7, LeaveStep
  <2> QED BY <2>3, <2>4
<1> QED BY <1>5, <1>6

LEMMA ReportCompatibilityInv ==
  ASSUME IInv, ~exited, NEW j \in jobs, ReportCompatibility(j) PROVE IInv'
<1>1. PICK b \in BOOLEAN : Emit(Keep(CompatibilityChanged(model, b)), Become(j, "finish"))
  BY DEF ReportCompatibility
<1>2. j.pc = "call" /\ j.kind = "probe" /\ wrote' = wrote
  BY DEF ReportCompatibility
<1>3. PICK n, k : n = CompatibilityChanged(model, b) /\ k = [j EXCEPT !.pc = "finish"]
  OBVIOUS
<1>4. Emit(Keep(n), (jobs \ {j}) \cup {k})
  BY <1>1, <1>3 DEF Become, Without
<1>5. Sound(model) /\ Tidy(model) /\ RunnerTypeOK /\ JobInv
  BY InvParts DEF RunnerInv
<1>6. /\ Sound(n) /\ Tidy(n)
      /\ n.active = model.active /\ n.terminal = model.terminal /\ n.readOnly = b
  BY <1>3, <1>5, CompatibilitySound
<1>7. /\ model' = n /\ jobs' = (jobs \ {j}) \cup {k} /\ issued' = issued /\ exited' = exited
      /\ UNCHANGED runner
  BY <1>4, <1>6, EmitFacts
<1>9. Live(j)
  BY <1>2, WorkerTypes, QueuedLive
<1>10. j.type \in {"start", "refresh"} /\ j.phase = "none" /\ j \in Jobs
  BY <1>2, <1>9, LiveFacts, WorkerTypes DEF Types
<1>11. /\ k \in Jobs /\ k.pc = "finish" /\ k.type = j.type /\ k.op = j.op
       /\ k.kind = j.kind /\ k.phase = j.phase
  <2>1. "finish" \in Pcs
    BY DEF Pcs
  <2> QED BY <2>1, <1>3, <1>10, Moved
<1>12. Live(k)
  BY <1>10, <1>11 DEF Live
<1>13. JobInv'
  BY <1>2, <1>5, <1>7, <1>10, <1>11 DEF JobInv
<1>14. /\ token' \in [Ops -> {"none", "live", "cancelled"}] /\ pending' \subseteq Ops
       /\ token' = token /\ pending' = pending /\ dispatched' = dispatched /\ retired' = retired
  BY <1>5, <1>7 DEF RunnerTypeOK, runner
<1> QED BY <1>2, <1>6, <1>7, <1>9, <1>10, <1>11, <1>12, <1>13, <1>14, AdvanceStep

\* A live worker hands over the end of its operation.
LEMMA OverInv ==
  ASSUME IInv, ~exited, NEW j \in jobs, Live(j), NEW pc \in {"pop", "retire"},
         pc = "pop" <=> j.type = "execute",
         NEW n, NEW w \in BOOLEAN, Over(model, n, w), j.op \in wrote => w,
         Emit(Keep(n), Become(j, pc)), wrote' = wrote
  PROVE  IInv'
<1>1. PICK k : k = [j EXCEPT !.pc = pc]
  OBVIOUS
<1>2. pc \in Pcs /\ j \in Jobs
  BY WorkerTypes DEF Pcs
<1>3. /\ k \in Jobs /\ k.pc = pc /\ k.type = j.type /\ k.op = j.op /\ k.kind = j.kind /\ k.phase = j.phase
  BY <1>1, <1>2, Moved
<1>4. /\ Sound(n) /\ Tidy(n) /\ n.active = Idle /\ n.readOnly = model.readOnly
      /\ n.terminal.op = model.active.op /\ n.terminal.wrote = w
  BY DEF Over
<1>5. Become(j, pc) = (jobs \ {j}) \cup {k}
  BY <1>1 DEF Become, Without
<1>6. j.op = model.active.op /\ j.op # 0 /\ j.op \in Ops /\ \A i \in jobs : Live(i) => i = j
  BY LiveFacts
<1>7. /\ model' = n /\ jobs' = (jobs \ {j}) \cup {k} /\ issued' = issued /\ exited' = exited
  BY <1>4, <1>5, EmitFacts
<1>8. RetireOperation(model.active.op)
  BY <1>4, <1>6, IdleFields, EmitFacts
<1>9. \A i \in jobs' : ~Live(i) /\ \E h \in jobs : h.op = i.op
  BY <1>3, <1>6, <1>7 DEF Live
<1>10. JobInv' /\ jobs' \subseteq Jobs
  <2>1. JobInv /\ RunnerTypeOK
    BY InvParts DEF RunnerInv
  <2>2. /\ j.type # "execute" => j.phase = "none"
        /\ j.type \in {"start", "refresh"} => j.kind # "persistent"
        /\ j.type \in {"prepare", "execute"} => j.kind = "persistent"
        /\ j.type # "cancel"
    BY <2>1 DEF JobInv, Live
  <2> QED BY <2>1, <2>2, <1>3, <1>7 DEF JobInv, RunnerTypeOK
<1>11. model'.terminal.op \in 0 .. issued /\ HonestTerminal'
  <2>1. RunnerTypeOK /\ AgeInv /\ Sound(model)
    BY InvParts DEF RunnerInv
  <2>2. model.active.op \in 0 .. issued
    BY <2>1, ActiveTypes DEF AgeInv, Active, RunnerTypeOK
  <2> QED BY <2>2, <1>4, <1>6, <1>7 DEF HonestTerminal
<1> QED BY <1>4, <1>6, <1>7, <1>8, <1>9, <1>10, <1>11, LeaveStep

LEMMA NotWrote ==
  ASSUME IInv, NEW j \in jobs, Live(j), ~model.active.exec \/ model.active.phase \notin WritePhases
  PROVE  j.op \notin wrote
BY LiveFacts, InvParts DEF RunnerInv, WroteInv, Active

LEMMA FinishOrdinaryInv ==
  ASSUME IInv, ~exited, NEW j \in jobs, FinishOrdinary(j) PROVE IInv'
<1>1. PICK p, n :
        /\ p \in Levels
        /\ n \in {ApplicationCompleted(model, j.op, p), ApplicationFailed(model, j.op, p),
                  WorkerTransportFault(model, j.op)}
        /\ Emit(Keep(n), Become(j, "retire"))
  <2>1. Shareable \in Levels /\ Local \in Levels
    BY DEF Levels
  <2> QED BY <2>1 DEF FinishOrdinary
<1>2. j.type \in {"start", "refresh"} /\ j.pc \in {"call", "finish"} /\ wrote' = wrote
  BY DEF FinishOrdinary
<1>3. Live(j)
  BY <1>2 DEF Live
<1>4. Over(model, n, FALSE)
  <2>1. j.op = model.active.op /\ j.op # 0 /\ model.active.kind # "persistent"
    BY <1>2, <1>3, LiveFacts
  <2>2. Sound(model)
    BY InvParts
  <2> QED BY <2>1, <2>2, <1>1, OrdinarySound
<1>5. j.op \notin wrote
  BY <1>2, <1>3, LiveFacts, NotWrote
<1> QED BY <1>1, <1>2, <1>3, <1>4, <1>5, OverInv

LEMMA RunPrepareInv ==
  ASSUME IInv, ~exited, NEW j \in jobs, RunPrepare(j) PROVE IInv'
<1>1. j.type = "prepare" /\ j.pc = "call" /\ wrote' = wrote
  BY DEF RunPrepare
<1>2. Live(j)
  BY <1>1 DEF Live
<1>3. /\ j.op = model.active.op /\ j.op # 0 /\ model.active.kind = "persistent"
      /\ ~model.active.exec /\ model.active.phase = "preparing"
      /\ \A i \in jobs : Live(i) => i = j
  BY <1>1, <1>2, LiveFacts
<1>4. Sound(model) /\ Tidy(model)
  BY InvParts
<1>5. CASE \E p \in Levels : \E n \in {ApplicationFailed(model, j.op, p), WorkerTransportFault(model, j.op)} :
             Emit(Keep(n), Become(j, "retire"))
  <2>1. PICK p, n :
          /\ p \in Levels
          /\ n \in {ApplicationFailed(model, j.op, p), WorkerTransportFault(model, j.op)}
          /\ Emit(Keep(n), Become(j, "retire"))
    BY <1>5
  <2>2. Over(model, n, FALSE)
    BY <2>1, <1>3, <1>4, FailedSound DEF WritePhases
  <2>3. j.op \notin wrote
    BY <1>2, <1>3, NotWrote
  <2> QED BY <1>1, <1>2, <2>1, <2>2, <2>3, OverInv
<1>6. CASE Emit(Keep(PreparedReceived(model, j.op)), Without(j))
  <2>1. PICK n : n = PreparedReceived(model, j.op)
    OBVIOUS
  <2>2. Emit(Keep(n), jobs \ {j})
    BY <1>6, <2>1 DEF Without
  <2>3. /\ Sound(n) /\ n.active = [model.active EXCEPT !.phase = "prepared"]
        /\ n.terminal = model.terminal /\ n.readOnly = model.readOnly
    BY <2>1, <1>3, <1>4, PreparedSound
  <2>4. n.active.op = model.active.op
    BY <1>4, <2>3, ActiveTypes DEF Actives
  <2>5. /\ Sound(model') /\ Tidy(model') /\ jobs' = jobs \ {j} /\ issued' = issued /\ exited' = exited
        /\ model'.terminal = model.terminal /\ model'.readOnly = model.readOnly
        /\ model'.active = n.active \/ model'.active = Idle
    BY <2>2, <2>3, EmitFacts
  <2>6. CASE model'.active = n.active
    <3>1. UNCHANGED runner
      BY <2>2, <2>3, <2>4, <2>6, EmitFacts
    <3> QED BY <1>1, <1>2, <2>3, <2>5, <2>6, <3>1, PreparedStep
  <2>7. CASE model'.active = Idle
    <3>1. RetireOperation(model.active.op)
      BY <1>3, <2>2, <2>3, <2>7, IdleFields, EmitFacts
    <3>2. JobInv' /\ jobs' \subseteq Jobs
      BY <2>5, GoneJobs
    <3>3. model'.terminal.op \in 0 .. issued /\ HonestTerminal'
      <4>1. HonestTerminal /\ AgeInv /\ RunnerTypeOK
        BY InvParts DEF RunnerInv, WroteInv
      <4> QED BY <4>1, <1>1, <1>4, <2>5, ActiveTypes DEF HonestTerminal, AgeInv, RunnerTypeOK
    <3>4. \A i \in jobs' : ~Live(i) /\ \E h \in jobs : h.op = i.op
      BY <1>3, <2>5
    <3> QED BY <1>1, <1>3, <2>5, <2>7, <3>1, <3>2, <3>3, <3>4, LeaveStep
  <2> QED BY <2>5, <2>6, <2>7
<1>7. \/ Emit(Keep(PreparedReceived(model, j.op)), Without(j))
      \/ \E p \in Levels : \E n \in {ApplicationFailed(model, j.op, p), WorkerTransportFault(model, j.op)} :
           Emit(Keep(n), Become(j, "retire"))
  <2>1. Shareable \in Levels
    BY DEF Levels
  <2> QED BY <2>1 DEF RunPrepare
<1> QED BY <1>5, <1>6, <1>7

\* What a live execution has in hand.
LEMMA ExecutionFacts ==
  ASSUME IInv, NEW j \in jobs, j.type = "execute", Live(j)
  PROVE  /\ Sound(model) /\ Tidy(model) /\ JobInv /\ RunnerTypeOK
         /\ j \in Jobs /\ j.op = model.active.op /\ j.op # 0 /\ j.op \in Ops
         /\ model.active.exec /\ model.active.kind = "persistent" /\ j.kind = "persistent"
         /\ model.active.phase = IF j.pc \in {"queued", "register"} THEN "confirming" ELSE j.phase
         /\ token[j.op] = "none" <=> j.pc \in {"queued", "register"}
         /\ j.pc \in {"running", "cleared"} => j.phase \in PersistentPhases
         /\ model.readOnly \in BOOLEAN
<1>1. Sound(model) /\ Tidy(model) /\ JobInv /\ RunnerTypeOK /\ TokenInv
  BY InvParts DEF RunnerInv
<1>2. token[j.op] = "none" <=> j.pc \in {"queued", "register"}
  BY <1>1 DEF TokenInv
<1>3. model.readOnly \in BOOLEAN
  BY <1>1 DEF Sound, Models
<1> QED BY <1>1, <1>2, <1>3, LiveFacts, WorkerTypes

\* It goes on without a word to the screen.
LEMMA ExecutionStep ==
  ASSUME IInv, ~exited, NEW j \in jobs, j.type = "execute", Live(j),
         NEW k \in Jobs, k.type = j.type, k.op = j.op, k.kind = j.kind,
         k.pc \in {"register", "running", "cleared"}, JobInv',
         k.pc # "register" => k.phase = model.active.phase,
         k.pc = "register" => model.active.phase = "confirming",
         jobs' = (jobs \ {j}) \cup {k}, UNCHANGED <<model, issued, exited, retired, dispatched>>,
         token' \in [Ops -> {"none", "live", "cancelled"}], pending' \subseteq Ops,
         \A o \in Ops \ {j.op} : token'[o] = token[o],
         token'[j.op] = "none" <=> k.pc = "register",
         token[j.op] = "cancelled" \/ (j.op \in pending /\ j.pc \in {"queued", "register"}) =>
           token'[j.op] = "cancelled" \/ (j.op \in pending' /\ k.pc = "register"),
         wrote' = wrote \/ (wrote' = wrote \cup {j.op} /\ model.active.phase \in WritePhases)
  PROVE  IInv'
<1>1. Live(k) /\ k.pc # "queued"
  BY DEF Live
<1>2. /\ Sound(model') /\ Tidy(model') /\ model'.readOnly \in BOOLEAN
      /\ model'.active.phase = IF k.pc = "register" THEN "confirming" ELSE k.phase
  BY ExecutionFacts
<1> QED BY <1>1, <1>2, AdvanceStep

LEMMA RegisterTokenInv == ASSUME IInv, ~exited, NEW j \in jobs, RegisterToken(j) PROVE IInv'
<1>1. PICK k : k = [j EXCEPT !.pc = "running", !.phase = "confirming"]
  OBVIOUS
<1>2. /\ j.pc = "register" /\ jobs' = (jobs \ {j}) \cup {k} /\ UNCHANGED <<model, issued, exited>>
      /\ token' = [token EXCEPT ![j.op] = IF j.op \in pending THEN "cancelled" ELSE "live"]
      /\ pending' = pending \ {j.op} /\ UNCHANGED <<retired, dispatched, wrote>>
  BY <1>1 DEF RegisterToken, Silent, Without
<1>3. j.type = "execute" /\ Live(j)
  BY <1>2, WorkerTypes DEF Live
<1>4. "running" \in Pcs /\ "confirming" \in PersistentPhases
  BY DEF Pcs, PersistentPhases
<1>5. /\ k \in Jobs /\ k.pc = "running" /\ k.type = j.type /\ k.op = j.op
      /\ k.kind = j.kind /\ k.phase = "confirming"
  <2>1. j \in Jobs
    BY <1>3, ExecutionFacts
  <2> QED BY <2>1, <1>1, <1>4 DEF Jobs, PersistentPhases
<1>6. JobInv'
  BY <1>2, <1>3, <1>4, <1>5, ExecutionFacts DEF JobInv
<1>7. /\ token \in [Ops -> {"none", "live", "cancelled"}] /\ pending \subseteq Ops /\ j.op \in Ops
      /\ token[j.op] = "none" /\ model.active.phase = "confirming"
  BY <1>2, <1>3, ExecutionFacts DEF RunnerTypeOK
<1>8. /\ token' \in [Ops -> {"none", "live", "cancelled"}] /\ pending' \subseteq Ops
      /\ \A o \in Ops \ {j.op} : token'[o] = token[o]
      /\ token'[j.op] = IF j.op \in pending THEN "cancelled" ELSE "live"
  BY <1>2, <1>7
<1> QED BY <1>2, <1>3, <1>5, <1>6, <1>7, <1>8, ExecutionStep

LEMMA CheckTokenInv == ASSUME IInv, ~exited, NEW j \in jobs, CheckToken(j) PROVE IInv'
<1>1. PICK k : k = [j EXCEPT !.pc = "cleared"]
  OBVIOUS
<1>2. /\ j.pc = "running" /\ j.phase \notin WritePhases
      /\ jobs' = (jobs \ {j}) \cup {k} /\ UNCHANGED <<model, issued, exited, runner, wrote>>
  BY <1>1 DEF CheckToken, Silent, Become, Without
<1>3. j.type = "execute" /\ Live(j)
  BY <1>2, WorkerTypes DEF Live
<1>4. "cleared" \in Pcs
  BY DEF Pcs
<1>5. /\ k \in Jobs /\ k.pc = "cleared" /\ k.type = j.type /\ k.op = j.op
      /\ k.kind = j.kind /\ k.phase = j.phase
  BY <1>1, <1>3, <1>4, ExecutionFacts, Moved
<1>6. JobInv'
  <2>1. j.phase \in PersistentPhases /\ j.kind = "persistent" /\ JobInv
    BY <1>2, <1>3, ExecutionFacts
  <2> QED BY <2>1, <1>2, <1>3, <1>5 DEF JobInv, WritePhases
<1>7. /\ token \in [Ops -> {"none", "live", "cancelled"}] /\ pending \subseteq Ops
      /\ token[j.op] # "none" /\ model.active.phase = j.phase
  BY <1>2, <1>3, ExecutionFacts DEF RunnerTypeOK
<1> QED BY <1>2, <1>3, <1>5, <1>6, <1>7, ExecutionStep DEF runner

LEMMA WriteMemoryInv == ASSUME IInv, ~exited, NEW j \in jobs, WriteMemory(j) PROVE IInv'
<1>1. PICK k : k = [j EXCEPT !.pc = "cleared"]
  OBVIOUS
<1>2. /\ j.pc = "running" /\ j.phase = "writing" /\ wrote' = wrote \cup {j.op}
      /\ jobs' = (jobs \ {j}) \cup {k} /\ UNCHANGED <<model, issued, exited, runner>>
  BY <1>1 DEF WriteMemory, Silent, Become, Without
<1>3. j.type = "execute" /\ Live(j)
  BY <1>2, WorkerTypes DEF Live
<1>4. "cleared" \in Pcs
  BY DEF Pcs
<1>5. /\ k \in Jobs /\ k.pc = "cleared" /\ k.type = j.type /\ k.op = j.op
      /\ k.kind = j.kind /\ k.phase = j.phase
  BY <1>1, <1>3, <1>4, ExecutionFacts, Moved
<1>6. JobInv'
  <2>1. j.phase \in PersistentPhases /\ j.kind = "persistent" /\ JobInv
    BY <1>2, <1>3, ExecutionFacts
  <2> QED BY <2>1, <1>2, <1>3, <1>5 DEF JobInv
<1>7. /\ token \in [Ops -> {"none", "live", "cancelled"}] /\ pending \subseteq Ops
      /\ token[j.op] # "none" /\ model.active.phase = j.phase
  BY <1>2, <1>3, ExecutionFacts DEF RunnerTypeOK
<1>8. model.active.phase \in WritePhases
  BY <1>2, <1>7 DEF WritePhases
<1> QED BY <1>2, <1>3, <1>5, <1>6, <1>7, <1>8, ExecutionStep DEF runner

LEMMA ReportProgressInv == ASSUME IInv, ~exited, NEW j \in jobs, ReportProgress(j) PROVE IInv'
<1>1. PICK next, n, k : /\ next = Follows(j.phase)
                        /\ n = PersistentProgress(model, j.op, next)
                        /\ k = [j EXCEPT !.pc = "running", !.phase = next]
  OBVIOUS
<1>2. /\ j.pc \in {"running", "cleared"} /\ j.phase # "post" /\ wrote' = wrote
      /\ Emit(Keep(n), (jobs \ {j}) \cup {k})
  BY <1>1 DEF ReportProgress, Without
<1>3. j.type = "execute" /\ Live(j)
  BY <1>2, WorkerTypes DEF Live
<1>4. /\ Sound(model) /\ Tidy(model) /\ JobInv /\ RunnerTypeOK
      /\ j \in Jobs /\ j.op = model.active.op /\ j.op # 0
      /\ model.active.exec /\ model.active.phase = j.phase
      /\ token[j.op] # "none" /\ model.readOnly \in BOOLEAN /\ j.kind = "persistent"
  BY <1>2, <1>3, ExecutionFacts
<1>5. /\ Sound(n) /\ Tidy(n) /\ next \in PersistentPhases
      /\ model.active.phase \in WritePhases => next \in WritePhases
      /\ n.active = [model.active EXCEPT !.phase = next]
      /\ n.terminal = model.terminal /\ n.readOnly = model.readOnly
  BY <1>1, <1>2, <1>4, ProgressSound
<1>6. /\ n.active.op = model.active.op /\ n.active.kind = model.active.kind
      /\ n.active.exec = model.active.exec /\ n.active.fault = model.active.fault
      /\ n.active.cancel = model.active.cancel /\ n.active.phase = next
  BY <1>4, <1>5, ActiveTypes DEF Actives
<1>7. "running" \in Pcs
  BY DEF Pcs
<1>8. /\ k \in Jobs /\ k.pc = "running" /\ k.type = j.type /\ k.op = j.op
      /\ k.kind = j.kind /\ k.phase = next
  <2>1. j \in Jobs /\ next \in PersistentPhases
    BY <1>4, <1>5
  <2> QED BY <2>1, <1>1, <1>7 DEF Jobs, PersistentPhases
<1>9. /\ model' = n /\ jobs' = (jobs \ {j}) \cup {k} /\ issued' = issued /\ exited' = exited
      /\ UNCHANGED runner
  BY <1>2, <1>5, <1>6, EmitFacts
<1>10. JobInv'
  BY <1>3, <1>4, <1>5, <1>8, <1>9 DEF JobInv
<1>11. Live(k)
  BY <1>3, <1>8 DEF Live
<1>12. /\ token' \in [Ops -> {"none", "live", "cancelled"}] /\ pending' \subseteq Ops
       /\ token' = token /\ pending' = pending /\ dispatched' = dispatched /\ retired' = retired
  BY <1>4, <1>9 DEF RunnerTypeOK, runner
<1> QED BY <1>2, <1>3, <1>4, <1>5, <1>6, <1>8, <1>9, <1>10, <1>11, <1>12, AdvanceStep

LEMMA CompleteExecutionInv ==
  ASSUME IInv, ~exited, NEW j \in jobs, CompleteExecution(j) PROVE IInv'
<1>1. PICK w \in BOOLEAN : w <=> j.phase \in WritePhases
  OBVIOUS
<1>2. PICK success \in BOOLEAN, checked \in BOOLEAN :
        Emit(Keep(PersistentCompleted(model, j.op,
               [success |-> success, checked |-> checked, wrote |-> w])),
             Become(j, "pop"))
  BY <1>1 DEF CompleteExecution
<1>3. j.pc \in {"running", "cleared"} /\ wrote' = wrote
  BY DEF CompleteExecution
<1>4. PICK n : n = PersistentCompleted(model, j.op,
                     [success |-> success, checked |-> checked, wrote |-> w])
  OBVIOUS
<1>5. j.type = "execute" /\ Live(j)
  BY <1>3, WorkerTypes DEF Live
<1>6. Sound(model) /\ j.op = model.active.op /\ j.op # 0 /\ model.active.exec
      /\ model.active.phase = j.phase
  BY <1>3, <1>5, ExecutionFacts
<1>7. Over(model, n, w)
  BY <1>4, <1>6, CompletedSound
<1>8. j.op \in wrote => w
  BY <1>1, <1>5, <1>6, NotWrote
<1> QED BY <1>2, <1>3, <1>4, <1>5, <1>7, <1>8, OverInv

LEMMA BreakExecutionInv ==
  ASSUME IInv, ~exited, NEW j \in jobs, BreakExecution(j) PROVE IInv'
<1>1. /\ j.pc \in {"running", "cleared"} /\ wrote' = wrote
      /\ \/ /\ j.phase \notin WritePhases
            /\ \E p \in Levels :
                 Emit(Keep(ApplicationFailed(model, j.op, p)), Become(j, "pop"))
         \/ Emit(Keep(WorkerTransportFault(model, j.op)), Become(j, "pop"))
  BY DEF BreakExecution
<1>2. j.type = "execute" /\ Live(j)
  BY <1>1, WorkerTypes DEF Live
<1>3. /\ Sound(model) /\ Tidy(model) /\ j \in Jobs /\ j.op = model.active.op /\ j.op # 0
      /\ model.active.exec /\ model.active.kind = "persistent" /\ j.kind = "persistent"
      /\ model.active.phase = j.phase /\ j.phase \in PersistentPhases /\ JobInv
  BY <1>1, <1>2, ExecutionFacts
<1>4. CASE j.phase \notin WritePhases
  <2>1. PICK p \in Levels : \/ Emit(Keep(ApplicationFailed(model, j.op, p)), Become(j, "pop"))
                            \/ Emit(Keep(WorkerTransportFault(model, j.op)), Become(j, "pop"))
    <3>1. Shareable \in Levels
      BY DEF Levels
    <3> QED BY <1>1, <3>1
  <2>2. PICK n : /\ n \in {ApplicationFailed(model, j.op, p), WorkerTransportFault(model, j.op)}
                 /\ Emit(Keep(n), Become(j, "pop"))
    BY <2>1
  <2>3. Over(model, n, FALSE)
    BY <1>3, <1>4, <2>2, FailedSound
  <2>4. j.op \notin wrote
    BY <1>2, <1>3, <1>4, NotWrote
  <2> QED BY <1>1, <1>2, <2>2, <2>3, <2>4, OverInv
<1>5. CASE j.phase \in WritePhases
  <2>1. PICK n, k : n = WorkerTransportFault(model, j.op) /\ k = [j EXCEPT !.pc = "pop"]
    OBVIOUS
  <2>2. Emit(Keep(n), (jobs \ {j}) \cup {k})
    BY <1>1, <1>5, <2>1 DEF Become, Without
  <2>3. /\ Sound(n) /\ Tidy(n) /\ n.active = [model.active EXCEPT !.fault = TRUE]
        /\ n.terminal.op = 0 /\ n.readOnly = model.readOnly
    BY <1>3, <1>5, <2>1, UnresolvedSound
  <2>4. n.active.op = model.active.op
    BY <1>3, <2>3, ActiveTypes DEF Actives
  <2>5. /\ model' = n /\ jobs' = (jobs \ {j}) \cup {k} /\ issued' = issued /\ exited' = exited
        /\ UNCHANGED runner
    BY <2>2, <2>3, <2>4, EmitFacts
  <2>6. "pop" \in Pcs
    BY DEF Pcs
  <2>7. /\ k \in Jobs /\ k.pc = "pop" /\ k.type = j.type /\ k.op = j.op
        /\ k.kind = j.kind /\ k.phase = j.phase
    BY <1>3, <2>1, <2>6, Moved
  <2>8. ~Live(k)
    BY <2>7 DEF Live
  <2>9. JobInv'
    BY <1>2, <1>3, <2>5, <2>7 DEF JobInv
  <2>10. model.active.phase \in WritePhases
    BY <1>3, <1>5
  <2> QED BY <1>1, <1>2, <2>3, <2>5, <2>7, <2>8, <2>9, <2>10, UnresolvedStep
<1> QED BY <1>4, <1>5

LEMMA PopTokenInv == ASSUME IInv, ~exited, NEW j \in jobs, PopToken(j) PROVE IInv'
<1>1. PICK k : k = [j EXCEPT !.pc = "retire"]
  OBVIOUS
<1>2. /\ j.pc = "pop" /\ jobs' = (jobs \ {j}) \cup {k} /\ UNCHANGED <<model, issued, exited>>
      /\ token' = [token EXCEPT ![j.op] = "none"] /\ pending' = pending \ {j.op}
      /\ UNCHANGED <<retired, dispatched, wrote>>
  BY <1>1 DEF PopToken, Silent, Become, Without
<1>3. j.type = "execute" /\ j \in Jobs /\ "retire" \in Pcs
  BY <1>2, WorkerTypes DEF Pcs
<1>4. /\ k \in Jobs /\ k.pc = "retire" /\ k.type = j.type /\ k.op = j.op
      /\ k.kind = j.kind /\ k.phase = j.phase
  BY <1>1, <1>3, Moved
<1>5. JobInv /\ RunnerTypeOK
  BY InvParts DEF RunnerInv
<1>6. JobInv'
  BY <1>2, <1>3, <1>4, <1>5 DEF JobInv
<1>7. ~Live(k)
  BY <1>4 DEF Live
<1>8. retired' \in 0 .. MaxOps
  BY <1>2, <1>5 DEF RunnerTypeOK
<1> QED BY <1>2, <1>4, <1>6, <1>7, <1>8, PutAwayStep

LEMMA RetireWorkerInv == ASSUME IInv, ~exited, NEW j \in jobs, RetireWorker(j) PROVE IInv'
<1>1. /\ j.pc = "retire" /\ jobs' = jobs \ {j} /\ UNCHANGED <<model, issued, exited>>
      /\ RetireOperation(j.op) /\ wrote' = wrote
  BY DEF RetireWorker, Silent, Without
<1>2. RunnerTypeOK /\ j.op \in Ops
  BY InvParts, JobTypes
<1>3. /\ retired' \in 0 .. MaxOps /\ (retired' = retired \/ retired' = j.op)
      /\ dispatched' \subseteq dispatched /\ token' = [token EXCEPT ![j.op] = "none"]
      /\ pending' = pending \ {j.op}
  BY <1>1, <1>2 DEF RetireOperation, RunnerTypeOK, Ops
<1>4. JobInv'
  BY <1>1, GoneJobs
<1> QED BY <1>1, <1>3, <1>4, PutAwayStep

-----------------------------------------------------------------------------
(* The specification *)

LEMMA InitInv == Init => IInv
<1> SUFFICES ASSUME Init PROVE IInv
  OBVIOUS
<1>1. /\ model = InitialModel /\ issued = 0 /\ jobs = {} /\ retired = 0 /\ dispatched = {}
      /\ token = [op \in Ops |-> "none"] /\ pending = {} /\ exited = FALSE /\ wrote = {}
  BY DEF Init
<1>2. Sound(model) /\ model.active = Idle /\ model.terminal.op = 0 /\ model.readOnly = FALSE
  BY <1>1, InitialSound
<1>3. Tidy(model)
  BY <1>2, IdleFields DEF Tidy
<1>4. RunnerTypeOK
  <2>1. 0 \in 0 .. MaxOps
    OBVIOUS
  <2>2. [op \in Ops |-> "none"] \in [Ops -> {"none", "live", "cancelled"}]
    OBVIOUS
  <2> QED BY <1>1, <2>1, <2>2 DEF RunnerTypeOK
<1>5. JobInv /\ AgeInv /\ LiveInv /\ TokenInv /\ AckInv /\ WroteInv
  BY <1>1, <1>2, IdleFields DEF JobInv, AgeInv, LiveInv, TokenInv, AckInv, WroteInv,
     HonestTerminal, Active
<1>6. ServesTheScreen
  BY <1>2, IdleFields DEF ServesTheScreen, Active
<1>7. ScreenInv /\ CarryInv
  BY <1>1, <1>2, <1>6, IdleFields DEF ScreenInv, CarryInv, Active
<1> QED BY <1>2, <1>3, <1>4, <1>5, <1>7, InvParts DEF RunnerInv

LEMMA StutterInv == ASSUME IInv, UNCHANGED vars PROVE IInv'
<1>1. UNCHANGED <<model, issued, jobs, runner, exited, wrote>>
  BY DEF vars
<1>2. exited' \in BOOLEAN
  BY <1>1, InvParts DEF RunnerTypeOK
<1> QED BY <1>1, <1>2, InvParts, IssuedStays, Reflexive, TendedStep

LEMMA NextInv == ASSUME IInv, Next PROVE IInv'
<1>1. CASE \E kind \in Requests : RequestOperation(kind)
  <2>1. PICK kind \in Kinds : RequestOperation(kind)
    BY <1>1 DEF RequestsAssumption
  <2>2. PICK r : r = OperationRequested(model, issued', kind)
    OBVIOUS
  <2> QED BY <2>1, <2>2, RequestInv DEF RequestOperation
<1>2. CASE Refresh
  <2>1. PICK r, kind : r = RefreshRequested(model, issued') /\ kind = "read"
    OBVIOUS
  <2>2. kind \in Kinds /\ ~(model.readOnly /\ kind \in {"switch", "persistent"})
    BY <2>1 DEF Kinds
  <2> QED BY <1>2, <2>1, <2>2, RequestInv DEF Refresh
<1>3. CASE \E b \in BOOLEAN : EnterPath(b) \/ CheckReview(b) \/ TypeConfirmation(b)
  BY <1>3, EnterPathInv, CheckReviewInv, TypeConfirmationInv
<1>4. CASE SubmitConfirmation
  BY <1>4, SubmitInv
<1>5. CASE CancelButton
  <2>1. PICK op, r : op = model.active.op /\ r = CancellationRequested(model, op)
    OBVIOUS
  <2> QED BY <1>5, <2>1, CancellationInv DEF CancelButton
<1>6. CASE CancelOrBack \/ CyclePrivacy \/ SafeQuit
  BY <1>6, CancelOrBackInv, CyclePrivacyInv, SafeQuitInv
<1>7. CASE Worker
  <2>1. PICK j \in jobs : Work(j)
    BY <1>7 DEF Worker
  <2>2. ~exited
    BY <1>7 DEF Worker
  <2>3. CASE ClaimEffect(j) \/ RequestCancellation(j) \/ Acknowledge(j) \/ ReportCompatibility(j)
    BY <2>2, <2>3, ClaimEffectInv, RequestCancellationInv, AcknowledgeInv, ReportCompatibilityInv
  <2>4. CASE FinishOrdinary(j) \/ RunPrepare(j) \/ RegisterToken(j) \/ CheckToken(j) \/ WriteMemory(j)
    BY <2>2, <2>4, FinishOrdinaryInv, RunPrepareInv, RegisterTokenInv, CheckTokenInv, WriteMemoryInv
  <2>5. CASE ReportProgress(j) \/ CompleteExecution(j) \/ BreakExecution(j) \/ PopToken(j)
             \/ RetireWorker(j)
    BY <2>2, <2>5, ReportProgressInv, CompleteExecutionInv, BreakExecutionInv, PopTokenInv,
       RetireWorkerInv
  <2> QED BY <2>1, <2>3, <2>4, <2>5 DEF Work
<1>8. CASE Exited
  BY <1>8, StutterInv DEF Exited
<1> QED BY <1>1, <1>2, <1>3, <1>4, <1>5, <1>6, <1>7, <1>8 DEF Next

LEMMA Invariance == Spec => []IInv
<1>1. IInv /\ [Next]_vars => IInv'
  BY NextInv, StutterInv
<1> QED BY InitInv, <1>1, PTL DEF Spec

\* The variables keep their types (update.py, runner.py:56-77).
THEOREM TypeCorrect == Spec => []TypeOK
<1>1. IInv => TypeOK
  BY DEF IInv
<1> QED BY <1>1, Invariance, PTL

\* Workers inside the facade are live.
LEMMA InFacadeLive ==
  ASSUME IInv, NEW j \in InFacade
  PROVE  j \in jobs /\ Live(j) /\ j.op = Active.op
<1>1. j \in jobs /\ j.pc \in {"call", "running", "cleared"}
  BY DEF InFacade
<1>2. Live(j)
  BY <1>1, WorkerTypes DEF Live
<1> QED BY <1>1, <1>2, LiveFacts DEF Active

\* From the report of WRITING on the screen shows the operation that writes,
\* in the phase its worker is in, whatever the user pressed and however many
\* operations there were (update.py, app.py:437).
THEOREM WritesShown == Spec => []WritesAreShown
<1>1. IInv => WritesAreShown
  <2> SUFFICES ASSUME IInv, NEW j \in InFacade, j.phase \in WritePhases
               PROVE  Active.op = j.op /\ Active.phase = j.phase /\ Active.exec
    BY DEF WritesAreShown
  <2>1. j \in jobs /\ Live(j) /\ j.op = Active.op
    BY InFacadeLive
  <2>2. j.phase # "none"
    BY DEF WritePhases
  <2>3. j.type = "execute" /\ j.pc \notin {"queued", "register"}
    BY <2>1, <2>2, WorkerTypes
  <2> QED BY <2>1, <2>3, LiveFacts DEF Active
<1> QED BY <1>1, Invariance, PTL

\* An operation that has written never ends on the screen as one that has not
\* (update.py:548, runner.py:303).
THEOREM TerminalIsHonest == Spec => []HonestTerminal
<1>1. IInv => HonestTerminal
  BY DEF IInv, RunnerInv, WroteInv
<1> QED BY <1>1, Invariance, PTL

\* A cancellation shown as acknowledged has reached the token of the execution
\* or waits for it (runner.py:114).
THEOREM AcknowledgementKept == Spec => []AckIsKept
<1>1. IInv => AckIsKept
  <2> SUFFICES ASSUME IInv, Active.exec, Active.cancel = "acked", NEW j \in jobs,
                      j.type = "execute", j.op = Active.op,
                      j.pc \in {"register", "running", "cleared"}
               PROVE  token[j.op] = "cancelled" \/ (j.pc = "register" /\ j.op \in pending)
    BY DEF AckIsKept
  <2>1. Live(j)
    BY DEF Live
  <2>2. AckInv
    BY DEF IInv, RunnerInv
  <2> QED BY <2>1, <2>2 DEF AckInv, Acked
<1> QED BY <1>1, Invariance, PTL

\* One worker at a time is inside the facade, for the operation on the screen,
\* and none that changes the device while it is read-only (update.py:240,
\* app.py:404-425).
THEOREM ForegroundIsOne == Spec => []OneForegroundOperation
<1>1. IInv => OneForegroundOperation
  <2> SUFFICES ASSUME IInv PROVE OneForegroundOperation
    OBVIOUS
  <2>1. Cardinality(InFacade) <= 1
    <3>1. CASE InFacade = {}
      BY <3>1, FS_EmptySet
    <3>2. CASE InFacade # {}
      <4>1. PICK j : j \in InFacade
        BY <3>2
      <4>2. InFacade = {j}
        BY <4>1, InFacadeLive, LiveFacts
      <4> QED BY <4>2, FS_Singleton
    <3> QED BY <3>1, <3>2
  <2>2. \A j \in InFacade : j.op = Active.op
    BY InFacadeLive
  <2>3. model.readOnly => Active.kind \notin {"switch", "persistent"}
    BY DEF IInv, RunnerInv, ScreenInv
  <2> QED BY <2>1, <2>2, <2>3 DEF OneForegroundOperation
<1> QED BY <1>1, Invariance, PTL

\* The operation on the screen is one the runner still serves (runner.py:98).
THEOREM ScreenIsServed == Spec => []ServesTheScreen
<1>1. IInv => ServesTheScreen
  BY DEF IInv, RunnerInv, ScreenInv
<1> QED BY <1>1, Invariance, PTL

\* Nothing above the privacy class of the surface stays in the model, and the
\* preparation held is that of the operation on the screen (update.py:101).
THEOREM HiddenIsGone == Spec => []NothingHidden
<1>1. IInv => NothingHidden
  BY DEF IInv, ModelInv, HeldInv, NothingHidden, Active
<1> QED BY <1>1, Invariance, PTL

\* Leaving the program abandons no execution (app.py:393).
THEOREM QuitIsSafe == Spec => []QuitLeavesNoExecution
<1>1. IInv => QuitLeavesNoExecution
  BY DEF IInv, RunnerInv, ScreenInv, Live, QuitLeavesNoExecution
<1> QED BY <1>1, Invariance, PTL
-----------------------------------------------------------------------------
(* Workers go on *)

\* The steps of a worker that are left, by place; the execution has two for each
\* phase that is left, and in this order.
PhasesLeft ==
  [confirming |-> 5, revalidating |-> 4, armed |-> 3, writing |-> 2,
   reconciling |-> 1, post |-> 0]
Places ==
  [queued |-> 16, register |-> 15, running |-> 4, cleared |-> 3,
   call |-> 3, finish |-> 2, lock |-> 2, ack |-> 1, pop |-> 2, retire |-> 1]
StepsLeft(j) ==
  Places[j.pc]
    + (IF j.pc \in {"running", "cleared"} THEN 2 * PhasesLeft[j.phase] ELSE 0)

WorkersAreShort == \A j \in jobs : StepsLeft(j) \in 1 .. 16

\* k is the worker j, further on.
Advanced(j, k) ==
  /\ k.type = j.type /\ k.op = j.op /\ k.kind = j.kind
  /\ StepsLeft(k) < StepsLeft(j)

\* A step of a worker is its own, and the user and the other workers take none
\* of them away.
WorkersAdvance ==
  [][/\ \A j \in jobs : ~exited /\ Work(j) =>
          /\ jobs \ {j} \subseteq jobs'
          /\ \A k \in jobs' \ (jobs \ {j}) : Advanced(j, k)
     /\ ~Worker => jobs \subseteq jobs']_vars

\* What the event loop adds to the workers.
LEMMA EmitJobs ==
  ASSUME NEW n, NEW workers, Emit(Keep(n), workers)
  PROVE  jobs' = workers
BY KeepFields, DispatchNone DEF Emit, AcceptEvent

\* A worker in another place.
LEMMA MovedOn ==
  ASSUME NEW j \in Jobs, NEW pc \in Pcs, NEW k, k = [j EXCEPT !.pc = pc],
         j.pc \notin {"running", "cleared"}, pc \notin {"running", "cleared"},
         Places[pc] < Places[j.pc]
  PROVE  Advanced(j, k)
<1>1. k.pc = pc /\ k.type = j.type /\ k.op = j.op /\ k.kind = j.kind
  BY Moved
<1>2. Places[pc] \in Nat /\ Places[j.pc] \in Nat
  BY DEF Places, Pcs, Jobs
<1>3. StepsLeft(k) = Places[pc] /\ StepsLeft(j) = Places[j.pc]
  BY <1>1, <1>2 DEF StepsLeft
<1> QED BY <1>1, <1>3 DEF Advanced

\* A worker that does nothing in the facade, or ends what it did there.
LEMMA OtherMoves ==
  ASSUME IInv, NEW j \in jobs,
         \/ ClaimEffect(j) \/ RequestCancellation(j) \/ Acknowledge(j)
         \/ ReportCompatibility(j) \/ FinishOrdinary(j) \/ RunPrepare(j)
         \/ PopToken(j) \/ RetireWorker(j)
  PROVE  \/ jobs' = jobs \ {j}
         \/ \E k : jobs' = (jobs \ {j}) \cup {k} /\ Advanced(j, k)
<1>1. j \in Jobs /\ j.type \in Types
  BY WorkerTypes
<1> SUFFICES \/ jobs' = jobs \ {j}
             \/ \E pc \in Pcs : /\ jobs' = Become(j, pc)
                                /\ j.pc \notin {"running", "cleared"}
                                /\ pc \notin {"running", "cleared"}
                                /\ Places[pc] < Places[j.pc]
  BY <1>1, MovedOn DEF Become, Without
<1>2. CASE ClaimEffect(j)
  <2>1. jobs' = Become(j, AfterClaim(j.type)) \/ jobs' = jobs \ {j}
    BY <1>2 DEF ClaimEffect, Silent, Without
  <2>2. AfterClaim(j.type) \in {"lock", "register", "call"} /\ j.pc = "queued"
    BY <1>2 DEF AfterClaim, ClaimEffect
  <2> QED BY <2>1, <2>2 DEF Pcs, Places
<1>3. CASE RequestCancellation(j)
  BY <1>3 DEF RequestCancellation, Silent, Pcs, Places
<1>4. CASE Acknowledge(j)
  BY <1>4, EmitJobs DEF Acknowledge, Without
<1>5. CASE ReportCompatibility(j)
  <2>1. jobs' = Become(j, "finish") /\ j.pc = "call"
    BY <1>5, EmitJobs DEF ReportCompatibility
  <2> QED BY <2>1 DEF Pcs, Places
<1>6. CASE FinishOrdinary(j)
  <2>1. jobs' = Become(j, "retire") /\ j.pc \in {"call", "finish"}
    BY <1>6, EmitJobs DEF FinishOrdinary
  <2> QED BY <2>1 DEF Pcs, Places
<1>7. CASE RunPrepare(j)
  <2>1. (jobs' = Become(j, "retire") \/ jobs' = jobs \ {j}) /\ j.pc = "call"
    BY <1>7, EmitJobs DEF RunPrepare, Without
  <2> QED BY <2>1 DEF Pcs, Places
<1>8. CASE PopToken(j)
  BY <1>8 DEF PopToken, Silent, Pcs, Places
<1>9. CASE RetireWorker(j)
  BY <1>9 DEF RetireWorker, Silent, Without
<1> QED BY <1>2, <1>3, <1>4, <1>5, <1>6, <1>7, <1>8, <1>9

\* A worker that executes.
LEMMA ExecutionMoves ==
  ASSUME IInv, NEW j \in jobs,
         \/ RegisterToken(j) \/ CheckToken(j) \/ WriteMemory(j) \/ ReportProgress(j)
         \/ CompleteExecution(j) \/ BreakExecution(j)
  PROVE  \E k : jobs' = (jobs \ {j}) \cup {k} /\ Advanced(j, k)
<1>1. j \in Jobs /\ (j.pc \in {"running", "cleared"} => j.phase \in PersistentPhases)
  BY WorkerTypes
<1>2. j.pc = "cleared" => j.phase \notin {"reconciling", "post"}
  BY WorkerTypes
<1>3. CASE RegisterToken(j)
  <2>1. PICK k : k = [j EXCEPT !.pc = "running", !.phase = "confirming"]
    OBVIOUS
  <2>2. jobs' = (jobs \ {j}) \cup {k} /\ j.pc = "register"
    BY <1>3, <2>1 DEF RegisterToken, Silent, Without
  <2>3. k.pc = "running" /\ k.phase = "confirming" /\ k.type = j.type /\ k.op = j.op
        /\ k.kind = j.kind
    BY <1>1, <2>1 DEF Jobs
  <2>4. StepsLeft(k) = 14 /\ StepsLeft(j) = 15
    BY <2>2, <2>3 DEF StepsLeft, Places, PhasesLeft
  <2> QED BY <2>2, <2>3, <2>4 DEF Advanced
<1>4. CASE CheckToken(j) \/ WriteMemory(j)
  <2>1. PICK k : k = [j EXCEPT !.pc = "cleared"]
    OBVIOUS
  <2>2. jobs' = (jobs \ {j}) \cup {k} /\ j.pc = "running"
    BY <1>4, <2>1 DEF CheckToken, WriteMemory, Silent, Become, Without
  <2>3. k.pc = "cleared" /\ k.phase = j.phase /\ k.type = j.type /\ k.op = j.op
        /\ k.kind = j.kind
    BY <1>1, <2>1, Moved DEF Pcs
  <2>4. PICK r \in Nat : r = PhasesLeft[j.phase]
    BY <1>1, <2>2 DEF PhasesLeft, PersistentPhases, WritePhases
  <2>5. StepsLeft(k) = 3 + 2 * r /\ StepsLeft(j) = 4 + 2 * r
    BY <2>2, <2>3, <2>4 DEF StepsLeft, Places
  <2> QED BY <2>2, <2>3, <2>5 DEF Advanced
<1>5. CASE ReportProgress(j)
  <2>1. PICK next, k : next = Follows(j.phase) /\ k = [j EXCEPT !.pc = "running", !.phase = next]
    OBVIOUS
  <2>2. /\ jobs' = (jobs \ {j}) \cup {k} /\ j.phase # "post"
        /\ j.pc = "cleared" \/ (j.pc = "running" /\ j.phase = "reconciling")
    BY <1>5, <2>1, EmitJobs DEF ReportProgress, Without
  <2>3. k.pc = "running" /\ k.phase = next /\ k.type = j.type /\ k.op = j.op
        /\ k.kind = j.kind
    BY <1>1, <2>1 DEF Jobs
  <2>4. PICK r \in Nat, s \in Nat :
          r = PhasesLeft[j.phase] /\ s = PhasesLeft[next] /\ s + 1 = r
    BY <1>1, <2>1, <2>2 DEF PhasesLeft, PersistentPhases, WritePhases, Follows
  <2>5. StepsLeft(k) = 4 + 2 * s
    BY <2>3, <2>4 DEF StepsLeft, Places
  <2>6. StepsLeft(j) = 3 + 2 * r \/ StepsLeft(j) = 4 + 2 * r
    BY <2>2, <2>4 DEF StepsLeft, Places
  <2> QED BY <2>2, <2>3, <2>4, <2>5, <2>6 DEF Advanced
<1>6. CASE CompleteExecution(j) \/ BreakExecution(j)
  <2>1. PICK k : k = [j EXCEPT !.pc = "pop"]
    OBVIOUS
  <2>2. jobs' = (jobs \ {j}) \cup {k} /\ j.pc \in {"running", "cleared"}
    BY <1>6, <2>1, EmitJobs DEF CompleteExecution, BreakExecution, Become, Without
  <2>3. k.pc = "pop" /\ k.type = j.type /\ k.op = j.op /\ k.kind = j.kind
    BY <1>1, <2>1, Moved DEF Pcs
  <2>4. PICK r \in Nat : r = PhasesLeft[j.phase]
    BY <1>1, <2>2 DEF PhasesLeft, PersistentPhases, WritePhases
  <2>5. StepsLeft(k) = 2
    BY <2>3 DEF StepsLeft, Places
  <2>6. StepsLeft(j) = 3 + 2 * r \/ StepsLeft(j) = 4 + 2 * r
    BY <2>2, <2>4 DEF StepsLeft, Places
  <2> QED BY <2>2, <2>3, <2>5, <2>6 DEF Advanced
<1> QED BY <1>3, <1>4, <1>5, <1>6

\* The user only adds workers.
LEMMA UserAdds ==
  ASSUME NEW r, User(r) PROVE jobs \subseteq jobs'
BY DEF User, AcceptEvent

\* A worker makes at most 16 steps: each of them is its own and brings it nearer
\* to its end, and neither the user, nor a cancellation, nor another worker takes
\* it out of the program or sets it back (runner.py:58-101, 272-333;
\* app.py:428-437).
THEOREM WorkersGoOn == Spec => []WorkersAreShort /\ WorkersAdvance
<1>1. IInv => WorkersAreShort
  <2> SUFFICES ASSUME IInv, NEW j \in jobs PROVE StepsLeft(j) \in 1 .. 16
    BY DEF WorkersAreShort
  <2>1. j.pc \in Pcs /\ (j.pc \in {"running", "cleared"} => j.phase \in PersistentPhases)
    BY WorkerTypes DEF Jobs
  <2>2. CASE j.pc \in {"running", "cleared"}
    <3>1. PICK r \in 0 .. 5 : r = PhasesLeft[j.phase]
      BY <2>1, <2>2 DEF PhasesLeft, PersistentPhases, WritePhases
    <3>2. StepsLeft(j) = 4 + 2 * r \/ StepsLeft(j) = 3 + 2 * r
      BY <2>2, <3>1 DEF StepsLeft, Places
    <3> QED BY <3>1, <3>2
  <2>3. CASE j.pc \notin {"running", "cleared"}
    <3>1. PICK r \in 1 .. 16 : r = Places[j.pc]
      BY <2>1, <2>3 DEF Places, Pcs
    <3> QED BY <2>3, <3>1 DEF StepsLeft
  <2> QED BY <2>2, <2>3
<1>2. ASSUME IInv, [Next]_vars
      PROVE  [/\ \A j \in jobs : ~exited /\ Work(j) =>
                   /\ jobs \ {j} \subseteq jobs'
                   /\ \A k \in jobs' \ (jobs \ {j}) : Advanced(j, k)
              /\ ~Worker => jobs \subseteq jobs']_vars
  <2>1. ASSUME NEW j \in jobs, Work(j)
        PROVE  /\ jobs \ {j} \subseteq jobs'
               /\ \A k \in jobs' \ (jobs \ {j}) : Advanced(j, k)
    <3>1. \/ jobs' = jobs \ {j}
          \/ \E k : jobs' = (jobs \ {j}) \cup {k} /\ Advanced(j, k)
      <4>1. CASE \/ ClaimEffect(j) \/ RequestCancellation(j) \/ Acknowledge(j)
                 \/ ReportCompatibility(j) \/ FinishOrdinary(j) \/ RunPrepare(j)
                 \/ PopToken(j) \/ RetireWorker(j)
        BY <1>2, <4>1, OtherMoves
      <4>2. CASE \/ RegisterToken(j) \/ CheckToken(j) \/ WriteMemory(j) \/ ReportProgress(j)
                 \/ CompleteExecution(j) \/ BreakExecution(j)
        BY <1>2, <4>2, ExecutionMoves
      <4> QED BY <2>1, <4>1, <4>2 DEF Work
    <3> QED BY <3>1
  <2>2. ASSUME ~Worker PROVE jobs \subseteq jobs'
    <3>1. CASE (\E kind \in Requests : RequestOperation(kind)) \/ Refresh
      BY <3>1, UserAdds DEF RequestOperation, Refresh
    <3>2. CASE \E b \in BOOLEAN : EnterPath(b) \/ CheckReview(b) \/ TypeConfirmation(b)
      BY <3>2, UserAdds DEF EnterPath, CheckReview, TypeConfirmation
    <3>3. CASE SubmitConfirmation \/ CancelButton \/ CancelOrBack \/ CyclePrivacy
      BY <3>3, UserAdds DEF SubmitConfirmation, CancelButton, CancelOrBack, CyclePrivacy
    <3>4. CASE SafeQuit
      BY <3>4, UserAdds DEF SafeQuit
    <3>5. CASE Exited \/ UNCHANGED vars
      BY <3>5 DEF Exited, vars
    <3> QED BY <1>2, <2>2, <3>1, <3>2, <3>3, <3>4, <3>5 DEF Next
  <2> QED BY <2>1, <2>2
<1> QED BY <1>1, <1>2, Invariance, PTL DEF Spec, WorkersAdvance

-----------------------------------------------------------------------------
(* What the user waits for has its worker *)

\* An execution on the screen that is not given up has its worker.
ExecutionServed ==
  Active.exec /\ ~Active.fault =>
    \E j \in jobs : j.type = "execute" /\ j.op = Active.op /\ Live(j)

\* A persistent operation that is cancelled before its execution has a worker
\* that will end it: the one that carries the cancellation, or, when that is
\* acknowledged, the one that prepares, whose result will be thrown away.
CancellationCarried ==
  Active.kind = "persistent" /\ ~Active.exec /\ Active.cancel # "no" =>
    \/ \E j \in jobs : Carries(j)
    \/ /\ Active.cancel = "acked"
       /\ \E j \in jobs : j.type = "prepare" /\ j.op = Active.op /\ Live(j)

LEMMA ServedFacts ==
  ASSUME IInv, Active.op # 0, ~Active.fault, ~Waits(Active)
  PROVE  \E j \in jobs : Live(j) /\ j.op = Active.op
BY InvParts, ServedScreen DEF RunnerInv, ScreenInv, Served

\* While the screen shows an execution that nobody has given up, the worker of
\* that execution is in the program and has not delivered its end: the screen
\* never waits for a worker that has gone (runner.py:272-333, update.py:402-425).
THEOREM ExecutionIsServed == Spec => []ExecutionServed
<1>1. IInv => ExecutionServed
  <2> SUFFICES ASSUME IInv, Active.exec, ~Active.fault
               PROVE  \E j \in jobs : j.type = "execute" /\ j.op = Active.op /\ Live(j)
    BY DEF ExecutionServed
  <2>1. Active.op # 0 /\ ~Waits(Active)
    BY InvParts, IdleFields DEF Active, Waits, Sound, ModelInv, ActiveInv
  <2>2. PICK j \in jobs : Live(j) /\ j.op = Active.op
    BY <2>1, ServedFacts
  <2>3. j.type = "execute"
    BY <2>2, LiveFacts DEF Active, Types
  <2> QED BY <2>2, <2>3
<1> QED BY <1>1, Invariance, PTL DEF Spec

\* A cancellation the screen has taken is never lost on its way to the
\* application: a worker carries it that will not be dropped as a repetition of
\* another, or the preparation it has stopped is about to be put away
\* (runner.py:58-64, 91-101, 114-122; update.py:450-489; app.py:433-450).
THEOREM CancellationIsCarried == Spec => []CancellationCarried
<1>1. IInv => CancellationCarried
  <2> SUFFICES ASSUME IInv, Active.kind = "persistent", ~Active.exec, Active.cancel # "no"
               PROVE  \/ \E j \in jobs : Carries(j)
                      \/ /\ Active.cancel = "acked"
                         /\ \E j \in jobs : /\ j.type = "prepare" /\ j.op = Active.op
                                           /\ Live(j)
    BY DEF CancellationCarried
  <2>1. /\ Active.op # 0 /\ ~Active.fault /\ Active.phase \notin WritePhases
        /\ Active.cancel \in {"asked", "acked"}
    BY InvParts, IdleFields DEF Active, Sound, ModelInv, ActiveInv, Models, Actives,
      PreExecution, WritePhases
  <2>2. CASE Active.cancel = "asked"
    BY <2>1, <2>2, InvParts DEF RunnerInv, CarryInv
  <2>3. CASE Active.cancel = "acked"
    <3>1. ~Waits(Active)
      BY <2>3, InvParts DEF Tidy, Sound, ModelInv, HeldInv, Active, Waits
    <3>2. PICK j \in jobs : Live(j) /\ j.op = Active.op
      BY <2>1, <3>1, ServedFacts
    <3>3. j.type = "prepare"
      BY <3>2, LiveFacts DEF Active, Types
    <3> QED BY <2>3, <3>2, <3>3
  <2> QED BY <2>1, <2>2, <2>3
<1> QED BY <1>1, Invariance, PTL DEF Spec
=============================================================================
