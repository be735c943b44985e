------------------------ MODULE PreparationRegistry -------------------------
(***************************************************************************)
(* The registry of prepared operations and the process-wide claim that     *)
(* serialises hardware work: application/persistent.py and                 *)
(* application/coordinator.py, called from several threads through several *)
(* facades (the owners).  A critical section of _REGISTRY_LOCK is one      *)
(* step; what runs under the claim is not, and the claim never blocks.     *)
(*                                                                         *)
(* A preparation is named by its issuance serial, so the order of          *)
(* _PREPARATIONS is the order of the names.                                *)
(***************************************************************************)
EXTENDS Naturals, Sequences, FiniteSets

CONSTANTS
  Threads,
  Owners,           \* facades that prepare and execute
  NoThread,         \* the claim is free
  MaxActive,        \* _MAX_ACTIVE_PREPARATIONS (32)
  MaxTombstones,    \* _MAX_PREPARATION_TOMBSTONES (128)
  MaxIssued         \* bound: preparations issued in a behaviour

Ids == 1..MaxIssued

ASSUME ThreadsAssumption == IsFiniteSet(Threads) /\ NoThread \notin Threads
ASSUME LimitsAssumption ==
  MaxActive \in Nat \ {0} /\ MaxTombstones \in Nat /\ MaxIssued \in Nat

VARIABLES
  issued,       \* the next serial is issued + 1
  ownerOf,      \* owner of every issued preparation
  alive,        \* owners that are still referenced
  active,       \* _PREPARATIONS
  consumed,     \* records with their consumed flag set
  executing,    \* records with their executing flag set
  tombstones,   \* _TOMBSTONES, oldest first
  claim,        \* holder of _PROCESS_LOCK
  pc,           \* position of every thread
  call,         \* the arguments of its call
  outcome,      \* how its last call returned
  accepted      \* history: preparations whose execution was accepted

registry == <<issued, ownerOf, active, consumed, executing, tombstones>>
vars == <<registry, alive, claim, pc, call, outcome, accepted>>

NoCall == [kind |-> "none"]
PrepareCalls == [kind : {"apply", "restore"}, owner : Owners]
ExecuteCalls ==
  [kind : {"execute"}, owner : Owners, id : Ids, faithful : BOOLEAN]

Positions == {"idle", "observe", "target", "load", "register",
              "entered", "contended", "claimed", "running", "release"}
Outcomes == {"none", "busy", "failed", "full", "issued", "refused", "unknown",
             "tampered", "stale", "consumed", "executed"}

TypeOK ==
  /\ issued \in 0..MaxIssued
  /\ ownerOf \in [1..issued -> Owners]
  /\ alive \subseteq Owners
  /\ active \subseteq 1..issued
  /\ consumed \subseteq 1..issued
  /\ executing \subseteq consumed
  /\ tombstones \in Seq([id : 1..issued, consumed : BOOLEAN])
  /\ claim \in Threads \cup {NoThread}
  /\ pc \in [Threads -> Positions]
  /\ call \in [Threads -> PrepareCalls \cup ExecuteCalls \cup {NoCall}]
  /\ outcome \in [Threads -> Outcomes]
  /\ accepted \subseteq 1..issued

Init ==
  /\ issued = 0 /\ ownerOf = << >>
  /\ alive = Owners
  /\ active = {} /\ consumed = {} /\ executing = {} /\ tombstones = << >>
  /\ claim = NoThread
  /\ pc = [t \in Threads |-> "idle"]
  /\ call = [t \in Threads |-> NoCall]
  /\ outcome = [t \in Threads |-> "none"]
  /\ accepted = {}

-----------------------------------------------------------------------------
(* Registry helpers, under _REGISTRY_LOCK *)

IsAlive(id) == ownerOf[id] \in alive

\* _reclaim_dead_locked: the records and, oldest first, the tombstones it keeps.
LivingRecords == {id \in active : IsAlive(id) \/ id \in executing}
Living(stones) ==
  LET kept[i \in 0..Len(stones)] ==
        IF i = 0 THEN << >>
        ELSE IF IsAlive(stones[i].id) THEN Append(kept[i - 1], stones[i])
        ELSE kept[i - 1]
  IN  kept[Len(stones)]
\* (Mutant: tombstones are not reclaimed.)
AllStones == tombstones
LivingStones == Living(tombstones)
Reclaim == active' = LivingRecords /\ tombstones' = LivingStones

\* _trim_tombstones_locked
Trim(stones) ==
  IF Len(stones) > MaxTombstones
    THEN SubSeq(stones, Len(stones) - MaxTombstones + 1, Len(stones))
    ELSE stones

\* _add_tombstone_locked
\* (Mutant: whatever is retired is called consumed.)
AddConsumedStone(stones, id, flag) ==
  Trim(Append(stones, [id |-> id, consumed |-> TRUE]))
AddStone(stones, id, flag) ==
  Trim(Append(stones, [id |-> id, consumed |-> flag]))

\* The records _make_active_room_locked may retire, and the one it does.
\* (Mutants: executing records too; only those of dead owners.)
EvictAny == LivingRecords
EvictDead == {id \in LivingRecords : ~IsAlive(id)} \ executing
Evictable == LivingRecords \ executing
Oldest(id) == \A other \in Evictable : id <= other

\* _retired_terminal: what a tombstone of this owner says, if there is one
Stones(owner, id) ==
  {stone \in {LivingStones[i] : i \in 1..Len(LivingStones)} :
     stone.id = id /\ ownerOf[id] = owner}
Retired(owner, id, otherwise) ==
  CASE \E stone \in Stones(owner, id) : stone.consumed -> "consumed"
    [] \E stone \in Stones(owner, id) : ~stone.consumed -> "stale"
    [] OTHER -> otherwise

-----------------------------------------------------------------------------
(* Control *)

Goto(t, position) ==
  /\ pc' = [pc EXCEPT ![t] = position]
  /\ outcome' = [outcome EXCEPT ![t] = "none"]

Return(t, status) ==
  /\ pc' = [pc EXCEPT ![t] = "idle"]
  /\ outcome' = [outcome EXCEPT ![t] = status]

\* coordinator.claim(): non-blocking, OperationBusyError if taken
\* (Mutants: the result of acquire is ignored; acquire blocks.)
ClaimAnyway(t, position) == claim' = t /\ Goto(t, position)
ClaimBlocking(t, position) ==
  claim = NoThread /\ claim' = t /\ Goto(t, position)
ClaimOrBusy(t, position) ==
  IF claim = NoThread
    THEN claim' = t /\ Goto(t, position)
    ELSE Return(t, "busy") /\ UNCHANGED claim

Unclaim == claim' = NoThread

-----------------------------------------------------------------------------
(* prepare_apply, _prepare_restore *)

Preparing ==
  {t \in Threads : pc[t] \in {"observe", "target", "load", "register"}}

StartPrepare(t, c) ==
  /\ pc[t] = "idle"
  /\ c.owner \in alive
  /\ issued + Cardinality(Preparing) < MaxIssued
  /\ call' = [call EXCEPT ![t] = c]
  /\ ClaimOrBusy(t, "observe")
  /\ UNCHANGED <<registry, alive, accepted>>

\* _call_preparation_context and _require_preparable; the claim is released
\* whether the context is usable or not.
Observe(t) ==
  /\ pc[t] = "observe"
  /\ Unclaim
  /\ \/ Goto(t, IF call[t].kind = "apply" THEN "register" ELSE "target")
     \/ Return(t, "failed")
  /\ UNCHANGED <<registry, alive, call, accepted>>

\* A restore claims a second time to load its target.
ClaimTarget(t) ==
  /\ pc[t] = "target"
  /\ ClaimOrBusy(t, "load")
  /\ UNCHANGED <<registry, alive, call, accepted>>

LoadTarget(t) ==
  /\ pc[t] = "load"
  /\ Unclaim
  /\ Goto(t, "register") \/ Return(t, "failed")
  /\ UNCHANGED <<registry, alive, call, accepted>>

\* _register: reclaim, retire the oldest record when there is no room, issue.
\* One retirement makes room, as there are never more than MaxActive records.
Register(t) ==
  /\ pc[t] = "register"
  /\ LET full == Cardinality(LivingRecords) >= MaxActive
         new == issued + 1
         issue(kept, stones) ==
           /\ issued' = new
           /\ ownerOf' = [id \in 1..new |->
                            IF id = new THEN call[t].owner ELSE ownerOf[id]]
           /\ active' = kept \cup {new}
           /\ tombstones' = stones
           /\ Return(t, "issued")
     IN \/ ~full /\ issue(LivingRecords, LivingStones)
        \/ /\ full
           /\ \E id \in Evictable :
                /\ Oldest(id)
                /\ issue(LivingRecords \ {id},
                         AddStone(LivingStones, id, id \in consumed))
        \/ /\ full /\ Evictable = {}
           /\ Return(t, "full")
           /\ Reclaim
           /\ UNCHANGED <<issued, ownerOf>>
  /\ UNCHANGED <<consumed, executing, alive, claim, call, accepted>>

-----------------------------------------------------------------------------
(* execute_prepared *)

\* Confirmation and token, then the first look at the registry.  A caller may
\* hold any preparation ever issued, to any owner, and alter its review.
StartExecute(t, c) ==
  /\ pc[t] = "idle"
  /\ c.owner \in alive /\ c.id <= issued
  /\ call' = [call EXCEPT ![t] = c]
  /\ \/ Return(t, "refused") /\ UNCHANGED <<active, tombstones>>
     \/ /\ Reclaim
        /\ \/ /\ c.id \notin LivingRecords
              /\ Return(t, Retired(c.owner, c.id, "unknown"))
           \/ /\ c.id \in LivingRecords /\ ownerOf[c.id] # c.owner
              /\ Return(t, "unknown")
           \/ /\ c.id \in LivingRecords /\ ownerOf[c.id] = c.owner
              /\ IF ~c.faithful THEN Return(t, "tampered")
                 ELSE IF c.id \in consumed THEN Return(t, "consumed")
                 ELSE Goto(t, "entered")
  /\ UNCHANGED <<issued, ownerOf, consumed, executing, alive, claim, accepted>>

\* (Mutant: the claim is not looked at.)
ClaimNothing(t) ==
  /\ pc[t] = "entered"
  /\ Goto(t, "claimed")
  /\ UNCHANGED <<registry, alive, claim, call, accepted>>
Claim(t) ==
  /\ pc[t] = "entered"
  /\ IF claim = NoThread
       THEN claim' = t /\ Goto(t, "claimed")
       ELSE UNCHANGED claim /\ Goto(t, "contended")
  /\ UNCHANGED <<registry, alive, call, accepted>>

\* The busy handler looks whether somebody else has executed the preparation.
Contend(t) ==
  /\ pc[t] = "contended"
  /\ LET id == call[t].id
         spent == \/ id \in active \cap consumed
                  \/ /\ ownerOf[id] = call[t].owner
                     /\ \E i \in 1..Len(tombstones) :
                          tombstones[i] = [id |-> id, consumed |-> TRUE]
     IN Return(t, IF spent THEN "consumed" ELSE "busy")
  /\ UNCHANGED <<registry, alive, claim, call, accepted>>

Mark(id) == consumed' = consumed \cup {id} /\ executing' = executing \cup {id}

\* The second look, under the claim: nothing seen before it is trusted.
Accept(t) ==
  /\ pc[t] = "claimed"
  /\ Reclaim
  /\ LET id == call[t].id
         refuse(status) ==
           /\ Return(t, status)
           /\ Unclaim
           /\ UNCHANGED <<consumed, executing, accepted>>
     IN \/ /\ id \notin LivingRecords
           /\ refuse(Retired(call[t].owner, id, "stale"))
        \/ /\ id \in LivingRecords
           /\ ownerOf[id] # call[t].owner \/ ~call[t].faithful
           /\ refuse("stale")
        \/ /\ id \in LivingRecords /\ id \in consumed
           /\ refuse("consumed")
        \/ /\ id \in LivingRecords /\ id \notin consumed
           /\ ownerOf[id] = call[t].owner /\ call[t].faithful
           /\ Mark(id)
           /\ accepted' = accepted \cup {id}
           /\ Goto(t, "running")
           /\ UNCHANGED claim
  /\ UNCHANGED <<issued, ownerOf, alive, call>>

\* _finish_accepted_record, whatever _execute_accepted returned or raised
Finish(t) ==
  /\ pc[t] = "running"
  /\ LET id == call[t].id
         stones == IF id \in active THEN AddStone(tombstones, id, TRUE)
                                    ELSE tombstones
     IN /\ executing' = executing \ {id}
        /\ active' = {other \in active \ {id} :
                        IsAlive(other) \/ other \in executing'}
        /\ tombstones' = Living(stones)
  /\ Goto(t, "release")
  /\ UNCHANGED <<issued, ownerOf, consumed, alive, claim, call, accepted>>

\* leaving the coordinator's context manager
Release(t) ==
  /\ pc[t] = "release"
  /\ Unclaim
  /\ Return(t, "executed")
  /\ UNCHANGED <<registry, alive, call, accepted>>

-----------------------------------------------------------------------------
\* The last reference to a facade goes; a call in progress holds one.  (Some
\* facade is always left: a process without one makes no call any more.)
OwnerDies(o) ==
  /\ o \in alive /\ alive # {o}
  /\ \A t \in Threads : pc[t] # "idle" => call[t].owner # o
  /\ alive' = alive \ {o}
  /\ UNCHANGED <<registry, claim, pc, call, outcome, accepted>>

Work(t) ==
  \/ Observe(t) \/ ClaimTarget(t) \/ LoadTarget(t) \/ Register(t)
  \/ Claim(t) \/ Contend(t) \/ Accept(t) \/ Finish(t) \/ Release(t)

Next ==
  \/ \E t \in Threads :
       \/ \E c \in PrepareCalls : StartPrepare(t, c)
       \/ \E c \in ExecuteCalls : StartExecute(t, c)
       \/ Work(t)
  \/ \E o \in Owners : OwnerDies(o)

Spec == Init /\ [][Next]_vars

-----------------------------------------------------------------------------
(* Properties *)

\* The registry implements single-use tickets, one of them in use at a time,
\* across threads, owners, evictions, forgotten tombstones and dead owners.
Ticket ==
  [id \in Ids |->
     IF id > issued THEN "unissued"
     ELSE IF id \in executing THEN "executing"
     ELSE IF id \in accepted THEN "spent"
     ELSE IF id \in active THEN "issued" ELSE "retired"]
Tickets == INSTANCE PreparationTickets WITH ticket <- Ticket
SingleUse == Tickets!Spec

\* Whatever touches the mouse (observing a context, loading a target, running
\* a transaction) does so alone in the process.
HardwareExclusive ==
  \A t, u \in Threads :
    (pc[t] \in {"observe", "load", "running"} /\
     pc[u] \in {"observe", "load", "running"}) => t = u

\* An execution is of a preparation its caller owns, and its record stays in
\* the registry, marked, until it ends, whatever makes room meanwhile.
ExecutionKeepsRecord ==
  \A t \in Threads : pc[t] = "running" =>
    /\ call[t].id \in active \cap executing \cap consumed
    /\ ownerOf[call[t].id] = call[t].owner /\ call[t].faithful

\* The registry keeps at most so many private payloads and tombstones, and
\* never turns a preparation away for it: one execution at most holds a record,
\* so a registry of two or more always has one to retire (persistent.py:125-137).
RegistryBounded ==
  /\ Cardinality(active) <= MaxActive /\ Len(tombstones) <= MaxTombstones
  /\ MaxActive >= 2 => \A t \in Threads : outcome[t] # "full"

\* A caller told "consumed" has a preparation whose execution was accepted, and
\* a tombstone says "consumed" of exactly those.
ConsumedIsTrue ==
  /\ \A t \in Threads : outcome[t] = "consumed" => call[t].id \in accepted
  /\ \A i \in 1..Len(tombstones) :
       tombstones[i].consumed <=> tombstones[i].id \in accepted

\* Each visit that changes the registry leaves no payload and no tombstone of a
\* facade that is gone, except under execution.
DeadOwnersForgotten ==
  [][(active' # active \/ tombstones' # tombstones) =>
       /\ \A id \in active' : ownerOf'[id] \in alive' \/ id \in executing'
       /\ \A i \in 1..Len(tombstones') :
            ownerOf'[tombstones'[i].id] \in alive']_vars

\* A call under way can always go on by itself: it waits neither for the claim
\* nor for the registry of another one, and as it goes through each of its
\* positions once, it returns (coordinator.py:24-31, persistent.py:822-846).
NobodyWaits == \A t \in Threads : pc[t] # "idle" => ENABLED Work(t)
=============================================================================
