------------------------- MODULE PreparationTickets -------------------------
(***************************************************************************)
(* What the preparation registry of application/persistent.py promises: a  *)
(* prepared operation is a ticket that can be used once, one execution     *)
(* runs at a time, and a ticket that was dropped unused is never used.     *)
(***************************************************************************)
CONSTANT Ids
VARIABLE ticket

Issued == {id \in Ids : ticket[id] = "issued"}

Init == ticket = [id \in Ids |-> "unissued"]

\* Every visit to the registry may also drop unused tickets: their owner is
\* gone, or they make room for a new one.
Visit(changed, state) ==
  \E dropped \in SUBSET Issued :
    ticket' = [id \in Ids |->
                 IF id \in changed THEN state
                 ELSE IF id \in dropped THEN "retired" ELSE ticket[id]]

Drop == Visit({}, "retired")

Issue(id) == ticket[id] = "unissued" /\ Visit({id}, "issued")

Accept(id) ==
  /\ ticket[id] = "issued"
  /\ \A other \in Ids : ticket[other] # "executing"
  /\ Visit({id}, "executing")

Finish(id) == ticket[id] = "executing" /\ Visit({id}, "spent")

Next == Drop \/ \E id \in Ids : Issue(id) \/ Accept(id) \/ Finish(id)

Spec == Init /\ [][Next]_ticket
=============================================================================
