----------------------------- MODULE MCWorkers -----------------------------
(***************************************************************************)
(* Small instances of the two workers that must come to an end: the outbox *)
(* of platform broadcasts and the deletion of a project's or an            *)
(* organization's data.  They share no state, so every behaviour of one is *)
(* checked with the other at rest: each run of the system works on one     *)
(* focus, and the fairness of the other is not needed.                     *)
(***************************************************************************)
EXTENDS DeliveryOutbox, DeletionJobs

VARIABLE focus  \* "outbox", or the scope that is deleted

WorkersInit == focus \in {"outbox"} \cup Scopes /\ Init /\ DeletionInit

OutboxMoves == focus = "outbox" /\ Next /\ UNCHANGED <<focus, deletionVars>>
\* Nothing is stored in or deleted from the other scopes.
DeletionMoves ==
  /\ focus # "outbox" /\ DeletionNext
  /\ \A s \in Scopes \ {focus} : scope'[s] = "open" /\ WritersOf(s)' = {} /\ s \notin renewed'
  /\ UNCHANGED <<focus, vars>>
WorkersNext == OutboxMoves \/ DeletionMoves

\* Fairness and DeletionFairness, each for the focus it is about.
OutboxFairly(A)   == focus = "outbox" /\ A
DeletionFairly(A) == focus # "outbox" /\ A
WorkersFairness ==
  /\ \A w \in Workers : WF_vars(OutboxFairly(Deliver(w)))
  /\ \A d \in Deliveries : WF_vars(OutboxFairly(LeaseElapses(d))) /\ WF_vars(OutboxFairly(WaitElapses(d)))
  /\ \A w \in DeletionWorkers :
       /\ WF_deletionVars(DeletionFairly(RoundStep(w)))
       /\ WF_deletionVars(DeletionFairly(worker[w] # Resting /\ ~Owns(w) /\ FailRound(w)))
  /\ \A s \in Scopes : WF_deletionVars(DeletionFairly(LeaseRunsOut(s)))
  /\ \A w \in Writers : WF_deletionVars(DeletionFairly(FinishStoring(w)))
WorkersSpec == WorkersInit /\ [][WorkersNext]_<<focus, vars, deletionVars>> /\ WorkersFairness
=============================================================================
