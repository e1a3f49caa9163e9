--------------------------- MODULE DeliveryOutbox ---------------------------
(***************************************************************************)
(* The outbox of platform broadcasts (platform-broadcasts.service.ts).     *)
(* Queueing a broadcast writes one delivery per registered device.  Every  *)
(* server process runs a worker that claims deliveries by leases, pushes   *)
(* them and records the outcome under the lease's token.  Workers die and  *)
(* the database fails between any two steps; a lease may run out while its *)
(* holder is still sending.                                                *)
(*                                                                         *)
(* Time is abstract: a lease and a waiting time run out at some point.  A  *)
(* worker compares them with the time at which its round began, so each    *)
(* round remembers which deliveries were ripe then; a timer set later is   *)
(* in that round's future.  The clocks of the processes agree.             *)
(***************************************************************************)
EXTENDS Naturals, FiniteSets

CONSTANTS
  Broadcasts,   \* numbered in the order in which they are queued
  Devices, Workers,
  Mortal,       \* the workers whose rounds may be cut short
  MaxAttempts,  \* attempts before a delivery is given up
  PageSize,     \* deliveries read in one round
  MaxRetries,   \* bound: how often operators retry broadcasts by hand
  NoLease

ASSUME OutboxAssumption ==
  /\ Broadcasts \subseteq Nat
  /\ Mortal \subseteq Workers /\ NoLease \notin Workers
  /\ MaxAttempts \in Nat \ {0} /\ PageSize \in Nat \ {0} /\ MaxRetries \in Nat

Deliveries == Broadcasts \X Devices

VARIABLES
  row,         \* the deliveries on file
  registered,  \* the devices of accounts that may be reached
  work,        \* each worker's round
  retries,     \* retries made by hand so far
  accepted,    \* how often the provider took a delivery (2 stands for more),
  excused      \* unless its outcome was lost once, or its lease ran out
vars == <<row, registered, work, retries, accepted, excused>>

\* token is the lease's holder; over and wait compare leaseUntil and
\* nextAttemptAt with the present.
Row == [status : {"none", "pending", "sent", "failed", "skipped"}, attempts : 0..MaxAttempts,
        token : Workers \cup {NoLease}, over : BOOLEAN, wait : BOOLEAN]
New(status) == [status |-> status, attempts |-> 0, token |-> NoLease, over |-> FALSE, wait |-> FALSE]
NoRow == New("none")
Fresh == New("pending")

\* A round: what was ripe when it began, the attempts of the page still to be
\* treated as they were read, the delivery in hand and its outcome.
Idle  == [pc |-> "idle", ripe |-> {}]
Page  == UNION {[P -> 0..MaxAttempts] : P \in SUBSET Deliveries}
Round ==
  {Idle}
  \cup [pc : {"reading"}, ripe : SUBSET Deliveries]
  \cup [pc : {"looping"}, ripe : SUBSET Deliveries, read : Page]
  \cup [pc : {"claimed"}, ripe : SUBSET Deliveries, read : Page, doing : Deliveries]
  \cup [pc : {"answered"}, ripe : SUBSET Deliveries, read : Page, doing : Deliveries,
        outcome : {"sent", "skipped", "again"}]

At(w, d)  == work[w].pc \in {"claimed", "answered"} /\ work[w].doing = d
Leased(d) == row[d].token # NoLease /\ ~row[d].over

\* The pushes of D are no longer counted.
Excuse(D) ==
  /\ excused' = excused \cup D
  /\ accepted' = [d \in Deliveries |-> IF d \in D THEN 0 ELSE accepted[d]]

\* Timers of D that are set now lie in the future of every round in progress.
Later(rounds, D) == [w \in Workers |-> [rounds[w] EXCEPT !.ripe = @ \ D]]

-----------------------------------------------------------------------------
Init ==
  /\ row = [d \in Deliveries |-> NoRow]
  /\ registered = Devices
  /\ work = [w \in Workers |-> Idle]
  /\ retries = 0
  /\ accepted = [d \in Deliveries |-> 0]
  /\ excused = {}

\* POST /notifications: the devices are those that were reviewed, or the
\* transaction fails; a request that is repeated finds its broadcast.
Queue(b) ==
  /\ \A x \in Devices : row[<<b, x>>] = NoRow
  /\ \A c \in Broadcasts : c < b => \E x \in Devices : row[<<c, x>>] # NoRow
  /\ registered # {}
  /\ row' = [d \in Deliveries |-> IF d[1] = b /\ d[2] \in registered THEN Fresh ELSE row[d]]
  /\ UNCHANGED <<registered, work, retries, accepted, excused>>

\* Fault: whatever was not sent is queued again.
RequeueUnsent(b) == {d \in Deliveries : d[1] = b /\ row[d].status \in {"failed", "pending"}}

Requeued(b) == {d \in Deliveries : d[1] = b /\ row[d].status = "failed"}

\* POST /notifications/:id/retry
Retry(b) ==
  /\ Requeued(b) # {} /\ retries < MaxRetries
  /\ row' = [d \in Deliveries |-> IF d \in Requeued(b) THEN Fresh ELSE row[d]]
  /\ work' = Later(work, Requeued(b))
  /\ retries' = retries + 1
  /\ UNCHANGED <<registered, accepted, excused>>

\* Accounts gain and lose devices (POST and DELETE of the device token), are
\* deactivated and deleted.
ChangeDevice(x) ==
  /\ registered' = IF x \in registered THEN registered \ {x} ELSE registered \cup {x}
  /\ UNCHANGED <<row, work, retries, accepted, excused>>

-----------------------------------------------------------------------------
(* A round of the worker: deliver(). *)

\* Fault: an attempt that was never recorded is left to its worker.
NoneExhausted == {}

Exhausted == {d \in Deliveries : /\ row[d].status = "pending"
                                 /\ row[d].attempts >= MaxAttempts
                                 /\ ~Leased(d)}

\* The last attempt's lease ran out: the delivery is given up.
Start(w) ==
  /\ work[w] = Idle
  /\ work' = [work EXCEPT ![w] =
                [pc |-> "reading", ripe |-> {d \in Deliveries : ~row[d].wait /\ ~Leased(d)}]]
  /\ row' = [d \in Deliveries |->
               IF d \in Exhausted
               THEN [row[d] EXCEPT !.status = "failed", !.token = NoLease, !.over = FALSE]
               ELSE row[d]]
  /\ UNCHANGED <<registered, retries, accepted, excused>>

Available(w) == {d \in work[w].ripe : row[d].status = "pending" /\ row[d].attempts < MaxAttempts}

\* The round goes on with what is left of its page, or ends.
Without(f, d) == [e \in DOMAIN f \ {d} |-> f[e]]
GoOn(ripe, read) ==
  IF DOMAIN read = {} THEN Idle ELSE [pc |-> "looping", ripe |-> ripe, read |-> read]

\* The oldest deliveries first, those of one broadcast in any order.
ReadPage(w) ==
  /\ work[w].pc = "reading"
  /\ \E P \in SUBSET Available(w) :
       /\ \A d \in P, e \in Available(w) \ P : d[1] <= e[1]
       /\ Cardinality(P) <= PageSize /\ (P = Available(w) \/ Cardinality(P) = PageSize)
       /\ work' = [work EXCEPT ![w] = GoOn(P, [d \in P |-> row[d].attempts])]
  /\ UNCHANGED <<row, registered, retries, accepted, excused>>

Claimable(w, d) == d \in Available(w)

\* The row is claimed if it still is as the page was read, or passed over.
Claim(w) ==
  /\ work[w].pc = "looping"
  /\ \E d \in DOMAIN work[w].read :
       /\ \A e \in DOMAIN work[w].read : d[1] <= e[1]
       /\ \/ /\ Claimable(w, d)
             /\ row' = [row EXCEPT ![d].token = w, ![d].over = FALSE, ![d].attempts = @ + 1]
             /\ work' = [Later(work, {d}) EXCEPT ![w] =
                           [pc |-> "claimed", ripe |-> work[w].ripe \ {d},
                            read |-> work[w].read, doing |-> d]]
          \/ /\ ~Claimable(w, d)
             /\ work' = [work EXCEPT ![w] = GoOn(work[w].ripe, Without(work[w].read, d))]
             /\ UNCHANGED row
  /\ UNCHANGED <<registered, retries, accepted, excused>>

\* The recipients are read again and the message is pushed.  A call that fails,
\* the record of a message that was taken included, counts as a failed attempt.
Answered(w, outcome) ==
  work' = [work EXCEPT ![w] = [pc |-> "answered", ripe |-> work[w].ripe, read |-> work[w].read,
                               doing |-> work[w].doing, outcome |-> outcome]]
Accept(d) ==
  /\ accepted' = [accepted EXCEPT ![d] = IF d \in excused THEN 0 ELSE IF @ = 0 THEN 1 ELSE 2]
  /\ UNCHANGED excused

Push(w) ==
  /\ work[w].pc = "claimed"
  /\ LET d == work[w].doing
     IN  \/ Answered(w, "again") /\ UNCHANGED <<registered, accepted, excused>>
         \/ /\ d[2] \notin registered
            /\ Answered(w, "skipped") /\ UNCHANGED <<registered, accepted, excused>>
         \/ /\ d[2] \in registered /\ UNCHANGED registered
            /\ \/ Accept(d) /\ Answered(w, "sent")
               \/ Excuse({d}) /\ Answered(w, "again")
         \/ /\ d[2] \in registered /\ registered' = registered \ {d[2]}
            /\ Answered(w, "skipped") \/ Answered(w, "again")
            /\ UNCHANGED <<accepted, excused>>
  /\ UNCHANGED <<row, retries>>

\* finish: the outcome is recorded under the token of this claim.
Holds(w, d) == row[d].token = w

\* Whether this was the last attempt is told from the attempts that were read.
Outcome(w, d) ==
  IF work[w].outcome # "again" THEN work[w].outcome
  ELSE IF work[w].read[d] + 1 >= MaxAttempts THEN "failed" ELSE "pending"

Finish(w) ==
  /\ work[w].pc = "answered"
  /\ LET d    == work[w].doing
         next == GoOn(work[w].ripe, Without(work[w].read, d))
     IN  IF Holds(w, d)
         THEN /\ row' = [row EXCEPT ![d] =
                           [status |-> Outcome(w, d), attempts |-> @.attempts, token |-> NoLease,
                            over |-> FALSE, wait |-> @.wait \/ work[w].outcome = "again"]]
              /\ work' = [Later(work, IF work[w].outcome = "again" THEN {d} ELSE {})
                            EXCEPT ![w] = next]
         ELSE /\ work' = [work EXCEPT ![w] = next]
              /\ UNCHANGED row
  /\ UNCHANGED <<registered, retries, accepted, excused>>

\* The process dies, or the database fails a statement of the round; the lease
\* of the delivery in hand stays, and what the provider took is not recorded.
Abort(w) ==
  /\ w \in Mortal /\ work[w].pc # "idle"
  /\ work' = [work EXCEPT ![w] = Idle]
  /\ Excuse(IF work[w].pc = "answered" THEN {work[w].doing} ELSE {})
  /\ UNCHANGED <<row, registered, retries>>

-----------------------------------------------------------------------------
(* Time passes. *)

LeaseElapses(d) ==
  /\ Leased(d)
  /\ row' = [row EXCEPT ![d].over = TRUE]
  /\ Excuse(IF \E w \in Workers : At(w, d) THEN {d} ELSE {})
  /\ UNCHANGED <<registered, work, retries>>

WaitElapses(d) ==
  /\ row[d].wait
  /\ row' = [row EXCEPT ![d].wait = FALSE]
  /\ UNCHANGED <<registered, work, retries, accepted, excused>>

-----------------------------------------------------------------------------
Deliver(w) == Start(w) \/ ReadPage(w) \/ Claim(w) \/ Push(w) \/ Finish(w)
Elapse(d)  == LeaseElapses(d) \/ WaitElapses(d)

Next ==
  \/ \E b \in Broadcasts : Queue(b) \/ Retry(b)
  \/ \E x \in Devices : ChangeDevice(x)
  \/ \E w \in Workers : Deliver(w) \/ Abort(w)
  \/ \E d \in Deliveries : Elapse(d)

\* The timer starts a round every 15 seconds, a round's calls return, and time
\* passes.  Operators and owners of devices need not do anything.
Fairness ==
  /\ \A w \in Workers : WF_vars(Deliver(w))
  /\ \A d \in Deliveries : WF_vars(LeaseElapses(d)) /\ WF_vars(WaitElapses(d))

Spec == Init /\ [][Next]_vars /\ Fairness

-----------------------------------------------------------------------------
\* Deliveries and rounds keep to their types; in particular no delivery is
\* attempted more often than the limit.
TypeOK ==
  /\ row \in [Deliveries -> Row]
  /\ registered \subseteq Devices
  /\ work \in [Workers -> Round]
  /\ retries \in 0..MaxRetries
  /\ accepted \in [Deliveries -> 0..2]
  /\ excused \subseteq Deliveries

\* The holder of a lease decides from the attempts its page was read with
\* whether it made the last attempt: they are still those of the row.
AttemptsAsRead ==
  \A w \in Workers, d \in Deliveries :
    At(w, d) /\ row[d].token = w => row[d].attempts = work[w].read[d] + 1

\* A delivery whose attempts are used up and that nobody holds is finished,
\* so that no pending delivery is out of the reach of every round.
Reachable ==
  \A d \in Deliveries :
    row[d].status = "pending" /\ row[d].token = NoLease => row[d].attempts < MaxAttempts

\* A message is pushed once and recorded as sent once, whichever workers raced
\* for it: more pushes, or a push that no record tells of, happen only where
\* an outcome was lost or a lease ran out under its holder.
PushedOnce ==
  \A d \in Deliveries \ excused :
    /\ accepted[d] <= 1
    /\ (accepted[d] = 1) <=> \/ row[d].status = "sent"
                             \/ \E w \in Workers : /\ work[w].pc = "answered"
                                                   /\ work[w].doing = d
                                                   /\ work[w].outcome = "sent"

\* A delivery that was sent or skipped stays so: no late worker and no retry
\* touches it.
FinalStays ==
  [][\A d \in Deliveries : row[d].status \in {"sent", "skipped"} => row'[d].status = row[d].status]_vars

\* Every delivery that was queued ends: it is sent, skipped or given up,
\* although workers die with leases in their hands.
EveryDeliveryEnds ==
  \A d \in Deliveries : row[d].status = "pending" ~> row[d].status \in {"sent", "skipped", "failed"}
=============================================================================
