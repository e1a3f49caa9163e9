---------------------------- MODULE WorkersProofs ---------------------------
(***************************************************************************)
(* What the workers promise, in every interleaving of any number of them.  *)
(* The outbox: an unexcused claim still holds its lease, so nobody else    *)
(* can claim, give up or finish its delivery; and a delivery that is ripe  *)
(* for a round has the attempts the round has read.  The deletion jobs     *)
(* have their argument below.                                              *)
(***************************************************************************)
EXTENDS MCWorkers, FiniteSetTheorems, TLAPS

USE OutboxAssumption

Busy == {"looping", "claimed", "answered"}

LeasedIsPending == \A d \in Deliveries : row[d].token # NoLease => row[d].status = "pending"

ReadIsFresh ==
  \A w \in Workers : work[w].pc \in Busy =>
    \A d \in DOMAIN work[w].read :
      d \in work[w].ripe => row[d].attempts = work[w].read[d]

DoingIsRead ==
  \A w \in Workers, d \in Deliveries :
    At(w, d) => d \in DOMAIN work[w].read

ClaimHolds ==
  \A w \in Workers, d \in Deliveries \ excused :
    At(w, d) => row[d].token = w /\ ~row[d].over

RipeIsFree == \A w \in Workers : \A d \in work[w].ripe : ~Leased(d)

OutboxInv ==
  /\ TypeOK
  /\ RipeIsFree /\ LeasedIsPending /\ ReadIsFresh /\ DoingIsRead /\ ClaimHolds
  /\ AttemptsAsRead /\ Reachable /\ PushedOnce

-----------------------------------------------------------------------------
(* Rounds and pages. *)

\* What a round has in each stage.
LEMMA RoundParts ==
  ASSUME NEW q \in Round
  PROVE  /\ q.pc \in {"idle", "reading"} \cup Busy
         /\ q.ripe \in SUBSET Deliveries
         /\ q.pc = "idle" => q = Idle
         /\ q.pc \in Busy => q.read \in Page
         /\ q.pc \in {"claimed", "answered"} => q.doing \in Deliveries
         /\ q.pc = "answered" => q.outcome \in {"sent", "skipped", "again"}
  BY DEF Round, Idle, Busy

\* Setting timers later takes deliveries from what is ripe, and nothing else.
LEMMA LaterKeeps ==
  ASSUME NEW rounds \in [Workers -> Round], NEW D \in SUBSET Deliveries
  PROVE  /\ Later(rounds, D) \in [Workers -> Round]
         /\ \A w \in Workers :
              /\ Later(rounds, D)[w].pc = rounds[w].pc
              /\ Later(rounds, D)[w].ripe = rounds[w].ripe \ D
              /\ rounds[w].pc \in Busy => Later(rounds, D)[w].read = rounds[w].read
              /\ rounds[w].pc \in {"claimed", "answered"} =>
                   Later(rounds, D)[w].doing = rounds[w].doing
              /\ rounds[w].pc = "answered" => Later(rounds, D)[w].outcome = rounds[w].outcome
<1> SUFFICES ASSUME NEW w \in Workers
             PROVE  LET q == rounds[w]
                        n == [q EXCEPT !.ripe = @ \ D]
                    IN  /\ n \in Round /\ n.pc = q.pc /\ n.ripe = q.ripe \ D
                        /\ q.pc \in Busy => n.read = q.read
                        /\ q.pc \in {"claimed", "answered"} => n.doing = q.doing
                        /\ q.pc = "answered" => n.outcome = q.outcome
  BY DEF Later
<1> DEFINE q == rounds[w]
<1>1. q \in Round
  OBVIOUS
<1>2. CASE q = Idle
  <2>1. {} \ D = {}
    OBVIOUS
  <2>2. [Idle EXCEPT !.ripe = @ \ D] = Idle
    BY <2>1 DEF Idle
  <2> QED
    BY <1>2, <2>1, <2>2 DEF Round, Idle, Busy
<1>3. CASE q \in [pc : {"reading"}, ripe : SUBSET Deliveries]
  BY <1>3 DEF Round, Busy
<1>4. CASE q \in [pc : {"looping"}, ripe : SUBSET Deliveries, read : Page]
  BY <1>4 DEF Round, Busy
<1>5. CASE q \in [pc : {"claimed"}, ripe : SUBSET Deliveries, read : Page, doing : Deliveries]
  BY <1>5 DEF Round, Busy
<1>6. CASE q \in [pc : {"answered"}, ripe : SUBSET Deliveries, read : Page, doing : Deliveries,
                  outcome : {"sent", "skipped", "again"}]
  BY <1>6 DEF Round, Busy
<1> QED
  BY <1>1, <1>2, <1>3, <1>4, <1>5, <1>6 DEF Round

\* A page is a function from deliveries to attempts; so is what is left of it.
LEMMA PageParts ==
  ASSUME NEW f \in Page
  PROVE  /\ DOMAIN f \in SUBSET Deliveries
         /\ \A e \in DOMAIN f : f[e] \in 0..MaxAttempts
         /\ \A d \in Deliveries : /\ Without(f, d) \in Page
                                  /\ DOMAIN Without(f, d) = DOMAIN f \ {d}
                                  /\ \A e \in DOMAIN f \ {d} : Without(f, d)[e] = f[e]
<1>1. PICK P \in SUBSET Deliveries : f \in [P -> 0..MaxAttempts]
  BY DEF Page
<1>2. ASSUME NEW d \in Deliveries
      PROVE  /\ Without(f, d) \in Page
             /\ DOMAIN Without(f, d) = DOMAIN f \ {d}
             /\ \A e \in DOMAIN f \ {d} : Without(f, d)[e] = f[e]
  <2>1. Without(f, d) \in [P \ {d} -> 0..MaxAttempts]
    BY <1>1 DEF Without
  <2>2. P \ {d} \in SUBSET Deliveries
    BY <1>1
  <2> QED
    BY <1>1, <2>1, <2>2 DEF Page, Without
<1> QED
  BY <1>1, <1>2

\* A round that goes on is idle or has the page it goes on with.
LEMMA GoOnParts ==
  ASSUME NEW ripe \in SUBSET Deliveries, NEW f \in Page
  PROVE  /\ GoOn(ripe, f) \in Round
         /\ GoOn(ripe, f).pc \in {"idle", "looping"}
         /\ GoOn(ripe, f).pc = "looping" => /\ GoOn(ripe, f).read = f
                                            /\ GoOn(ripe, f).ripe = ripe
  BY DEF GoOn, Round, Idle

-----------------------------------------------------------------------------
(* Rows and initial states. *)

LEMMA NewRows ==
  /\ NoRow \in Row /\ NoRow.status = "none" /\ NoRow.token = NoLease /\ NoRow.attempts = 0
  /\ Fresh \in Row /\ Fresh.status = "pending" /\ Fresh.token = NoLease /\ Fresh.attempts = 0
<1>1. 0 \in 0..MaxAttempts
  BY DEF OutboxAssumption
<1> QED
  BY <1>1 DEF NoRow, Fresh, New, Row

LEMMA OutboxStarts ==
  Init => OutboxInv
<1> SUFFICES ASSUME Init PROVE OutboxInv
  OBVIOUS
<1>1. NoRow \in Row /\ NoRow.token = NoLease /\ NoRow.status = "none"
  BY NewRows
<1>2. \A d \in Deliveries : row[d] = NoRow /\ accepted[d] = 0
  BY DEF Init
<1>3. \A w \in Workers : work[w] = Idle /\ work[w].pc = "idle"
  BY DEF Init, Idle
<1>4. TypeOK
  BY <1>1 DEF Init, TypeOK, Round
<1>5. LeasedIsPending /\ Reachable
  BY <1>1, <1>2 DEF LeasedIsPending, Reachable
<1>6. ReadIsFresh /\ DoingIsRead /\ ClaimHolds /\ AttemptsAsRead /\ RipeIsFree
  BY <1>3 DEF RipeIsFree, Idle, ReadIsFresh, DoingIsRead, ClaimHolds, AttemptsAsRead, At, Busy
<1>7. PushedOnce
  BY <1>1, <1>2, <1>3 DEF PushedOnce
<1> QED
  BY <1>4, <1>5, <1>6, <1>7 DEF OutboxInv

-----------------------------------------------------------------------------
(* Operators. *)

LEMMA QueueSafe ==
  ASSUME OutboxInv, NEW b \in Broadcasts, Queue(b)
  PROVE  OutboxInv'
<1> USE DEF OutboxInv
<1>1. Fresh \in Row /\ Fresh.status = "pending" /\ Fresh.token = NoLease /\ Fresh.attempts = 0
      /\ NoRow.status = "none" /\ NoRow.token = NoLease /\ NoRow.attempts = 0
  BY NewRows
<1>2. \A d \in Deliveries : \/ row'[d] = row[d]
                            \/ row'[d] = Fresh /\ row[d] = NoRow
  BY DEF Queue, Deliveries
<1>3. UNCHANGED <<registered, work, retries, accepted, excused>>
  BY DEF Queue
<1>4. TypeOK'
  BY <1>1, <1>2, <1>3 DEF TypeOK, Queue
<1>5. \A w \in Workers : work[w].pc \in Busy => DOMAIN work[w].read \subseteq Deliveries
  BY RoundParts, PageParts DEF TypeOK
<1>6. LeasedIsPending' /\ Reachable' /\ RipeIsFree'
  BY <1>1, <1>2, <1>3, RoundParts DEF LeasedIsPending, Reachable, RipeIsFree, Leased, TypeOK
<1>7. ReadIsFresh' /\ DoingIsRead'
  BY <1>1, <1>2, <1>3, <1>5 DEF ReadIsFresh, DoingIsRead, At
<1>8. AttemptsAsRead' /\ ClaimHolds'
  BY <1>1, <1>2, <1>3 DEF AttemptsAsRead, ClaimHolds, At
<1>9. PushedOnce'
  BY <1>1, <1>2, <1>3 DEF PushedOnce
<1> QED
  BY <1>4, <1>6, <1>7, <1>8, <1>9

LEMMA RetrySafe ==
  ASSUME OutboxInv, NEW b \in Broadcasts, Retry(b)
  PROVE  OutboxInv'
<1> USE DEF OutboxInv
<1>1. Fresh \in Row /\ Fresh.status = "pending" /\ Fresh.token = NoLease /\ Fresh.attempts = 0
  BY NewRows
<1> DEFINE D == Requeued(b)
<1>2. D \in SUBSET Deliveries /\ \A d \in D : row[d].status = "failed" /\ row[d].token = NoLease
  BY DEF Requeued, LeasedIsPending
<1>3. \A d \in Deliveries : row'[d] = IF d \in D THEN Fresh ELSE row[d]
  BY DEF Retry
<1>4. work' = Later(work, D) /\ UNCHANGED <<registered, accepted, excused>>
  BY DEF Retry
<1>5. work \in [Workers -> Round]
  BY DEF TypeOK
<1>6. \A w \in Workers : work[w].pc \in Busy => DOMAIN work[w].read \subseteq Deliveries
  BY <1>5, RoundParts, PageParts
<1>7. TypeOK'
  BY <1>1, <1>2, <1>4, <1>5, LaterKeeps DEF TypeOK, Retry
<1>8. LeasedIsPending' /\ Reachable' /\ RipeIsFree'
  BY <1>1, <1>3, <1>4, <1>5, RoundParts, LaterKeeps, <1>2
     DEF LeasedIsPending, Reachable, RipeIsFree, Leased
<1>9. ReadIsFresh' /\ DoingIsRead'
  BY <1>2, <1>3, <1>4, <1>5, <1>6, LaterKeeps DEF ReadIsFresh, DoingIsRead, At, Busy
<1>10. AttemptsAsRead' /\ ClaimHolds'
  BY <1>1, <1>2, <1>3, <1>4, <1>5, LaterKeeps DEF AttemptsAsRead, ClaimHolds, At, Busy
<1>11. PushedOnce'
  BY <1>1, <1>2, <1>3, <1>4, <1>5, LaterKeeps DEF PushedOnce, Busy
<1> QED
  BY <1>7, <1>8, <1>9, <1>10, <1>11

-----------------------------------------------------------------------------
(* Rounds. *)

LEMMA StartSafe ==
  ASSUME OutboxInv, NEW w \in Workers, Start(w)
  PROVE  OutboxInv'
<1> USE DEF OutboxInv
<1>1. \A d \in Deliveries : row[d] \in Row
  BY DEF TypeOK
<1>2. \A d \in Deliveries :
        /\ row'[d] \in Row /\ row'[d].attempts = row[d].attempts
        /\ IF d \in Exhausted THEN row'[d].status = "failed" /\ row'[d].token = NoLease
                              ELSE row'[d] = row[d]
  <2> SUFFICES ASSUME NEW d \in Deliveries
               PROVE  LET r == [row[d] EXCEPT !.status = "failed", !.token = NoLease, !.over = FALSE]
                      IN  /\ r \in Row /\ r.attempts = row[d].attempts
                          /\ r.status = "failed" /\ r.token = NoLease
    BY <1>1 DEF Start
  <2> QED
    BY <1>1 DEF Row
<1>3. \A d \in Exhausted : d \in Deliveries /\ row[d].status = "pending" /\ ~Leased(d)
  BY DEF Exhausted
<1>4. /\ \A v \in Workers \ {w} : work'[v] = work[v]
      /\ work'[w].pc = "reading" /\ work'[w] \in Round
      /\ \A d \in work'[w].ripe : ~Leased(d)
      /\ work[w].pc = "idle" /\ UNCHANGED <<registered, retries, accepted, excused>>
  <2> DEFINE R == {d \in Deliveries : ~row[d].wait /\ ~Leased(d)}
  <2>1. work \in [Workers -> Round] /\ R \in SUBSET Deliveries
    BY DEF TypeOK
  <2>2. work' = [work EXCEPT ![w] = [pc |-> "reading", ripe |-> R]] /\ work[w] = Idle
    BY DEF Start
  <2> HIDE DEF R
  <2>3. [pc |-> "reading", ripe |-> R] \in Round /\ \A d \in R : ~Leased(d)
    BY <2>1 DEF Round, R
  <2>4. UNCHANGED <<registered, retries, accepted, excused>>
    BY DEF Start
  <2>5. work[w].pc = "idle"
    BY <2>2 DEF Idle
  <2>6. work'[w] = [pc |-> "reading", ripe |-> R] /\ \A v \in Workers \ {w} : work'[v] = work[v]
    BY <2>1, <2>2
  <2> QED
    BY <2>3, <2>4, <2>5, <2>6
<1>5. \A v \in Workers : work[v].pc \in Busy => DOMAIN work[v].read \subseteq Deliveries
  BY RoundParts, PageParts DEF TypeOK
<1>6. TypeOK'
  BY <1>1, <1>2, <1>3, <1>4 DEF TypeOK, Start
<1>7. LeasedIsPending' /\ Reachable'
  BY <1>1, <1>2, <1>3 DEF LeasedIsPending, Reachable
<1>12. RipeIsFree'
  BY <1>2, <1>3, <1>4, RoundParts DEF RipeIsFree, Leased, TypeOK
<1>8. ReadIsFresh' /\ DoingIsRead'
  BY <1>1, <1>2, <1>3, <1>4, <1>5 DEF ReadIsFresh, DoingIsRead, At, Busy
<1>9. ClaimHolds'
  BY <1>2, <1>3, <1>4 DEF ClaimHolds, At, Leased
<1>10. AttemptsAsRead'
  BY <1>1, <1>2, <1>3, <1>4 DEF AttemptsAsRead, At
<1>11. PushedOnce'
  BY <1>1, <1>2, <1>3, <1>4 DEF PushedOnce
<1> QED
  BY <1>6, <1>7, <1>8, <1>9, <1>10, <1>11, <1>12

LEMMA ReadPageSafe ==
  ASSUME OutboxInv, NEW w \in Workers, ReadPage(w)
  PROVE  OutboxInv'
<1> USE DEF OutboxInv
<1>1. PICK P \in SUBSET Available(w) :
        work' = [work EXCEPT ![w] = GoOn(P, [d \in P |-> row[d].attempts])]
  BY DEF ReadPage
<1> DEFINE f == [d \in P |-> row[d].attempts]
<1>2. P \in SUBSET Deliveries /\ work \in [Workers -> Round]
  BY RoundParts DEF Available, TypeOK
<1>3. f \in Page /\ DOMAIN f = P /\ \A d \in P : f[d] = row[d].attempts
  <2>1. f \in [P -> 0..MaxAttempts]
    BY <1>2 DEF TypeOK, Row
  <2> QED
    BY <1>2, <2>1 DEF Page
<1>4. work[w].pc = "reading" /\ UNCHANGED <<row, registered, retries, accepted, excused>>
  BY DEF ReadPage
<1>5. /\ \A v \in Workers \ {w} : work'[v] = work[v]
      /\ work'[w] \in Round /\ work'[w].pc \in {"idle", "looping"}
      /\ work'[w].pc = "looping" => work'[w].read = f
  <2> HIDE DEF f
  <2> QED
    BY <1>1, <1>2, <1>3, GoOnParts DEF f
<1>6. TypeOK'
  BY <1>1, <1>2, <1>4, <1>5 DEF TypeOK
<1>7. LeasedIsPending' /\ Reachable' /\ RipeIsFree'
  BY <1>1, <1>4, <1>5 DEF LeasedIsPending, Reachable, RipeIsFree, Leased, Available, GoOn, Idle
<1>8. ReadIsFresh'
  BY <1>3, <1>4, <1>5 DEF ReadIsFresh, Busy
<1>9. DoingIsRead' /\ ClaimHolds' /\ AttemptsAsRead'
  BY <1>4, <1>5 DEF DoingIsRead, ClaimHolds, AttemptsAsRead, At
<1>10. PushedOnce'
  BY <1>4, <1>5 DEF PushedOnce
<1> QED
  BY <1>6, <1>7, <1>8, <1>9, <1>10

LEMMA ClaimSafe ==
  ASSUME OutboxInv, NEW w \in Workers, Claim(w)
  PROVE  OutboxInv'
<1> USE DEF OutboxInv
<1>1. PICK d \in DOMAIN work[w].read :
        \/ /\ Claimable(w, d)
           /\ row' = [row EXCEPT ![d].token = w, ![d].over = FALSE, ![d].attempts = @ + 1]
           /\ work' = [Later(work, {d}) EXCEPT ![w] =
                         [pc |-> "claimed", ripe |-> work[w].ripe \ {d},
                          read |-> work[w].read, doing |-> d]]
        \/ /\ ~Claimable(w, d)
           /\ work' = [work EXCEPT ![w] = GoOn(work[w].ripe, Without(work[w].read, d))]
           /\ UNCHANGED row
  BY DEF Claim
<1>2. /\ work[w].pc = "looping" /\ work[w].pc \in Busy
      /\ UNCHANGED <<registered, retries, accepted, excused>>
  BY DEF Claim, Busy
<1>3. /\ work \in [Workers -> Round] /\ work[w].ripe \in SUBSET Deliveries
      /\ work[w].read \in Page /\ d \in Deliveries
  BY <1>2, RoundParts, PageParts DEF TypeOK
<1>4. \A v \in Workers : work[v].pc \in Busy => DOMAIN work[v].read \subseteq Deliveries
  BY <1>3, RoundParts, PageParts
<1>5. CASE Claimable(w, d)
  <2>1. /\ d \in work[w].ripe /\ row[d].status = "pending" /\ row[d].attempts < MaxAttempts
        /\ ~Leased(d) /\ row[d].attempts = work[w].read[d]
    BY <1>2, <1>5 DEF Claimable, Available, ReadIsFresh, RipeIsFree
  <2>2. \A e \in Deliveries : row[e] \in Row
    BY DEF TypeOK
  <2>3. /\ row'[d] \in Row /\ row'[d].token = w /\ ~row'[d].over /\ row'[d].status = "pending"
        /\ row'[d].attempts = work[w].read[d] + 1
        /\ \A e \in Deliveries \ {d} : row'[e] = row[e]
    <3>1. row'[d] = [row[d] EXCEPT !.token = w, !.over = FALSE, !.attempts = @ + 1]
          /\ \A e \in Deliveries \ {d} : row'[e] = row[e]
      BY <1>1, <1>3, <1>5 DEF TypeOK
    <3>2. row[d].attempts \in 0..MaxAttempts /\ row[d].attempts + 1 \in 0..MaxAttempts
      BY <1>3, <2>1, <2>2 DEF Row, OutboxAssumption
    <3> QED
      BY <1>3, <2>1, <2>2, <3>1, <3>2 DEF Row
  <2>4. w # NoLease
    BY DEF OutboxAssumption
  <2> DEFINE q == [pc |-> "claimed", ripe |-> work[w].ripe \ {d}, read |-> work[w].read, doing |-> d]
  <2>5. q \in Round
    BY <1>3 DEF Round
  <2>6. {d} \in SUBSET Deliveries
    BY <1>3
  <2>70. work' = [Later(work, {d}) EXCEPT ![w] = q]
    BY <1>1, <1>5
  <2> HIDE DEF q
  <2>71. Later(work, {d}) \in [Workers -> Round]
    BY <1>3, <2>6, LaterKeeps
  <2>7. /\ work' \in [Workers -> Round] /\ work'[w] = q
        /\ \A v \in Workers \ {w} : work'[v] = Later(work, {d})[v]
    BY <2>5, <2>70, <2>71
  <2>8. /\ work'[w].pc = "claimed" /\ work'[w].ripe = work[w].ripe \ {d}
        /\ work'[w].read = work[w].read /\ work'[w].doing = d
    BY <2>7 DEF q
  <2>9. d \notin excused => \A v \in Workers : ~At(v, d)
    BY <1>3, <2>1, <2>4 DEF ClaimHolds, Leased, OutboxAssumption
  <2>10. TypeOK'
    BY <1>1, <1>2, <1>5, <2>2, <2>3, <2>7 DEF TypeOK
  <2>11. LeasedIsPending' /\ Reachable'
    BY <2>3, <2>4 DEF LeasedIsPending, Reachable
  <2>12. RipeIsFree'
    BY <1>3, <2>3, <2>6, <2>7, <2>8, RoundParts, LaterKeeps DEF RipeIsFree, Leased
  <2>13. ReadIsFresh'
    BY <1>2, <1>3, <1>4, <2>3, <2>6, <2>7, <2>8, LaterKeeps DEF ReadIsFresh, Busy
  <2>14. DoingIsRead'
    BY <1>3, <2>6, <2>7, <2>8, LaterKeeps DEF DoingIsRead, At, Busy
  <2>15. AttemptsAsRead'
    BY <1>3, <2>3, <2>6, <2>7, <2>8, LaterKeeps DEF AttemptsAsRead, At, Busy
  <2>16. ClaimHolds'
    BY <1>2, <1>3, <2>3, <2>6, <2>7, <2>8, <2>9, LaterKeeps DEF ClaimHolds, At, Busy
  <2>17. PushedOnce'
    BY <1>2, <1>3, <2>1, <2>3, <2>6, <2>7, <2>8, LaterKeeps DEF PushedOnce, Busy
  <2> QED
    BY <2>10, <2>11, <2>12, <2>13, <2>14, <2>15, <2>16, <2>17
<1>6. CASE ~Claimable(w, d)
  <2> DEFINE f == Without(work[w].read, d)
  <2>1. /\ f \in Page /\ DOMAIN f \subseteq DOMAIN work[w].read
        /\ \A e \in DOMAIN f : f[e] = work[w].read[e]
    <3>1. \A g \in Page : /\ Without(g, d) \in Page /\ DOMAIN Without(g, d) = DOMAIN g \ {d}
                          /\ \A e \in DOMAIN g \ {d} : Without(g, d)[e] = g[e]
      BY <1>3, PageParts
    <3> QED
      BY <1>3, <3>1
  <2> HIDE DEF f
  <2>2. work' = [work EXCEPT ![w] = GoOn(work[w].ripe, f)] /\ UNCHANGED row
    BY <1>1, <1>6 DEF f
  <2>3. /\ work' \in [Workers -> Round] /\ work'[w].pc \in {"idle", "looping"}
        /\ work'[w].pc = "looping" => work'[w].read = f /\ work'[w].ripe = work[w].ripe
        /\ \A v \in Workers \ {w} : work'[v] = work[v]
    BY <1>3, <2>1, <2>2, GoOnParts
  <2>4. work'[w].pc = "idle" => work'[w].ripe = {}
    BY <2>3, RoundParts DEF Idle
  <2>5. TypeOK' /\ LeasedIsPending' /\ Reachable' /\ RipeIsFree'
    BY <1>2, <2>2, <2>3, <2>4 DEF TypeOK, LeasedIsPending, Reachable, RipeIsFree, Leased
  <2>6. ReadIsFresh'
    BY <1>2, <2>1, <2>2, <2>3 DEF ReadIsFresh, Busy
  <2>7. DoingIsRead' /\ AttemptsAsRead' /\ ClaimHolds'
    BY <1>2, <2>2, <2>3 DEF DoingIsRead, AttemptsAsRead, ClaimHolds, At
  <2>8. PushedOnce'
    BY <1>2, <2>2, <2>3 DEF PushedOnce
  <2> QED
    BY <2>5, <2>6, <2>7, <2>8
<1> QED
  BY <1>5, <1>6

LEMMA PushSafe ==
  ASSUME OutboxInv, NEW w \in Workers, Push(w)
  PROVE  OutboxInv'
<1> USE DEF OutboxInv
<1> DEFINE d == work[w].doing
<1>1. /\ work[w].pc = "claimed" /\ work[w].pc \in Busy /\ work \in [Workers -> Round]
      /\ UNCHANGED <<row, retries>>
  BY DEF Push, Busy, TypeOK
<1>2. d \in Deliveries /\ work[w].read \in Page /\ work[w].ripe \in SUBSET Deliveries
  BY <1>1, RoundParts
<1>3. PICK outcome \in {"sent", "skipped", "again"} :
        /\ Answered(w, outcome)
        /\ \/ outcome # "sent" /\ UNCHANGED <<accepted, excused>>
           \/ outcome = "sent" /\ Accept(d)
           \/ outcome # "sent" /\ Excuse({d})
  BY DEF Push
<1>4. registered' \subseteq Devices
  BY DEF Push, TypeOK
<1> HIDE DEF d
<1>5. /\ work' \in [Workers -> Round]
      /\ \A v \in Workers \ {w} : work'[v] = work[v]
      /\ work'[w].pc = "answered" /\ work'[w].ripe = work[w].ripe /\ work'[w].read = work[w].read
      /\ work'[w].doing = d /\ work'[w].outcome = outcome
  <2> DEFINE q == [pc |-> "answered", ripe |-> work[w].ripe, read |-> work[w].read,
                   doing |-> work[w].doing, outcome |-> outcome]
  <2>1. q \in Round
    BY <1>2 DEF Round, d
  <2>2. work' = [work EXCEPT ![w] = q]
    BY <1>3 DEF Answered
  <2>3. q.pc = "answered" /\ q.ripe = work[w].ripe /\ q.read = work[w].read
        /\ q.doing = d /\ q.outcome = outcome
    BY DEF d
  <2> HIDE DEF q
  <2> QED
    BY <1>1, <2>1, <2>2, <2>3
<1>6. /\ accepted' \in [Deliveries -> 0..2] /\ excused' \subseteq Deliveries /\ excused \subseteq excused'
      /\ \A e \in Deliveries \ {d} : accepted'[e] = accepted[e]
      /\ d \notin excused' =>
           accepted'[d] = IF outcome # "sent" THEN accepted[d] ELSE IF accepted[d] = 0 THEN 1 ELSE 2
  BY <1>2, <1>3 DEF TypeOK, Accept, Excuse
<1>7. TypeOK'
  BY <1>1, <1>4, <1>5, <1>6 DEF TypeOK
<1>8. LeasedIsPending' /\ Reachable' /\ RipeIsFree'
  BY <1>1, <1>5 DEF LeasedIsPending, Reachable, RipeIsFree, Leased
<1>9. work[w].doing = d
  BY DEF d
<1>10. ReadIsFresh' /\ DoingIsRead' /\ AttemptsAsRead' /\ ClaimHolds'
  BY <1>1, <1>5, <1>6, <1>9 DEF ReadIsFresh, DoingIsRead, AttemptsAsRead, ClaimHolds, At, Busy
<1>11. d \notin excused =>
         /\ row[d].status = "pending" /\ \A v \in Workers \ {w} : ~At(v, d)
  BY <1>1, <1>2, <1>9 DEF ClaimHolds, LeasedIsPending, At, OutboxAssumption
<1>12. PushedOnce'
  <2>1. ASSUME NEW e \in Deliveries \ excused', e # d
        PROVE  /\ accepted'[e] <= 1
               /\ (accepted'[e] = 1) <=> \/ row'[e].status = "sent"
                                         \/ \E v \in Workers : /\ work'[v].pc = "answered"
                                                               /\ work'[v].doing = e
                                                               /\ work'[v].outcome = "sent"
    BY <1>1, <1>5, <1>6, <2>1 DEF PushedOnce
  <2>2. ASSUME d \notin excused'
        PROVE  /\ accepted'[d] <= 1
               /\ (accepted'[d] = 1) <=> \/ row'[d].status = "sent"
                                         \/ \E v \in Workers : /\ work'[v].pc = "answered"
                                                               /\ work'[v].doing = d
                                                               /\ work'[v].outcome = "sent"
    <3>1. d \notin excused /\ accepted[d] \in 0..2
      BY <1>2, <1>6, <2>2 DEF TypeOK
    <3>2. \A v \in Workers : ~(work[v].pc = "answered" /\ work[v].doing = d)
      BY <1>1, <1>11, <3>1 DEF At
    <3>3. accepted[d] = 0
      BY <1>2, <1>11, <3>1, <3>2 DEF PushedOnce
    <3> QED
      BY <1>1, <1>5, <1>6, <1>11, <2>2, <3>1, <3>2, <3>3
  <2> QED
    BY <2>1, <2>2 DEF PushedOnce
<1> QED
  BY <1>7, <1>8, <1>10, <1>12

LEMMA FinishSafe ==
  ASSUME OutboxInv, NEW w \in Workers, Finish(w)
  PROVE  OutboxInv'
<1> USE DEF OutboxInv
<1> DEFINE d == work[w].doing
           f == Without(work[w].read, d)
           next == GoOn(work[w].ripe, f)
           D == IF work[w].outcome = "again" THEN {d} ELSE {}
<1>1. /\ work[w].pc = "answered" /\ work[w].pc \in Busy /\ work \in [Workers -> Round]
      /\ UNCHANGED <<registered, retries, accepted, excused>>
  BY DEF Finish, Busy, TypeOK
<1>2. /\ d \in Deliveries /\ work[w].read \in Page /\ work[w].ripe \in SUBSET Deliveries
      /\ work[w].outcome \in {"sent", "skipped", "again"} /\ D \in SUBSET Deliveries
  BY <1>1, RoundParts
<1>3. /\ f \in Page /\ DOMAIN f \subseteq DOMAIN work[w].read
      /\ \A e \in DOMAIN f : f[e] = work[w].read[e]
  <2>1. \A g \in Page : /\ Without(g, d) \in Page /\ DOMAIN Without(g, d) = DOMAIN g \ {d}
                        /\ \A e \in DOMAIN g \ {d} : Without(g, d)[e] = g[e]
    BY <1>2, PageParts
  <2> QED
    BY <1>2, <2>1
<1>4. /\ next \in Round /\ next.pc \in {"idle", "looping"} /\ next.ripe \subseteq work[w].ripe
      /\ next.pc = "looping" => next.read = f
  <2> HIDE DEF f
  <2> QED
    BY <1>2, <1>3, GoOnParts DEF GoOn, Idle
<1>5. IF Holds(w, d)
      THEN /\ row' = [row EXCEPT ![d] =
                        [status |-> Outcome(w, d), attempts |-> row[d].attempts, token |-> NoLease,
                         over |-> FALSE, wait |-> row[d].wait \/ work[w].outcome = "again"]]
           /\ work' = [Later(work, D) EXCEPT ![w] = next]
      ELSE /\ work' = [work EXCEPT ![w] = next] /\ UNCHANGED row
  BY DEF Finish
<1>6. work[w].doing = d /\ At(w, d)
  BY <1>1 DEF At
<1>7. d \in DOMAIN work[w].read /\ work[w].read[d] \in 0..MaxAttempts
  BY <1>2, <1>6, PageParts DEF DoingIsRead
<1>8. D = {} \/ D = {d}
  OBVIOUS
<1> HIDE DEF d, f, next, D
<1>9. /\ work' \in [Workers -> Round] /\ work'[w] = next
      /\ \A v \in Workers \ {w} :
           /\ work'[v].pc = work[v].pc /\ work'[v].ripe \subseteq work[v].ripe
           /\ work[v].pc \in Busy => work'[v].read = work[v].read
           /\ work[v].pc \in {"claimed", "answered"} => work'[v].doing = work[v].doing
           /\ work[v].pc = "answered" => work'[v].outcome = work[v].outcome
  <2>1. CASE Holds(w, d)
    <3>1. /\ Later(work, D) \in [Workers -> Round]
          /\ work' = [Later(work, D) EXCEPT ![w] = next]
      BY <1>1, <1>2, <1>5, <2>1, LaterKeeps
    <3>2. /\ work' \in [Workers -> Round] /\ work'[w] = next
          /\ \A v \in Workers \ {w} : work'[v] = Later(work, D)[v]
      BY <1>4, <3>1
    <3> QED
      BY <1>1, <1>2, <3>2, LaterKeeps
  <2>2. CASE ~Holds(w, d)
    BY <1>1, <1>4, <1>5, <2>2
  <2> QED
    BY <2>1, <2>2
<1>10. \A v \in Workers : work[v].pc \in Busy => DOMAIN work[v].read \subseteq Deliveries
  BY <1>1, RoundParts, PageParts
<1>11. \A e \in Deliveries : row[e] \in Row
  BY DEF TypeOK
<1>12. CASE Holds(w, d)
  <2>1. /\ row[d].token = w /\ row[d].status = "pending"
        /\ row[d].attempts = work[w].read[d] + 1
    BY <1>2, <1>6, <1>12 DEF Holds, LeasedIsPending, AttemptsAsRead, OutboxAssumption
  <2>2. /\ Outcome(w, d) \in {"pending", "sent", "skipped", "failed"}
        /\ Outcome(w, d) = "pending" => row[d].attempts < MaxAttempts
        /\ Outcome(w, d) = "sent" <=> work[w].outcome = "sent"
    BY <1>2, <1>7, <2>1 DEF Outcome, OutboxAssumption
  <2>3. /\ row'[d] \in Row /\ row'[d].token = NoLease /\ row'[d].attempts = row[d].attempts
        /\ row'[d].status = Outcome(w, d)
        /\ \A e \in Deliveries \ {d} : row'[e] = row[e]
    <3> DEFINE r == [status |-> Outcome(w, d), attempts |-> row[d].attempts, token |-> NoLease,
                     over |-> FALSE, wait |-> row[d].wait \/ work[w].outcome = "again"]
    <3>1. row[d].attempts \in 0..MaxAttempts
      BY <1>2, <1>11 DEF Row
    <3>2. (row[d].wait \/ work[w].outcome = "again") \in BOOLEAN
      OBVIOUS
    <3>3. r \in Row
      BY <2>2, <3>1, <3>2 DEF Row
    <3>4. /\ r.status = Outcome(w, d) /\ r.token = NoLease
          /\ r.attempts = row[d].attempts
      OBVIOUS
    <3>5. row' = [row EXCEPT ![d] = r] /\ row \in [Deliveries -> Row]
      BY <1>5, <1>12 DEF TypeOK
    <3> HIDE DEF r
    <3> QED
      BY <1>2, <3>3, <3>4, <3>5
  <2>4. d \notin excused => \A v \in Workers \ {w} : ~At(v, d)
    BY <1>2, <2>1 DEF ClaimHolds
  <2>5. TypeOK'
    BY <1>1, <1>5, <1>9, <1>11, <1>12, <2>3 DEF TypeOK
  <2>6. LeasedIsPending' /\ Reachable'
    BY <1>2, <2>2, <2>3 DEF LeasedIsPending, Reachable
  <2>7. RipeIsFree'
    BY <1>1, <1>4, <1>9, <2>3, RoundParts DEF RipeIsFree, Leased
  <2>8. ReadIsFresh'
    BY <1>1, <1>3, <1>4, <1>9, <1>10, <2>3 DEF ReadIsFresh, Busy
  <2>9. DoingIsRead'
    BY <1>4, <1>9 DEF DoingIsRead, At, Busy
  <2>10. AttemptsAsRead'
    BY <1>4, <1>9, <2>3 DEF AttemptsAsRead, At, Busy, OutboxAssumption
  <2>11. ClaimHolds'
    BY <1>1, <1>4, <1>9, <2>3, <2>4 DEF ClaimHolds, At
  <2>12. PushedOnce'
    <3>1. ASSUME NEW e \in Deliveries \ excused, e # d
          PROVE  /\ accepted[e] <= 1
                 /\ (accepted[e] = 1) <=> \/ row'[e].status = "sent"
                                          \/ \E v \in Workers : /\ work'[v].pc = "answered"
                                                                /\ work'[v].doing = e
                                                                /\ work'[v].outcome = "sent"
      BY <1>4, <1>6, <1>9, <2>3, <3>1 DEF PushedOnce
    <3>2. ASSUME d \notin excused
          PROVE  /\ accepted[d] <= 1
                 /\ (accepted[d] = 1) <=> \/ row'[d].status = "sent"
                                          \/ \E v \in Workers : /\ work'[v].pc = "answered"
                                                                /\ work'[v].doing = d
                                                                /\ work'[v].outcome = "sent"
      <4>1. \A v \in Workers \ {w} : ~(work[v].pc = "answered" /\ work[v].doing = d)
        BY <2>4, <3>2 DEF At
      <4>2. \A v \in Workers : ~(work'[v].pc = "answered" /\ work'[v].doing = d)
        BY <1>4, <1>9, <4>1
      <4>3. accepted[d] <= 1 /\ (accepted[d] = 1 <=> work[w].outcome = "sent")
        BY <1>1, <1>2, <1>6, <2>1, <3>2, <4>1 DEF PushedOnce
      <4> QED
        BY <2>2, <2>3, <4>2, <4>3
    <3> QED
      BY <1>1, <3>1, <3>2 DEF PushedOnce
  <2> QED
    BY <2>5, <2>6, <2>7, <2>8, <2>9, <2>10, <2>11, <2>12
<1>13. CASE ~Holds(w, d)
  <2>1. d \in excused /\ UNCHANGED row
    BY <1>2, <1>5, <1>6, <1>13 DEF Holds, ClaimHolds
  <2>2. TypeOK' /\ LeasedIsPending' /\ Reachable'
    BY <1>1, <1>9, <2>1 DEF TypeOK, LeasedIsPending, Reachable
  <2>3. RipeIsFree'
    BY <1>1, <1>4, <1>9, <2>1, RoundParts DEF RipeIsFree, Leased
  <2>4. ReadIsFresh' /\ DoingIsRead'
    BY <1>1, <1>3, <1>4, <1>9, <2>1 DEF ReadIsFresh, DoingIsRead, At, Busy
  <2>5. AttemptsAsRead' /\ ClaimHolds'
    BY <1>1, <1>4, <1>9, <2>1 DEF AttemptsAsRead, ClaimHolds, At, Busy
  <2>6. PushedOnce'
    BY <1>1, <1>4, <1>6, <1>9, <2>1 DEF PushedOnce
  <2> QED
    BY <2>2, <2>3, <2>4, <2>5, <2>6
<1> QED
  BY <1>12, <1>13

LEMMA AbortSafe ==
  ASSUME OutboxInv, NEW w \in Workers, Abort(w)
  PROVE  OutboxInv'
<1> USE DEF OutboxInv
<1>1. /\ work \in [Workers -> Round] /\ work' = [work EXCEPT ![w] = Idle]
      /\ UNCHANGED <<row, registered, retries>>
  BY DEF Abort, TypeOK
<1>2. Idle \in Round /\ Idle.pc = "idle" /\ Idle.ripe = {}
  BY DEF Idle, Round
<1>3. /\ work' \in [Workers -> Round] /\ work'[w].pc = "idle" /\ work'[w].ripe = {}
      /\ \A v \in Workers \ {w} : work'[v] = work[v]
  BY <1>1, <1>2
<1>4. PICK D \in SUBSET Deliveries :
        Excuse(D) /\ (work[w].pc = "answered" => work[w].doing \in D)
  BY <1>1, RoundParts DEF Abort, Busy
<1>5. /\ accepted' \in [Deliveries -> 0..2] /\ excused' = excused \cup D
      /\ \A e \in Deliveries \ D : accepted'[e] = accepted[e]
  BY <1>4 DEF Excuse, TypeOK
<1>6. TypeOK'
  BY <1>1, <1>3, <1>5 DEF TypeOK
<1>7. LeasedIsPending' /\ Reachable' /\ RipeIsFree' /\ ReadIsFresh'
  BY <1>1, <1>3 DEF LeasedIsPending, Reachable, RipeIsFree, Leased, ReadIsFresh, Busy
<1>8. DoingIsRead' /\ AttemptsAsRead' /\ ClaimHolds'
  BY <1>1, <1>3, <1>5 DEF DoingIsRead, AttemptsAsRead, ClaimHolds, At
<1>9. PushedOnce'
  BY <1>1, <1>3, <1>4, <1>5 DEF PushedOnce
<1> QED
  BY <1>6, <1>7, <1>8, <1>9

-----------------------------------------------------------------------------
(* Time and devices. *)

LEMMA LeaseElapsesSafe ==
  ASSUME OutboxInv, NEW d \in Deliveries, LeaseElapses(d)
  PROVE  OutboxInv'
<1> USE DEF OutboxInv
<1>1. row' = [row EXCEPT ![d].over = TRUE] /\ UNCHANGED <<registered, work, retries>>
  BY DEF LeaseElapses
<1>2. \A e \in Deliveries : row[e] \in Row
  BY DEF TypeOK
<1>3. /\ row' \in [Deliveries -> Row] /\ row'[d].over
      /\ row'[d].status = row[d].status /\ row'[d].attempts = row[d].attempts
      /\ row'[d].token = row[d].token
      /\ \A e \in Deliveries \ {d} : row'[e] = row[e]
  BY <1>1, <1>2 DEF TypeOK, Row
<1>4. PICK D \in SUBSET {d} :
        Excuse(D) /\ ((\E w \in Workers : At(w, d)) => D = {d})
  BY DEF LeaseElapses
<1>5. /\ accepted' \in [Deliveries -> 0..2] /\ excused' = excused \cup D
      /\ \A e \in Deliveries \ D : accepted'[e] = accepted[e]
  BY <1>4 DEF Excuse, TypeOK
<1>6. TypeOK'
  BY <1>1, <1>3, <1>5 DEF TypeOK
<1>7. LeasedIsPending' /\ Reachable'
  BY <1>3 DEF LeasedIsPending, Reachable
<1>8. RipeIsFree'
  BY <1>1, <1>3, RoundParts DEF RipeIsFree, Leased, TypeOK
<1>9. \A w \in Workers : work[w].pc \in Busy => DOMAIN work[w].read \subseteq Deliveries
  BY RoundParts, PageParts DEF TypeOK
<1>10. ReadIsFresh' /\ DoingIsRead' /\ AttemptsAsRead'
  BY <1>1, <1>3, <1>9 DEF ReadIsFresh, DoingIsRead, AttemptsAsRead, At
<1>11. ClaimHolds'
  BY <1>1, <1>3, <1>4, <1>5 DEF ClaimHolds, At
<1>12. PushedOnce'
  BY <1>1, <1>3, <1>5 DEF PushedOnce
<1> QED
  BY <1>6, <1>7, <1>8, <1>10, <1>11, <1>12

LEMMA WaitElapsesSafe ==
  ASSUME OutboxInv, NEW d \in Deliveries, WaitElapses(d)
  PROVE  OutboxInv'
<1> USE DEF OutboxInv
<1>1. /\ row' = [row EXCEPT ![d].wait = FALSE]
      /\ UNCHANGED <<registered, work, retries, accepted, excused>>
  BY DEF WaitElapses
<1>2. \A e \in Deliveries : row[e] \in Row
  BY DEF TypeOK
<1>3. /\ row' \in [Deliveries -> Row]
      /\ \A e \in Deliveries : /\ row'[e].status = row[e].status /\ row'[e].over = row[e].over
                               /\ row'[e].attempts = row[e].attempts
                               /\ row'[e].token = row[e].token
  BY <1>1, <1>2 DEF TypeOK, Row
<1>4. TypeOK'
  BY <1>1, <1>3 DEF TypeOK
<1>5. \A w \in Workers : /\ work[w].ripe \subseteq Deliveries
                         /\ work[w].pc \in Busy => DOMAIN work[w].read \subseteq Deliveries
  BY RoundParts, PageParts DEF TypeOK
<1>6. LeasedIsPending' /\ Reachable' /\ RipeIsFree' /\ ReadIsFresh'
  BY <1>1, <1>3, <1>5 DEF LeasedIsPending, Reachable, RipeIsFree, Leased, ReadIsFresh
<1>7. DoingIsRead' /\ AttemptsAsRead' /\ ClaimHolds'
  BY <1>1, <1>3 DEF DoingIsRead, AttemptsAsRead, ClaimHolds, At
<1>8. PushedOnce'
  BY <1>1, <1>3 DEF PushedOnce
<1> QED
  BY <1>4, <1>6, <1>7, <1>8

LEMMA ChangeDeviceSafe ==
  ASSUME OutboxInv, NEW x \in Devices, ChangeDevice(x)
  PROVE  OutboxInv'
<1> USE DEF OutboxInv
<1>1. UNCHANGED <<row, work, retries, accepted, excused>> /\ registered' \subseteq Devices
  BY DEF ChangeDevice, TypeOK
<1>2. TypeOK' /\ LeasedIsPending' /\ Reachable' /\ RipeIsFree' /\ ReadIsFresh'
  BY <1>1 DEF TypeOK, LeasedIsPending, Reachable, RipeIsFree, Leased, ReadIsFresh
<1>3. DoingIsRead' /\ AttemptsAsRead' /\ ClaimHolds' /\ PushedOnce'
  BY <1>1 DEF DoingIsRead, AttemptsAsRead, ClaimHolds, At, PushedOnce
<1> QED
  BY <1>2, <1>3

LEMMA OutboxStutters ==
  ASSUME OutboxInv, UNCHANGED vars
  PROVE  OutboxInv'
<1> USE DEF OutboxInv
<1>1. UNCHANGED <<row, registered, work, retries, accepted, excused>>
  BY DEF vars
<1>2. TypeOK' /\ LeasedIsPending' /\ Reachable' /\ RipeIsFree' /\ ReadIsFresh'
  BY <1>1 DEF TypeOK, LeasedIsPending, Reachable, RipeIsFree, Leased, ReadIsFresh
<1>3. DoingIsRead' /\ AttemptsAsRead' /\ ClaimHolds' /\ PushedOnce'
  BY <1>1 DEF DoingIsRead, AttemptsAsRead, ClaimHolds, At, PushedOnce
<1> QED
  BY <1>2, <1>3

-----------------------------------------------------------------------------
(* The theorems. *)

LEMMA OutboxStep ==
  ASSUME OutboxInv, [Next]_vars
  PROVE  OutboxInv'
<1>1. ASSUME NEW b \in Broadcasts, Queue(b) PROVE OutboxInv'
  BY <1>1, QueueSafe
<1>2. ASSUME NEW b \in Broadcasts, Retry(b) PROVE OutboxInv'
  BY <1>2, RetrySafe
<1>3. ASSUME NEW x \in Devices, ChangeDevice(x) PROVE OutboxInv'
  BY <1>3, ChangeDeviceSafe
<1>4. ASSUME NEW w \in Workers, Deliver(w) PROVE OutboxInv'
  BY <1>4, StartSafe, ReadPageSafe, ClaimSafe, PushSafe, FinishSafe DEF Deliver
<1>5. ASSUME NEW w \in Workers, Abort(w) PROVE OutboxInv'
  BY <1>5, AbortSafe
<1>6. ASSUME NEW d \in Deliveries, Elapse(d) PROVE OutboxInv'
  BY <1>6, LeaseElapsesSafe, WaitElapsesSafe DEF Elapse
<1>7. CASE UNCHANGED vars
  BY <1>7, OutboxStutters
<1> QED
  BY <1>1, <1>2, <1>3, <1>4, <1>5, <1>6, <1>7 DEF Next

LEMMA OutboxInvariant ==
  Spec => []OutboxInv
  BY OutboxStarts, OutboxStep, PTL DEF Spec

\* Every delivery and every round keeps to its type, so that no delivery is
\* attempted more often than the limit, however many workers there are.
THEOREM OutboxTypeCorrect ==
  Spec => []TypeOK
<1>1. OutboxInv => TypeOK
  BY DEF OutboxInv
<1> QED
  BY <1>1, OutboxInvariant, PTL

\* Whoever holds a delivery's lease has read its attempts as they were.
THEOREM AttemptsCounted ==
  Spec => []AttemptsAsRead
<1>1. OutboxInv => AttemptsAsRead
  BY DEF OutboxInv
<1> QED
  BY <1>1, OutboxInvariant, PTL

\* A free pending delivery always has an attempt left.
THEOREM PendingReachable ==
  Spec => []Reachable
<1>1. OutboxInv => Reachable
  BY DEF OutboxInv
<1> QED
  BY <1>1, OutboxInvariant, PTL

\* A message is pushed twice, or pushed without a record, only where an
\* outcome was lost or a lease ran out under its holder.
THEOREM PushedOnceUnlessExcused ==
  Spec => []PushedOnce
<1>1. OutboxInv => PushedOnce
  BY DEF OutboxInv
<1> QED
  BY <1>1, OutboxInvariant, PTL

\* No step changes the status of a delivery that was sent or skipped: a round
\* gives up and finishes only what is pending, and retries take what failed.
THEOREM FinalNeverChanges ==
  Spec => FinalStays
<1> DEFINE Final == \A d \in Deliveries :
                      row[d].status \in {"sent", "skipped"} => row'[d].status = row[d].status
<1>1. ASSUME OutboxInv, [Next]_vars PROVE [Final]_vars
  <2> SUFFICES ASSUME Next PROVE Final
    BY <1>1
  <2>1. ASSUME UNCHANGED row PROVE Final
    BY <2>1
  <2>2. ASSUME NEW b \in Broadcasts, Queue(b) PROVE Final
    BY <2>2, NewRows DEF Queue, Deliveries
  <2>3. ASSUME NEW b \in Broadcasts, Retry(b) PROVE Final
    BY <2>3 DEF Retry, Requeued
  <2>4. ASSUME NEW w \in Workers, Start(w) PROVE Final
    BY <2>4 DEF Start, Exhausted
  <2>5. ASSUME NEW w \in Workers, Claim(w) PROVE Final
    <3>1. ASSUME NEW d, row' = [row EXCEPT ![d].token = w, ![d].over = FALSE, ![d].attempts = @ + 1]
          PROVE  Final
      BY <1>1, <3>1 DEF OutboxInv, TypeOK, Row
    <3> QED
      BY <2>1, <2>5, <3>1 DEF Claim
  <2>6. ASSUME NEW w \in Workers, Finish(w) PROVE Final
    <3> DEFINE d == work[w].doing
    <3>1. d \in Deliveries
      BY <1>1, <2>6, RoundParts DEF Finish, OutboxInv, TypeOK
    <3>2. Holds(w, d) => row[d].status = "pending"
      BY <1>1, <3>1 DEF Holds, OutboxInv, LeasedIsPending, OutboxAssumption
    <3>3. ~Holds(w, d) => UNCHANGED row
      BY <2>6 DEF Finish
    <3>4. Holds(w, d) => \A e \in Deliveries \ {d} : row'[e] = row[e]
      BY <1>1, <2>6 DEF Finish, OutboxInv, TypeOK
    <3> QED
      BY <2>1, <3>1, <3>2, <3>3, <3>4
  <2>7. ASSUME NEW d \in Deliveries, Elapse(d) PROVE Final
    <3>1. \E x \in BOOLEAN : row' = [row EXCEPT ![d].over = x] \/ row' = [row EXCEPT ![d].wait = x]
      BY <2>7 DEF Elapse, LeaseElapses, WaitElapses
    <3> QED
      BY <1>1, <3>1 DEF OutboxInv, TypeOK, Row
  <2> QED
    BY <2>1, <2>2, <2>3, <2>4, <2>5, <2>6, <2>7
       DEF Next, ChangeDevice, Deliver, ReadPage, Push, Abort
<1> QED
  BY <1>1, OutboxInvariant, PTL DEF Spec, FinalStays

-----------------------------------------------------------------------------
(* The deletion jobs.  The argument: what is frozen is stored in no more,  *)
(* a round starts on a frozen scope that nobody writes to, and the round   *)
(* that deletes the records has found its storage empty.                   *)

Uploads == {NotStoring} \cup [at : {"writing", "written"}, scope : Scopes, object : Objects]
Rounds ==
  {Resting} \cup [at : {"claimed"}, scope : Scopes, left : SUBSET Objects]
  \cup [at : {"purging"}, scope : Scopes, keys : SUBSET Objects, todo : SUBSET Objects]
Jobs ==
  [status : {"none", "pending", "running", "completed", "failed"},
   holder : DeletionWorkers \cup {NoWorker}, expired : BOOLEAN, left : SUBSET Objects]

DeletionTypeOK ==
  /\ scope \in [Scopes -> {"open", "frozen", "gone"}]
  /\ stored \in [Scopes -> SUBSET Objects] /\ recorded \in [Scopes -> SUBSET Objects]
  /\ late \in [Scopes -> SUBSET Objects]
  /\ storing \in [Writers -> Uploads]
  /\ job \in [Scopes -> Jobs]
  /\ worker \in [DeletionWorkers -> Rounds]

\* Only finitely many objects were ever stored.
FinitelyMany ==
  /\ \A s \in Scopes : IsFiniteSet(stored[s]) /\ IsFiniteSet(late[s]) /\ IsFiniteSet(recorded[s]) /\ IsFiniteSet(job[s].left)
  /\ \A w \in DeletionWorkers : worker[w].at = "claimed" => IsFiniteSet(worker[w].left)

Quiet(s) == scope[s] # "open" /\ WritersOf(s) = {}

JobsAreFrozen == \A s \in Scopes : job[s].status # "none" => scope[s] # "open"
RoundsAreQuiet == \A w \in DeletionWorkers : worker[w] # Resting => Quiet(worker[w].scope)
EmptyRoundsFoundNothing ==
  \A w \in DeletionWorkers :
    worker[w].at = "purging" /\ worker[w].keys = {} => stored[worker[w].scope] = {}

DeletionInv ==
  /\ DeletionTypeOK /\ FinitelyMany /\ JobsAreFrozen /\ RoundsAreQuiet
  /\ EmptyRoundsFoundNothing /\ NothingLeftBehind

LEMMA EmptyPortion ==
  ASSUME NEW S, IsFiniteSet(S), {} \in Portion(S)
  PROVE  S = {}
  <1>1. Cardinality({}) = 0
    BY FS_EmptySet
  <1>2. Cardinality(S) \in Nat
    BY FS_CardinalityType
  <1>3. Cardinality(S) = 0
    BY <1>1, <1>2, DeletionAssumption DEF Portion
  <1> QED BY <1>3, FS_EmptySet

LEMMA RoundKinds ==
  ASSUME NEW q \in Rounds
  PROVE  /\ q = Resting => q.at = "idle"
         /\ q.at \in {"idle", "claimed", "purging"}
         /\ q.at = "idle" => q = Resting
         /\ q.at = "claimed" => q \in [at : {"claimed"}, scope : Scopes, left : SUBSET Objects]
         /\ q.at = "purging" =>
              q \in [at : {"purging"}, scope : Scopes, keys : SUBSET Objects, todo : SUBSET Objects]
  <1>1. CASE q = Resting
    BY <1>1 DEF Resting
  <1>2. CASE q \in [at : {"claimed"}, scope : Scopes, left : SUBSET Objects]
    <2>1. q.at = "claimed"
      BY <1>2
    <2> QED BY <1>2, <2>1 DEF Resting
  <1>3. CASE q \in [at : {"purging"}, scope : Scopes, keys : SUBSET Objects, todo : SUBSET Objects]
    <2>1. q.at = "purging"
      BY <1>3
    <2> QED BY <1>3, <2>1 DEF Resting
  <1> QED BY <1>1, <1>2, <1>3 DEF Rounds

LEMMA UploadKinds ==
  ASSUME NEW q \in Uploads
  PROVE  /\ q = NotStoring => q.at = "none"
         /\ q.at \in {"writing", "written"} =>
              q \in [at : {"writing", "written"}, scope : Scopes, object : Objects]
  <1>1. CASE q = NotStoring
    BY <1>1 DEF NotStoring
  <1>2. CASE q \in [at : {"writing", "written"}, scope : Scopes, object : Objects]
    <2>1. q.at \in {"writing", "written"}
      BY <1>2
    <2> QED BY <1>2, <2>1 DEF NotStoring
  <1> QED BY <1>1, <1>2 DEF Uploads

LEMMA DeletionStarts == DeletionInit => DeletionInv
  <1> SUFFICES ASSUME DeletionInit PROVE DeletionInv
    OBVIOUS
  <1>1. DeletionTypeOK
    BY DEF DeletionInit, DeletionTypeOK, Uploads, Rounds, Jobs, NoJob
  <1>2. FinitelyMany
    BY FS_EmptySet DEF DeletionInit, FinitelyMany, NoJob, Resting
  <1>3. JobsAreFrozen /\ NothingLeftBehind
    BY DEF DeletionInit, JobsAreFrozen, NothingLeftBehind, NoJob
  <1>4. RoundsAreQuiet /\ EmptyRoundsFoundNothing
    BY DEF DeletionInit, RoundsAreQuiet, EmptyRoundsFoundNothing, Resting
  <1> QED BY <1>1, <1>2, <1>3, <1>4 DEF DeletionInv

\* What a step may change of a quiet scope: its objects become fewer.
Settles ==
  /\ \A s \in Scopes : scope[s] # "open" => scope'[s] # "open"
  /\ \A s \in Scopes : Quiet(s) => WritersOf(s)' = {} /\ stored'[s] \subseteq stored[s]

LEMMA SettledKeeps ==
  ASSUME DeletionInv, Settles, DeletionTypeOK',
         worker' = worker, \A s \in Scopes : scope'[s] = "gone" => scope[s] = "gone"
  PROVE  RoundsAreQuiet' /\ EmptyRoundsFoundNothing' /\ NothingLeftBehind'
  <1>1. RoundsAreQuiet'
    <2> SUFFICES ASSUME NEW w \in DeletionWorkers, worker[w] # Resting
                 PROVE  Quiet(worker[w].scope)'
      BY DEF RoundsAreQuiet
    <2>1. worker[w].scope \in Scopes
      BY RoundKinds DEF DeletionInv, DeletionTypeOK
    <2>2. Quiet(worker[w].scope)
      BY DEF DeletionInv, RoundsAreQuiet
    <2>3. PICK s \in Scopes : s = worker[w].scope
      BY <2>1
    <2>4. s = worker'[w].scope
      BY <2>3
    <2>5. scope'[s] # "open" /\ WritersOf(s)' = {}
      BY <2>2, <2>3 DEF Settles, Quiet
    <2> QED BY <2>4, <2>5 DEF Quiet, WritersOf
  <1>2. EmptyRoundsFoundNothing'
    <2> SUFFICES ASSUME NEW w \in DeletionWorkers, worker[w].at = "purging", worker[w].keys = {}
                 PROVE  stored'[worker'[w].scope] = {}
      BY DEF EmptyRoundsFoundNothing
    <2>1. worker[w].scope \in Scopes /\ worker[w] # Resting
      BY RoundKinds DEF DeletionInv, DeletionTypeOK
    <2>2. Quiet(worker[w].scope) /\ stored[worker[w].scope] = {}
      BY <2>1 DEF DeletionInv, RoundsAreQuiet, EmptyRoundsFoundNothing
    <2> QED BY <2>1, <2>2 DEF Settles
  <1>3. NothingLeftBehind'
    <2> SUFFICES ASSUME NEW s \in Scopes, scope'[s] = "gone"
                 PROVE  stored'[s] = {} /\ WritersOf(s)' = {}
      BY DEF NothingLeftBehind
    <2>1. stored[s] = {} /\ Quiet(s)
      BY DEF DeletionInv, NothingLeftBehind, Quiet
    <2> QED BY <2>1 DEF Settles
  <1> QED BY <1>1, <1>2, <1>3

\* A step that leaves writers and storage alone.
LEMMA QuietStays ==
  ASSUME DeletionInv, UNCHANGED <<stored, storing>>,
         \A s \in Scopes : scope[s] # "open" => scope'[s] # "open"
  PROVE  Settles
  BY DEF Settles, Quiet, WritersOf

LEMMA StartStoringSafe ==
  ASSUME DeletionInv, NEW w \in Writers, NEW s \in Scopes, NEW o \in Objects, StartStoring(w, s, o)
  PROVE  DeletionInv'
  <1>1. DeletionTypeOK'
    BY DEF StartStoring, DeletionInv, DeletionTypeOK, Uploads
  <1>2. FinitelyMany' /\ JobsAreFrozen'
    BY DEF StartStoring, DeletionInv, FinitelyMany, JobsAreFrozen
  <1>3. Settles
    <2> SUFFICES ASSUME NEW z \in Scopes, Quiet(z) PROVE WritersOf(z)' = {}
      BY DEF Settles, StartStoring
    <2>1. z # s
      BY DEF Quiet, StartStoring
    <2>2. \A v \in Writers : v # w => storing'[v] = storing[v]
      BY DEF StartStoring, DeletionInv, DeletionTypeOK
    <2>3. storing'[w].scope = s
      BY DEF StartStoring, DeletionInv, DeletionTypeOK
    <2> QED BY <2>1, <2>2, <2>3 DEF Quiet, WritersOf
  <1>4. RoundsAreQuiet' /\ EmptyRoundsFoundNothing' /\ NothingLeftBehind'
    BY <1>1, <1>3, SettledKeeps DEF StartStoring
  <1> QED BY <1>1, <1>2, <1>4 DEF DeletionInv

LEMMA StoreLateSafe ==
  ASSUME DeletionInv, NEW s \in Groups, NEW o \in Objects, StoreLate(s, o)
  PROVE  DeletionInv'
  <1>1. s \in Scopes /\ late' = [late EXCEPT ![s] = late[s] \cup {o}]
    BY DEF StoreLate, Scopes
  <1>2. DeletionTypeOK'
    BY <1>1 DEF StoreLate, DeletionInv, DeletionTypeOK
  <1>3. FinitelyMany' /\ JobsAreFrozen'
    <2>1. IsFiniteSet(late[s] \cup {o})
      BY <1>1, FS_AddElement DEF DeletionInv, FinitelyMany
    <2>2. \A z \in Scopes : IsFiniteSet(late'[z])
      BY <1>1, <2>1 DEF DeletionInv, FinitelyMany, DeletionTypeOK
    <2> QED BY <2>2 DEF StoreLate, DeletionInv, FinitelyMany, JobsAreFrozen
  <1>4. RoundsAreQuiet' /\ EmptyRoundsFoundNothing' /\ NothingLeftBehind'
    BY <1>2, QuietStays, SettledKeeps DEF StoreLate
  <1> QED BY <1>2, <1>3, <1>4 DEF DeletionInv

LEMMA FinishStoringSafe ==
  ASSUME DeletionInv, NEW w \in Writers, FinishStoring(w)
  PROVE  DeletionInv'
  <1>1. storing[w] \in [at : {"writing", "written"}, scope : Scopes, object : Objects]
    BY UploadKinds DEF FinishStoring, DeletionInv, DeletionTypeOK
  <1>2. PICK s \in Scopes, o \in Objects : s = storing[w].scope /\ o = storing[w].object
    BY <1>1
  <1>3. /\ stored' = [stored EXCEPT ![s] = stored[s] \cup {o}]
        /\ storing' = [storing EXCEPT ![w] = [storing[w] EXCEPT !.at = "written"]]
    BY <1>2 DEF FinishStoring
  <1>4. DeletionTypeOK'
    <2>1. [storing[w] EXCEPT !.at = "written"] \in Uploads
      BY <1>1 DEF Uploads
    <2>2. storing' \in [Writers -> Uploads]
      BY <1>3, <2>1 DEF DeletionInv, DeletionTypeOK
    <2>3. stored' \in [Scopes -> SUBSET Objects]
      BY <1>3 DEF DeletionInv, DeletionTypeOK
    <2> QED BY <2>2, <2>3 DEF FinishStoring, DeletionInv, DeletionTypeOK
  <1>5. FinitelyMany' /\ JobsAreFrozen'
    <2>1. IsFiniteSet(stored[s] \cup {o})
      BY FS_AddElement DEF DeletionInv, FinitelyMany
    <2>2. \A z \in Scopes : IsFiniteSet(stored'[z])
      BY <1>3, <2>1 DEF DeletionInv, FinitelyMany, DeletionTypeOK
    <2> QED BY <2>2 DEF FinishStoring, DeletionInv, FinitelyMany, JobsAreFrozen
  <1>6. Settles
    <2> SUFFICES ASSUME NEW z \in Scopes, Quiet(z)
                 PROVE  WritersOf(z)' = {} /\ stored'[z] \subseteq stored[z]
      BY DEF Settles, FinishStoring
    <2>1. z # s
      BY <1>2 DEF Quiet, WritersOf, FinishStoring
    <2>2. \A v \in Writers : v # w => storing'[v] = storing[v]
      BY <1>3 DEF DeletionInv, DeletionTypeOK
    <2>3. storing'[w].at = "written"
      BY <1>1, <1>3 DEF DeletionInv, DeletionTypeOK
    <2>4. stored'[z] = stored[z]
      BY <1>3, <2>1 DEF DeletionInv, DeletionTypeOK
    <2> QED BY <2>2, <2>3, <2>4 DEF Quiet, WritersOf
  <1>7. RoundsAreQuiet' /\ EmptyRoundsFoundNothing' /\ NothingLeftBehind'
    BY <1>4, <1>6, SettledKeeps DEF FinishStoring
  <1> QED BY <1>4, <1>5, <1>7 DEF DeletionInv

LEMMA RecordUploadSafe ==
  ASSUME DeletionInv, NEW w \in Writers, RecordUpload(w)
  PROVE  DeletionInv'
  <1>1. storing[w] \in [at : {"writing", "written"}, scope : Scopes, object : Objects]
    BY UploadKinds DEF RecordUpload, DeletionInv, DeletionTypeOK
  <1>2. PICK s \in Scopes, o \in Objects : s = storing[w].scope /\ o = storing[w].object
    BY <1>1
  <1>3. recorded' = recorded \/ recorded' = [recorded EXCEPT ![s] = recorded[s] \cup {o}]
    BY <1>2 DEF RecordUpload
  <1>4. storing' = [storing EXCEPT ![w] = NotStoring]
    BY DEF RecordUpload
  <1>5. DeletionTypeOK'
    BY <1>3, <1>4 DEF RecordUpload, DeletionInv, DeletionTypeOK, Uploads
  <1>6. FinitelyMany' /\ JobsAreFrozen'
    <2>1. IsFiniteSet(recorded[s] \cup {o})
      BY FS_AddElement DEF DeletionInv, FinitelyMany
    <2>2. \A z \in Scopes : IsFiniteSet(recorded'[z])
      BY <1>3, <2>1 DEF DeletionInv, FinitelyMany, DeletionTypeOK
    <2> QED BY <2>2 DEF RecordUpload, DeletionInv, FinitelyMany, JobsAreFrozen
  <1>7. Settles
    <2>1. \A v \in Writers : v # w => storing'[v] = storing[v]
      BY <1>4 DEF DeletionInv, DeletionTypeOK
    <2>2. storing'[w].at = "none"
      BY <1>4 DEF DeletionInv, DeletionTypeOK, NotStoring
    <2> QED BY <2>1, <2>2 DEF RecordUpload, Settles, Quiet, WritersOf
  <1>8. RoundsAreQuiet' /\ EmptyRoundsFoundNothing' /\ NothingLeftBehind'
    BY <1>5, <1>7, SettledKeeps DEF RecordUpload
  <1> QED BY <1>5, <1>6, <1>8 DEF DeletionInv

LEMMA BeginDeletionSafe ==
  ASSUME DeletionInv, NEW s \in Scopes, BeginDeletion(s)
  PROVE  DeletionInv'
  <1>1. PICK L : L = IF s \in Projects THEN recorded[s] ELSE {}
    OBVIOUS
  <1>2. L \subseteq Objects /\ IsFiniteSet(L)
    BY <1>1, FS_EmptySet DEF DeletionInv, DeletionTypeOK, FinitelyMany
  <1>3. PICK j : j = [NoJob EXCEPT !.status = "pending", !.left = L]
    OBVIOUS
  <1>4. job' = [job EXCEPT ![s] = j] /\ scope' = [scope EXCEPT ![s] = "frozen"]
    BY <1>1, <1>3 DEF BeginDeletion
  <1>5. j \in Jobs /\ j.left = L
    BY <1>2, <1>3 DEF Jobs, NoJob
  <1>6. DeletionTypeOK'
    BY <1>4, <1>5 DEF BeginDeletion, DeletionInv, DeletionTypeOK
  <1>7. FinitelyMany'
    <2>1. \A z \in Scopes : IsFiniteSet(job'[z].left)
      BY <1>2, <1>4, <1>5 DEF DeletionInv, FinitelyMany, DeletionTypeOK
    <2> QED BY <2>1 DEF BeginDeletion, DeletionInv, FinitelyMany
  <1>8. JobsAreFrozen'
    BY <1>4 DEF DeletionInv, JobsAreFrozen, DeletionTypeOK
  <1>9. Settles
    BY <1>4, QuietStays DEF BeginDeletion, DeletionInv, DeletionTypeOK
  <1>10. \A z \in Scopes : scope'[z] = "gone" => scope[z] = "gone"
    BY <1>4 DEF DeletionInv, DeletionTypeOK
  <1>11. RoundsAreQuiet' /\ EmptyRoundsFoundNothing' /\ NothingLeftBehind'
    BY <1>6, <1>9, <1>10, SettledKeeps DEF BeginDeletion
  <1> QED BY <1>6, <1>7, <1>8, <1>11 DEF DeletionInv

\* A job that changes hands without a worker, or an organization that pays.
LEMMA JobOnlySafe ==
  ASSUME DeletionInv, UNCHANGED <<scope, stored, recorded, storing, worker, late>>,
         NEW s \in Scopes, NEW j \in Jobs, job' = [job EXCEPT ![s] = j],
         j.left = job[s].left, j.status # "none" => job[s].status # "none"
  PROVE  DeletionInv'
  <1>1. DeletionTypeOK'
    BY DEF DeletionInv, DeletionTypeOK
  <1>2. FinitelyMany' /\ JobsAreFrozen'
    BY DEF DeletionInv, FinitelyMany, JobsAreFrozen, DeletionTypeOK
  <1>3. Settles
    BY QuietStays
  <1>4. RoundsAreQuiet' /\ EmptyRoundsFoundNothing' /\ NothingLeftBehind'
    BY <1>1, <1>3, SettledKeeps
  <1> QED BY <1>1, <1>2, <1>4 DEF DeletionInv

\* A worker that leaves, whatever its job becomes.
LEMMA LeaveSafe ==
  ASSUME DeletionInv, UNCHANGED <<scope, stored, recorded, storing, late>>,
         NEW w \in DeletionWorkers, worker[w] # Resting, worker' = [worker EXCEPT ![w] = Resting],
         NEW j \in Jobs,
         \/ job' = job
         \/ job' = [job EXCEPT ![worker[w].scope] = j],
         IsFiniteSet(j.left)
  PROVE  DeletionInv'
  <1>1. worker[w].scope \in Scopes
    BY RoundKinds DEF DeletionInv, DeletionTypeOK
  <1>2. Quiet(worker[w].scope)
    BY DEF DeletionInv, RoundsAreQuiet
  <1>3. Resting \in Rounds /\ Resting.at = "idle"
    BY DEF Rounds, Resting
  <1>4. DeletionTypeOK'
    BY <1>1, <1>3 DEF DeletionInv, DeletionTypeOK
  <1>5. \A v \in DeletionWorkers : worker'[v] = IF v = w THEN Resting ELSE worker[v]
    BY DEF DeletionInv, DeletionTypeOK
  <1>6. \A z \in Scopes : job'[z] = job[z] \/ (z = worker[w].scope /\ job'[z] = j)
    BY <1>1 DEF DeletionInv, DeletionTypeOK
  <1>7. FinitelyMany'
    <2>1. \A v \in DeletionWorkers : worker'[v].at = "claimed" => IsFiniteSet(worker'[v].left)
      BY <1>3, <1>5 DEF DeletionInv, FinitelyMany
    <2> QED BY <1>6, <2>1 DEF DeletionInv, FinitelyMany
  <1>8. JobsAreFrozen'
    BY <1>2, <1>6 DEF DeletionInv, JobsAreFrozen, Quiet
  <1>9. RoundsAreQuiet'
    BY <1>5 DEF DeletionInv, RoundsAreQuiet, Quiet, WritersOf
  <1>10. EmptyRoundsFoundNothing'
    BY <1>3, <1>5 DEF DeletionInv, EmptyRoundsFoundNothing
  <1>11. NothingLeftBehind'
    BY DEF DeletionInv, NothingLeftBehind, WritersOf
  <1> QED BY <1>4, <1>7, <1>8, <1>9, <1>10, <1>11 DEF DeletionInv

LEMMA ClaimJobSafe ==
  ASSUME DeletionInv, NEW w \in DeletionWorkers, NEW s \in Scopes, ClaimJob(w, s)
  PROVE  DeletionInv'
  <1>1. PICK j, q : /\ j = [job[s] EXCEPT !.status = "running", !.holder = w, !.expired = FALSE]
                    /\ q = [at |-> "claimed", scope |-> s, left |-> job[s].left]
    OBVIOUS
  <1>2. job' = [job EXCEPT ![s] = j] /\ worker' = [worker EXCEPT ![w] = q]
    BY <1>1 DEF ClaimJob
  <1>3. job[s] \in Jobs
    BY DEF DeletionInv, DeletionTypeOK
  <1>4. j \in Jobs /\ j.left = job[s].left /\ job[s].left \subseteq Objects
    BY <1>1, <1>3 DEF Jobs
  <1>5. q \in Rounds /\ q.at = "claimed" /\ q.scope = s /\ q.left = job[s].left
    BY <1>1, <1>4 DEF Rounds
  <1>6. DeletionTypeOK'
    BY <1>2, <1>4, <1>5 DEF ClaimJob, DeletionInv, DeletionTypeOK
  <1>7. /\ \A v \in DeletionWorkers : worker'[v] = IF v = w THEN q ELSE worker[v]
        /\ \A z \in Scopes : job'[z] = IF z = s THEN j ELSE job[z]
    BY <1>2 DEF DeletionInv, DeletionTypeOK
  <1>8. Quiet(s)
    <2>1. job[s].status # "none"
      BY DEF ClaimJob
    <2> QED BY <2>1 DEF ClaimJob, DeletionInv, JobsAreFrozen, Quiet
  <1>9. FinitelyMany'
    BY <1>4, <1>5, <1>7 DEF ClaimJob, DeletionInv, FinitelyMany
  <1>10. JobsAreFrozen'
    BY <1>7, <1>8 DEF ClaimJob, DeletionInv, JobsAreFrozen, Quiet
  <1>11. RoundsAreQuiet'
    BY <1>5, <1>7, <1>8 DEF ClaimJob, DeletionInv, RoundsAreQuiet, Quiet, WritersOf
  <1>12. EmptyRoundsFoundNothing'
    BY <1>5, <1>7 DEF ClaimJob, DeletionInv, EmptyRoundsFoundNothing
  <1>13. NothingLeftBehind'
    BY DEF ClaimJob, DeletionInv, NothingLeftBehind, WritersOf
  <1> QED BY <1>6, <1>9, <1>10, <1>11, <1>12, <1>13 DEF DeletionInv

LEMMA ListKeysSafe ==
  ASSUME DeletionInv, NEW w \in DeletionWorkers, ListKeys(w)
  PROVE  DeletionInv'
  <1>1. worker[w] \in [at : {"claimed"}, scope : Scopes, left : SUBSET Objects]
    BY RoundKinds DEF ListKeys, DeletionInv, DeletionTypeOK
  <1>2. PICK s \in Scopes, L \in SUBSET Objects : s = worker[w].scope /\ L = worker[w].left
    BY <1>1
  <1>3. PICK K \in KeysOfRound(s, L) :
          worker' = [worker EXCEPT ![w] = [at |-> "purging", scope |-> worker[w].scope, keys |-> K, todo |-> K]]
    BY <1>2 DEF ListKeys
  <1>4. PICK q : q = [at |-> "purging", scope |-> s, keys |-> K, todo |-> K]
    OBVIOUS
  <1>5. \A v \in DeletionWorkers : worker'[v] = IF v = w THEN q ELSE worker[v]
    BY <1>2, <1>3, <1>4 DEF DeletionInv, DeletionTypeOK
  <1>6. K \subseteq Objects
    BY <1>2, <1>3 DEF KeysOfRound, Portion, DeletionInv, DeletionTypeOK
  <1>7. q \in Rounds /\ q.at = "purging" /\ q.scope = s /\ q.keys = K
    BY <1>4, <1>6 DEF Rounds
  <1>8. IsFiniteSet(L) /\ IsFiniteSet(stored[s] \cup late[s])
    BY <1>1, <1>2, FS_Union DEF DeletionInv, FinitelyMany
  <1>9. K = {} => stored[s] = {}
    BY <1>3, <1>8, EmptyPortion DEF KeysOfRound
  <1>10. Quiet(s)
    BY <1>1, <1>2, RoundKinds DEF DeletionInv, RoundsAreQuiet, DeletionTypeOK
  <1>11. DeletionTypeOK'
    BY <1>2, <1>3, <1>4, <1>7 DEF ListKeys, DeletionInv, DeletionTypeOK
  <1>12. FinitelyMany'
    BY <1>5, <1>7 DEF ListKeys, DeletionInv, FinitelyMany
  <1>13. RoundsAreQuiet'
    BY <1>5, <1>7, <1>10 DEF ListKeys, DeletionInv, RoundsAreQuiet, Quiet, WritersOf
  <1>14. EmptyRoundsFoundNothing'
    BY <1>5, <1>7, <1>9 DEF ListKeys, DeletionInv, EmptyRoundsFoundNothing
  <1>15. JobsAreFrozen' /\ NothingLeftBehind'
    BY DEF ListKeys, DeletionInv, JobsAreFrozen, NothingLeftBehind, WritersOf
  <1> QED BY <1>11, <1>12, <1>13, <1>14, <1>15 DEF DeletionInv

LEMMA PurgeSafe ==
  ASSUME DeletionInv, NEW w \in DeletionWorkers, NEW o \in Objects, Purge(w, o)
  PROVE  DeletionInv'
  <1>1. worker[w] \in [at : {"purging"}, scope : Scopes, keys : SUBSET Objects, todo : SUBSET Objects]
    BY RoundKinds DEF Purge, DeletionInv, DeletionTypeOK
  <1>2. PICK s \in Scopes : s = worker[w].scope
    BY <1>1
  <1>3. PICK q : q = [worker[w] EXCEPT !.todo = worker[w].todo \ {o}]
    OBVIOUS
  <1>4. q \in Rounds /\ q.at = "purging" /\ q.scope = s /\ q.keys = worker[w].keys
    BY <1>1, <1>2, <1>3 DEF Rounds
  <1>5. /\ worker' = [worker EXCEPT ![w] = q] /\ stored' = [stored EXCEPT ![s] = stored[s] \ {o}]
        /\ late' = [late EXCEPT ![s] = late[s] \ {o}]
    BY <1>2, <1>3 DEF Purge
  <1>6. /\ \A v \in DeletionWorkers : worker'[v] = IF v = w THEN q ELSE worker[v]
        /\ \A z \in Scopes : stored'[z] = IF z = s THEN stored[s] \ {o} ELSE stored[z]
        /\ \A z \in Scopes : late'[z] = IF z = s THEN late[s] \ {o} ELSE late[z]
    BY <1>5 DEF DeletionInv, DeletionTypeOK
  <1>7. DeletionTypeOK'
    <2>1. worker' \in [DeletionWorkers -> Rounds]
      BY <1>4, <1>5 DEF DeletionInv, DeletionTypeOK
    <2>2. stored' \in [Scopes -> SUBSET Objects] /\ late' \in [Scopes -> SUBSET Objects]
      BY <1>5 DEF DeletionInv, DeletionTypeOK
    <2> QED BY <2>1, <2>2 DEF Purge, DeletionInv, DeletionTypeOK
  <1>8. FinitelyMany'
    <2>1. IsFiniteSet(stored[s] \ {o}) /\ IsFiniteSet(late[s] \ {o})
      BY FS_Subset DEF DeletionInv, FinitelyMany
    <2>2. ASSUME NEW z \in Scopes
          PROVE  /\ IsFiniteSet(stored'[z]) /\ IsFiniteSet(late'[z])
                 /\ IsFiniteSet(recorded'[z]) /\ IsFiniteSet(job'[z].left)
      <3>1. recorded' = recorded /\ job' = job
        BY DEF Purge
      <3> QED BY <1>6, <2>1, <3>1 DEF DeletionInv, FinitelyMany
    <2>3. ASSUME NEW v \in DeletionWorkers, worker'[v].at = "claimed"
          PROVE  IsFiniteSet(worker'[v].left)
      <3>1. worker'[v] = worker[v]
        BY <1>4, <1>6, <2>3
      <3> QED BY <2>3, <3>1 DEF DeletionInv, FinitelyMany
    <2> QED BY <2>2, <2>3 DEF FinitelyMany
  <1>9. worker[w] # Resting
    BY <1>1, RoundKinds DEF DeletionInv, DeletionTypeOK
  <1>10. RoundsAreQuiet'
    BY <1>2, <1>4, <1>6, <1>9 DEF Purge, DeletionInv, RoundsAreQuiet, Quiet, WritersOf
  <1>11. EmptyRoundsFoundNothing'
    <2> SUFFICES ASSUME NEW v \in DeletionWorkers, worker'[v].at = "purging", worker'[v].keys = {}
                 PROVE  stored'[worker'[v].scope] = {}
      BY DEF EmptyRoundsFoundNothing
    <2>1. /\ worker[v].at = "purging" /\ worker[v].keys = {} /\ worker'[v].scope = worker[v].scope
      BY <1>1, <1>2, <1>4, <1>6
    <2>2. stored[worker[v].scope] = {}
      BY <2>1 DEF DeletionInv, EmptyRoundsFoundNothing
    <2>3. worker[v].scope \in Scopes
      BY <2>1, RoundKinds DEF DeletionInv, DeletionTypeOK
    <2> QED BY <1>6, <2>1, <2>2, <2>3
  <1>12. JobsAreFrozen'
    BY DEF Purge, DeletionInv, JobsAreFrozen
  <1>13. NothingLeftBehind'
    BY <1>6 DEF Purge, DeletionInv, NothingLeftBehind, WritersOf
  <1> QED BY <1>7, <1>8, <1>10, <1>11, <1>12, <1>13 DEF DeletionInv

LEMMA EndRoundSafe ==
  ASSUME DeletionInv, NEW w \in DeletionWorkers, EndRound(w) \/ FailRound(w) \/ DieInRound(w)
  PROVE  DeletionInv'
  <1>1. worker[w] # Resting /\ worker[w].scope \in Scopes
    BY RoundKinds DEF EndRound, FailRound, DieInRound, DeletionInv, DeletionTypeOK
  <1>2. PICK s, c : s \in Scopes /\ s = worker[w].scope /\ c = job[s]
    BY <1>1
  <1>3. c \in Jobs /\ IsFiniteSet(c.left) /\ c.left \in SUBSET Objects
    BY <1>2 DEF DeletionInv, DeletionTypeOK, FinitelyMany, Jobs
  <1>4. PICK j \in Jobs : /\ IsFiniteSet(j.left)
                          /\ job' = job \/ job' = [job EXCEPT ![worker[w].scope] = j]
    <2>1. CASE EndRound(w)
      <3>1. PICK k : k = [c EXCEPT !.status = "pending", !.holder = NoWorker, !.left = c.left \ worker[w].keys]
        OBVIOUS
      <3>2. k \in Jobs /\ k.left = c.left \ worker[w].keys
        BY <1>3, <3>1 DEF Jobs
      <3>3. IsFiniteSet(k.left)
        BY <1>3, <3>2, FS_Subset
      <3>4. job' = job \/ job' = [job EXCEPT ![worker[w].scope] = k]
        BY <1>2, <2>1, <3>1 DEF EndRound
      <3> QED BY <3>2, <3>3, <3>4
    <2>2. CASE FailRound(w)
      <3>1. PICK k : k = [c EXCEPT !.status = "failed", !.holder = NoWorker]
        OBVIOUS
      <3>2. k \in Jobs /\ k.left = c.left
        BY <1>3, <3>1 DEF Jobs
      <3>3. job' = job \/ job' = [job EXCEPT ![worker[w].scope] = k]
        BY <1>2, <2>2, <3>1 DEF FailRound
      <3> QED BY <1>3, <3>2, <3>3
    <2>3. CASE DieInRound(w)
      BY <1>3, <2>3 DEF DieInRound
    <2> QED BY <2>1, <2>2, <2>3
  <1> QED BY <1>1, <1>4, LeaveSafe DEF EndRound, FailRound, DieInRound

LEMMA DeleteRecordsSafe ==
  ASSUME DeletionInv, NEW w \in DeletionWorkers, DeleteRecords(w)
  PROVE  DeletionInv'
  <1>1. worker[w] # Resting /\ worker[w].scope \in Scopes
    BY RoundKinds DEF DeleteRecords, DeletionInv, DeletionTypeOK
  <1>2. PICK s \in Scopes : s = worker[w].scope
    BY <1>1
  <1>0. PICK j : j = [job[s] EXCEPT !.status = "completed", !.holder = NoWorker, !.left = {}]
    OBVIOUS
  <1>3. /\ scope' = [scope EXCEPT ![s] = "gone"] /\ recorded' = [recorded EXCEPT ![s] = {}]
        /\ job' = [job EXCEPT ![s] = j] /\ worker' = [worker EXCEPT ![w] = Resting]
    BY <1>2, <1>0 DEF DeleteRecords
  <1>4. Quiet(s) /\ stored[s] = {}
    BY <1>1, <1>2 DEF DeleteRecords, DeletionInv, RoundsAreQuiet, EmptyRoundsFoundNothing
  <1>5. job[s] \in Jobs
    BY DEF DeletionInv, DeletionTypeOK
  <1>6. j \in Jobs /\ j.left = {}
    BY <1>0, <1>5 DEF Jobs
  <1>7. Resting \in Rounds /\ Resting.at = "idle"
    BY DEF Rounds, Resting
  <1>8. DeletionTypeOK'
    <2>1. scope' \in [Scopes -> {"open", "frozen", "gone"}] /\ recorded' \in [Scopes -> SUBSET Objects]
      BY <1>3 DEF DeletionInv, DeletionTypeOK
    <2>2. job' \in [Scopes -> Jobs]
      BY <1>3, <1>6 DEF DeletionInv, DeletionTypeOK
    <2>3. worker' \in [DeletionWorkers -> Rounds]
      BY <1>3, <1>7 DEF DeletionInv, DeletionTypeOK
    <2> QED BY <2>1, <2>2, <2>3 DEF DeleteRecords, DeletionInv, DeletionTypeOK
  <1>9. /\ \A v \in DeletionWorkers : worker'[v] = IF v = w THEN Resting ELSE worker[v]
        /\ \A z \in Scopes : /\ job'[z] = IF z = s THEN j ELSE job[z]
                             /\ scope'[z] = IF z = s THEN "gone" ELSE scope[z]
                             /\ recorded'[z] = IF z = s THEN {} ELSE recorded[z]
    BY <1>3 DEF DeletionInv, DeletionTypeOK
  <1>10. FinitelyMany'
    BY <1>6, <1>7, <1>9, FS_EmptySet DEF DeleteRecords, DeletionInv, FinitelyMany
  <1>11. JobsAreFrozen'
    BY <1>9 DEF DeletionInv, JobsAreFrozen
  <1>12. RoundsAreQuiet'
    <2>1. \A v \in DeletionWorkers : worker'[v] # Resting => worker'[v] = worker[v]
      BY <1>9
    <2>2. \A v \in DeletionWorkers : worker[v] # Resting => worker[v].scope \in Scopes /\ Quiet(worker[v].scope)
      BY RoundKinds DEF DeletionInv, DeletionTypeOK, RoundsAreQuiet
    <2>3. \A z \in Scopes : Quiet(z) => scope'[z] # "open"
      BY <1>9 DEF Quiet
    <2>4. storing' = storing
      BY DEF DeleteRecords
    <2> QED BY <2>1, <2>2, <2>3, <2>4 DEF RoundsAreQuiet, Quiet, WritersOf
  <1>13. EmptyRoundsFoundNothing'
    BY <1>7, <1>9 DEF DeleteRecords, DeletionInv, EmptyRoundsFoundNothing
  <1>14. NothingLeftBehind'
    BY <1>4, <1>9 DEF DeleteRecords, DeletionInv, NothingLeftBehind, Quiet, WritersOf
  <1> QED BY <1>8, <1>10, <1>11, <1>12, <1>13, <1>14 DEF DeletionInv

LEMMA RenewSafe ==
  ASSUME DeletionInv, NEW s \in Scopes, Renew(s) \/ LeaseRunsOut(s) \/ RetryDeletion(s)
  PROVE  DeletionInv'
  <1>1. PICK c : c = job[s]
    OBVIOUS
  <1>2. c \in Jobs /\ job = [job EXCEPT ![s] = c]
    BY <1>1 DEF DeletionInv, DeletionTypeOK
  <1>3. CASE Renew(s)
    BY <1>1, <1>2, <1>3, JobOnlySafe DEF Renew
  <1>4. CASE LeaseRunsOut(s)
    <2>1. PICK j : j = [c EXCEPT !.expired = TRUE]
      OBVIOUS
    <2>2. j \in Jobs /\ j.left = c.left /\ j.status = c.status
      BY <1>2, <2>1 DEF Jobs
    <2>3. job' = [job EXCEPT ![s] = j]
      BY <1>1, <1>4, <2>1 DEF LeaseRunsOut
    <2> QED BY <1>1, <1>4, <2>2, <2>3, JobOnlySafe DEF LeaseRunsOut
  <1>5. CASE RetryDeletion(s)
    <2>1. PICK j : j = [c EXCEPT !.status = "pending"]
      OBVIOUS
    <2>2. j \in Jobs /\ j.left = c.left
      BY <1>2, <2>1 DEF Jobs
    <2>3. job' = [job EXCEPT ![s] = j] /\ c.status = "failed"
      BY <1>1, <1>5, <2>1 DEF RetryDeletion
    <2> QED BY <1>1, <1>5, <2>2, <2>3, JobOnlySafe DEF RetryDeletion
  <1> QED BY <1>3, <1>4, <1>5

LEMMA DeletionStep == DeletionInv /\ [DeletionNext]_deletionVars => DeletionInv'
  <1> SUFFICES ASSUME DeletionInv, [DeletionNext]_deletionVars PROVE DeletionInv'
    OBVIOUS
  <1>1. ASSUME NEW w \in Writers, NEW s \in Scopes, NEW o \in Objects, StartStoring(w, s, o)
        PROVE  DeletionInv'
    BY <1>1, StartStoringSafe
  <1>2. ASSUME NEW w \in Writers, FinishStoring(w) \/ RecordUpload(w)
        PROVE  DeletionInv'
    BY <1>2, FinishStoringSafe, RecordUploadSafe
  <1>7. ASSUME NEW s \in Groups, NEW o \in Objects, StoreLate(s, o)
        PROVE  DeletionInv'
    BY <1>7, StoreLateSafe
  <1>3. ASSUME NEW s \in Scopes, BeginDeletion(s) \/ Renew(s) \/ LeaseRunsOut(s) \/ RetryDeletion(s)
        PROVE  DeletionInv'
    BY <1>3, BeginDeletionSafe, RenewSafe
  <1>4. ASSUME NEW w \in DeletionWorkers, NEW s \in Scopes, ClaimJob(w, s)
        PROVE  DeletionInv'
    BY <1>4, ClaimJobSafe
  <1>5. ASSUME NEW w \in DeletionWorkers, RoundStep(w) \/ FailRound(w) \/ DieInRound(w)
        PROVE  DeletionInv'
    BY <1>4, <1>5, ListKeysSafe, EndRoundSafe, DeleteRecordsSafe, PurgeSafe DEF RoundStep, Scopes
  <1>6. CASE UNCHANGED deletionVars
    <2> USE <1>6 DEF deletionVars
    <2>1. DeletionTypeOK' /\ FinitelyMany' /\ JobsAreFrozen'
      BY DEF DeletionInv, DeletionTypeOK, FinitelyMany, JobsAreFrozen
    <2>2. RoundsAreQuiet' /\ NothingLeftBehind'
      BY DEF DeletionInv, RoundsAreQuiet, Quiet, NothingLeftBehind, WritersOf
    <2>3. EmptyRoundsFoundNothing'
      BY DEF DeletionInv, EmptyRoundsFoundNothing
    <2> QED BY <2>1, <2>2, <2>3 DEF DeletionInv
  <1> QED BY <1>1, <1>2, <1>3, <1>4, <1>5, <1>6, <1>7 DEF DeletionNext, Scopes

\* Whatever writers, workers that die or lose their lease, and renewals
\* interleave, for any batch and any number of them: when the records of a
\* project or an organization are deleted, no object whose storing began
\* before the deletion is left in storage or still being written
\* (project-deletion.service.ts, cleanup.service.ts).
THEOREM DeletionLeavesNothing == DeletionSpec => []NothingLeftBehind
  <1>1. DeletionInv => NothingLeftBehind
    BY DEF DeletionInv
  <1> QED BY <1>1, DeletionStarts, DeletionStep, PTL DEF DeletionSpec
=============================================================================
