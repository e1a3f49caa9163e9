-------------------------- MODULE MemberSettlement --------------------------
(***************************************************************************)
(* What happens to dues and advances besides payments: a schedule bills    *)
(* the members and applies their advances (schedule-creation.service.ts),  *)
(* an accountant settles a member's balance (member-settlement.service.ts),*)
(* an approver waives a penalty (dues.routes.ts), and a member leaves.     *)
(*                                                                         *)
(* Billing runs at Read Committed: it reads the advances once, without     *)
(* locks.  Settling runs at Serializable: it reads one snapshot, and a row *)
(* it writes must not have been written by anyone since.                   *)
(***************************************************************************)
EXTENDS DepositApproval

TakeNothing == [d \in Deposits |-> [u \in Dues |-> 0]]
TheBooks    == [dep |-> dep, alloc |-> alloc, due |-> due, balance |-> balance]

-----------------------------------------------------------------------------
(* The loop both handlers run on their copy of the dues: the oldest advance *)
(* with money left pays the oldest due with a balance, penalty first.       *)

LeftOf(q, d) ==
  NonNegative(UnusedAdvance(q.was.dep[d], q.was.alloc[d]) - SumTaken(q.take[d]))

Applicable(q, D) ==
  {t \in Deposits \X D :
     /\ IsAdvanceOf(q.was.dep[t[1]], Owner(t[2]))
     /\ LeftOf(q, t[1]) > 0
     /\ CalculateDueBalance(q.due[t[2]]) > 0}

Earliest(S) ==
  CHOOSE t \in S : \A x \in S : t[1] < x[1] \/ (t[1] = x[1] /\ Rank[t[2]] <= Rank[x[2]])

ApplyAdvance(q, t) ==
  LET n == Lesser(LeftOf(q, t[1]), CalculateDueBalance(q.due[t[2]]))
  IN  [q EXCEPT !.due[t[2]] = AllocatePayment(@, n, "penalty_first"),
                !.take[t[1]][t[2]] = @ + n]

\* An advance's allocation row grows (upsert, increment) or is created; its
\* principal and penalty columns are left as they are.
AddTaken(q) ==
  [d \in Deposits |-> [u \in Dues |->
     IF q.take[d][u] > 0
     THEN [alloc[d][u] EXCEPT !.linked = TRUE, !.amount = @ + q.take[d][u]]
     ELSE alloc[d][u]]]

-----------------------------------------------------------------------------
(* createScheduleWithUnitAmount *)

BilledBy(s) == {u \in Dues : u[1] = s /\ u[2] \in active}

NewDue(unit, m) == [NoDue EXCEPT !.amount = unit * Shares[m], !.status = "due"]

StartBilling(r) ==
  /\ "bill" \in Ops
  /\ req[r].pc = "idle"
  /\ active # {}
  /\ \E s \in Schedules, unit \in Amounts :
       /\ \A u \in Dues : u[1] = s => due[u].status = "none"
       /\ \A q \in Requests : req[q].pc = "bill" => BilledBy(s) \cap req[q].dues = {}
       /\ Become(r, [pc |-> "bill", dues |-> BilledBy(s), was |-> TheBooks,
                     due  |-> [u \in Dues |-> IF u \in BilledBy(s)
                                              THEN NewDue(unit, Owner(u)) ELSE due[u]],
                     take |-> TakeNothing])
  /\ UNCHANGED <<dep, alloc, receipt, entries, due, balance, spent, active, route, promise>>

BillApply(r) ==
  /\ req[r].pc = "bill"
  /\ LET todo == Applicable(req[r], req[r].dues)
     IN  todo # {} /\ Become(r, ApplyAdvance(req[r], Earliest(todo)))
  /\ UNCHANGED <<dep, alloc, receipt, entries, due, balance, spent, active, route, promise>>

BillCommit(r) ==
  /\ req[r].pc = "bill"
  /\ Applicable(req[r], req[r].dues) = {}
  /\ due' = [u \in Dues |-> IF u \in req[r].dues THEN req[r].due[u] ELSE due[u]]
  /\ alloc' = AddTaken(req[r])
  /\ Become(r, Idle)
  /\ UNCHANGED <<dep, receipt, entries, balance, spent, active, route, promise>>

-----------------------------------------------------------------------------
(* settleMemberBalance *)

StartSettle(r) ==
  /\ "settle" \in Ops
  /\ req[r].pc = "idle"
  /\ \E m \in Members, apply, writeOff, refund \in BOOLEAN :
       /\ Awaiting(m) = {}
       /\ apply \/ writeOff \/ refund
       /\ Become(r, [pc |-> "settle", member |-> m, apply |-> apply,
                     writeOff |-> writeOff, refund |-> refund,
                     was |-> TheBooks, due |-> due, take |-> TakeNothing])
  /\ UNCHANGED <<dep, alloc, receipt, entries, due, balance, spent, active, route, promise>>

OwnDues(q) == {u \in Dues : Owner(u) = q.member /\ q.was.due[u].status # "none"}

ToApply(q) == IF q.apply THEN Applicable(q, OwnDues(q)) ELSE {}

SettleApply(r) ==
  /\ req[r].pc = "settle"
  /\ ToApply(req[r]) # {}
  /\ Become(r, ApplyAdvance(req[r], Earliest(ToApply(req[r]))))
  /\ UNCHANGED <<dep, alloc, receipt, entries, due, balance, spent, active, route, promise>>

WrittenOff(u) ==
  IF CalculateDueBalance(u) = 0 THEN u
  ELSE [u EXCEPT !.waived = @ + PrincipalBalance(u), !.penaltyDue = u.penaltyPaid,
                 !.status = "waived"]

SettledDue(q, u) == IF q.writeOff /\ u \in OwnDues(q) THEN WrittenOff(q.due[u]) ELSE q.due[u]

RefundOf(q, d) ==
  IF q.refund /\ IsAdvanceOf(q.was.dep[d], q.member) THEN LeftOf(q, d) ELSE 0
Refunded(q) == {d \in Deposits : RefundOf(q, d) > 0}
RefundFrom(q, a) ==
  SumOver([d \in Deposits |-> IF q.was.dep[d].account = a THEN RefundOf(q, d) ELSE 0], Deposits)

(***************************************************************************)
(* Serializable: a due the transaction writes, and the account it debits,  *)
(* must be as in its snapshot; so must the member's advances and their     *)
(* allocations to the dues of the snapshot, which only other Serializable  *)
(* transactions (another settlement, a reversal) change.  Allocations that *)
(* billing inserts for new dues are not seen and not detected.             *)
(***************************************************************************)
NoConflict(q) ==
  /\ \A u \in OwnDues(q) :
       SettledDue(q, u) # q.was.due[u] => due[u] = q.was.due[u] /\ UnlockedDue(u)
  /\ \A d \in Deposits : IsAdvanceOf(q.was.dep[d], q.member) =>
       /\ dep[d] = q.was.dep[d]
       /\ \A u \in OwnDues(q) : alloc[d][u] = q.was.alloc[d][u]
  /\ \A a \in Accounts :
       RefundFrom(q, a) > 0 => balance[a] = q.was.balance[a] /\ UnlockedAccount(a)

SettleCommit(r) ==
  /\ req[r].pc = "settle"
  /\ LET q == req[r]
     IN  /\ ToApply(q) = {}
         /\ \A a \in Accounts : RefundFrom(q, a) <= q.was.balance[a]
         /\ NoConflict(q)
         /\ due' = [u \in Dues |-> IF u \in OwnDues(q) /\ SettledDue(q, u) # q.was.due[u]
                                   THEN SettledDue(q, u) ELSE due[u]]
         /\ alloc' = AddTaken(q)
         /\ dep' = [d \in Deposits |->
                      IF d \in Refunded(q)
                      THEN [dep[d] EXCEPT !.refunded = @ + RefundOf(q, d)] ELSE dep[d]]
         /\ entries' = [d \in Deposits |->
                          IF d \in Refunded(q)
                          THEN Append(entries[d], [type |-> "advance_refund",
                                                   account |-> dep[d].account,
                                                   amount |-> RefundOf(q, d)])
                          ELSE entries[d]]
         /\ balance' = [a \in Accounts |-> balance[a] - RefundFrom(q, a)]
  /\ Become(r, Idle)
  /\ UNCHANGED <<receipt, spent, active, route, promise>>

-----------------------------------------------------------------------------
(* POST /dues/:id/penalty/waive: the row is read, then written back without *)
(* a condition.                                                             *)

StartWaive(r) ==
  /\ "waive" \in Ops
  /\ req[r].pc = "idle"
  /\ \E u \in Dues :
       /\ due[u].penaltyDue > due[u].penaltyPaid
       /\ Become(r, [pc |-> "waive", due |-> u, row |-> due[u]])
  /\ UNCHANGED <<dep, alloc, receipt, entries, due, balance, spent, active, route, promise>>

FullySettled(row) == row.paid + row.waived >= row.amount

WaivePenalty(r) ==
  /\ req[r].pc = "waive"
  /\ UnlockedDue(req[r].due)
  /\ LET row == req[r].row
     IN  due' = [due EXCEPT ![req[r].due].penaltyDue = row.penaltyPaid,
                            ![req[r].due].status =
                              IF FullySettled(row) THEN "paid" ELSE row.status]
  /\ Become(r, Idle)
  /\ UNCHANGED <<dep, alloc, receipt, entries, balance, spent, active, route, promise>>

-----------------------------------------------------------------------------
(* POST /:id/remove and the status changes of PATCH /:id (members.routes.ts)*)

\* assertMemberCanExit
CanExit(m) ==
  /\ UnpaidDues(m) = {} /\ Awaiting(m) = {}
  /\ \A d \in Deposits : IsAdvanceOf(dep[d], m) => UnusedAdvance(dep[d], alloc[d]) = 0

RemoveMember(m) ==
  /\ "exit" \in Ops
  /\ m \in active /\ CanExit(m)
  /\ active' = active \ {m}
  /\ UNCHANGED <<dep, alloc, receipt, entries, due, balance, spent, route, promise, req>>

ReactivateMember(m) ==
  /\ "exit" \in Ops
  /\ m \notin active
  /\ active' = active \cup {m}
  /\ UNCHANGED <<dep, alloc, receipt, entries, due, balance, spent, route, promise, req>>

SettlementNext ==
  \/ \E r \in Requests : \/ StartBilling(r) \/ BillApply(r) \/ BillCommit(r)
                         \/ StartSettle(r) \/ SettleApply(r) \/ SettleCommit(r)
                         \/ StartWaive(r) \/ WaivePenalty(r)
  \/ \E m \in Members : RemoveMember(m) \/ ReactivateMember(m)
==============================================================================
