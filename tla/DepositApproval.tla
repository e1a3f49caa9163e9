--------------------------- MODULE DepositApproval ---------------------------
(***************************************************************************)
(* The life of a member's payment (deposits.routes.ts): it is submitted    *)
(* against dues or as an advance, reviewed by an accountant and an         *)
(* approver or by an administrator alone, repaired when its dues have      *)
(* changed, and finally posted, rejected or removed.                       *)
(***************************************************************************)
EXTENDS LedgerState

\* The next free id: ids follow the order of creation.
NextDeposit(d) == /\ dep[d].status = "none"
                  /\ \A e \in Deposits : dep[e].status = "none" => d <= e

ReviewVersion(d) ==
  IF dep[d].kind = "advance"
  THEN VersionOf(due, {}, dep[d].amount, "advance")
  ELSE VersionOf(due, Linked(d), dep[d].amount, dep[d].kind)

\* can_confirm of depositReview: the dues D take the whole amount.
Covers(D, amount) == D # {} /\ amount <= TotalBalance(due, D)
CanConfirm(d) == dep[d].kind = "advance" \/ Covers(Linked(d), dep[d].amount)

-----------------------------------------------------------------------------
(* What posting writes (finalizeDepositConfirmation, and                   *)
(* finalizeAdvanceDepositConfirmation where D is empty).                   *)

\* Faults: the balance may pass the database's limit; it is overwritten.
CreditUnbounded(a, n) == balance' = [balance EXCEPT ![a] = @ + n]
CreditOverwrites(a, n) == /\ balance[a] + n <= MaxBalance
                          /\ balance' = [balance EXCEPT ![a] = n]

Credit(a, n) == /\ balance[a] + n <= MaxBalance
                /\ balance' = [balance EXCEPT ![a] = @ + n]

RecordEntry(d, type, a, n) ==
  entries' = [entries EXCEPT ![d] = Append(@, [type |-> type, account |-> a, amount |-> n])]

PostedAlloc(u, n, kind) ==
  [linked |-> TRUE, amount |-> n, exact |-> TRUE,
   principal |-> PrincipalShare(due[u], n, kind), penalty |-> PenaltyShare(due[u], n, kind)]

\* row is the deposit as its author or reviewer left it, D its dues.
PostDeposit(d, row, D) ==
  /\ receipt[d] = "none"
  /\ dep' = [dep EXCEPT ![d] = [row EXCEPT !.status = "confirmed"]]
  /\ receipt' = [receipt EXCEPT ![d] = "issued"]
  /\ Credit(row.account, row.amount)
  /\ RecordEntry(d, "deposit", row.account, row.amount)
  /\ \E p \in PlanDepositAllocation(due, D, Rank, row.amount) :
       /\ due' = [u \in Dues |-> IF u \in D THEN AllocatePayment(due[u], p[u], row.kind)
                                             ELSE due[u]]
       /\ alloc' = [alloc EXCEPT ![d] =
                      [u \in Dues |-> IF u \in D THEN PostedAlloc(u, p[u], row.kind)
                                                 ELSE NoAlloc]]

(***************************************************************************)
(* resolveCommitmentsForDeposit: the member's latest pending promise, else *)
(* the latest broken one, is kept if the deposits confirmed since it was   *)
(* made reach its amount or nothing is owed.  deps and rows are the        *)
(* deposits and dues as the transaction sees them.                         *)
(***************************************************************************)
PromisesOf(m, status) == {c \in Promises : promise[c].member = m /\ promise[c].status = status}
OpenPromise(m) ==
  LET pending == PromisesOf(m, "pending")
      broken  == PromisesOf(m, "broken")
  IN  IF pending # {} THEN {Max(pending)} ELSE IF broken # {} THEN {Max(broken)} ELSE {}

PaidSince(deps, c) ==
  SumOver([d \in Deposits |-> NonNegative(deps[d].amount - deps[d].refunded)],
          {d \in Deposits : /\ deps[d].member = promise[c].member
                            /\ deps[d].status = "confirmed"
                            /\ d \notin promise[c].older})

KeptBy(deps, rows, m) ==
  {c \in OpenPromise(m) : \/ PaidSince(deps, c) >= promise[c].amount
                          \/ Outstanding(rows, m) <= 0}

Keep(c, d) == [promise EXCEPT ![c].status = "kept", ![c].by = d]

-----------------------------------------------------------------------------
(* POST / and POST /advance *)

\* The dues named by schedule, or all that are unpaid (settle_all_dues); the
\* route and the dues are read before the transaction that creates the deposit.
StartSubmit(r) ==
  /\ "submit" \in Ops
  /\ req[r].pc = "idle"
  /\ \E m \in Members, n \in Amounts, k \in Priorities, a \in Accounts,
        byAccountant, finalize \in BOOLEAN :
       \E D \in (SUBSET DuesOf(m)) :
         /\ n <= TotalBalance(due, D)
         /\ finalize => "finalize" \in Ops
         /\ Become(r, [pc |-> "submit", member |-> m, amount |-> n, kind |-> k,
                       account |-> a, dues |-> D, route |-> route,
                       endorsed |-> route = "accountant" /\ byAccountant,
                       finalize |-> finalize])
  /\ UNCHANGED <<dep, alloc, receipt, entries, due, balance, spent, active, route, promise>>

StartSubmitAdvance(r) ==
  /\ "advance" \in Ops
  /\ req[r].pc = "idle"
  /\ \E m \in Members, n \in Amounts, a \in Accounts, byAccountant \in BOOLEAN :
       Become(r, [pc |-> "submit", member |-> m, amount |-> n, kind |-> "advance",
                  account |-> a, dues |-> {}, route |-> route,
                  endorsed |-> route = "accountant" /\ byAccountant,
                  finalize |-> FALSE])
  /\ UNCHANGED <<dep, alloc, receipt, entries, due, balance, spent, active, route, promise>>

SubmittedRow(q) ==
  [status   |-> IF q.route = "admin" \/ q.endorsed THEN "pending_approver"
                ELSE "pending_accountant",
   member   |-> q.member, amount |-> q.amount, kind |-> q.kind, account |-> q.account,
   route    |-> q.route, endorsed |-> q.endorsed, refunded |-> 0]

Submit(r) ==
  /\ req[r].pc = "submit" /\ ~req[r].finalize
  /\ \E d \in Deposits :
       /\ NextDeposit(d)
       /\ dep' = [dep EXCEPT ![d] = SubmittedRow(req[r])]
       /\ alloc' = [alloc EXCEPT ![d] =
                      [u \in Dues |-> IF u \in req[r].dues THEN Link ELSE NoAlloc]]
  /\ Become(r, Idle)
  /\ UNCHANGED <<receipt, entries, due, balance, spent, active, route, promise>>

\* Fault: the dues are not checked again.
FinalizeUnchecked(r) ==
  /\ req[r].pc = "submit" /\ req[r].finalize
  /\ \E d \in Deposits :
       /\ NextDeposit(d)
       /\ PostDeposit(d, SubmittedRow(req[r]), req[r].dues)
  /\ Become(r, Idle)
  /\ UNCHANGED <<spent, active, route, promise>>

\* An administrator's submission is created and finalized in one transaction,
\* which reads the dues again and fails if they no longer cover the payment.
SubmitAndFinalize(r) ==
  /\ req[r].pc = "submit" /\ req[r].finalize
  /\ \A u \in req[r].dues : UnlockedDue(u)
  /\ UnlockedAccount(req[r].account)
  /\ Covers(req[r].dues, req[r].amount)
  /\ \E d \in Deposits :
       /\ NextDeposit(d)
       /\ PostDeposit(d, SubmittedRow(req[r]), req[r].dues)
       /\ LET kept == KeptBy(dep', due', req[r].member)
          IN  promise' = IF kept = {} THEN promise ELSE Keep(Max(kept), d)
  /\ Become(r, Idle)
  /\ UNCHANGED <<spent, active, route>>

-----------------------------------------------------------------------------
(* POST /:id/approve and /:id/confirm *)

\* The reviewer may have loaded the breakdown first (allocation-preview) and
\* send its version; otherwise the handler makes a version of its own.
OpenReview(r) ==
  /\ "approve" \in Ops
  /\ req[r].pc = "idle"
  /\ \E d \in Deposits, given \in BOOLEAN :
       /\ dep[d].status \in Pending
       /\ given => "preview" \in Ops
       /\ Become(r, [pc |-> "review", dep |-> d, given |-> given,
                     seen |-> IF given THEN ReviewVersion(d)
                              ELSE VersionOf(Opening, {}, 0, "advance")])
  /\ UNCHANGED <<dep, alloc, receipt, entries, due, balance, spent, active, route, promise>>

\* The handler reads the deposit and, for one that awaits the accountant, the
\* project's route; from then on it goes by what it has read.
ReadDeposit(r) ==
  /\ req[r].pc = "review"
  /\ LET row    == dep[req[r].dep]
         direct == \/ row.route = "admin"
                   \/ row.status = "pending_accountant" /\ route = "admin"
         stage  == IF row.status = "pending_accountant" /\ ~direct
                   THEN "endorse" ELSE "confirm"
     IN  /\ row.status \in Pending
         /\ stage = "confirm" /\ row.kind = "advance" => row.endorsed \/ direct
         /\ Become(r, [pc |-> stage, dep |-> req[r].dep, given |-> req[r].given,
                       seen |-> req[r].seen, before |-> ReviewedOf(row), direct |-> direct])
  /\ UNCHANGED <<dep, alloc, receipt, entries, due, balance, spent, active, route, promise>>

\* Fault: the locked row is not compared with what was read.
LockWithoutComparing(r) == Unlocked(req[r].dep) /\ dep[req[r].dep].status \in Pending

\* lockReviewedDeposit
LockReviewedDeposit(r) ==
  /\ Unlocked(req[r].dep)
  /\ ReviewedOf(dep[req[r].dep]) = req[r].before

\* The accountant's stage: the deposit is endorsed, perhaps for another account.
Endorse(r) ==
  /\ req[r].pc = "endorse"
  /\ LET d == req[r].dep
     IN  /\ LockReviewedDeposit(r)
         /\ \A u \in DuesOf(dep[d].member) : UnlockedDue(u)
         /\ req[r].given => req[r].seen = ReviewVersion(d)
         /\ CanConfirm(d)
         /\ \E a \in Accounts :
              dep' = [dep EXCEPT ![d].status = "pending_approver",
                                 ![d].endorsed = TRUE, ![d].account = a]
  /\ Become(r, Idle)
  /\ UNCHANGED <<alloc, receipt, entries, due, balance, spent, active, route, promise>>

\* Before the transaction the handler reads the allocations and their dues,
\* compares them with the reviewer's version and plans the allocation.
PlanConfirmation(r) ==
  /\ req[r].pc = "confirm" /\ req[r].before.kind # "advance"
  /\ LET d == req[r].dep
         current == VersionOf(due, Linked(d), req[r].before.amount, req[r].before.kind)
     IN  /\ Covers(Linked(d), req[r].before.amount)
         /\ req[r].given => req[r].seen = current
         /\ Become(r, [req[r] EXCEPT !.pc = "planned", !.seen = current])
  /\ UNCHANGED <<dep, alloc, receipt, entries, due, balance, spent, active, route, promise>>

\* The transaction locks the deposit and its dues and compares both with what
\* was reviewed; it writes them and the account's balance, and only then reads
\* the rows it does not lock: promises, other deposits, other dues.
StillAsReviewed(r) ==
  LET d == req[r].dep
  IN  \/ /\ req[r].pc = "planned"
         /\ \A u \in Linked(d) : UnlockedDue(u)
         /\ req[r].seen = VersionOf(due, Linked(d), req[r].before.amount, req[r].before.kind)
      \/ /\ req[r].pc = "confirm" /\ req[r].before.kind = "advance"
         /\ req[r].given => req[r].seen = VersionOf(due, {}, req[r].before.amount, "advance")

\* The rows as this transaction will have written them, for its later reads.
DepsIfPosted(d) == [dep EXCEPT ![d].status = "confirmed"]
DuesIfPosted(d) ==
  IF dep[d].kind = "advance" THEN due
  ELSE LET p == CHOOSE q \in PlanDepositAllocation(due, Linked(d), Rank, dep[d].amount) : TRUE
       IN  [u \in Dues |-> IF u \in Linked(d) THEN AllocatePayment(due[u], p[u], dep[d].kind)
                                              ELSE due[u]]

LockForPosting(r) ==
  /\ req[r].pc \in {"planned", "confirm"}
  /\ LockReviewedDeposit(r)
  /\ StillAsReviewed(r)
  /\ UnlockedAccount(dep[req[r].dep].account)
  /\ LET d    == req[r].dep
         kept == KeptBy(DepsIfPosted(d), DuesIfPosted(d), dep[d].member)
     IN  Become(r, [pc |-> "posting", dep |-> d, before |-> req[r].before,
                    direct |-> req[r].direct,
                    keeps |-> IF kept = {} THEN 0 ELSE Max(kept)])
  /\ UNCHANGED <<dep, alloc, receipt, entries, due, balance, spent, active, route, promise>>

Post(r) ==
  /\ Posting(r)
  /\ LET d == req[r].dep
     IN  /\ dep[d].status = req[r].before.status
         /\ PostDeposit(d, dep[d], IF dep[d].kind = "advance" THEN {} ELSE Linked(d))
         /\ promise' = IF req[r].keeps = 0 THEN promise ELSE Keep(req[r].keeps, d)
  /\ Become(r, Idle)
  /\ UNCHANGED <<spent, active, route>>

-----------------------------------------------------------------------------
(* POST /:id/reject and DELETE /:id.  Both write only while the status is   *)
(* the one they require, so that reading it earlier lets nothing more pass. *)

CloseDeposit(d, status) ==
  /\ dep[d].status \in Pending
  /\ Unlocked(d)
  /\ dep' = [dep EXCEPT ![d].status = status]

Reject(d) ==
  /\ "reject" \in Ops
  /\ CloseDeposit(d, "rejected")
  /\ UNCHANGED <<alloc, receipt, entries, due, balance, spent, active, route, promise, req>>

Remove(d) ==
  /\ "remove" \in Ops
  /\ CloseDeposit(d, "removed")
  /\ alloc' = [alloc EXCEPT ![d] = [u \in Dues |-> NoAlloc]]
  /\ UNCHANGED <<receipt, entries, due, balance, spent, active, route, promise, req>>

-----------------------------------------------------------------------------
(* POST /:id/resolve-allocation: a payment its dues no longer cover is      *)
(* pointed at the member's other dues or made an advance, and goes back to  *)
(* the first review stage.  The versions the administrator sends must be    *)
(* those of the rows this transaction reads, so they add no condition.      *)

\* Fault: the payment stays in the stage it had reached.
ResolvedInPlace(d, kind) == [dep[d] EXCEPT !.kind = kind, !.endorsed = FALSE]

ResolvedRow(d, kind) ==
  [dep[d] EXCEPT !.kind = kind, !.endorsed = FALSE,
                 !.status = IF dep[d].route = "accountant" THEN "pending_accountant"
                            ELSE "pending_approver"]

Reassigned(D, amount) ==
  LET p == CHOOSE q \in PlanDepositAllocation(due, D, Rank, amount) : TRUE
  IN  [u \in Dues |-> IF u \in D /\ p[u] > 0 THEN Link ELSE NoAlloc]

ResolveAllocation(d) ==
  /\ "resolve" \in Ops
  /\ dep[d].status \in Pending /\ dep[d].kind # "advance"
  /\ Unlocked(d) /\ \A u \in DuesOf(dep[d].member) : UnlockedDue(u)
  /\ ~CanConfirm(d)
  /\ \/ /\ Covers(UnpaidDues(dep[d].member), dep[d].amount)
        /\ dep' = [dep EXCEPT ![d] = ResolvedRow(d, dep[d].kind)]
        /\ alloc' = [alloc EXCEPT ![d] = Reassigned(UnpaidDues(dep[d].member), dep[d].amount)]
     \/ /\ dep' = [dep EXCEPT ![d] = ResolvedRow(d, "advance")]
        /\ alloc' = [alloc EXCEPT ![d] = [u \in Dues |-> NoAlloc]]
  /\ UNCHANGED <<receipt, entries, due, balance, spent, active, route, promise, req>>

-----------------------------------------------------------------------------
\* An administrator changes the review setting, or the project's only
\* accountant leaves or arrives.
ChangeRoute ==
  /\ "route" \in Ops
  /\ route' \in Routes \ {route}
  /\ UNCHANGED <<dep, alloc, receipt, entries, due, balance, spent, active, promise, req>>

ApprovalNext ==
  \/ \E r \in Requests : \/ StartSubmit(r) \/ StartSubmitAdvance(r)
                         \/ Submit(r) \/ SubmitAndFinalize(r)
                         \/ OpenReview(r) \/ ReadDeposit(r) \/ Endorse(r)
                         \/ PlanConfirmation(r) \/ LockForPosting(r) \/ Post(r)
  \/ \E d \in Deposits : Reject(d) \/ Remove(d) \/ ResolveAllocation(d)
  \/ ChangeRoute
==============================================================================
