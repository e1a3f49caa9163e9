----------------------------- MODULE LedgerState -----------------------------
(***************************************************************************)
(* The tables the member ledger shares: deposits with their allocations,   *)
(* receipts and cash entries, the members' dues, the accounts' balances    *)
(* and the payment commitments; and, for each HTTP request in progress,    *)
(* what its handler has read and not yet used.                             *)
(*                                                                         *)
(* A database transaction of the code is one step at its commit.  Reads    *)
(* the code makes before the transaction, reads of rows it does not lock,  *)
(* and the snapshot of a Serializable transaction are steps of their own,  *)
(* so that other requests can commit in between.                           *)
(***************************************************************************)
EXTENDS DueAllocation, Sequences

CONSTANTS
  Members,
  Schedules,   \* numbered by due date, then creation
  Deposits,    \* numbered in the order of creation
  Promises,    \* payment commitments, numbered in the order of creation
  Accounts,
  Requests,    \* the handlers that may run at the same time
  Amounts,     \* the amounts people enter
  Shares,      \* shares of each member: a schedule charges unit * shares
  Opening,     \* the dues on the books at the start
  Filed,       \* the deposits that await review at the start
  FiledDues,   \* and the dues they name
  Promised,    \* the payment commitments made before
  MaxBalance,  \* the largest Postgres integer
  Ops          \* the operations a run exercises

Dues     == Schedules \X Members
Owner(u) == u[2]
Rank     == [u \in Dues |-> u[1]]

VARIABLES
  dep,      \* deposits
  alloc,    \* depositAllocation rows, of each deposit for each due
  receipt,  \* the receipt of each deposit
  entries,  \* the account transactions that refer to each deposit
  due,      \* dues
  balance,  \* account balances
  spent,    \* money that left each account for other reasons
  active,   \* members with status "active"
  route,    \* where new deposits are reviewed: projectDepositRoute
  promise,  \* payment commitments
  req       \* requests in progress

vars == <<dep, alloc, receipt, entries, due, balance, spent, active, route, promise, req>>

-----------------------------------------------------------------------------
(* Rows. *)
DepositStatuses == {"none", "pending_accountant", "pending_approver",
                    "confirmed", "rejected", "reversed", "removed"}
Pending == {"pending_accountant", "pending_approver"}
Routes  == {"admin", "accountant"}
Kinds   == Priorities \cup {"advance"}

DepositRow ==
  [status : DepositStatuses, member : Members, amount : Nat, kind : Kinds,
   account : Accounts, route : Routes, endorsed : BOOLEAN, refunded : Nat]

\* The principal and penalty of an allocation are null (exact = FALSE) until a
\* confirmation posts it, and for every allocation of an advance.
AllocRow == [linked : BOOLEAN, amount : Nat, exact : BOOLEAN,
             principal : Nat, penalty : Nat]
NoAlloc  == [linked |-> FALSE, amount |-> 0, exact |-> FALSE, principal |-> 0, penalty |-> 0]
Link     == [NoAlloc EXCEPT !.linked = TRUE]

EntryTypes == {"deposit", "advance_refund", "deposit_reversal"}
EntryRow   == [type : EntryTypes, account : Accounts, amount : Nat]

\* "closed" stands for every resolution but by a deposit; by is the deposit
\* that kept the promise, 0 for none; older are the deposits created before it.
PromiseStatuses == {"none", "pending", "broken", "kept", "closed"}
PromiseRow == [status : PromiseStatuses, member : Members, amount : Nat,
               by : Deposits \cup {0}, older : SUBSET Deposits]

ASSUME LedgerAssumption ==
  /\ Schedules \subseteq Nat /\ IsFiniteSet(Schedules)
  /\ Deposits \subseteq Nat \ {0} /\ IsFiniteSet(Deposits)
  /\ Promises \subseteq Nat \ {0} /\ IsFiniteSet(Promises)
  /\ IsFiniteSet(Members)
  /\ Amounts \subseteq Nat \ {0}
  /\ Shares \in [Members -> Nat \ {0}]
  /\ MaxBalance \in Nat

ASSUME OpeningAssumption ==
  /\ Opening \in [Dues -> DueRow]
  /\ \A u \in Dues : /\ Opening[u].paid + Opening[u].waived <= Opening[u].amount
                     /\ Opening[u].penaltyPaid <= Opening[u].penaltyDue
                     /\ Opening[u].status = "none" => Opening[u] = NoDue
  /\ Filed \in [Deposits -> DepositRow]
  /\ FiledDues \in [Deposits -> SUBSET Dues]
  /\ \A d \in Deposits :
       /\ Filed[d].status \in Pending \cup {"none"} /\ Filed[d].refunded = 0
       /\ Filed[d].kind = "advance" => FiledDues[d] = {}
       /\ \A u \in FiledDues[d] : /\ Owner(u) = Filed[d].member
                                 /\ Opening[u].status # "none"
       /\ Filed[d].status = "pending_approver" /\ Filed[d].route = "accountant"
            => Filed[d].endorsed
  /\ Promised \in [Promises -> PromiseRow]
  /\ \A c \in Promises : /\ Promised[c].status \in {"none", "pending"}
                         /\ Promised[c].by = 0
  /\ \A c, e \in Promises : /\ Promised[c].status = "pending"
                            /\ Promised[e].status = "pending"
                            /\ Promised[c].member = Promised[e].member
                            => c = e

\* The books agree with themselves: a due reads as settled when it is, and
\* something was promised.
ASSUME BooksAssumption ==
  /\ \A u \in Dues : Opening[u].status # "none" =>
       (Opening[u].status \in {"paid", "waived"} <=> CalculateDueBalance(Opening[u]) = 0)
  /\ \A c \in Promises : Promised[c].status = "pending" => Promised[c].amount > 0

-----------------------------------------------------------------------------
(* What the handlers in progress hold. *)
Idle == [pc |-> "idle"]

MoneyRows == [Dues -> MoneyRow]
Version   == [amount : Nat, priority : Kinds, dues : SUBSET Dues, rows : MoneyRows]

\* The columns lockReviewedDeposit compares with what the handler has read.
Reviewed == [status : DepositStatuses, amount : Nat, kind : Kinds,
             member : Members, account : Accounts]
ReviewedOf(row) == [status |-> row.status, amount |-> row.amount, kind |-> row.kind,
                    member |-> row.member, account |-> row.account]

SubmitReq == [pc : {"submit"}, member : Members, amount : Nat, kind : Kinds,
              account : Accounts, dues : SUBSET Dues, route : Routes,
              endorsed : BOOLEAN, finalize : BOOLEAN]
OpenReq   == [pc : {"review"}, dep : Deposits, given : BOOLEAN, seen : Version]
ReadReq   == [pc : {"endorse", "confirm", "planned"}, dep : Deposits,
              given : BOOLEAN, seen : Version, before : Reviewed, direct : BOOLEAN]
PostReq   == [pc : {"posting"}, dep : Deposits, before : Reviewed,
              direct : BOOLEAN, keeps : Promises \cup {0}]
WaiveReq  == [pc : {"waive"}, due : Dues, row : DueRow]
MakeReq   == [pc : {"promise"}, member : Members, amount : Nat, open : SUBSET Promises,
              overdue : BOOLEAN]

\* A transaction that works on a copy: the snapshot it reads, the dues as it
\* will write them and what it takes from each advance for each due.
Taken     == [Deposits -> [Dues -> Nat]]
Snapshot  == [dep : [Deposits -> DepositRow], alloc : [Deposits -> [Dues -> AllocRow]],
              due : [Dues -> DueRow], balance : [Accounts -> Int]]
SettleReq == [pc : {"settle"}, member : Members, apply : BOOLEAN, writeOff : BOOLEAN,
              refund : BOOLEAN, was : Snapshot, due : [Dues -> DueRow], take : Taken]
BillReq   == [pc : {"bill"}, dues : SUBSET Dues, was : Snapshot,
              due : [Dues -> DueRow], take : Taken]

Request == {Idle} \cup SubmitReq \cup OpenReq \cup ReadReq \cup PostReq
             \cup WaiveReq \cup MakeReq \cup SettleReq \cup BillReq

-----------------------------------------------------------------------------
(* Quantities derived from the rows. *)
Linked(d)      == {u \in Dues : alloc[d][u].linked}
DuesOf(m)      == {u \in Dues : Owner(u) = m /\ due[u].status # "none"}
UnpaidDues(m)  == {u \in DuesOf(m) : CalculateDueBalance(due[u]) > 0}
Awaiting(m)    == {d \in Deposits : dep[d].member = m /\ dep[d].status \in Pending}

\* getMemberOutstanding leaves out the dues whose status says they are settled.
Outstanding(rows, m) ==
  TotalBalance(rows, {u \in Dues : /\ Owner(u) = m
                                   /\ rows[u].status \notin {"none", "paid", "waived"}})

SumTaken(row) == SumOver(row, Dues)
AllocatedOf(row) == SumOver([u \in Dues |-> row[u].amount], Dues)

\* Fault: what was refunded is forgotten.
UnusedWithRefunds(row, allocations) == NonNegative(row.amount - AllocatedOf(allocations))

\* calculateUnusedAdvance
UnusedAdvance(row, allocations) ==
  NonNegative(row.amount - AllocatedOf(allocations) - row.refunded)

IsAdvanceOf(row, m) == row.status = "confirmed" /\ row.kind = "advance" /\ row.member = m

-----------------------------------------------------------------------------
(* Row locks: a handler that posts has locked its deposit, the dues named  *)
(* by the deposit and the account it credits when it reads the rows it     *)
(* does not lock, and holds them until it commits.                         *)
Posting(r)    == req[r].pc = "posting"
Unlocked(d)   == \A r \in Requests : Posting(r) => req[r].dep # d
UnlockedDue(u) == \A r \in Requests :
                    Posting(r) => u \notin Linked(req[r].dep)
UnlockedAccount(a) == \A r \in Requests : Posting(r) => dep[req[r].dep].account # a

Become(r, q) == req' = [req EXCEPT ![r] = q]
==============================================================================
