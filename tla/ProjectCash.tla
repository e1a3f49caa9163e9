---------------------------- MODULE ProjectCash -----------------------------
(***************************************************************************)
(* The cash book of a project: its cash and bank accounts, the documents   *)
(* that move their money (expenses, sales, purchases, incomes, transfers   *)
(* and adjustments) and the requests in progress, and what must hold of    *)
(* the accounts.  Handlers that change an account do so in one database    *)
(* transaction, which here is one step; what they read before it is kept   *)
(* in the request and may be stale when the transaction runs.              *)
(*                                                                         *)
(* An expense (expenses.routes.ts, expense-submit.service.ts): recorded by *)
(* an administrator it is paid at once; by an accountant it awaits         *)
(* disbursement; by others, as a recurring bill or from a draft it awaits  *)
(* review.  Paid, it can be reversed.                                      *)
(*                                                                         *)
(* Sales and purchases (sales.routes.ts, purchases.routes.ts), incomes,    *)
(* transfers between accounts and manual adjustments are here as far as    *)
(* they move cash.  The stock they move is not part of this model.         *)
(***************************************************************************)
EXTENDS Integers, Sequences, FiniteSets, FiniteSetsExt

CONSTANTS
  Accounts, Expenses, Sales, Purchases, Incomes, Users, Requests,
  Roles,       \* the roles each user has
  Flow,        \* the tenant's expenseApprovalFlow
  Opening,     \* the balance each account is opened with
  Amounts,     \* the amounts that documents and requests name
  MaxBalance,  \* the largest balance the database holds
  MaxEntries,  \* bound: the entries an account may reach
  Ops          \* the operations this instance allows

Docs == Expenses \cup Sales \cup Purchases \cup Incomes
NoAccount == "no account"
Nobody    == "nobody"

ASSUME CashAssumption ==
  /\ Opening \in [Accounts -> 0..MaxBalance]
  /\ Amounts \subseteq Nat \ {0}
  /\ MaxBalance \in Nat /\ MaxEntries \in Nat
  /\ Roles \in [Users -> SUBSET {"owner", "admin", "accountant", "approver", "cashier"}]
  /\ Flow \in {"accountant_only", "accountant_and_approver"}
  /\ NoAccount \notin Accounts /\ Nobody \notin Users
  /\ {"transfer", "adjustment", "income"} \cap Docs = {}
  /\ Expenses \cap (Sales \cup Purchases \cup Incomes) = {}
  /\ Sales \cap (Purchases \cup Incomes) = {} /\ Purchases \cap Incomes = {}
  /\ IsFiniteSet(Accounts)

VARIABLES balance, statement, doc, req
vars == <<balance, statement, doc, req>>

Statuses == {"none", "draft", "pending", "approved", "paid", "rejected", "reversed",
             "completed", "ordered", "received", "cancelled", "posted"}
\* by created the document, approved and paid approved and disbursed it; it
\* names an account and was paid from, or into, another or the same.
DocRow == [status : Statuses, amount : Amounts \cup {0}, account : Accounts \cup {NoAccount},
           paidFrom : Accounts \cup {NoAccount}, repeats : BOOLEAN,
           by : Users \cup {Nobody}, approved : Users \cup {Nobody}, paid : Users \cup {Nobody}]
NoDoc == [status |-> "none", amount |-> 0, account |-> NoAccount, paidFrom |-> NoAccount,
          repeats |-> FALSE, by |-> Nobody, approved |-> Nobody, paid |-> Nobody]

\* An AccountTransaction: what it is for, its signed amount and balanceAfter.
EntryRow == [for : Docs \cup {"transfer", "adjustment", "income"},
             type : {"original", "reversal"}, amount : Int, after : Int]

\* A handler between what it read (row, and its view of the balance) and its
\* transaction.
Idle == [pc |-> "idle"]
DocSteps == {"approve", "reject", "disburse", "receive", "cancel purchase", "cancel sale"}
DocReq  == [pc : DocSteps, doc : Docs, row : DocRow, user : Users \cup {Nobody},
            account : Accounts \cup {NoAccount}]
CashReq == [pc : {"transfer", "adjust"}, from : Accounts, to : Accounts,
            amount : Amounts, sign : {1, -1}, seen : Int]
Request == {Idle} \cup DocReq \cup CashReq

Become(r, q) == req' = [req EXCEPT ![r] = q]

-----------------------------------------------------------------------------
(* Posting: the balance moves and one entry per account records it. *)

Admin(u)     == Roles[u] \cap {"owner", "admin"} # {}
Affords(a, n) == balance[a] >= n
On(a, n)     == [b \in Accounts |-> IF b = a THEN n ELSE 0]

Post(what, type, lines) ==
  /\ \A a \in Accounts : /\ lines[a] # 0 => Len(statement[a]) < MaxEntries
                         /\ balance[a] + lines[a] \in (-MaxBalance - 1)..MaxBalance
  /\ balance' = [a \in Accounts |-> balance[a] + lines[a]]
  /\ statement' = [a \in Accounts |->
       IF lines[a] = 0 THEN statement[a]
       ELSE Append(statement[a], [for |-> what, type |-> type, amount |-> lines[a],
                                  after |-> balance[a] + lines[a]])]

\* The transactions found under a document's own reference type.
Of(d, a, type) ==
  {i \in DOMAIN statement[a] : statement[a][i].for = d /\ statement[a][i].type = type}

\* An opening balance is posted as an income when the account is created.
Opened(a) == IF Opening[a] = 0 THEN <<>>
             ELSE << [for |-> "income", type |-> "original",
                      amount |-> Opening[a], after |-> Opening[a]] >>

Init ==
  /\ balance = Opening
  /\ statement = [a \in Accounts |-> Opened(a)]
  /\ doc = [d \in Docs |-> NoDoc]
  /\ req = [r \in Requests |-> Idle]

\* A check fails, the database aborts the transaction, or the process dies.
GiveUp(r) == /\ req[r] # Idle
             /\ Become(r, Idle)
             /\ UNCHANGED <<balance, statement, doc>>

-----------------------------------------------------------------------------
(* Expenses. *)

CanReview(u) ==
  \/ Admin(u)
  \/ IF Flow = "accountant_only" THEN "accountant" \in Roles[u] ELSE "approver" \in Roles[u]

Recorded(status, u, a, n, repeats) ==
  [NoDoc EXCEPT !.status = status, !.amount = n, !.account = a, !.by = u, !.repeats = repeats,
                !.approved = IF status \in {"approved", "paid"} THEN u ELSE Nobody,
                !.paid     = IF status = "paid" THEN u ELSE Nobody,
                !.paidFrom = IF status = "paid" THEN a ELSE NoAccount]

\* Money leaves at once, while the account holds it.
RecordPaid(e, u, a, n) ==
  /\ Affords(a, n)
  /\ Post(e, "original", On(a, -n))
  /\ doc' = [doc EXCEPT ![e] = Recorded("paid", u, a, n, FALSE)]

RecordUnpaid(e, row) ==
  /\ doc' = [doc EXCEPT ![e] = row]
  /\ UNCHANGED <<balance, statement>>

\* POST /expenses: a repeating expense is reviewed whoever records it.
RecordExpense(e, u) ==
  /\ "expense" \in Ops /\ doc[e].status = "none" /\ UNCHANGED req
  /\ \E a \in Accounts, n \in Amounts :
       \/ Admin(u) /\ RecordPaid(e, u, a, n)
       \/ /\ ~Admin(u)
          /\ RecordUnpaid(e, Recorded(IF "accountant" \in Roles[u] THEN "approved" ELSE "pending",
                                      u, a, n, FALSE))
       \/ RecordUnpaid(e, Recorded("pending", u, a, n, TRUE))

\* saveReviewedExpense: a draft need not name an account; what is posted does.
SaveReviewed(e, u) ==
  /\ "draft" \in Ops /\ doc[e].status = "none" /\ UNCHANGED req
  /\ \E n \in Amounts :
       \/ \E a \in Accounts \cup {NoAccount} : RecordUnpaid(e, Recorded("draft", u, a, n, FALSE))
       \/ \E a \in Accounts :
            \/ Admin(u)  /\ RecordPaid(e, u, a, n)
            \/ ~Admin(u) /\ RecordUnpaid(e, Recorded("pending", u, a, n, FALSE))

\* submitDraftExpense, under Serializable: a retry finds no draft to submit.
SubmitDraft(e, u) ==
  /\ "draft" \in Ops /\ doc[e].status = "draft"
  /\ Admin(u) \/ (doc[e].by = u /\ Roles[u] \cap {"accountant", "cashier"} # {})
  /\ \E a \in Accounts :
       IF Admin(u)
       THEN /\ Affords(a, doc[e].amount)
            /\ Post(e, "original", On(a, -doc[e].amount))
            /\ doc' = [doc EXCEPT ![e].status = "paid", ![e].account = a, ![e].paidFrom = a,
                                  ![e].approved = u, ![e].paid = u]
       ELSE /\ doc' = [doc EXCEPT ![e].status = "pending", ![e].account = a]
            /\ UNCHANGED <<balance, statement>>
  /\ UNCHANGED req

-----------------------------------------------------------------------------
(* Review.  Each handler reads the expense, and its account, first. *)

Take(r, pc, d, u, a) ==
  /\ req[r] = Idle
  /\ Become(r, [pc |-> pc, doc |-> d, row |-> doc[d], user |-> u, account |-> a])
  /\ UNCHANGED <<balance, statement, doc>>

StartApprove(r, e, u) ==
  /\ "approve" \in Ops /\ CanReview(u)
  /\ doc[e].status = "pending" /\ doc[e].account # NoAccount
  /\ Affords(doc[e].account, doc[e].amount)
  /\ Take(r, "approve", e, u, doc[e].account)

StartReject(r, e, u) ==
  /\ "reject" \in Ops /\ CanReview(u)
  /\ doc[e].status = "pending"
  /\ Take(r, "reject", e, u, NoAccount)

StartDisburse(r, e, u) ==
  /\ "disburse" \in Ops /\ doc[e].status = "approved"
  /\ Admin(u) \/ ("accountant" \in Roles[u] /\ doc[e].approved # doc[e].by)
  /\ \E a \in Accounts : /\ Affords(a, doc[e].amount)
                         /\ Take(r, "disburse", e, u, a)

\* Fault: the claim is by id alone.
PayUnclaimed(r, claimed, row) ==
  /\ Affords(req[r].account, req[r].row.amount)
  /\ doc' = [doc EXCEPT ![req[r].doc] = row]
  /\ Post(req[r].doc, "original", On(req[r].account, -req[r].row.amount))
  /\ Become(r, Idle)

\* The document is claimed in the status it was read in, then the account
\* debited while it holds the amount, and the payment recorded.
Pay(r, claimed, row) ==
  /\ doc[req[r].doc].status = claimed
  /\ Affords(req[r].account, req[r].row.amount)
  /\ doc' = [doc EXCEPT ![req[r].doc] = row]
  /\ Post(req[r].doc, "original", On(req[r].account, -req[r].row.amount))
  /\ Become(r, Idle)

CommitApprove(r) ==
  /\ req[r].pc = "approve"
  /\ Pay(r, "pending", [doc[req[r].doc] EXCEPT !.status = "paid", !.approved = req[r].user,
                          !.paid = req[r].user, !.paidFrom = req[r].account])

CommitDisburse(r) ==
  /\ req[r].pc = "disburse"
  /\ Pay(r, "approved", [doc[req[r].doc] EXCEPT !.status = "paid",
                           !.paid = req[r].user, !.paidFrom = req[r].account])

\* The rejection updates the expense by its id, whatever it has become.
CommitReject(r) ==
  /\ req[r].pc = "reject"
  /\ doc' = [doc EXCEPT ![req[r].doc].status = "rejected"]
  /\ Become(r, Idle)
  /\ UNCHANGED <<balance, statement>>

-----------------------------------------------------------------------------
(* Reversal of an expense or an income (plan and reverseTransaction, under *)
(* Serializable): exactly one original transaction, not yet reversed, of   *)
(* the document's amount, and an account that can take the opposite one.   *)
Reversible(d, a, i) ==
  /\ Of(d, a, "original") = {i} /\ Of(d, a, "reversal") = {}
  /\ \A b \in Accounts \ {a} : Of(d, b, "original") = {}
  /\ IF d \in Expenses
     THEN /\ doc[d].status = "paid" /\ ~doc[d].repeats
          /\ statement[a][i].amount = -doc[d].amount
     ELSE Affords(a, statement[a][i].amount)

Reverse(d) ==
  /\ "reverse" \in Ops
  /\ \E a \in Accounts : \E i \in DOMAIN statement[a] :
       /\ Reversible(d, a, i)
       /\ Post(d, "reversal", On(a, -statement[a][i].amount))
  /\ doc' = [doc EXCEPT ![d].status = "reversed"]
  /\ UNCHANGED req

ExpenseNext ==
  \/ \E e \in Expenses, u \in Users : RecordExpense(e, u) \/ SaveReviewed(e, u) \/ SubmitDraft(e, u)
  \/ \E r \in Requests, e \in Expenses, u \in Users :
       StartApprove(r, e, u) \/ StartReject(r, e, u) \/ StartDisburse(r, e, u)
  \/ \E r \in Requests : CommitApprove(r) \/ CommitDisburse(r) \/ CommitReject(r)
  \/ \E d \in Expenses \cup Incomes : Reverse(d)

-----------------------------------------------------------------------------
(* Sales, purchases, incomes, transfers and adjustments. *)

Written(status, a, n, from) ==
  [NoDoc EXCEPT !.status = status, !.account = a, !.amount = n, !.paidFrom = from]

RecordSale(s) ==
  /\ "sale" \in Ops /\ doc[s].status = "none"
  /\ \E a \in Accounts, n \in Amounts :
       /\ doc' = [doc EXCEPT ![s] = Written("completed", a, n, a)]
       /\ Post(s, "original", On(a, n))
  /\ UNCHANGED req

StartCancelSale(r, s) ==
  /\ "sale" \in Ops /\ doc[s].status = "completed"
  /\ Affords(doc[s].account, doc[s].amount)
  /\ Take(r, "cancel sale", s, Nobody, doc[s].account)

\* Fault: the balance was checked when the sale was read.
CancelSaleUnchecked(r) ==
  /\ req[r].pc = "cancel sale"
  /\ doc[req[r].doc].status = "completed"
  /\ doc' = [doc EXCEPT ![req[r].doc].status = "cancelled"]
  /\ Post(req[r].doc, "reversal", On(req[r].account, -req[r].row.amount))
  /\ Become(r, Idle)

CommitCancelSale(r) ==
  /\ req[r].pc = "cancel sale"
  /\ doc[req[r].doc].status = "completed"
  /\ Affords(req[r].account, req[r].row.amount)
  /\ doc' = [doc EXCEPT ![req[r].doc].status = "cancelled"]
  /\ Post(req[r].doc, "reversal", On(req[r].account, -req[r].row.amount))
  /\ Become(r, Idle)

OrderPurchase(p) ==
  /\ "purchase" \in Ops /\ doc[p].status = "none"
  /\ \E a \in Accounts \cup {NoAccount}, n \in Amounts :
       doc' = [doc EXCEPT ![p] = Written("ordered", a, n, NoAccount)]
  /\ UNCHANGED <<balance, statement, req>>

\* The receiver may name another account than the order.
StartReceive(r, p) ==
  /\ "purchase" \in Ops /\ doc[p].status = "ordered"
  /\ \E a \in Accounts : /\ Affords(a, doc[p].amount)
                         /\ Take(r, "receive", p, Nobody, a)

CommitReceive(r) ==
  /\ req[r].pc = "receive"
  /\ Pay(r, "ordered", [doc[req[r].doc] EXCEPT !.status = "received",
                          !.account = req[r].account, !.paidFrom = req[r].account])

StartCancelPurchase(r, p) ==
  /\ "purchase" \in Ops /\ doc[p].status = "ordered"
  /\ Take(r, "cancel purchase", p, Nobody, NoAccount)

CommitCancelPurchase(r) ==
  /\ req[r].pc = "cancel purchase"
  /\ doc[req[r].doc].status = "ordered"
  /\ doc' = [doc EXCEPT ![req[r].doc].status = "cancelled"]
  /\ Become(r, Idle)
  /\ UNCHANGED <<balance, statement>>

\* An income is one entry; its request key finds it again, so that a retry
\* returns it.  The balance is compared with the database's largest.
RecordIncome(i) ==
  /\ "income" \in Ops /\ doc[i].status = "none"
  /\ \E a \in Accounts, n \in Amounts :
       /\ balance[a] <= MaxBalance - n
       /\ doc' = [doc EXCEPT ![i] = Written("posted", a, n, a)]
       /\ Post(i, "original", On(a, n))
  /\ UNCHANGED req

-----------------------------------------------------------------------------
(* Cash without a document. *)

StartTransfer(r) ==
  /\ "transfer" \in Ops /\ req[r] = Idle
  /\ \E a, b \in Accounts, n \in Amounts :
       /\ a # b /\ Affords(a, n)
       /\ Become(r, [pc |-> "transfer", from |-> a, to |-> b, amount |-> n, sign |-> 1,
                     seen |-> balance[a]])
  /\ UNCHANGED <<balance, statement, doc>>

\* Fault: the balance was compared before the transaction.
TransferUnchecked(r) ==
  /\ req[r].pc = "transfer"
  /\ Post("transfer", "original", [a \in Accounts |-> IF a = req[r].from THEN -req[r].amount
                                    ELSE IF a = req[r].to THEN req[r].amount ELSE 0])
  /\ Become(r, Idle) /\ UNCHANGED doc

TransferLines(q) ==
  [a \in Accounts |-> IF a = q.from THEN -q.amount ELSE IF a = q.to THEN q.amount ELSE 0]

CommitTransfer(r) ==
  /\ req[r].pc = "transfer"
  /\ Affords(req[r].from, req[r].amount)
  /\ Post("transfer", "original", TransferLines(req[r]))
  /\ Become(r, Idle) /\ UNCHANGED doc

\* A withdrawal is compared with the balance the handler has read.
StartAdjust(r) ==
  /\ "adjust" \in Ops /\ req[r] = Idle
  /\ \E a \in Accounts, n \in Amounts, sign \in {1, -1} :
       /\ sign = -1 => Affords(a, n)
       /\ Become(r, [pc |-> "adjust", from |-> a, to |-> a, amount |-> n, sign |-> sign,
                     seen |-> balance[a]])
  /\ UNCHANGED <<balance, statement, doc>>

\* Fault: the adjustment is computed from the balance that was read.
AdjustFromSeen(r) ==
  /\ req[r].pc = "adjust"
  /\ Len(statement[req[r].from]) < MaxEntries
  /\ LET after == req[r].seen + req[r].sign * req[r].amount
     IN  /\ balance' = [balance EXCEPT ![req[r].from] = after]
         /\ statement' = [statement EXCEPT ![req[r].from] =
              Append(@, [for |-> "adjustment", type |-> "original", after |-> after,
                         amount |-> req[r].sign * req[r].amount])]
  /\ Become(r, Idle) /\ UNCHANGED doc

CommitAdjust(r) ==
  /\ req[r].pc = "adjust"
  /\ Post("adjustment", "original", On(req[r].from, req[r].sign * req[r].amount))
  /\ Become(r, Idle) /\ UNCHANGED doc

TradeNext ==
  \/ \E s \in Sales : RecordSale(s)
  \/ \E p \in Purchases : OrderPurchase(p)
  \/ \E i \in Incomes : RecordIncome(i)
  \/ \E r \in Requests :
       \/ \E s \in Sales : StartCancelSale(r, s)
       \/ \E p \in Purchases : StartReceive(r, p) \/ StartCancelPurchase(r, p)
       \/ CommitCancelSale(r) \/ CommitReceive(r) \/ CommitCancelPurchase(r)
       \/ StartTransfer(r) \/ CommitTransfer(r) \/ StartAdjust(r) \/ CommitAdjust(r)

-----------------------------------------------------------------------------
Next ==
  \/ ExpenseNext
  \/ TradeNext
  \/ \E r \in Requests : GiveUp(r)

Spec == Init /\ [][Next]_vars

-----------------------------------------------------------------------------
\* Every table keeps to its type; no balance leaves the range of the
\* database's integers, because the update that would leave it fails.
TypeOK ==
  /\ balance \in [Accounts -> Int]
  /\ \A a \in Accounts : balance[a] \in (-MaxBalance - 1)..MaxBalance
  /\ statement \in [Accounts -> Seq(EntryRow)]
  /\ doc \in [Docs -> DocRow]
  /\ req \in [Requests -> Request]

\* The statement of an account explains its balance: every line carries the
\* balance it led to (balanceAfter), starting from nothing and ending at the
\* present one, in the order in which the lines were written.
StatementAgrees ==
  \A a \in Accounts :
    LET s == statement[a]
    IN  /\ \A i \in DOMAIN s :
             s[i].after = s[i].amount + (IF i = 1 THEN 0 ELSE s[i - 1].after)
        /\ balance[a] = IF s = <<>> THEN 0 ELSE s[Len(s)].after

\* A document's cash: whether its status says that money moved, and came
\* back, and the signed amount.
CashReturned(d) == doc[d].status = "reversed" \/ (doc[d].status = "cancelled" /\ d \in Sales)
CashMoved(d) == doc[d].status \in {"paid", "received", "completed", "posted"} \/ CashReturned(d)
Signed(d) == IF d \in Expenses \cup Purchases THEN -doc[d].amount ELSE doc[d].amount

\* The one line of its type that the document has on an account, or none.
Tells(d, a, type, happened, n) ==
  IF happened /\ a = doc[d].paidFrom
  THEN \E i \in DOMAIN statement[a] : Of(d, a, type) = {i} /\ statement[a][i].amount = n
  ELSE Of(d, a, type) = {}

\* A document's lines in the statements tell its status: paid once, then
\* reversed once, of its amount and on its account, and no money for a
\* document that waits, was refused or was given up.
DocumentCash ==
  \A d \in Docs :
    /\ CashMoved(d) => doc[d].paidFrom \in Accounts
    /\ \A a \in Accounts :
         /\ Tells(d, a, "original", CashMoved(d), Signed(d))
         /\ Tells(d, a, "reversal", CashReturned(d), -Signed(d))
         /\ \A i \in Of(d, a, "original"), j \in Of(d, a, "reversal") : i < j

\* No account is overdrawn: every debit is made while the account holds it.
NeverOverdrawn == \A a \in Accounts : balance[a] >= 0

\* Money leaves for an expense on the word of an administrator or of a role
\* the tenant's approval flow names; an accountant who may not review never
\* pays out what the same accountant posted.
PaidWithAuthority ==
  \A e \in Expenses :
    doc[e].status \in {"paid", "reversed"} => CanReview(doc[e].paid)

\* Transfers neither make nor lose money.
TransferLinesOf(a) == {i \in DOMAIN statement[a] : statement[a][i].for = "transfer"}
Total(f, S) == MapThenSumSet(LAMBDA x : f[x], S)
TransferTotal(a) ==
  Total([i \in TransferLinesOf(a) |-> statement[a][i].amount], TransferLinesOf(a))
TransfersCancelOut == Total([a \in Accounts |-> TransferTotal(a)], Accounts) = 0

\* A rejected expense has cost nothing: only pending expenses can be rejected.
\* It fails with two reviewers: the rejection is written by id.
RejectedCostsNothing ==
  \A e \in Expenses, a \in Accounts :
    doc[e].status = "rejected" => \A i \in DOMAIN statement[a] : statement[a][i].for # e

\* The accounts keep what AccountBook promises.
BookOf(a) == [i \in DOMAIN statement[a] |-> statement[a][i].amount]
B == INSTANCE AccountBook WITH cash <- balance, book <- [a \in Accounts |-> BookOf(a)]
KeepsBook == B!Spec

\* Documents and transfers account for the money that moved, and an expense
\* was paid by somebody who may.
PaidRight == DocumentCash /\ TransfersCancelOut /\ PaidWithAuthority
=============================================================================
