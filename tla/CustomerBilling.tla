--------------------------- MODULE CustomerBilling ---------------------------
(***************************************************************************)
(* Customer billing (modules/billing): invoices, collections, advances and *)
(* the adjustments a second person decides.  Every operation is one        *)
(* serializable transaction (financialTransaction) and so one step here;   *)
(* an adjustment is requested in one and decided, on what the books hold   *)
(* by then, in another.                                                    *)
(*                                                                         *)
(* A slot is a request key: a second use of a taken slot returns the row   *)
(* it names and changes nothing.  The bulk runs are the second part.       *)
(***************************************************************************)
EXTENDS Integers, FiniteSets, SequencesExt, FiniteSetsExt

CONSTANTS
  Customers,
  Clerks,
  Bills,         \* 1..n: invoices, by due date
  Collections,   \* 1..n: payments, by payment date
  Adjustments,
  Sums,          \* the amounts of a request
  MaxMoney       \* MAX_MONEY, scaled down

ASSUME BillingAssumption ==
  /\ Bills = 1..Cardinality(Bills) /\ Collections = 1..Cardinality(Collections)
  /\ IsFiniteSet(Bills) /\ IsFiniteSet(Collections) /\ IsFiniteSet(Adjustments)
  /\ Sums \subseteq 1..MaxMoney /\ MaxMoney \in Nat

VARIABLES
  automatic,   \* settings.automatic_advance
  billed,      \* BillingInvoice rows
  received,    \* BillingPayment rows
  share,       \* unreleased BillingAllocation, summed by payment and invoice
  adjusted,    \* BillingAdjustment rows
  till         \* the account collections are received in
billingVars == <<automatic, billed, received, share, adjusted, till>>

NoRow == [status |-> "none"]
OnFile(rows) == {x \in DOMAIN rows : rows[x].status # "none"}
Issued == {i \in Bills : billed[i].status = "issued"}

BillingInit ==
  /\ automatic \in BOOLEAN
  /\ billed = [i \in Bills |-> NoRow]
  /\ received = [p \in Collections |-> NoRow]
  /\ share = [p \in Collections |-> [i \in Bills |-> 0]]
  /\ adjusted = [d \in Adjustments |-> NoRow]
  /\ till = 0

NetTotal(row) == row.total + row.debit + row.late - row.credit
Outstanding(row) == IF row.status = "issued" THEN NetTotal(row) - row.paid ELSE 0

-----------------------------------------------------------------------------
(* Allocation of payments to invoices. *)

\* allocate: amount moves from the payment to the invoice.
Allocate(books, p, i, amount) ==
  [billed |-> [books.billed EXCEPT ![i].paid = @ + amount],
   received |-> [books.received EXCEPT ![p].remaining = @ - amount],
   share |-> [books.share EXCEPT ![p][i] = @ + amount]]

\* Payments, and for each of them invoices, by date.
Oldest == [k \in 1..Cardinality(Collections) * Cardinality(Bills) |->
             <<((k - 1) \div Cardinality(Bills)) + 1, ((k - 1) % Cardinality(Bills)) + 1>>]
\* What one payment may still give to one invoice of the customer.
Fits(books, c, pi) ==
  LET p == books.received[pi[1]] i == books.billed[pi[2]]
  IN IF p.status # "none" /\ i.status = "issued" /\ p.customer = c /\ i.customer = c
       THEN Min({p.remaining, Outstanding(i)}) ELSE 0
Give(books, c, pi) ==
  IF Fits(books, c, pi) > 0 THEN Allocate(books, pi[1], pi[2], Fits(books, c, pi)) ELSE books
ApplyAdvance(books, c) == FoldLeft(LAMBDA b, pi : Give(b, c, pi), books, Oldest)

Books == [billed |-> billed, received |-> received, share |-> share]
Keep(books) == billed' = books.billed /\ received' = books.received /\ share' = books.share

-----------------------------------------------------------------------------
(* Requests. *)

Configure == automatic' = ~automatic /\ UNCHANGED <<billed, received, share, adjusted, till>>

\* POST /invoices.  fee is the late fee the plan's policy will charge.
IssueInvoice(c, i, total, fee) ==
  LET row == [status |-> "issued", customer |-> c, total |-> total, debit |-> 0, late |-> 0,
              credit |-> 0, paid |-> 0, fee |-> fee, charged |-> FALSE]
      books == [Books EXCEPT !.billed[i] = row]
  IN /\ billed[i] = NoRow
     /\ Keep(IF automatic THEN ApplyAdvance(books, c) ELSE books)
     /\ UNCHANGED <<automatic, adjusted, till>>

\* A row for a collection, and the account it is received in.
Receive(c, p, amount) ==
  /\ received[p] = NoRow /\ till + amount <= MaxMoney
  /\ till' = till + amount
  /\ UNCHANGED <<automatic, adjusted>>
WithPayment(c, p, amount) ==
  [Books EXCEPT !.received[p] = [status |-> "received", customer |-> c, amount |-> amount,
                                 remaining |-> amount, refunded |-> 0]]
\* POST /payments without allocations.
Collect(c, p, amount) ==
  Receive(c, p, amount) /\ Keep(ApplyAdvance(WithPayment(c, p, amount), c))
\* POST /payments with allocations: each within its invoice, together within the payment.
CollectFor(c, p, amount) ==
  /\ Receive(c, p, amount)
  /\ \E given \in [Bills -> Sums \cup {0}] :
       /\ SumFunction(given) \in 1..amount
       /\ \A i \in Bills : given[i] > 0 =>
            billed[i].status = "issued" /\ billed[i].customer = c /\ given[i] <= Outstanding(billed[i])
       /\ billed' = [i \in Bills |-> IF given[i] > 0 THEN [billed[i] EXCEPT !.paid = @ + given[i]] ELSE billed[i]]
       /\ received' = [WithPayment(c, p, amount).received EXCEPT ![p].remaining = amount - SumFunction(given)]
       /\ share' = [share EXCEPT ![p] = given]

\* POST /customers/:id/apply-advance
UseAdvance(c) == Keep(ApplyAdvance(Books, c)) /\ UNCHANGED <<automatic, adjusted, till>>

\* POST /adjustments.  The amount of a cancellation is what the invoice is for by now.
RequestOf(d, by, kind, of, amount) ==
  /\ adjusted[d] = NoRow
  /\ adjusted' = [adjusted EXCEPT ![d] =
       [status |-> "pending", by |-> by, kind |-> kind, of |-> of, amount |-> amount]]
  /\ UNCHANGED <<automatic, billed, received, share, till>>
RequestAdjustment(d, by) ==
  \/ \E i \in Issued, kind \in {"credit", "debit"}, amount \in Sums : RequestOf(d, by, kind, i, amount)
  \/ \E i \in Issued : RequestOf(d, by, "cancel", i, NetTotal(billed[i]))
  \/ \E p \in OnFile(received), amount \in Sums : RequestOf(d, by, "refund", p, amount)

-----------------------------------------------------------------------------
(* POST /adjustments/:id/decision *)

Refund(row) ==
  /\ row.amount <= Min({received[row.of].remaining, till})
  /\ received' = [received EXCEPT ![row.of] =
       [received[row.of] EXCEPT !.remaining = @ - row.amount, !.refunded = @ + row.amount]]
  /\ till' = till - row.amount
  /\ UNCHANGED <<billed, share>>

\* The invoice the reviewer cancels is the one the request was for.
Unchanged(row) == row.amount = NetTotal(billed[row.of])
\* Fault: the allocations of a cancelled invoice stay with it.
Forfeits(i) == [received |-> received, share |-> share]
\* The allocations of an invoice return to their payments.
Released(i) ==
  [received |-> [p \in Collections |->
     IF received[p] = NoRow THEN NoRow ELSE [received[p] EXCEPT !.remaining = @ + share[p][i]]],
   share |-> [p \in Collections |-> [share[p] EXCEPT ![i] = 0]]]
Cancel(row) ==
  /\ Unchanged(row)
  /\ received' = Released(row.of).received /\ share' = Released(row.of).share
  /\ billed' = [billed EXCEPT ![row.of] = [@ EXCEPT !.status = "cancelled", !.paid = 0]]
  /\ UNCHANGED till

Debit(row) ==
  /\ NetTotal(billed[row.of]) + row.amount <= MaxMoney /\ billed[row.of].debit + row.amount <= MaxMoney
  /\ billed' = [billed EXCEPT ![row.of].debit = @ + row.amount]
  /\ UNCHANGED <<received, share, till>>
\* Credit notes, waivers and write-offs.
Credit(row) ==
  /\ row.amount <= Outstanding(billed[row.of]) /\ billed[row.of].credit + row.amount <= MaxMoney
  /\ billed' = [billed EXCEPT ![row.of].credit = @ + row.amount]
  /\ UNCHANGED <<received, share, till>>

Decided(d, status) == adjusted' = [adjusted EXCEPT ![d].status = status] /\ UNCHANGED automatic
Reviewable(d, k) == adjusted[d].status = "pending" /\ adjusted[d].by # k
Reject(d, k) == Reviewable(d, k) /\ Decided(d, "rejected") /\ UNCHANGED <<billed, received, share, till>>
Approve(d, k) ==
  LET row == adjusted[d]
  IN /\ Reviewable(d, k) /\ Decided(d, "approved")
     /\ \/ row.kind = "refund" /\ Refund(row)
        \/ /\ row.kind # "refund" /\ billed[row.of].status = "issued"
           /\ \/ row.kind = "cancel" /\ Cancel(row)
              \/ row.kind = "debit" /\ Debit(row)
              \/ row.kind = "credit" /\ Credit(row)

\* POST /late-fees/apply for one overdue invoice, read again in its transaction.
ApplyLateFee(i) ==
  /\ i \in Issued /\ ~billed[i].charged /\ billed[i].fee > 0 /\ Outstanding(billed[i]) > 0
  /\ NetTotal(billed[i]) + billed[i].fee <= MaxMoney
  /\ billed' = [billed EXCEPT ![i] = [@ EXCEPT !.late = billed[i].fee, !.charged = TRUE]]
  /\ UNCHANGED <<automatic, received, share, adjusted, till>>

BillingNext ==
  \/ Configure
  \/ \E c \in Customers, i \in Bills, total \in Sums, fee \in {0, 1} : IssueInvoice(c, i, total, fee)
  \/ \E c \in Customers, p \in Collections, amount \in Sums :
       Collect(c, p, amount) \/ CollectFor(c, p, amount)
  \/ \E c \in Customers : UseAdvance(c)
  \/ \E d \in Adjustments, k \in Clerks : RequestAdjustment(d, k) \/ Approve(d, k) \/ Reject(d, k)
  \/ \E i \in Bills : ApplyLateFee(i)

BillingSpec == BillingInit /\ [][BillingNext]_billingVars

-----------------------------------------------------------------------------
Amounts == 0..MaxMoney
BillingTypeOK ==
  /\ automatic \in BOOLEAN /\ till \in 0..MaxMoney
  /\ \A i \in OnFile(billed) :
       billed[i] \in [status : {"issued", "cancelled"}, customer : Customers, total : Sums, debit : Amounts,
                      late : {0, 1}, credit : Amounts, paid : Amounts, fee : {0, 1}, charged : BOOLEAN]
  /\ \A p \in OnFile(received) :
       received[p] \in [status : {"received"}, customer : Customers, amount : Sums,
                        remaining : Amounts, refunded : Amounts]
  /\ \A d \in OnFile(adjusted) :
       adjusted[d] \in [status : {"pending", "approved", "rejected"}, by : Clerks, amount : Amounts,
                        kind : {"credit", "debit", "cancel", "refund"}, of : Bills \cup Collections]
  /\ share \in [Collections -> [Bills -> Amounts]]

\* Every collected sum is traced: what a payment still holds, what was refunded
\* of it and what invoices hold of it make up the payment, no invoice holds
\* more than it asks for, and the account holds what was not refunded.
\* (allocate, applyAdvance and decideAdjustment, billing.service.ts.)
CreditTraced ==
  /\ \A p \in OnFile(received) :
       received[p].amount = received[p].remaining + received[p].refunded + SumFunction(share[p])
  /\ \A i \in OnFile(billed) :
       /\ billed[i].paid = SumFunction([p \in Collections |-> share[p][i]])
       /\ Outstanding(billed[i]) >= 0
  /\ till = SumFunction([p \in OnFile(received) |-> received[p].amount - received[p].refunded])

RowsOf(c, rows) == {x \in OnFile(rows) : rows[x].customer = c}
\* The entries of ledger(): invoices and late fees, less payments, and approved
\* adjustments with their sign.
LedgerBalance(c) ==
  LET approved == {d \in OnFile(adjusted) : adjusted[d].status = "approved" /\
        adjusted[d].of \in RowsOf(c, IF adjusted[d].kind = "refund" THEN received ELSE billed)}
  IN SumFunction([i \in RowsOf(c, billed) |-> billed[i].total + billed[i].late])
     - SumFunction([p \in RowsOf(c, received) |-> received[p].amount])
     + SumFunction([d \in approved |-> IF adjusted[d].kind \in {"refund", "debit"}
                                         THEN adjusted[d].amount ELSE -adjusted[d].amount])

\* The closing balance a customer's statement derives from what happened is
\* what the rows say: invoices outstanding less unused advance, whatever was
\* cancelled, credited or refunded meanwhile (ledger, billing.reports.ts).
LedgerAgrees ==
  \A c \in Customers :
    LedgerBalance(c) = SumFunction([i \in RowsOf(c, billed) |-> Outstanding(billed[i])])
                       - SumFunction([p \in RowsOf(c, received) |-> received[p].remaining])

\* The rows, the statement and the account agree about every sum.
MoneyTraced == CreditTraced /\ LedgerAgrees

-----------------------------------------------------------------------------
(* Bulk invoice runs (processRun in billing.service.ts, billing.worker.ts, *)
(* and the routes that queue them).  A run fixes its assignments, and the  *)
(* worker of every process generates one invoice after another, each in a  *)
(* serializable transaction of its own.  What the transaction refuses is   *)
(* written to the run's results in a second one.  Meanwhile invoices of    *)
(* the same cycle are generated by hand, readings come in and assignments  *)
(* stop.  The runs have a state of their own: that a cycle is invoiced is  *)
(* all they tell of an invoice.                                            *)

CONSTANTS
  Assignments, Batches, BillingWorkers,
  Cycles       \* 1..n: billing months

ASSUME RunsAssumption == Cycles = 1..Cardinality(Cycles) /\ IsFiniteSet(Assignments)

VARIABLES
  plan,      \* BillingAssignment rows with their plan's mode
  meter,     \* BillingMeterReading: the cycles that are read
  cycles,    \* the cycles that have an invoice
  queue,     \* BillingRun rows
  hand,      \* each worker: the run it processes and the cursor it read
  access,    \* the project and the run's creator may still bill
  refused    \* history: what a generation of the run was refused for
runVars == <<plan, meter, cycles, queue, hand, access, refused>>

Unplanned == [mode |-> "none", from |-> 0, open |-> FALSE]
NoBatch == [status |-> "none", cycle |-> 0, ids |-> <<>>, cursor |-> 0, results |-> <<>>]
AtRest == [stage |-> "rest"]

RunsInit ==
  /\ plan = [a \in Assignments |-> Unplanned]
  /\ meter = [a \in Assignments |-> {}]
  /\ cycles = [a \in Assignments |-> [m \in Cycles |-> FALSE]]
  /\ queue = [r \in Batches |-> NoBatch]
  /\ hand = [w \in BillingWorkers |-> AtRest]
  /\ access = TRUE /\ refused = {}

-----------------------------------------------------------------------------
(* Plans, assignments and readings. *)

\* POST /assignments.  from is the cycle it starts in.
Assign(a, mode, from) ==
  /\ plan[a] = Unplanned
  /\ plan' = [plan EXCEPT ![a] = [mode |-> mode, from |-> from, open |-> TRUE]]
  /\ UNCHANGED <<meter, cycles, queue, hand, access, refused>>
\* PATCH of an assignment, its plan or its unit: whether it may be billed.
Switch(a) ==
  /\ plan[a] # Unplanned /\ plan' = [plan EXCEPT ![a].open = ~@]
  /\ UNCHANGED <<meter, cycles, queue, hand, access, refused>>

\* POST /meter-readings: in order, each from where the last one ended, and
\* never for a cycle that is invoiced.
RecordReading(a, m) ==
  /\ plan[a].mode = "usage" /\ ~cycles[a][m] /\ \A earlier \in meter[a] : earlier < m
  /\ meter' = [meter EXCEPT ![a] = @ \cup {m}]
  /\ UNCHANGED <<plan, cycles, queue, hand, access, refused>>

-----------------------------------------------------------------------------
(* generateAssignment *)

InCycle(a, m) == m >= plan[a].from /\ (plan[a].mode = "one_time" => m = plan[a].from)
Billable(a, m) == plan[a].open /\ InCycle(a, m) /\ (plan[a].mode = "usage" => m \in meter[a])
\* An invoice of the cycle is returned as it is.
Generates(a, m) == cycles[a][m] \/ Billable(a, m)
Invoiced(a, m) == cycles' = [cycles EXCEPT ![a][m] = TRUE]

\* POST /assignments/:id/invoice
GenerateOne(a, m) ==
  /\ Billable(a, m) /\ Invoiced(a, m) /\ UNCHANGED <<plan, meter, queue, hand, access, refused>>

-----------------------------------------------------------------------------
(* Runs. *)

\* POST /invoice-runs: the named assignments, or all that are open.
QueueRun(r, m, ids) ==
  /\ queue[r] = NoBatch
  /\ queue' = [queue EXCEPT ![r] =
       [NoBatch EXCEPT !.status = IF ids = <<>> THEN "completed" ELSE "queued", !.cycle = m, !.ids = ids]]
  /\ UNCHANGED <<plan, meter, cycles, hand, access, refused>>
Selections ==
  {SetToSeq({a \in Assignments : plan[a].open})}
    \cup {SetToSeq(S) : S \in SUBSET {a \in Assignments : plan[a] # Unplanned} \ {{}}}

Pending(r) == queue[r].status \in {"queued", "running"}
\* A round of the worker takes the run up, if billing is still allowed.
TakeUp(w, r) ==
  /\ hand[w] = AtRest /\ Pending(r) /\ access
  /\ hand' = [hand EXCEPT ![w] = [stage |-> "next", run |-> r]]
  /\ UNCHANGED <<plan, meter, cycles, queue, access, refused>>
Rest(w) == hand' = [hand EXCEPT ![w] = AtRest]
\* The run is read before its transaction.
LookAtRun(w) ==
  /\ hand[w].stage = "next"
  /\ IF Pending(hand[w].run)
       THEN hand' = [hand EXCEPT ![w] = [stage |-> "step", run |-> hand[w].run,
                                          cursor |-> queue[hand[w].run].cursor]]
       ELSE Rest(w)
  /\ UNCHANGED <<plan, meter, cycles, queue, access, refused>>

Counted(row, outcome) ==
  [row EXCEPT !.cursor = @ + 1,
              !.status = IF row.cursor + 1 = Len(row.ids) THEN "completed" ELSE "running",
              !.results = Append(@, [of |-> row.ids[row.cursor + 1], outcome |-> outcome])]
Go(w, stage) == hand' = [hand EXCEPT ![w].stage = stage]

\* The transaction, which reads the run again: a completed run ends the round.
StepRun(w) ==
  LET r == hand[w].run row == queue[r] a == row.ids[row.cursor + 1]
  IN /\ hand[w].stage = "step" /\ UNCHANGED <<plan, meter, access>>
     /\ \/ row.status = "completed" /\ Rest(w) /\ UNCHANGED <<cycles, queue, refused>>
        \/ /\ row.status # "completed" /\ Generates(a, row.cycle) /\ Invoiced(a, row.cycle)
           /\ queue' = [queue EXCEPT ![r] = Counted(row, "invoiced")]
           /\ IF row.cursor + 1 = Len(row.ids) THEN Rest(w) ELSE Go(w, "next")
           /\ UNCHANGED refused
        \/ /\ row.status # "completed" /\ ~Generates(a, row.cycle)
           /\ refused' = refused \cup {<<r, a>>} /\ Go(w, "failed") /\ UNCHANGED <<cycles, queue>>

\* Fault: the refusal is written whatever happened to the run since.
AnyCursor(w) == Pending(hand[w].run)
SameCursor(w) == queue[hand[w].run].cursor = hand[w].cursor
\* The catch block: the refusal counts unless the run has moved on.
RecordRefusal(w) ==
  /\ hand[w].stage = "failed" /\ Go(w, "next")
  /\ queue' = IF SameCursor(w)
                THEN [queue EXCEPT ![hand[w].run] = Counted(@, "refused")] ELSE queue
  /\ UNCHANGED <<plan, meter, cycles, access, refused>>

\* The database fails, the process dies, or the round's hundred steps are done.
BreakOff(w) ==
  /\ hand[w] # AtRest /\ Rest(w) /\ UNCHANGED <<plan, meter, cycles, queue, access, refused>>
SwitchAccess == access' = ~access /\ UNCHANGED <<plan, meter, cycles, queue, hand, refused>>

RunsNext ==
  \/ SwitchAccess
  \/ \E a \in Assignments, m \in Cycles :
       \/ GenerateOne(a, m)
       \/ \E mode \in {"fixed", "usage", "one_time"} : Assign(a, mode, m)
       \/ RecordReading(a, m)
  \/ \E a \in Assignments : Switch(a)
  \/ \E r \in Batches, m \in Cycles, ids \in Selections : QueueRun(r, m, ids)
  \/ \E w \in BillingWorkers :
       LookAtRun(w) \/ StepRun(w) \/ RecordRefusal(w) \/ BreakOff(w) \/ \E r \in Batches : TakeUp(w, r)

RunsSpec == RunsInit /\ [][RunsNext]_runVars

-----------------------------------------------------------------------------
RunsTypeOK ==
  /\ plan \in [Assignments -> [mode : {"none", "fixed", "usage", "one_time"}, from : Cycles \cup {0}, open : BOOLEAN]]
  /\ meter \in [Assignments -> SUBSET Cycles]
  /\ cycles \in [Assignments -> [Cycles -> BOOLEAN]]
  /\ \A w \in BillingWorkers : hand[w] = AtRest \/ hand[w].run \in Batches
  /\ \A r \in Batches : queue[r].status \in {"none", "queued", "running", "completed"}

\* A run accounts for each of its assignments once and in order, whichever
\* workers processed it and died: as invoiced only if the cycle has its
\* invoice, as refused only if a generation for this run was refused, and it
\* is completed exactly when all are counted (processRun, billing.service.ts).
RunAccountsForAll ==
  \A r \in Batches : LET row == queue[r] IN
    /\ row.cursor = Len(row.results) /\ row.cursor <= Len(row.ids)
    /\ \A k \in 1..Len(row.results) :
         /\ row.results[k].of = row.ids[k]
         /\ row.results[k].outcome = "invoiced" => cycles[row.ids[k]][row.cycle]
         /\ row.results[k].outcome = "refused" => <<r, row.ids[k]>> \in refused
    /\ row.status = "completed" <=> (row.status # "none" /\ row.cursor = Len(row.ids))
=============================================================================
