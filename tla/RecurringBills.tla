--------------------------- MODULE RecurringBills ---------------------------
(***************************************************************************)
(* A recurring expense bill (recurring-expenses.service.ts, its routes and *)
(* its worker): each of its periods is recorded as a pending expense, or   *)
(* skipped, by a person or by the worker of any process, and announced     *)
(* beforehand.                                                             *)
(*                                                                         *)
(* All of them work in a transaction that locks the bill and then reads    *)
(* it.  A transaction is two steps here: what it reads, and its commit.    *)
(* A day of the model is one period of the bill.                           *)
(***************************************************************************)
EXTENDS Naturals, FiniteSets

CONSTANTS
  Actors,      \* requests and workers
  LastBillDay, \* bound: days that pass
  MaxRevision, \* bound: changes of the bill
  RemindDays

ASSUME BillsAssumption == LastBillDay \in Nat /\ MaxRevision \in Nat \ {0} /\ RemindDays \in Nat

VARIABLES
  date,
  bill,      \* the row; it exists from the start, see CreateBill
  handled,   \* periods that are recorded or skipped
  expenses,  \* periods that have an expense
  tx,        \* what each open transaction has read
  announced  \* history: reminders of each period since the last edit
billVars == <<date, bill, handled, expenses, tx, announced>>

Periods == 0..LastBillDay + RemindDays + 1
NoPeriod == LastBillDay + RemindDays + 2
Closed == [open |-> FALSE]

\* POST / : a bill with its first due date, mode and last day.  A repeated
\* request key finds it under an advisory lock of its own.
BillsInit ==
  /\ date = 0 /\ handled = {} /\ expenses = {}
  /\ \E auto \in BOOLEAN, end \in {1, NoPeriod} :
       bill = [next |-> 0, auto |-> auto, end |-> end, paused |-> FALSE, deleted |-> FALSE,
               reminded |-> NoPeriod, revision |-> 1]
  /\ tx = [a \in Actors |-> Closed]
  /\ announced = [p \in Periods |-> 0]

NextDate == date < LastBillDay /\ date' = date + 1 /\ UNCHANGED <<bill, handled, expenses, tx, announced>>

\* lockBill: FOR UPDATE.
BillFree(a) == \A b \in Actors \ {a} : ~tx[b].open

OpenTx(a) ==
  /\ ~tx[a].open /\ BillFree(a) /\ ~bill.deleted
  /\ tx' = [tx EXCEPT ![a] = [open |-> TRUE, row |-> bill, handled |-> handled]]
  /\ UNCHANGED <<date, bill, handled, expenses, announced>>
CloseTx(a) == tx' = [tx EXCEPT ![a] = Closed]
Rollback(a) == tx[a].open /\ CloseTx(a) /\ UNCHANGED <<date, bill, handled, expenses, announced>>

Running(a) == tx[a].open /\ ~tx[a].row.paused /\ tx[a].row.next <= tx[a].row.end
\* The fields a change writes; the others are left as the row has them now.
Changed == [bill EXCEPT !.revision = @ + 1]

\* advanceBill: the period that is due becomes an expense, or is skipped, and
\* the bill moves on.  The key of bill and period refuses a second one; a call
\* for a period that is handled returns what was made of it.
Advance(a, skip) ==
  /\ Running(a) /\ bill.revision < MaxRevision
  /\ LET p == tx[a].row.next
     IN  /\ p \in Periods \ handled /\ p \notin tx[a].handled
         /\ handled' = handled \cup {p}
         /\ expenses' = IF skip THEN expenses ELSE expenses \cup {p}
         /\ bill' = [Changed EXCEPT !.next = p + 1, !.reminded = NoPeriod]
  /\ CloseTx(a) /\ UNCHANGED <<date, announced>>
\* POST /:id/record and /:id/skip, at any time.
RecordPeriod(a) == Advance(a, FALSE)
SkipPeriod(a) == Advance(a, TRUE)
\* The worker records the fixed bill of a day that has come.
AutoRecord(a) == tx[a].open /\ tx[a].row.auto /\ tx[a].row.next <= date /\ Advance(a, FALSE)

\* The worker announces a period, once.
RemindPeriod(a) ==
  /\ Running(a)
  /\ LET p == tx[a].row.next
     IN  /\ ~(tx[a].row.auto /\ p <= date) /\ p <= date + RemindDays
         /\ tx[a].row.reminded # p /\ announced[p] < 2
         /\ bill' = [bill EXCEPT !.reminded = p]
         /\ announced' = [announced EXCEPT ![p] = @ + 1]
  /\ CloseTx(a) /\ UNCHANGED <<date, handled, expenses>>

\* Fault: an edit may choose any due date.
AnyDue(a, p) == TRUE
\* The new due date comes after the last period that was handled.
AfterHandled(a, p) == \A q \in tx[a].handled : q < p

\* PUT /:id
EditBill(a, p, auto) ==
  /\ tx[a].open /\ bill.revision < MaxRevision /\ AfterHandled(a, p) /\ p <= tx[a].row.end
  /\ bill' = [Changed EXCEPT !.next = p, !.auto = auto, !.reminded = NoPeriod]
  /\ announced' = [q \in Periods |-> 0]
  /\ CloseTx(a) /\ UNCHANGED <<date, handled, expenses>>
\* PATCH /:id
PauseBill(a) ==
  /\ tx[a].open /\ bill.revision < MaxRevision
  /\ bill' = [Changed EXCEPT !.paused = ~tx[a].row.paused]
  /\ CloseTx(a) /\ UNCHANGED <<date, handled, expenses, announced>>
\* DELETE /:id keeps periods and expenses.
DeleteBill(a) ==
  /\ tx[a].open /\ bill.revision < MaxRevision
  /\ bill' = [Changed EXCEPT !.deleted = TRUE]
  /\ CloseTx(a) /\ UNCHANGED <<date, handled, expenses, announced>>

BillsNext ==
  \/ NextDate
  \/ \E a \in Actors :
       \/ OpenTx(a) \/ Rollback(a)
       \/ RecordPeriod(a) \/ SkipPeriod(a) \/ AutoRecord(a) \/ RemindPeriod(a)
       \/ PauseBill(a) \/ DeleteBill(a)
       \/ \E p \in Periods, auto \in BOOLEAN : EditBill(a, p, auto)

BillsSpec == BillsInit /\ [][BillsNext]_billVars

-----------------------------------------------------------------------------
BillsTypeOK ==
  /\ date \in 0..LastBillDay
  /\ bill.next \in 0..NoPeriod /\ bill.reminded \in 0..NoPeriod /\ bill.revision \in 1..MaxRevision
  /\ handled \subseteq Periods /\ expenses \subseteq handled
  /\ \A a \in Actors : tx[a].open \in BOOLEAN
  /\ announced \in [Periods -> 0..2]

\* The due date lies after every period that was recorded or skipped: a bill
\* never waits for a period that nobody can record again.
DueAfterHandled == \A p \in handled : p < bill.next

\* A period is announced once, unless the bill is edited.
AnnouncedOnce == \A p \in Periods : announced[p] <= 1

\* A period of a bill is dealt with once: recorded or skipped, and announced.
BillHandledOnce == DueAfterHandled /\ AnnouncedOnce
=============================================================================
