---------------------------- MODULE MCOperations ----------------------------
(***************************************************************************)
(* Small instances of the back office: assigning a payment to dues,        *)
(* recurring schedules and bills, customer invoices and the runs that make *)
(* them, payroll, fixed assets, and sales documents.  They share no state  *)
(* that is modelled, so every behaviour of one is checked with the others  *)
(* at rest: focus names the one at work.                                   *)
(*                                                                         *)
(* A payment names three dues, so that it can stop in the first, a middle  *)
(* and the last one; they owe at most 9, and a due may be part paid, part  *)
(* waived and part penalty.  Payroll is at work three times: for bills of  *)
(* employees, for leave and attendance, and for profiles and promotions    *)
(* (the last two of staff who owe no advance), over two months of which    *)
(* the first has a working day.  The documents are at work twice: once     *)
(* with the workflow setting as it is, once without items in stock.        *)
(* Interchangeable values of different components have the same names.     *)
(***************************************************************************)
EXTENDS AllocationLoop, RecurringSchedules, RecurringBills, CustomerBilling,
        Payroll, FixedAssets, SalesDocuments, TLC

CONSTANTS x1, x2, y1, y2

Sym == Permutations({x1, x2}) \cup Permutations({y1, y2})

\* Quotations and orders, which an invoice may skip or not.
SkipOrNot == {[quotations |-> TRUE, orders |-> TRUE, skip |-> s] : s \in BOOLEAN}

\* A week is a day here, and a month two, of which a rule's first day names one.
WeeksAndMonths ==
  [f \in Frequencies |-> [start \in 0..LastDay |-> [d \in 0..LastDay |->
     IF f = "weekly" THEN d + 1 ELSE ((d \div 2) + 1) * 2 + (start % 2)]]]

VARIABLE focus
Parts == {"allocation", "schedules", "bills", "customers", "runs",
          "staff-bills", "staff-leave", "staff-terms", "assets", "stock", "workflow"}

NothingDue == [amount |-> 2, paid |-> 2, waived |-> 0, penaltyDue |-> 1, penaltyPaid |-> 1, status |-> "due"]

\* Components that start in several ways do so when it is their turn.
OperationsInit ==
  /\ focus \in Parts
  /\ LoopInit
  /\ focus # "allocation" =>
       rows = [u \in Ids |-> NothingDue] /\ priority = "principal_first" /\ amount = 1
  /\ RecurringInit /\ (focus # "schedules" => rule.start = 0 /\ rule.freq = "weekly")
  /\ BillsInit     /\ (focus # "bills" => bill.auto /\ bill.end = NoPeriod)
  /\ BillingInit   /\ (focus # "customers" => automatic)
  /\ DocumentsInit /\ (focus \notin {"stock", "workflow"} => ~setting.flow.skip)
  /\ RunsInit /\ PayrollInit /\ AssetsInit

On(part) == focus = part /\ UNCHANGED focus
LoopMoves == On("allocation") /\ LoopNext
  /\ UNCHANGED <<recurringVars, billVars, billingVars, runVars, payrollVars, assetVars, documentVars>>
SchedulesMove == On("schedules") /\ RecurringNext
  /\ UNCHANGED <<loopVars, billVars, billingVars, runVars, payrollVars, assetVars, documentVars>>
BillsMove == On("bills") /\ BillsNext
  /\ UNCHANGED <<loopVars, recurringVars, billingVars, runVars, payrollVars, assetVars, documentVars>>
CustomersMove == On("customers") /\ BillingNext
  /\ UNCHANGED <<loopVars, recurringVars, billVars, runVars, payrollVars, assetVars, documentVars>>
RunsMove == On("runs") /\ RunsNext
  /\ UNCHANGED <<loopVars, recurringVars, billVars, billingVars, payrollVars, assetVars, documentVars>>
StaffMoves ==
  /\ \/ On("staff-bills") /\ PayrollNext /\ profiled' = profiled
        /\ facts'.leave = facts.leave /\ facts'.day = facts.day /\ request' = request
     \/ On("staff-leave") /\ PayrollNext /\ claim' = claim /\ profiled' = profiled
        /\ \A e \in Staff : facts'.staff[e].advance = 0
     \/ On("staff-terms") /\ PayrollNext /\ claim' = claim
        /\ facts'.leave = facts.leave /\ facts'.day = facts.day /\ request' = request
        /\ \A e \in Staff : facts'.staff[e].advance = 0
  /\ UNCHANGED <<loopVars, recurringVars, billVars, billingVars, runVars, assetVars, documentVars>>
AssetsMove == On("assets") /\ AssetsNext
  /\ UNCHANGED <<loopVars, recurringVars, billVars, billingVars, runVars, payrollVars, documentVars>>
DocumentsMove ==
  /\ \/ On("stock") /\ DocumentsNext /\ setting'.flow = setting.flow
     \/ On("workflow") /\ DocumentsNext /\ onHand' = onHand
  /\ UNCHANGED <<loopVars, recurringVars, billVars, billingVars, runVars, payrollVars, assetVars>>

OperationsNext ==
  \/ LoopMoves \/ SchedulesMove \/ BillsMove \/ CustomersMove
  \/ RunsMove \/ StaffMoves \/ AssetsMove \/ DocumentsMove
OperationsVars == <<focus, loopVars, recurringVars, billVars, billingVars, runVars, payrollVars,
                    assetVars, documentVars>>
OperationsSpec == OperationsInit /\ [][OperationsNext]_OperationsVars

OperationsTypeOK ==
  /\ LoopTypeOK /\ RecurringTypeOK /\ BillsTypeOK /\ BillingTypeOK
  /\ RunsTypeOK /\ PayrollTypeOK /\ AssetsTypeOK /\ DocumentsTypeOK

\* Customers' invoices: their money is traced through credits, settlements and
\* releases, and the run that makes them accounts for every customer once.
CustomersBilled == MoneyTraced /\ RunAccountsForAll
=============================================================================
