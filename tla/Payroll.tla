------------------------------ MODULE Payroll ------------------------------
(***************************************************************************)
(* Payroll of a project (modules/payroll): employees, leave, attendance,   *)
(* reimbursement bills and the salary runs they end in.  Every operation   *)
(* is one serializable transaction with a receipt of its request (mutate), *)
(* so it is one action, and a repeated request does nothing.               *)
(*                                                                         *)
(* A month has one working day at most, for leave and attendance.  An      *)
(* employee earns Gross, and one more from the month of a promotion on; an *)
(* employee with a profile earns FirstPay in the month of joining, without *)
(* one the whole; an unpaid day costs one.  Provident fund, tax and hourly *)
(* pay are left out, and so are amounts of bills and of accounts: a        *)
(* payment the account cannot cover changes nothing.  Who reviews a bill   *)
(* or a leave is not told apart: somebody other than its author does.      *)
(* Rejected requests, leaves and bills count for nothing any more, and are *)
(* forgotten.                                                              *)
(***************************************************************************)
EXTENDS Integers, FiniteSets, FiniteSetsExt

CONSTANTS
  Staff, Claims, Leaves, Officers, LastMonth, Gross, FirstPay, MaxAdvance, NoOfficer, NoStaff,
  WorkDays   \* the months with a working day

ASSUME PayrollAssumption ==
  /\ LastMonth \in Nat \ {0} /\ Gross \in Nat \ {0} /\ MaxAdvance \in Nat
  /\ FirstPay \in 1..Gross
  /\ WorkDays \subseteq 1..LastMonth /\ NoOfficer \notin Officers /\ NoStaff \notin Staff

VARIABLES
  month,    \* the current month
  facts,    \* employees, leave, attendance and holidays, and who had a profile
            \* when the runs were last prepared
  profiled, \* the employees with a profile record
  request,  \* PayrollAttendanceRequest rows
  twoStep,  \* billApproval = "two_step"
  claim,    \* PayrollBill rows
  run       \* PayrollRun rows
payrollVars == <<month, facts, profiled, request, twoStep, claim, run>>

Months == 1..LastMonth
NoRun == [status |-> "none", sheet |-> FALSE, rows |-> <<>>, by |-> NoOfficer, checker |-> NoOfficer]

NotAsked == [status |-> "none", who |-> NoStaff, month |-> 0]
NoClaim == [status |-> "none", who |-> NoStaff, month |-> 0, run |-> 0]

PayrollInit ==
  /\ month = 1 /\ twoStep = TRUE /\ profiled = {}
  /\ facts = [staff |-> [e \in Staff |-> [status |-> "none", joined |-> 0, advance |-> 0, raised |-> 0]],
              leave |-> [l \in Leaves |-> NotAsked],
              day |-> [e \in Staff |-> [m \in Months |-> "none"]],
              off |-> {}, seen |-> {}]
  /\ request = [e \in Staff |-> [m \in Months |-> "none"]]
  /\ claim = [b \in Claims |-> NoClaim]
  /\ run = [m \in Months |-> NoRun]

Employed(e) == facts.staff[e].status = "active"
OnLeave(f, e, m) == \E l \in Leaves : f.leave[l] = [status |-> "approved", who |-> e, month |-> m]
IsPaid(m) == run[m].status = "paid"

-----------------------------------------------------------------------------
(* rebuild: whatever a salary depends on, the operation that changes it    *)
(* prepares the unpaid runs again, the earliest first.                     *)

\* Runs that are calculated: one taken from a spreadsheet keeps its figures.
Calculated(rs) == {m \in Months : rs[m].status \notin {"none", "paid"} /\ ~rs[m].sheet}
OnRun(f, m) == {e \in Staff : f.staff[e].status = "active" /\ f.staff[e].joined <= m}
Unpaid(f, e, m) == IF m \notin f.off /\ (OnLeave(f, e, m) \/ f.day[e][m] = "absent") THEN 1 ELSE 0

\* Fault: no bill is known to be in an earlier run already.
EveryRun(f, rs, c) == {m \in Calculated(rs) : c.month <= m /\ c.who \in OnRun(f, m)}
\* The first run that can takes the bill.
FirstRun(f, rs, c) == {m \in EveryRun(f, rs, c) : \A n \in EveryRun(f, rs, c) : m <= n}
\* Approved bills that no paid run holds.
Payable(rs, c) == c.status = "approved" /\ (c.run = 0 \/ rs[c.run].status # "paid")
Taken(f, rs, cs, e, m) == {b \in Claims : cs[b].who = e /\ Payable(rs, cs[b]) /\ m \in FirstRun(f, rs, cs[b])}
\* monthlyEmployment, for an employee with a profile.
Pay(f, e, m) ==
  (IF e \in f.seen /\ f.staff[e].joined = m THEN FirstPay ELSE Gross)
    + (IF f.staff[e].raised # 0 /\ f.staff[e].raised <= m THEN 1 ELSE 0)
\* salaryRow: an advance is recovered as far as the pay reaches.
SalaryRow(f, rs, cs, e, m) ==
  LET u == Unpaid(f, e, m)
      p == Pay(f, e, m)
  IN [gross |-> p, unpaid |-> u, advance |-> Min({f.staff[e].advance, p - u}), bills |-> Taken(f, rs, cs, e, m)]

\* Fault: figures change under the review.
KeepsReview(r, u) == r
\* The new rows and settings are compared with those on file as texts, and the
\* columns (JSONB) return their keys in another order: a run always counts as
\* changed, and starts its review again.
BackToReview(r, u) == [r EXCEPT !.status = "prepared", !.by = u, !.checker = NoOfficer]
Prepare(u, f, rs, cs) ==
  /\ facts' = f
  /\ run' = [m \in Months |->
       IF m \in Calculated(rs)
         THEN BackToReview([rs[m] EXCEPT !.rows = [e \in OnRun(f, m) |-> SalaryRow(f, rs, cs, e, m)]], u)
         ELSE rs[m]]
  /\ claim' = [b \in Claims |->
       IF Payable(rs, cs[b]) THEN [cs[b] EXCEPT !.run = Max({0} \cup FirstRun(f, rs, cs[b]))] ELSE cs[b]]
Rebuild(u, f, rs, cs) == Prepare(u, [f EXCEPT !.seen = profiled'], rs, cs)
\* An operation that changes the facts only.
Change(u, f) == UNCHANGED <<month, request, twoStep, profiled>> /\ Rebuild(u, f, run, claim)

-----------------------------------------------------------------------------
(* Employees and settings. *)

\* importEmployees, importOpening: a new employee, or the advance of a known
\* one outside the provident fund as the opening balances have it.
ImportEmployee(u, e, joined) ==
  /\ facts.staff[e].status = "none"
  /\ \E a \in 0..MaxAdvance :
       Change(u, [facts EXCEPT !.staff[e] = [status |-> "active", joined |-> joined, advance |-> a, raised |-> 0]])
ImportOpening(u, e) ==
  /\ facts.staff[e].status # "none"
  /\ \E a \in 0..MaxAdvance : Change(u, [facts EXCEPT !.staff[e].advance = a])
EmployeeStatus(u, e) ==
  /\ facts.staff[e].status # "none"
  /\ Change(u, [facts EXCEPT !.staff[e].status = IF @ = "active" THEN "inactive" ELSE "active"])
\* createPortalEmployee
CreateEmployee(u, e, joined) ==
  /\ facts.staff[e].status = "none" /\ profiled' = profiled \cup {e}
  /\ UNCHANGED <<month, request, twoStep>>
  /\ Rebuild(u, [facts EXCEPT !.staff[e] = [status |-> "active", joined |-> joined, advance |-> 0, raised |-> 0]],
             run, claim)
\* persistEmployeeProfile: the first edit of an employee, or an invitation,
\* creates the profile, and prepares no run again.
UpdateProfile(e) ==
  /\ facts.staff[e].status # "none" /\ e \notin profiled
  /\ profiled' = profiled \cup {e} /\ UNCHANGED <<month, facts, request, twoStep, claim, run>>
\* promoteEmployee.  Bound: once an employee.
Promote(u, e, m) ==
  /\ e \in profiled /\ facts.staff[e].raised = 0 /\ m >= month /\ m >= facts.staff[e].joined
  /\ \A n \in Months : n >= m => ~IsPaid(n)
  /\ Change(u, [facts EXCEPT !.staff[e].raised = m])
\* changeJoiningDate: nothing recorded is orphaned, and a paid month keeps
\* matching the employees it paid.
Recorded(e, m) ==
  \/ facts.day[e][m] # "none" \/ request[e][m] # "none"
  \/ \E l \in Leaves : facts.leave[l].who = e /\ facts.leave[l].month = m
  \/ \E b \in Claims : claim[b].who = e /\ claim[b].month = m
ChangeJoining(u, e, joined) ==
  /\ facts.staff[e].status # "none" /\ joined # facts.staff[e].joined
  /\ \A m \in 1..joined - 1 : ~Recorded(e, m)
  /\ \A m \in Months : IsPaid(m) => (e \in DOMAIN run[m].rows <=> joined <= m)
  /\ Change(u, [facts EXCEPT !.staff[e].joined = joined])
SaveSettings(u) ==
  /\ twoStep' = ~twoStep /\ UNCHANGED <<month, request, profiled>> /\ Rebuild(u, facts, run, claim)
\* saveAttendanceSettings
ChangeHolidays(u, m) ==
  /\ m \in WorkDays /\ ~IsPaid(m) /\ Change(u, [facts EXCEPT !.off = IF m \in @ THEN @ \ {m} ELSE @ \cup {m}])

-----------------------------------------------------------------------------
(* Leave and attendance. *)

SubmitLeave(l, e, m) ==
  /\ facts.leave[l].status = "none" /\ Employed(e) /\ m \in WorkDays /\ m >= month /\ m >= facts.staff[e].joined
  /\ \A k \in Leaves : ~(facts.leave[k].who = e /\ facts.leave[k].month = m)
  /\ facts' = [facts EXCEPT !.leave[l] = [status |-> "pending", who |-> e, month |-> m]]
  /\ UNCHANGED <<month, request, twoStep, profiled, claim, run>>
DecideLeave(u, l) ==
  LET v == facts.leave[l] IN
  /\ v.status = "pending"
  /\ \/ Employed(v.who) /\ ~IsPaid(v.month) /\ Change(u, [facts EXCEPT !.leave[l].status = "approved"])
     \/ Change(u, [facts EXCEPT !.leave[l] = NotAsked])

\* unpaidMonth, workingDay
MayRecord(e, m) == m \in WorkDays /\ ~IsPaid(m) /\ m \notin facts.off /\ ~OnLeave(facts, e, m)
MarkAttendance(u, e, m) ==
  /\ Employed(e) /\ m <= month /\ m >= facts.staff[e].joined /\ MayRecord(e, m)
  /\ \E s \in {"present", "absent"} : Change(u, [facts EXCEPT !.day[e][m] = s])
\* punchAttendance: the employee checks in.
Punch(u, e) ==
  /\ Employed(e) /\ month >= facts.staff[e].joined /\ MayRecord(e, month)
  /\ facts.day[e][month] = "none" /\ Change(u, [facts EXCEPT !.day[e][month] = "present"])
RequestAttendance(e) ==
  /\ Employed(e) /\ month >= facts.staff[e].joined /\ MayRecord(e, month)
  /\ facts.day[e][month] = "none" /\ request[e][month] = "none"
  /\ request' = [request EXCEPT ![e][month] = "pending"]
  /\ UNCHANGED <<month, facts, twoStep, profiled, claim, run>>
DecideAttendance(u, e, m) ==
  /\ request[e][m] = "pending" /\ UNCHANGED <<month, twoStep, profiled>>
  /\ \/ /\ ~IsPaid(m) /\ facts.day[e][m] = "none"
        /\ request' = [request EXCEPT ![e][m] = "approved"]
        /\ Rebuild(u, [facts EXCEPT !.day[e][m] = "present"], run, claim)
     \/ request' = [request EXCEPT ![e][m] = "none"] /\ UNCHANGED <<facts, claim, run>>

-----------------------------------------------------------------------------
(* Bills. *)

SubmitBill(b, e, m) ==
  /\ claim[b].status = "none" /\ Employed(e) /\ m <= month /\ m >= facts.staff[e].joined
  /\ claim' = [claim EXCEPT ![b] = [status |-> "submitted", who |-> e, month |-> m, run |-> 0]]
  /\ UNCHANGED <<month, facts, request, twoStep, profiled, run>>
NextOfBill(b) ==
  CASE claim[b].status = "submitted" -> {IF twoStep THEN "checked" ELSE "approved"}
    [] claim[b].status = "checked" -> {"approved"}
    [] OTHER -> {}
DecideBill(u, b) ==
  /\ NextOfBill(b) # {} /\ UNCHANGED <<month, request, twoStep, profiled>>
  /\ \E c \in {[claim[b] EXCEPT !.status = s] : s \in NextOfBill(b)} \cup {NoClaim} :
       Rebuild(u, facts, run, [claim EXCEPT ![b] = c])
Unreserved(b) == claim[b].status = "approved" /\ claim[b].run = 0
DisburseBill(b) ==
  /\ Unreserved(b) /\ claim' = [claim EXCEPT ![b].status = "paid"]
  /\ UNCHANGED <<month, facts, request, twoStep, profiled, run>>

-----------------------------------------------------------------------------
(* Salary runs. *)

PrepareRun(u, m) ==
  /\ run[m].status = "none" /\ OnRun(facts, m) # {} /\ UNCHANGED <<month, request, twoStep, profiled>>
  /\ Rebuild(u, facts, [run EXCEPT ![m].status = "prepared"], claim)
CheckRun(u, m) ==
  /\ run[m].status = "prepared" /\ run[m].by # u
  /\ run' = [run EXCEPT ![m].status = "checked", ![m].checker = u]
  /\ UNCHANGED <<month, facts, request, twoStep, profiled, claim>>
ApproveRun(u, m) ==
  /\ run[m].status = "checked" /\ run[m].checker # u
  /\ run' = [run EXCEPT ![m].status = "approved"]
  /\ UNCHANGED <<month, facts, request, twoStep, profiled, claim>>
Sheet(S, a) == [e \in S |-> [gross |-> Gross, unpaid |-> 0, advance |-> a[e], bills |-> {}]]
\* importRun: the advance a spreadsheet recovers is outstanding by then.
ImportRun(u, m) ==
  /\ m <= month /\ run[m].status = "none"
  /\ \E S \in SUBSET {e \in Staff : facts.staff[e].status # "none" /\ facts.staff[e].joined <= m} \ {{}} :
     \E a \in [S -> 0..MaxAdvance] :
       /\ \A e \in S : a[e] <= Min({facts.staff[e].advance, Gross})
       /\ run' = [run EXCEPT ![m] = [status |-> "prepared", sheet |-> TRUE, rows |-> Sheet(S, a), by |-> u, checker |-> NoOfficer]]
  /\ UNCHANGED <<month, facts, request, twoStep, profiled, claim>>
\* importHistory: a month that was paid elsewhere.
ImportHistory(u, m) ==
  /\ m < month /\ run[m].status = "none"
  /\ \E S \in SUBSET {e \in Staff : facts.staff[e].status # "none" /\ facts.staff[e].joined <= m} \ {{}} :
       run' = [run EXCEPT ![m] = [status |-> "paid", sheet |-> TRUE, rows |-> Sheet(S, [e \in S |-> 0]), by |-> u, checker |-> NoOfficer]]
  /\ UNCHANGED <<month, facts, request, twoStep, profiled, claim>>

\* What is left of the advances reaches the other runs.
AfterPayment(u, f, rs, cs) == Rebuild(u, f, rs, cs)
DisburseRun(u, m) ==
  LET rows == run[m].rows
      held == UNION {rows[e].bills : e \in DOMAIN rows}
      net == MapThenSumSet(LAMBDA e : rows[e].gross - rows[e].unpaid - rows[e].advance, DOMAIN rows) + Cardinality(held)
      staff == [e \in Staff |-> IF e \in DOMAIN rows THEN [facts.staff[e] EXCEPT !.advance = @ - rows[e].advance]
                                                     ELSE facts.staff[e]]
  IN /\ run[m].status = "approved" /\ m <= month /\ net > 0
     /\ \A b \in held : claim[b].status = "approved" /\ claim[b].run = m
     /\ UNCHANGED <<month, request, twoStep, profiled>>
     /\ AfterPayment(u, [facts EXCEPT !.staff = staff], [run EXCEPT ![m].status = "paid"],
                [b \in Claims |-> IF b \in held THEN [claim[b] EXCEPT !.status = "paid"] ELSE claim[b]])
NextMonth ==
  /\ month < LastMonth /\ month' = month + 1
  /\ UNCHANGED <<facts, request, twoStep, profiled, claim, run>>

PayrollNext ==
  \/ NextMonth
  \/ \E u \in Officers :
       \/ SaveSettings(u)
       \/ \E e \in Staff :
            \/ ImportOpening(u, e) \/ EmployeeStatus(u, e) \/ Punch(u, e)
            \/ \E m \in Months : ImportEmployee(u, e, m) \/ CreateEmployee(u, e, m) \/ Promote(u, e, m)
                                   \/ ChangeJoining(u, e, m) \/ MarkAttendance(u, e, m)
                                   \/ DecideAttendance(u, e, m)
       \/ \E l \in Leaves : DecideLeave(u, l)
       \/ \E b \in Claims : DecideBill(u, b)
       \/ \E m \in Months : \/ ChangeHolidays(u, m) \/ PrepareRun(u, m) \/ CheckRun(u, m) \/ ApproveRun(u, m)
                            \/ ImportRun(u, m) \/ ImportHistory(u, m) \/ DisburseRun(u, m)
  \/ \E b \in Claims : DisburseBill(b) \/ \E e \in Staff, m \in Months : SubmitBill(b, e, m)
  \/ \E e \in Staff : RequestAttendance(e) \/ UpdateProfile(e) \/ \E l \in Leaves, m \in Months : SubmitLeave(l, e, m)

PayrollSpec == PayrollInit /\ [][PayrollNext]_payrollVars

-----------------------------------------------------------------------------
PayrollTypeOK ==
  /\ month \in Months /\ facts.off \subseteq Months /\ profiled \subseteq Staff
  /\ \A e \in Staff : /\ facts.staff[e].status \in {"none", "active", "inactive"} /\ facts.staff[e].joined \in 0..LastMonth
                      /\ facts.staff[e].advance \in Int /\ facts.staff[e].raised \in 0..LastMonth
                      /\ facts.day[e] \in [Months -> {"none", "present", "absent"}]
                      /\ request[e] \in [Months -> {"none", "pending", "approved"}]
  /\ \A b \in Claims : /\ claim[b].status \in {"none", "submitted", "checked", "approved", "paid"}
                       /\ claim[b].run \in 0..LastMonth
  /\ \A m \in Months : /\ run[m].status \in {"none", "prepared", "checked", "approved", "paid"}
                       /\ run[m].by \in Officers \cup {NoOfficer} /\ run[m].checker \in Officers \cup {NoOfficer}

RunsWith(b) == {m \in Months : \E e \in DOMAIN run[m].rows : b \in run[m].rows[e].bills}

\* A bill is in one salary run at most, in the one that holds it, and is paid
\* with that run or without any (rebuild, disburseRun, disburseBill).
BillsInOneRun ==
  \A b \in Claims :
    /\ claim[b].run = 0 => RunsWith(b) = {}
    /\ claim[b].run # 0 => RunsWith(b) = {claim[b].run} /\ (claim[b].status = "paid" <=> IsPaid(claim[b].run))

\* What is paid to an employee was seen in that form by the one who checked
\* it and by the one who approved it (rebuild, transition): rows are not
\* replaced while the review stands.
ReviewCoversRows ==
  [][\A m \in Months : run[m].status \in {"checked", "approved"} /\ run'[m].rows # run[m].rows
                         => run'[m].status = "prepared"]_payrollVars

\* A run nobody has paid shows what the records amount to now, so that no two
\* runs recover the same advance (disburseRun, and every other caller of
\* rebuild); only a profile made since the last rebuild may be missing from it
\* (persistEmployeeProfile), and facts has the profiles of then.
UnpaidRunsCurrent ==
  \A m \in Calculated(run) : run[m].rows = [e \in OnRun(facts, m) |-> SalaryRow(facts, run, claim, e, m)]

\* An advance is never recovered beyond what is outstanding
\* (importedSalaryRow, payroll.imports.policy.ts).  Two imported runs that are
\* open at the same time break this: each looks at what is outstanding alone.
AdvanceNotOverRecovered == \A e \in Staff : facts.staff[e].advance >= 0

\* What is paid is what the records amount to and what the reviewers saw, and
\* no bill is paid twice.
PayrollHolds == [](BillsInOneRun /\ UnpaidRunsCurrent) /\ ReviewCoversRows
=============================================================================
