---------------------------- MODULE DueAllocation ----------------------------
(***************************************************************************)
(* How a payment is divided among the installments ("dues") of a member.   *)
(* A due is a record of five whole amounts of money and a status:          *)
(*   amount       what the schedule charges                                *)
(*   paid         principal received          (paidAmount)                 *)
(*   waived       principal written off       (waivedAmount)               *)
(*   penaltyDue   penalty charged                                          *)
(*   penaltyPaid  penalty received                                         *)
(* The module is pure: every operator is a function of its arguments.      *)
(***************************************************************************)
EXTENDS Integers, FiniteSetsExt

DueStatuses == {"none", "upcoming", "due", "partial", "paid", "waived"}
Priorities  == {"penalty_first", "principal_first"}

MoneyRow == [amount : Nat, paid : Nat, waived : Nat,
             penaltyDue : Nat, penaltyPaid : Nat]
DueRow   == [amount : Nat, paid : Nat, waived : Nat,
             penaltyDue : Nat, penaltyPaid : Nat, status : DueStatuses]

\* The row that is not in the table yet.
NoDue == [amount |-> 0, paid |-> 0, waived |-> 0,
          penaltyDue |-> 0, penaltyPaid |-> 0, status |-> "none"]

\* Sums of money over rows of a table.  The summands are a function, so that
\* facts about sums can be stated as lemmas.
SumOver(f, S) == MapThenSumSet(LAMBDA x : f[x], S)

NonNegative(n) == IF n > 0 THEN n ELSE 0
Lesser(m, n)   == IF m <= n THEN m ELSE n

(***************************************************************************)
(* What is still owed.  Overpaid and over-waived dues owe nothing: each    *)
(* half is cut off at zero before the two are added.                       *)
(***************************************************************************)
PrincipalUnpaid(u)     == NonNegative(u.amount - u.paid) \* fault: waived forgotten
PrincipalBalance(u)    == NonNegative(u.amount - u.paid - u.waived)
PenaltyBalance(u)      == NonNegative(u.penaltyDue - u.penaltyPaid)
CalculateDueBalance(u) == PrincipalBalance(u) + PenaltyBalance(u)

\* The status the posting code gives a due after a payment or a reversal.
PaymentStatus(u) ==
  IF u.paid + u.waived >= u.amount /\ u.penaltyPaid >= u.penaltyDue THEN "paid"
  ELSE IF u.paid > 0 \/ u.penaltyPaid > 0 THEN "partial"
  ELSE "due"

(***************************************************************************)
(* allocatePayment: n is spent on the penalty and the principal of one due *)
(* in the order the priority names, each up to what is owed.               *)
(***************************************************************************)

PrincipalShare(u, n, priority) ==
  IF priority = "principal_first"
  THEN Lesser(n, PrincipalBalance(u))
  ELSE Lesser(n - Lesser(n, PenaltyBalance(u)), PrincipalBalance(u))

PenaltyShare(u, n, priority) ==
  IF priority = "principal_first"
  THEN Lesser(n - Lesser(n, PrincipalBalance(u)), PenaltyBalance(u))
  ELSE Lesser(n, PenaltyBalance(u))

AllocatePayment(u, n, priority) ==
  LET paidUp == [u EXCEPT !.paid        = @ + PrincipalShare(u, n, priority),
                          !.penaltyPaid = @ + PenaltyShare(u, n, priority)]
  IN  [paidUp EXCEPT !.status = PaymentStatus(paidUp)]

(***************************************************************************)
(* planDepositAllocation: the dues D are visited in the order of their     *)
(* rank (due date, then id) and each takes the lesser of what is left of   *)
(* the amount and what it owes.  The plan is written as the equation the   *)
(* loop solves; AllocationLoop checks that the loop computes its only      *)
(* solution.                                                               *)
(***************************************************************************)
AssignedBefore(p, D, rank, u) == SumOver(p, {e \in D : rank[e] < rank[u]})

PlanDepositAllocation(rows, D, rank, amount) ==
  {p \in [D -> 0 .. amount] :
     \A u \in D : p[u] = Lesser(amount - AssignedBefore(p, D, rank, u),
                                CalculateDueBalance(rows[u]))}

TotalBalance(rows, D) == SumOver([u \in D |-> CalculateDueBalance(rows[u])], D)

(***************************************************************************)
(* depositAllocationVersion: what a reviewer has seen of a payment.  The   *)
(* code hashes the payment, its dues' five amounts and the plan; the plan  *)
(* is a function of the rest, and the due's status is not in the hash.     *)
(***************************************************************************)
MoneyOf(u) == [amount |-> u.amount, paid |-> u.paid, waived |-> u.waived,
               penaltyDue |-> u.penaltyDue, penaltyPaid |-> u.penaltyPaid]

VersionOf(rows, D, amount, priority) ==
  [amount |-> amount, priority |-> priority, dues |-> D,
   rows |-> [u \in DOMAIN rows |-> IF u \in D THEN MoneyOf(rows[u]) ELSE MoneyOf(NoDue)]]
==============================================================================
