--------------------------- MODULE AllocationLoop ---------------------------
(***************************************************************************)
(* planDepositAllocation as the code runs it: one pass over the dues in    *)
(* the order of their dates, with the amount still to be assigned and the  *)
(* rows as allocatePayment leaves them.  A step is one iteration.          *)
(***************************************************************************)
EXTENDS DueAllocation, Sequences

CONSTANTS
  NDues,      \* how many dues the payment names
  Principals, \* amounts a due may charge
  Penalties,  \* penalties a due may carry
  Payments    \* amounts a payment may have

ASSUME LoopAssumption ==
  /\ NDues \in Nat
  /\ Principals \subseteq Nat /\ Penalties \subseteq Nat /\ Payments \subseteq Nat

Ids  == 1 .. NDues
Rank == [u \in Ids |-> u]

VARIABLES
  rows,      \* the dues as read
  priority,  \* penalty or principal first
  amount,    \* the payment
  i,         \* the due the loop is at
  remaining, \* what is left of the payment
  assigned,  \* appliedToThisDue of the dues passed
  posted     \* the dues passed, as allocatePayment returns them

loopVars == <<rows, priority, amount, i, remaining, assigned, posted>>

\* Rows a ledger can hold: no more is received and waived than is charged.
Reasonable(u) == u.paid + u.waived <= u.amount

LedgerRows ==
  UNION {{u \in [amount : {a}, paid : 0 .. a, waived : 0 .. a, penaltyDue : {q},
                 penaltyPaid : 0 .. q, status : {"due"}] : Reasonable(u)}
         : a \in Principals, q \in Penalties}

LoopInit ==
  /\ rows \in [Ids -> LedgerRows]
  /\ priority \in Priorities
  /\ amount \in Payments
  /\ i = 1 /\ remaining = amount
  /\ assigned = << >> /\ posted = << >>

\* Faults: a due is assigned all it owes, whatever is left; it may take up to
\* the whole payment.
AssignUncapped ==
  /\ i <= NDues
  /\ LET applied == CalculateDueBalance(rows[i])
     IN  /\ remaining' = remaining - applied
         /\ assigned' = Append(assigned, applied)
         /\ posted' = Append(posted, AllocatePayment(rows[i], applied, priority))
  /\ i' = i + 1
  /\ UNCHANGED <<rows, priority, amount>>

AssignFromWhole ==
  /\ i <= NDues
  /\ LET applied == Lesser(amount, CalculateDueBalance(rows[i]))
     IN  /\ remaining' = NonNegative(remaining - applied)
         /\ assigned' = Append(assigned, applied)
         /\ posted' = Append(posted, AllocatePayment(rows[i], applied, priority))
  /\ i' = i + 1
  /\ UNCHANGED <<rows, priority, amount>>

AssignNext ==
  /\ i <= NDues
  /\ LET applied == Lesser(remaining, CalculateDueBalance(rows[i]))
     IN  /\ remaining' = remaining - applied
         /\ assigned' = Append(assigned, applied)
         /\ posted' = Append(posted, AllocatePayment(rows[i], applied, priority))
  /\ i' = i + 1
  /\ UNCHANGED <<rows, priority, amount>>

LoopNext == AssignNext

LoopSpec == LoopInit /\ [][LoopNext]_loopVars

Done == i > NDues

(***************************************************************************)
(* The loop never assigns a negative amount or leaves a negative rest.     *)
(***************************************************************************)
LoopTypeOK ==
  /\ rows \in [Ids -> DueRow] /\ priority \in Priorities
  /\ amount \in Nat /\ i \in 1 .. NDues + 1 /\ remaining \in 0 .. amount
  /\ assigned \in [1 .. i - 1 -> Nat] /\ posted \in [1 .. i - 1 -> DueRow]

(***************************************************************************)
(* The plan the rest of the development uses is the loop's result, and it  *)
(* is unique: a reviewer's plan and the plan made again at posting can     *)
(* only differ when the dues differ ("the preview and final posting must   *)
(* always use the same ordering and fee rules").                           *)
(***************************************************************************)
LoopSolvesPlan ==
  Done => PlanDepositAllocation(rows, Ids, Rank, amount) = {assigned}

(***************************************************************************)
(* Money is neither made nor lost on the way: what the dues received, in   *)
(* principal and in penalty together, is what was assigned to each of      *)
(* them, and with what remains it adds up to the payment.                  *)
(***************************************************************************)
ReceivedBy(u) ==
  posted[u].paid - rows[u].paid + posted[u].penaltyPaid - rows[u].penaltyPaid

MoneyIsConserved ==
  /\ \A u \in 1 .. i - 1 : ReceivedBy(u) = assigned[u]
  /\ SumOver(assigned, 1 .. i - 1) + remaining = amount

(***************************************************************************)
(* A payment that does not exceed the dues' outstanding total is assigned  *)
(* in full, and a larger one settles all of them: the two tests the        *)
(* confirmation makes (amount > outstanding, unallocated = 0) agree.       *)
(***************************************************************************)
FullyAssignedIffOutstanding ==
  Done => /\ (remaining = 0) <=> (amount <= TotalBalance(rows, Ids))
          /\ remaining > 0 => \A u \in Ids : posted[u].status = "paid"

(***************************************************************************)
(* The oldest debt is paid first: a due receives money only once every     *)
(* older one is settled, and in it the half that has priority is settled   *)
(* before the other half receives anything.                                *)
(***************************************************************************)
OldestFirst ==
  \A u, v \in 1 .. i - 1 :
    v < u /\ assigned[u] > 0 => CalculateDueBalance(posted[v]) = 0

PriorityRespected ==
  \A u \in 1 .. i - 1 :
    IF priority = "principal_first"
    THEN posted[u].penaltyPaid > rows[u].penaltyPaid => PrincipalBalance(posted[u]) = 0
    ELSE posted[u].paid > rows[u].paid => PenaltyBalance(posted[u]) = 0

\* The loop computes the one plan, in order, and loses no money.
AllocationHolds == 
  /\ LoopSolvesPlan /\ MoneyIsConserved /\ FullyAssignedIffOutstanding
  /\ OldestFirst /\ PriorityRespected
==============================================================================
