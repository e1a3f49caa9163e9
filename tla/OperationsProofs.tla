-------------------------- MODULE OperationsProofs --------------------------
(***************************************************************************)
(* Proofs about the back office: the loop that assigns a payment to dues   *)
(* is the plan and keeps its promises; the documents of a project keep     *)
(* theirs - stock, acceptance, workflow and payments - for any number of   *)
(* documents, items, places and amounts; the register of fixed assets      *)
(* keeps its books, for any assets, projects, costs, lives and transfers;  *)
(* and all of it holds of the back office as one, with what BillingProofs  *)
(* shows of recurring bills, payroll and customers' invoices.              *)
(***************************************************************************)
EXTENDS MCOperations, BillingProofs

-----------------------------------------------------------------------------
(* The loop of planDepositAllocation.  The argument: what a due was        *)
(* assigned is the lesser of what was left of the payment and what it      *)
(* owes, so that while anything is left every due passed is settled.       *)

Owed(u) == CalculateDueBalance(rows[u])
Passed == 1 .. i - 1

LoopInv ==
  /\ LoopTypeOK
  /\ SumOver(assigned, Passed) + remaining = amount
  /\ \A u \in Passed :
       /\ assigned[u] = Lesser(amount - SumOver(assigned, 1 .. u - 1), Owed(u))
       /\ posted[u] = AllocatePayment(rows[u], assigned[u], priority)
       /\ assigned[u] > 0 => \A v \in 1 .. u - 1 : assigned[v] = Owed(v)
  /\ remaining > 0 => \A u \in Passed : assigned[u] = Owed(u)

LEMMA RowsAreDues == LedgerRows \subseteq DueRow
  <1> SUFFICES ASSUME NEW u \in LedgerRows PROVE u \in DueRow
    OBVIOUS
  <1>1. PICK a \in Principals, q \in Penalties :
          u \in [amount : {a}, paid : 0 .. a, waived : 0 .. a, penaltyDue : {q},
                 penaltyPaid : 0 .. q, status : {"due"}]
    BY DEF LedgerRows
  <1>2. a \in Nat /\ q \in Nat
    BY LoopAssumption
  <1> QED BY <1>1, <1>2 DEF DueRow, DueStatuses

LEMMA AppendedTo ==
  ASSUME NEW S, NEW n \in Nat \ {0}, NEW s \in [1 .. n - 1 -> S], NEW e \in S
  PROVE  /\ Append(s, e) \in [1 .. n -> S] /\ Append(s, e)[n] = e
         /\ \A u \in 1 .. n - 1 : Append(s, e)[u] = s[u]
  <1>1. n - 1 \in Nat
    OBVIOUS
  <1>2. s \in Seq(S) /\ Len(s) = n - 1
    BY <1>1
  <1>3. Append(s, e) \in Seq(S) /\ Len(Append(s, e)) = n
    BY <1>2
  <1>4. Append(s, e)[n] = e /\ \A u \in 1 .. n - 1 : Append(s, e)[u] = s[u]
    BY <1>2
  <1>5. ASSUME NEW t \in Seq(S), Len(t) = n PROVE t \in [1 .. n -> S]
    <2>1. t \in [1 .. Len(t) -> S]
      OBVIOUS
    <2> QED BY <1>5, <2>1
  <1>6. Append(s, e) \in [1 .. n -> S]
    BY <1>3, <1>5
  <1> QED BY <1>4, <1>6

LEMMA PassedFinite == ASSUME NEW n \in Int PROVE IsFiniteSet(1 .. n)
  BY FS_Interval, 1 \in Int

LEMMA LoopStarts == LoopInit => LoopInv
  <1> SUFFICES ASSUME LoopInit PROVE LoopInv
    OBVIOUS
  <1>1. Passed = {} /\ i = 1 /\ assigned = << >> /\ posted = << >>
    BY DEF LoopInit, Passed
  <1>2. amount \in Nat /\ NDues \in Nat
    BY LoopAssumption DEF LoopInit
  <1>3. << >> \in [{} -> Nat] /\ << >> \in [{} -> DueRow]
    OBVIOUS
  <1>4. rows \in [Ids -> DueRow]
    BY RowsAreDues DEF LoopInit
  <1>5. LoopTypeOK
    BY <1>1, <1>2, <1>3, <1>4 DEF LoopInit, LoopTypeOK
  <1>6. SumOver(assigned, Passed) = 0
    BY <1>1, SumOfEmpty
  <1> QED BY <1>1, <1>2, <1>5, <1>6 DEF LoopInit, LoopInv

LEMMA LoopStep == LoopInv /\ [LoopNext]_loopVars => LoopInv'
  <1> SUFFICES ASSUME LoopInv, [LoopNext]_loopVars PROVE LoopInv'
    OBVIOUS
  <1>1. CASE UNCHANGED loopVars
    BY <1>1 DEF loopVars, LoopInv, LoopTypeOK, Owed, Passed
  <1>2. CASE AssignNext
    <2>1. PICK n, bal, taken : n = i /\ bal = Owed(n) /\ taken = Lesser(remaining, bal)
      OBVIOUS
    <2>2. /\ n \in 1 .. NDues /\ i' = n + 1 /\ n \in Nat
          /\ rows' = rows /\ priority' = priority /\ amount' = amount
          /\ remaining' = remaining - taken /\ assigned' = Append(assigned, taken)
          /\ posted' = Append(posted, AllocatePayment(rows[n], taken, priority))
      BY <1>2, <2>1, LoopAssumption DEF AssignNext, LoopInv, LoopTypeOK, Owed
    <2>3. rows[n] \in DueRow /\ amount \in Nat /\ remaining \in 0 .. amount
      BY <2>2 DEF LoopInv, LoopTypeOK, Ids
    <2>4. bal \in Nat
      BY <2>1, <2>3, BalanceType DEF Owed, Money
    <2>5. taken \in 0 .. remaining /\ taken <= bal /\ taken \in Nat
      BY <2>1, <2>3, <2>4 DEF Lesser
    <2>6. AllocatePayment(rows[n], taken, priority) \in DueRow
      BY <2>3, <2>5, AllocateType
    <2>7. assigned \in [1 .. n - 1 -> Nat] /\ posted \in [1 .. n - 1 -> DueRow]
      BY <2>1 DEF LoopInv, LoopTypeOK
    <2>8. /\ assigned' \in [1 .. n -> Nat] /\ assigned'[n] = taken
          /\ \A u \in 1 .. n - 1 : assigned'[u] = assigned[u]
      <3>1. n \in Nat \ {0}
        BY <2>2
      <3>2. /\ Append(assigned, taken) \in [1 .. n -> Nat] /\ Append(assigned, taken)[n] = taken
            /\ \A u \in 1 .. n - 1 : Append(assigned, taken)[u] = assigned[u]
        <4>1. taken \in Nat /\ assigned \in [1 .. n - 1 -> Nat]
          BY <2>5, <2>7
        <4>2. Append(assigned, taken) \in [1 .. n -> Nat]
          BY <3>1, <4>1, AppendedTo
        <4>3. Append(assigned, taken)[n] = taken
          BY <3>1, <4>1, AppendedTo
        <4>4. \A u \in 1 .. n - 1 : Append(assigned, taken)[u] = assigned[u]
          BY <3>1, <4>1, AppendedTo
        <4> QED BY <4>2, <4>3, <4>4
      <3> QED BY <2>2, <3>2
    <2>9. /\ posted' \in [1 .. n -> DueRow] /\ posted'[n] = AllocatePayment(rows[n], taken, priority)
          /\ \A u \in 1 .. n - 1 : posted'[u] = posted[u]
      <3>1. n \in Nat \ {0}
        BY <2>2
      <3>2. PICK w : w = AllocatePayment(rows[n], taken, priority)
        OBVIOUS
      <3>3. /\ Append(posted, w) \in [1 .. n -> DueRow] /\ Append(posted, w)[n] = w
            /\ \A u \in 1 .. n - 1 : Append(posted, w)[u] = posted[u]
        <4>1. w \in DueRow /\ posted \in [1 .. n - 1 -> DueRow]
          BY <2>6, <2>7, <3>2
        <4>2. Append(posted, w) \in [1 .. n -> DueRow]
          BY <3>1, <4>1, AppendedTo
        <4>3. Append(posted, w)[n] = w
          BY <3>1, <4>1, AppendedTo
        <4>4. \A u \in 1 .. n - 1 : Append(posted, w)[u] = posted[u]
          BY <3>1, <4>1, AppendedTo
        <4> QED BY <4>2, <4>3, <4>4
      <3> QED BY <2>2, <3>2, <3>3
    <2>10. Passed = 1 .. n - 1 /\ Passed' = 1 .. n /\ 1 .. n = (1 .. n - 1) \cup {n}
      BY <2>1, <2>2 DEF Passed
    <2>11. LoopTypeOK'
      <3>1. (n + 1) - 1 = n /\ n + 1 \in 1 .. NDues + 1 /\ remaining - taken \in 0 .. amount
        BY <2>2, <2>3, <2>5, LoopAssumption
      <3>2. rows \in [Ids -> DueRow] /\ priority \in Priorities
        BY DEF LoopInv, LoopTypeOK
      <3> QED BY <2>2, <2>3, <2>8, <2>9, <3>1, <3>2 DEF LoopTypeOK
    <2>12. \A m \in 0 .. n - 1 : SumOver(assigned', 1 .. m) = SumOver(assigned, 1 .. m)
      <3> SUFFICES ASSUME NEW m \in 0 .. n - 1 PROVE SumOver(assigned', 1 .. m) = SumOver(assigned, 1 .. m)
        OBVIOUS
      <3>1. IsFiniteSet(1 .. m) /\ \A u \in 1 .. m : assigned'[u] = assigned[u]
        BY <2>2, <2>8, PassedFinite
      <3> QED BY <3>1, SumAgrees
    <2>13. SumOver(assigned', 1 .. n) = taken + SumOver(assigned, 1 .. n - 1)
      <3>0. IsFiniteSet(1 .. n)
        BY <2>2, PassedFinite
      <3>1. n \in 1 .. n /\ \A u \in 1 .. n : assigned'[u] \in Int
        <4>1. \A u \in 1 .. n : assigned'[u] \in Nat
          BY <2>8
        <4>2. \A u \in 1 .. n : assigned'[u] \in Int
          BY <4>1
        <4>3. n \in 1 .. n
          BY <2>2
        <4> QED BY <4>2, <4>3
      <3>2. SumOver(assigned', 1 .. n) = assigned'[n] + SumOver(assigned', (1 .. n) \ {n})
        BY <3>0, <3>1, SumRemove
      <3>3. (1 .. n) \ {n} = 1 .. n - 1
        BY <2>2
      <3>4. n - 1 \in 0 .. n - 1
        BY <2>2
      <3> QED BY <2>8, <2>12, <3>2, <3>3, <3>4
    <2>14. SumOver(assigned, 1 .. n - 1) \in Nat
      BY <2>2, <2>7, PassedFinite, SumIsNatural
    <2>15. SumOver(assigned, 1 .. n - 1) + remaining = amount
      BY <2>10 DEF LoopInv
    <2>16. (SumOver(assigned, Passed) + remaining = amount)'
      BY <2>2, <2>3, <2>5, <2>10, <2>13, <2>14, <2>15
    <2>17. \A u \in 1 .. n : Owed(u)' = Owed(u)
      BY <2>2 DEF Owed
    <2>18. remaining > 0 => \A u \in 1 .. n - 1 : assigned[u] = Owed(u)
      BY <2>10 DEF LoopInv
    <2>19. \A u \in 1 .. n - 1 :
             /\ assigned[u] = Lesser(amount - SumOver(assigned, 1 .. u - 1), Owed(u))
             /\ posted[u] = AllocatePayment(rows[u], assigned[u], priority)
             /\ assigned[u] > 0 => \A v \in 1 .. u - 1 : assigned[v] = Owed(v)
      BY <2>10 DEF LoopInv
    <2>20. \A u \in 1 .. n :
             assigned'[u] = Lesser(amount - SumOver(assigned', 1 .. u - 1), Owed(u))
      <3>1. amount - SumOver(assigned, 1 .. n - 1) = remaining
        BY <2>3, <2>14, <2>15
      <3>2. \A u \in 1 .. n : SumOver(assigned', 1 .. u - 1) = SumOver(assigned, 1 .. u - 1)
        BY <2>2, <2>12
      <3> QED BY <2>1, <2>2, <2>8, <2>19, <3>1, <3>2
    <2>21. \A u \in 1 .. n : posted'[u] = AllocatePayment(rows[u], assigned'[u], priority)
      BY <2>2, <2>8, <2>9, <2>19
    <2>22. \A u \in 1 .. n : assigned'[u] > 0 => \A v \in 1 .. u - 1 : assigned'[v] = Owed(v)
      <3>1. CASE taken > 0
        <4>1. remaining > 0
          BY <2>3, <2>5, <3>1
        <4> QED BY <2>2, <2>8, <2>18, <4>1
      <3>2. CASE taken = 0
        BY <2>2, <2>8, <2>19, <3>2
      <3> QED BY <2>5, <3>1, <3>2
    <2>23. remaining' > 0 => \A u \in 1 .. n : assigned'[u] = Owed(u)
      <3> SUFFICES ASSUME remaining - taken > 0 PROVE \A u \in 1 .. n : assigned'[u] = Owed(u)
        BY <2>2
      <3>1. remaining > 0 /\ taken = bal
        BY <2>1, <2>3, <2>4, <2>5 DEF Lesser
      <3> QED BY <2>1, <2>2, <2>8, <2>18, <3>1
    <2>24. (\A u \in Passed :
              /\ assigned[u] = Lesser(amount - SumOver(assigned, 1 .. u - 1), Owed(u))
              /\ posted[u] = AllocatePayment(rows[u], assigned[u], priority)
              /\ assigned[u] > 0 => \A v \in 1 .. u - 1 : assigned[v] = Owed(v))'
      <3> SUFFICES ASSUME NEW u \in 1 .. n
                   PROVE /\ assigned'[u] = Lesser(amount - SumOver(assigned', 1 .. u - 1), Owed(u)')
                         /\ posted'[u] = AllocatePayment(rows[u], assigned'[u], priority)
                         /\ assigned'[u] > 0 => \A v \in 1 .. u - 1 : assigned'[v] = Owed(v)'
        BY <2>2, <2>10
      <3>1. \A v \in 1 .. u - 1 : v \in 1 .. n
        BY <2>2
      <3> QED BY <2>17, <2>20, <2>21, <2>22, <3>1
    <2>25. (remaining > 0 => \A u \in Passed : assigned[u] = Owed(u))'
      BY <2>10, <2>17, <2>23
    <2> QED BY <2>11, <2>16, <2>24, <2>25 DEF LoopInv
  <1> QED BY <1>1, <1>2 DEF LoopNext

\* No due is assigned more than it owes.
LEMMA WithinOwed ==
  ASSUME LoopInv
  PROVE  \A u \in Passed : /\ u \in Ids /\ rows[u] \in DueRow /\ Owed(u) \in Nat
                           /\ assigned[u] \in 0 .. Owed(u) /\ assigned[u] \in 0 .. amount
  <1> SUFFICES ASSUME NEW u \in Passed
               PROVE  /\ u \in Ids /\ rows[u] \in DueRow /\ Owed(u) \in Nat
                      /\ assigned[u] \in 0 .. Owed(u) /\ assigned[u] \in 0 .. amount
    OBVIOUS
  <1>1. u \in Ids /\ rows[u] \in DueRow /\ u \in Nat /\ assigned[u] \in Nat
    BY LoopAssumption DEF LoopInv, LoopTypeOK, Ids, Passed
  <1>2. Owed(u) \in Nat
    BY <1>1, BalanceType DEF Owed, Money
  <1>3. SumOver(assigned, 1 .. u - 1) \in Nat
    <2>1. IsFiniteSet(1 .. u - 1) /\ \A v \in 1 .. u - 1 : assigned[v] \in Nat
      BY <1>1, PassedFinite DEF LoopInv, LoopTypeOK, Passed
    <2> QED BY <2>1, SumIsNatural
  <1>4. amount \in Nat /\ assigned[u] = Lesser(amount - SumOver(assigned, 1 .. u - 1), Owed(u))
    BY DEF LoopInv, LoopTypeOK
  <1>5. assigned[u] <= Owed(u) /\ assigned[u] <= amount
    BY <1>2, <1>3, <1>4 DEF Lesser
  <1> QED BY <1>1, <1>2, <1>4, <1>5

LEMMA PlanIsUnique ==
  ASSUME NEW table, NEW n \in Nat, NEW sum \in Nat, NEW p, NEW q,
         p \in PlanDepositAllocation(table, 1 .. n, [u \in 1 .. n |-> u], sum),
         q \in PlanDepositAllocation(table, 1 .. n, [u \in 1 .. n |-> u], sum)
  PROVE  p = q
  <1>1. PICK rank : rank = [u \in 1 .. n |-> u]
    OBVIOUS
  <1>2. p \in [1 .. n -> 0 .. sum] /\ q \in [1 .. n -> 0 .. sum]
    BY <1>1 DEF PlanDepositAllocation
  <1>3. PICK T : T = {u \in 1 .. n : p[u] # q[u]}
    OBVIOUS
  <1>4. SUFFICES ASSUME T # {} PROVE FALSE
    <2>1. CASE T = {}
      <3>1. \A u \in 1 .. n : p[u] = q[u]
        BY <1>3, <2>1
      <3> QED BY <1>2, <3>1
    <2> QED BY <2>1
  <1>5. PICK u \in T : \A v \in T : u <= v
    <2>1. T \in SUBSET Nat
      BY <1>3
    <2> QED BY <1>4, <2>1, LeastNatural
  <1>6. PICK B : B = {e \in 1 .. n : rank[e] < rank[u]}
    OBVIOUS
  <1>7. B \subseteq 1 .. n /\ IsFiniteSet(B)
    BY <1>6, PassedFinite, FS_Subset
  <1>8. \A v \in B : p[v] = q[v]
    BY <1>1, <1>3, <1>5, <1>6
  <1>9. SumOver(p, B) = SumOver(q, B)
    BY <1>7, <1>8, SumAgrees
  <1>10. /\ p[u] = Lesser(sum - SumOver(p, B), CalculateDueBalance(table[u]))
         /\ q[u] = Lesser(sum - SumOver(q, B), CalculateDueBalance(table[u]))
    BY <1>1, <1>3, <1>6 DEF PlanDepositAllocation, AssignedBefore
  <1> QED BY <1>3, <1>9, <1>10

LEMMA LoopSolves == LoopInv => LoopSolvesPlan
  <1> SUFFICES ASSUME LoopInv, Done
               PROVE  PlanDepositAllocation(rows, Ids, Rank, amount) = {assigned}
    BY DEF LoopSolvesPlan
  <1>1. Passed = Ids /\ NDues \in Nat /\ amount \in Nat
    BY LoopAssumption DEF LoopInv, LoopTypeOK, Done, Passed, Ids
  <1>2. assigned \in [Ids -> 0 .. amount]
    <2>1. assigned \in [Ids -> Nat]
      BY <1>1 DEF LoopInv, LoopTypeOK, Passed
    <2> QED BY <1>1, <2>1, WithinOwed
  <1>3. \A u \in Ids : assigned[u] = Lesser(amount - AssignedBefore(assigned, Ids, Rank, u), Owed(u))
    <2> SUFFICES ASSUME NEW u \in Ids
                 PROVE  assigned[u] = Lesser(amount - AssignedBefore(assigned, Ids, Rank, u), Owed(u))
      OBVIOUS
    <2>1. {e \in Ids : Rank[e] < Rank[u]} = 1 .. u - 1
      BY <1>1 DEF Ids, Rank
    <2> QED BY <1>1, <2>1 DEF LoopInv, AssignedBefore
  <1>4. assigned \in PlanDepositAllocation(rows, Ids, Rank, amount)
    BY <1>2, <1>3 DEF PlanDepositAllocation, Owed
  <1> QED BY <1>1, <1>4, PlanIsUnique DEF Ids, Rank

LEMMA LoopConserves == LoopInv => MoneyIsConserved
  <1> SUFFICES ASSUME LoopInv PROVE MoneyIsConserved
    OBVIOUS
  <1>1. ASSUME NEW u \in Passed PROVE ReceivedBy(u) = assigned[u]
    <2>1. PICK n, row : n = assigned[u] /\ row = rows[u]
      OBVIOUS
    <2>2. row \in DueRow /\ n \in 0 .. CalculateDueBalance(row) /\ n \in Nat
      BY <1>1, <2>1, WithinOwed DEF Owed
    <2>3. posted[u] = AllocatePayment(row, n, priority)
      BY <1>1, <2>1 DEF LoopInv
    <2>4. PrincipalShare(row, n, priority) + PenaltyShare(row, n, priority) = n
      BY <2>2, PaymentConserved
    <2>5. /\ posted[u].paid = row.paid + PrincipalShare(row, n, priority)
          /\ posted[u].penaltyPaid = row.penaltyPaid + PenaltyShare(row, n, priority)
      BY <2>2, <2>3, AllocateType
    <2>6. row.paid \in Nat /\ row.penaltyPaid \in Nat
      BY <2>2 DEF DueRow
    <2>7. PrincipalShare(row, n, priority) \in 0 .. n /\ PenaltyShare(row, n, priority) \in 0 .. n
      BY <2>2, SharesType
    <2> QED BY <2>1, <2>4, <2>5, <2>6, <2>7 DEF ReceivedBy
  <1> QED BY <1>1 DEF LoopInv, MoneyIsConserved, Passed

\* A due that was assigned all it owes is settled.
LEMMA AllOwedSettles ==
  ASSUME LoopInv, NEW u \in Passed, assigned[u] = Owed(u)
  PROVE  CalculateDueBalance(posted[u]) = 0 /\ posted[u].status = "paid"
  <1>1. PICK row, n : row = rows[u] /\ n = assigned[u]
    OBVIOUS
  <1>2. row \in DueRow /\ n = CalculateDueBalance(row) /\ n \in Nat
    BY <1>1, WithinOwed DEF Owed
  <1>3. posted[u] = AllocatePayment(row, n, priority)
    BY <1>1 DEF LoopInv
  <1>4. CalculateDueBalance(posted[u]) = 0
    BY <1>2, <1>3, PaymentConserved
  <1>6. posted[u].status = "paid"
    BY <1>2, <1>3, <1>4, PaidMeansSettled
  <1> QED BY <1>4, <1>6

LEMMA LoopFully == LoopInv => FullyAssignedIffOutstanding
  <1> SUFFICES ASSUME LoopInv, Done
               PROVE  /\ (remaining = 0) <=> (amount <= TotalBalance(rows, Ids))
                      /\ remaining > 0 => \A u \in Ids : posted[u].status = "paid"
    BY DEF FullyAssignedIffOutstanding
  <1>1. Passed = Ids /\ IsFiniteSet(Ids)
    BY LoopAssumption, PassedFinite DEF LoopInv, LoopTypeOK, Done, Passed, Ids
  <1>2. PICK f : f = [u \in Ids |-> CalculateDueBalance(rows[u])]
    OBVIOUS
  <1>3. PICK rest : rest = [u \in Ids |-> f[u] - assigned[u]]
    OBVIOUS
  <1>4. \A u \in Ids : /\ f[u] = Owed(u) /\ f[u] \in Nat /\ assigned[u] \in Nat
                       /\ rest[u] \in Nat /\ f[u] = assigned[u] + rest[u]
    BY <1>1, <1>2, <1>3, WithinOwed DEF Owed
  <1>5. PICK A, F, R : A = SumOver(assigned, Ids) /\ F = SumOver(f, Ids) /\ R = SumOver(rest, Ids)
    OBVIOUS
  <1>6. F = A + R
    <2>1. \A u \in Ids : assigned[u] \in Int /\ rest[u] \in Int /\ f[u] = assigned[u] + rest[u]
      BY <1>4
    <2> QED BY <1>1, <1>5, <2>1, SumOfChanges
  <1>7. R \in Nat /\ A \in Nat
    BY <1>1, <1>4, <1>5, SumIsNatural
  <1>8. A + remaining = amount /\ amount \in Nat /\ remaining \in Nat
    BY <1>1, <1>5 DEF LoopInv, LoopTypeOK
  <1>9. TotalBalance(rows, Ids) = F
    BY <1>2, <1>5 DEF TotalBalance
  <1>10. ASSUME remaining > 0
         PROVE  R = 0 /\ \A u \in Ids : posted[u].status = "paid"
    <2>1. \A u \in Ids : assigned[u] = Owed(u)
      BY <1>1, <1>10 DEF LoopInv
    <2>2. \A u \in Ids : rest[u] = 0
      BY <1>3, <1>4, <2>1
    <2> QED BY <1>1, <1>5, <2>1, <2>2, SumOfZeros, AllOwedSettles
  <1> QED BY <1>6, <1>7, <1>8, <1>9, <1>10

LEMMA LoopOldest == LoopInv => OldestFirst
  <1> SUFFICES ASSUME LoopInv, NEW u \in Passed, NEW v \in Passed, v < u, assigned[u] > 0
               PROVE  CalculateDueBalance(posted[v]) = 0
    BY DEF OldestFirst, Passed
  <1>1. v \in 1 .. u - 1
    BY DEF Passed, LoopInv, LoopTypeOK
  <1>2. assigned[v] = Owed(v)
    BY <1>1 DEF LoopInv
  <1> QED BY <1>2, AllOwedSettles

LEMMA LoopPriority == LoopInv => PriorityRespected
  <1> SUFFICES ASSUME LoopInv, NEW u \in Passed
               PROVE  IF priority = "principal_first"
                      THEN posted[u].penaltyPaid > rows[u].penaltyPaid => PrincipalBalance(posted[u]) = 0
                      ELSE posted[u].paid > rows[u].paid => PenaltyBalance(posted[u]) = 0
    BY DEF PriorityRespected, Passed
  <1>1. PICK row, n, w : row = rows[u] /\ n = assigned[u] /\ w = posted[u]
    OBVIOUS
  <1>2. row \in DueRow /\ n \in Nat
    BY <1>1, WithinOwed
  <1>3. w = AllocatePayment(row, n, priority)
    BY <1>1 DEF LoopInv
  <1>4. /\ w.paid = row.paid + PrincipalShare(row, n, priority)
        /\ w.penaltyPaid = row.penaltyPaid + PenaltyShare(row, n, priority)
        /\ w.amount = row.amount /\ w.waived = row.waived /\ w.penaltyDue = row.penaltyDue
    BY <1>2, <1>3, AllocateType
  <1>5. /\ row.amount \in Nat /\ row.paid \in Nat /\ row.waived \in Nat
        /\ row.penaltyDue \in Nat /\ row.penaltyPaid \in Nat
    BY <1>2 DEF DueRow
  <1>6. CASE priority = "principal_first"
    <2> SUFFICES ASSUME w.penaltyPaid > row.penaltyPaid PROVE PrincipalBalance(w) = 0
      BY <1>1, <1>6
    <2> QED BY <1>2, <1>4, <1>5, <1>6 DEF PrincipalShare, PenaltyShare, PrincipalBalance, PenaltyBalance, NonNegative, Lesser
  <1>7. CASE priority # "principal_first"
    <2> SUFFICES ASSUME w.paid > row.paid PROVE PenaltyBalance(w) = 0
      BY <1>1, <1>7
    <2> QED BY <1>2, <1>4, <1>5, <1>7 DEF PrincipalShare, PenaltyShare, PrincipalBalance, PenaltyBalance, NonNegative, Lesser
  <1> QED BY <1>6, <1>7

\* For any number of dues, any payment and either priority, the loop of
\* planDepositAllocation computes the only plan there is, loses no money,
\* settles older dues first and the half that has priority before the other
\* (deposit-allocation.ts).
THEOREM LoopComputesPlan == LoopSpec => []AllocationHolds
  <1>1. LoopInv => AllocationHolds
    BY LoopSolves, LoopConserves, LoopFully, LoopOldest, LoopPriority DEF AllocationHolds
  <1> QED BY <1>1, LoopStarts, LoopStep, PTL DEF LoopSpec

LEMMA LoopKeepsTypes == LoopSpec => []LoopTypeOK
  <1>1. LoopInv => LoopTypeOK
    BY DEF LoopInv
  <1> QED BY <1>1, LoopStarts, LoopStep, PTL DEF LoopSpec

-----------------------------------------------------------------------------
(* Documents and stock.  The argument: what a standing invoice took, its   *)
(* row still names, because only drafts and open quotations are edited;    *)
(* and stock enters or leaves one place of one item at a time.             *)

Statuses == {"none", "draft", "sent", "accepted", "rejected", "expired", "cancelled", "converted",
             "confirmed", "fulfilling", "completed", "issued"}
Flow == [quotations : BOOLEAN, orders : BOOLEAN, skip : BOOLEAN]
Paper == [kind : Kinds \cup {"none"}, status : Statuses, terms : Terms \cup {NoTerms}, place : Stores,
          tracked : BOOLEAN, paid : Nat, source : Papers \cup {NoPaper}, flow : Flow]
Sources == Papers \cup {NoPaper}

DocumentsTyped ==
  /\ setting \in [flow : Flows, stock : BOOLEAN]
  /\ paper \in [Papers -> Paper]
  /\ agreed \in [Papers -> Terms \cup {NoTerms}]
  /\ onHand \in [Goods -> [status : {"none", "active", "archived"}, number : Nat]]
  /\ moved \in [Goods -> [Stores -> [Sources -> Int]]]
  /\ openAt \subseteq Stores /\ banked \in 0 .. MaxBanked

\* A row that exists is a document of one kind, sells something that is on
\* file, and came from one that exists.
RowSound(row) ==
  /\ row.status = "none" => row = NoDocument
  /\ row.status # "none" => row.kind \in Kinds /\ row.terms \in Terms
  /\ row.kind = "order" => row.flow.orders
  /\ row.status \in {"issued"} => row.kind = "sale" /\ (row.tracked => row.terms.goods \in Goods)
  /\ row.paid > 0 => row.status = "issued" /\ row.paid <= row.terms.number
  /\ row.terms.goods \in Goods => onHand[row.terms.goods].status # "none"
  /\ row.source \in Papers => paper[row.source].status # "none"
RowsSound == \A d \in Papers : RowSound(paper[d])

\* Of an item that is not on file nothing was moved.
UnlistedEmpty ==
  \A k \in Goods : onHand[k].status = "none" =>
    onHand[k].number = 0 /\ \A p \in Stores : moved[k][p][NoPaper] = 0

DocumentsInv == DocumentsTyped /\ RowsSound /\ UnlistedEmpty /\ DocumentsHold

LEMMA SummedIsSum == ASSUME NEW f, NEW S PROVE Summed(f, S) = SumOver(f, S)
  BY DEF Summed, SumOver

LEMMA FlowTypes == ASSUME NEW f \in Flows PROVE f \in Flow
  BY DocumentsAssumption DEF Flow

LEMMA TermsTypes ==
  ASSUME NEW t \in Terms
  PROVE  t.number \in Nat /\ t.number > 0 /\ t.goods \in Goods \cup {NoGoods}
  <1>1. t.number \in Quantities /\ t.goods \in Goods \cup {NoGoods}
    BY DEF Terms
  <1>2. t.number \in Nat \ {0}
    BY <1>1, DocumentsAssumption
  <1> QED BY <1>1, <1>2

LEMMA NoDocumentSound ==
  /\ NoDocument \in Paper /\ NoDocument.status = "none" /\ NoDocument.kind = "none"
  /\ NoDocument.terms = NoTerms /\ NoDocument.paid = 0 /\ NoDocument.source = NoPaper
  /\ ~NoDocument.tracked /\ NoTerms.goods \notin Goods
  BY DocumentsAssumption DEF NoDocument, Paper, NoTerms, Statuses, Flow

-----------------------------------------------------------------------------
(* Sums over places and documents. *)

LEMMA MovedSums ==
  ASSUME NEW m \in [Goods -> [Stores -> [Sources -> Int]]], NEW k \in Goods, NEW p \in Stores
  PROVE  SumOver(m[k][p], Sources) \in Int
  <1>1. IsFiniteSet(Sources)
    BY DocumentsAssumption, FS_AddElement DEF Sources
  <1>2. \A d \in Sources : m[k][p][d] \in Int
    OBVIOUS
  <1> QED BY <1>1, <1>2, SumIsInteger

LEMMA MovedAtIs ==
  ASSUME NEW k \in Goods, NEW p \in Stores
  PROVE  MovedAt(k)[p] = SumOver(moved[k][p], Sources)
  BY SummedIsSum DEF MovedAt, Sources

LEMMA MovedAtIsNext ==
  ASSUME NEW k \in Goods, NEW p \in Stores
  PROVE  MovedAt(k)'[p] = SumOver(moved'[k][p], Sources)
  <1>1. MovedAt(k)' = [q \in Stores |-> Summed(moved'[k][q], Sources)]
    BY DEF MovedAt, Sources
  <1> QED BY <1>1, SummedIsSum

\* What every place has of every item, as one function.
Stocks == [k \in Goods |-> [p \in Stores |-> StockAt(k, p)]]

\* A movement of n of an item, in a place and for a document.
Moves(k, p, d, n) ==
  /\ moved' = [moved EXCEPT ![k][p][d] = moved[k][p][d] + n]
  /\ onHand'[k].number = onHand[k].number + n
  /\ \A j \in Goods \ {k} : onHand'[j].number = onHand[j].number

\* One movement changes what one place has by its taking.
LEMMA StockMoves ==
  ASSUME DocumentsTyped, NEW k \in Goods, NEW p \in Stores, NEW d \in Sources, NEW n \in Int,
         Moves(k, p, d, n)
  PROVE  \A j \in Goods, q \in Stores :
           /\ Stocks[j][q] \in Int
           /\ Stocks'[j][q] = Stocks[j][q] + (IF j = k /\ q = p THEN n ELSE 0)
  <1> SUFFICES ASSUME NEW j \in Goods, NEW q \in Stores
               PROVE  /\ StockAt(j, q) \in Int
                      /\ StockAt(j, q)' = StockAt(j, q) + (IF j = k /\ q = p THEN n ELSE 0)
    BY DEF Stocks
  <1>12. /\ moved' = [moved EXCEPT ![k][p][d] = moved[k][p][d] + n]
        /\ onHand'[k].number = onHand[k].number + n
        /\ \A z \in Goods \ {k} : onHand'[z].number = onHand[z].number
    BY DEF Moves
  <1>1. PICK u, v : u = moved /\ v = moved'
    OBVIOUS
  <1>2. u \in [Goods -> [Stores -> [Sources -> Int]]] /\ v = [u EXCEPT ![k][p][d] = u[k][p][d] + n]
    BY <1>12, <1>1 DEF DocumentsTyped
  <1>3. u[k][p][d] \in Int /\ u[k][p][d] + n \in Int
    BY <1>2
  <1>4. v \in [Goods -> [Stores -> [Sources -> Int]]]
    BY <1>2, <1>3
  <1>5. IsFiniteSet(Sources)
    BY DocumentsAssumption, FS_AddElement DEF Sources
  <1>6. ASSUME NEW z \in Stores
        PROVE  /\ SumOver(u[j][z], Sources) \in Int /\ SumOver(v[j][z], Sources) \in Int
               /\ SumOver(v[j][z], Sources) = SumOver(u[j][z], Sources) + (IF j = k /\ z = p THEN n ELSE 0)
    <2>1. SumOver(u[j][z], Sources) \in Int /\ SumOver(v[j][z], Sources) \in Int
      BY <1>2, <1>4, MovedSums
    <2>2. CASE j = k /\ z = p
      <3>1. PICK f, g : f = u[k][p] /\ g = v[k][p]
        OBVIOUS
      <3>2. g = [f EXCEPT ![d] = f[d] + n] /\ f \in [Sources -> Int]
        BY <1>2, <3>1
      <3>3. \A x \in Sources : f[x] \in Int /\ g[x] \in Int
        BY <3>2
      <3>4. \A x \in Sources \ {d} : g[x] = f[x]
        BY <3>2
      <3>5. SumOver(g, Sources) = SumOver(f, Sources) + g[d] - f[d]
        BY <1>5, <3>3, <3>4, SumUpdate
      <3>6. g[d] = f[d] + n /\ f[d] \in Int
        BY <3>2
      <3> QED BY <2>1, <2>2, <3>1, <3>5, <3>6
    <2>3. CASE ~(j = k /\ z = p)
      <3>1. v[j][z] = u[j][z]
        BY <1>2, <2>3
      <3> QED BY <2>1, <2>3, <3>1
    <2> QED BY <2>1, <2>2, <2>3
  <1>7. PICK f, g : f = MovedAt(j) /\ g = MovedAt(j)'
    OBVIOUS
  <1>8. \A z \in Stores : f[z] = SumOver(u[j][z], Sources) /\ g[z] = SumOver(v[j][z], Sources)
    BY <1>1, <1>7, MovedAtIs, MovedAtIsNext
  <1>9. \A z \in Stores : /\ f[z] \in Int /\ g[z] \in Int
                          /\ g[z] = f[z] + (IF j = k /\ z = p THEN n ELSE 0)
    BY <1>6, <1>8
  <1>10. CASE q # MainStore
    <2>1. StockAt(j, q) = f[q] /\ StockAt(j, q)' = g[q]
      BY <1>7, <1>10 DEF StockAt
    <2> QED BY <1>9, <2>1
  <1>11. CASE q = MainStore
    <2>1. PICK S : S = Stores \ {MainStore}
      OBVIOUS
    <2>2. IsFiniteSet(S)
      BY <2>1, DocumentsAssumption, FS_Subset
    <2>3. StockAt(j, q) = onHand[j].number - SumOver(f, S)
      BY <1>7, <1>11, <2>1, SummedIsSum DEF StockAt
    <2>4. StockAt(j, q)' = onHand'[j].number - SumOver(g, S)
      <3>1. StockAt(j, q)' = onHand'[j].number - Summed(g, S)
        BY <1>7, <1>11, <2>1 DEF StockAt
      <3> QED BY <3>1, SummedIsSum
    <2>5. \A z \in S : z \in Stores /\ f[z] \in Int /\ g[z] \in Int
      BY <1>9, <2>1
    <2>6. SumOver(f, S) \in Int
      BY <2>2, <2>5, SumIsInteger
    <2>7. onHand[j].number \in Int /\ onHand[k].number \in Int
      BY DEF DocumentsTyped
    <2>8. CASE j = k /\ p # MainStore
      <3>1. p \in S /\ \A z \in S \ {p} : g[z] = f[z]
        BY <1>9, <2>1, <2>8
      <3>2. SumOver(g, S) = SumOver(f, S) + g[p] - f[p]
        BY <2>2, <2>5, <3>1, SumUpdate
      <3>3. g[p] = f[p] + n /\ f[p] \in Int
        BY <1>9, <2>8
      <3> QED BY <1>12, <1>11, <2>3, <2>4, <2>6, <2>7, <2>8, <3>2, <3>3
    <2>9. CASE ~(j = k /\ p # MainStore)
      <3>1. \A z \in S : g[z] = f[z]
        BY <1>9, <2>1, <2>9
      <3>2. SumOver(g, S) = SumOver(f, S)
        BY <2>2, <3>1, SumAgrees
      <3> QED BY <1>12, <1>11, <2>3, <2>4, <2>6, <2>7, <2>9, <3>2
    <2> QED BY <2>8, <2>9
  <1> QED BY <1>10, <1>11

\* A step that moves nothing.
LEMMA StockStands ==
  ASSUME UNCHANGED moved, \A k \in Goods : onHand'[k].number = onHand[k].number
  PROVE  \A k \in Goods, p \in Stores : Stocks'[k][p] = Stocks[k][p]
  BY DEF Stocks, StockAt, MovedAt

-----------------------------------------------------------------------------
(* The parts of the invariant, for any step. *)

\* What a row sells, and what became of it, while it is not an issued invoice.
TakesFrom(row, k, p) == row.status = "issued" /\ row.tracked /\ row.place = p /\ row.terms.goods = k
Drawn(row, k, p) == IF TakesFrom(row, k, p) THEN -row.terms.number ELSE 0

LEMMA StockIs ==
  StockFollowsInvoices <=>
    \A k \in Goods :
      /\ \A p \in Stores : Stocks[k][p] >= 0
      /\ \A p \in Stores, d \in Papers : moved[k][p][d] = Drawn(paper[d], k, p)
  BY DEF Stocks, StockFollowsInvoices, Drawn, TakesFrom

LEMMA StockIsNext ==
  StockFollowsInvoices' <=>
    \A k \in Goods :
      /\ \A p \in Stores : Stocks'[k][p] >= 0
      /\ \A p \in Stores, d \in Papers : moved'[k][p][d] = Drawn(paper'[d], k, p)
  BY DEF Stocks, StockFollowsInvoices, Drawn, TakesFrom

\* No invoice's stock, price or state changes.
LEMMA StockStays ==
  ASSUME StockFollowsInvoices, UNCHANGED moved,
         \A k \in Goods : onHand'[k].number = onHand[k].number,
         \A d \in Papers :
           \/ paper'[d] = paper[d]
           \/ (paper[d].status # "issued" /\ paper'[d].status # "issued")
           \/ (paper'[d] = [paper[d] EXCEPT !.paid = paper'[d].paid] /\ paper[d] \in Paper)
  PROVE  StockFollowsInvoices'
  <1>1. \A k \in Goods, p \in Stores : Stocks'[k][p] = Stocks[k][p]
    BY StockStands
  <1>2. ASSUME NEW k \in Goods, NEW p \in Stores, NEW d \in Papers
        PROVE  Drawn(paper'[d], k, p) = Drawn(paper[d], k, p)
    <2>1. CASE paper'[d] = paper[d]
      BY <2>1
    <2>2. CASE paper[d].status # "issued" /\ paper'[d].status # "issued"
      BY <2>2 DEF Drawn, TakesFrom
    <2>3. CASE paper'[d] = [paper[d] EXCEPT !.paid = paper'[d].paid] /\ paper[d] \in Paper
      BY <2>3 DEF Drawn, TakesFrom, Paper
    <2> QED BY <2>1, <2>2, <2>3
  <1> QED BY <1>1, <1>2, StockIs, StockIsNext

\* Rows keep their kind, flow and source once they exist.
Lasting(x, y) ==
  x.status # "none" => y.status # "none" /\ y.kind = x.kind /\ y.flow = x.flow /\ y.source = x.source

\* What the workflow of a new row asks of the document before it.
FlowAsks(row, before) ==
  row.status # "none" /\ ~row.flow.skip =>
    /\ row.kind = "sale" /\ row.flow.orders => before = "order"
    /\ row.kind = "sale" /\ ~row.flow.orders /\ row.flow.quotations => before = "quotation"
    /\ row.kind = "order" /\ row.flow.quotations => before = "quotation"

LEMMA WorkflowIs ==
  FollowsItsWorkflow <=>
    \A d \in Papers :
      FlowAsks(paper[d], IF paper[d].source = NoPaper THEN "none" ELSE paper[paper[d].source].kind)
  BY DEF FollowsItsWorkflow, FlowAsks

LEMMA WorkflowIsNext ==
  FollowsItsWorkflow' <=>
    \A d \in Papers :
      FlowAsks(paper'[d], IF paper'[d].source = NoPaper THEN "none" ELSE paper'[paper'[d].source].kind)
  BY DEF FollowsItsWorkflow, FlowAsks

LEMMA WorkflowStays ==
  ASSUME DocumentsInv, DocumentsTyped',
         \A d \in Papers : Lasting(paper[d], paper'[d]),
         \A d \in Papers : paper[d].status = "none" =>
           \/ paper'[d] = paper[d]
           \/ FlowAsks(paper'[d], IF paper'[d].source = NoPaper THEN "none" ELSE paper[paper'[d].source].kind)
              /\ (paper'[d].source # NoPaper => paper[paper'[d].source].status # "none")
  PROVE  FollowsItsWorkflow'
  <1> SUFFICES ASSUME NEW d \in Papers
               PROVE  FlowAsks(paper'[d], IF paper'[d].source = NoPaper THEN "none"
                                          ELSE paper'[paper'[d].source].kind)
    BY WorkflowIsNext
  <1>1. PICK x, y, s : x = paper[d] /\ y = paper'[d] /\ s = y.source
    OBVIOUS
  <1>2. s \in Papers \cup {NoPaper} /\ x.source \in Papers \cup {NoPaper}
    BY <1>1 DEF DocumentsInv, DocumentsTyped, Paper
  <1>3. FlowAsks(x, IF x.source = NoPaper THEN "none" ELSE paper[x.source].kind)
    BY <1>1, WorkflowIs DEF DocumentsInv, DocumentsHold
  <1>4. RowSound(x)
    BY <1>1 DEF DocumentsInv, RowsSound
  <1>5. CASE x.status # "none"
    <2>1. y.status # "none" /\ y.kind = x.kind /\ y.flow = x.flow /\ s = x.source
      BY <1>1, <1>5 DEF Lasting
    <2>2. s # NoPaper => paper[s].status # "none"
      BY <1>2, <1>4, <2>1 DEF RowSound
    <2>3. s # NoPaper => paper'[s].kind = paper[s].kind
      BY <1>2, <2>2 DEF Lasting
    <2> QED BY <1>1, <1>3, <1>5, <2>1, <2>3 DEF FlowAsks
  <1>6. CASE x.status = "none" /\ y = x
    BY <1>1, <1>6 DEF FlowAsks
  <1>7. CASE /\ x.status = "none"
             /\ FlowAsks(y, IF s = NoPaper THEN "none" ELSE paper[s].kind)
             /\ s # NoPaper => paper[s].status # "none"
    <2>1. s # NoPaper => paper'[s].kind = paper[s].kind
      BY <1>2, <1>7 DEF Lasting
    <2> QED BY <1>1, <1>7, <2>1 DEF FlowAsks
  <1> QED BY <1>1, <1>5, <1>6, <1>7

LEMMA RowsStay ==
  ASSUME DocumentsInv,
         \A d \in Papers : Lasting(paper[d], paper'[d]),
         \A k \in Goods : onHand[k].status # "none" => onHand'[k].status # "none",
         \A d \in Papers : paper'[d] = paper[d] \/ RowSound(paper[d])'
  PROVE  RowsSound'
  <1> SUFFICES ASSUME NEW d \in Papers, paper'[d] = paper[d] PROVE RowSound(paper[d])'
    BY DEF RowsSound
  <1>1. RowSound(paper[d])
    BY DEF DocumentsInv, RowsSound
  <1>2. PICK x : x = paper[d]
    OBVIOUS
  <1>3. x.source \in Papers => paper'[x.source].status # "none"
    BY <1>1, <1>2 DEF RowSound, Lasting
  <1>4. x.terms.goods \in Goods => onHand'[x.terms.goods].status # "none"
    BY <1>1, <1>2 DEF RowSound
  <1> QED BY <1>1, <1>2, <1>3, <1>4 DEF RowSound

\* Payments, when no taking paid changes.
LEMMA PaymentsStay ==
  ASSUME DocumentsInv, UNCHANGED banked, RowsSound',
         \A d \in Papers : paper'[d].paid = paper[d].paid
  PROVE  PaymentsStandAgainstInvoices'
  <1>1. [d \in Papers |-> paper'[d].paid] = [d \in Papers |-> paper[d].paid]
    OBVIOUS
  <1>2. banked = Summed([d \in Papers |-> paper[d].paid], Papers)
    BY DEF DocumentsInv, DocumentsHold, PaymentsStandAgainstInvoices
  <1>3. \A d \in Papers : paper'[d].paid > 0 => paper'[d].status = "issued" /\ paper'[d].paid <= paper'[d].terms.number
    BY DEF RowsSound, RowSound
  <1> QED BY <1>1, <1>2, <1>3 DEF PaymentsStandAgainstInvoices

\* A document that is no issued invoice is written or changed.
LEMMA DraftChanges ==
  ASSUME DocumentsInv, UNCHANGED <<setting, onHand, moved, openAt, banked>>,
         NEW d \in Papers, NEW row \in Paper, paper' = [paper EXCEPT ![d] = row],
         paper[d].status # "issued", row.status \notin {"issued", "none"},
         row.kind \in Kinds, row.terms \in Terms, row.kind = "order" => row.flow.orders, row.paid = 0,
         row.terms.goods \in Goods => onHand[row.terms.goods].status # "none",
         Lasting(paper[d], row), row.source = paper[d].source,
         paper[d].status = "none" => row.source = NoPaper /\ FlowAsks(row, "none"),
         agreed' \in [Papers -> Terms \cup {NoTerms}], \A x \in Papers \ {d} : agreed'[x] = agreed[x],
         row.kind = "quotation" /\ row.status \in {"accepted", "converted"} => agreed'[d] = row.terms
  PROVE  DocumentsInv'
  <1>1. \A x \in Papers : paper'[x] = IF x = d THEN row ELSE paper[x]
    BY DEF DocumentsInv, DocumentsTyped
  <1>2. DocumentsTyped'
    BY DEF DocumentsInv, DocumentsTyped
  <1>3. RowSound(paper[d])
    BY DEF DocumentsInv, RowsSound
  <1>4. \A x \in Papers : Lasting(paper[x], paper'[x])
    BY <1>1 DEF Lasting
  <1>5. row.source \in Papers => paper'[row.source].status # "none"
    <2>1. row.source \in Papers => paper[row.source].status # "none"
      BY <1>3 DEF RowSound
    <2> QED BY <2>1, <1>4 DEF Lasting
  <1>6. RowSound(paper[d])'
    BY <1>1, <1>5 DEF RowSound
  <1>7. RowsSound'
    BY <1>1, <1>4, <1>6, RowsStay
  <1>8. UnlistedEmpty'
    BY DEF DocumentsInv, UnlistedEmpty
  <1>9. StockFollowsInvoices'
    <2>1. \A x \in Papers :
            \/ paper'[x] = paper[x]
            \/ (paper[x].status # "issued" /\ paper'[x].status # "issued")
      BY <1>1
    <2>2. UNCHANGED moved /\ \A k \in Goods : onHand'[k].number = onHand[k].number
      OBVIOUS
    <2>3. StockFollowsInvoices
      BY DEF DocumentsInv, DocumentsHold
    <2> QED BY <2>1, <2>2, <2>3, StockStays
  <1>10. AcceptedAsItStands'
    BY <1>1 DEF DocumentsInv, DocumentsHold, AcceptedAsItStands
  <1>11. FollowsItsWorkflow'
    <2>1. \A x \in Papers : paper[x].status = "none" =>
           \/ paper'[x] = paper[x]
           \/ FlowAsks(paper'[x], IF paper'[x].source = NoPaper THEN "none" ELSE paper[paper'[x].source].kind)
              /\ (paper'[x].source # NoPaper => paper[paper'[x].source].status # "none")
      BY <1>1
    <2> QED BY <1>2, <1>4, <2>1, WorkflowStays
  <1>12. paper[d].paid = 0
    BY <1>3 DEF RowSound, DocumentsInv, DocumentsTyped, Paper
  <1>13. PaymentsStandAgainstInvoices'
    BY <1>1, <1>7, <1>12, PaymentsStay
  <1> QED BY <1>2, <1>7, <1>8, <1>9, <1>10, <1>11, <1>13 DEF DocumentsInv, DocumentsHold

-----------------------------------------------------------------------------
(* Writing documents. *)

LEMMA PaperFields ==
  ASSUME DocumentsInv, NEW d \in Papers
  PROVE  /\ paper[d] \in Paper /\ RowSound(paper[d])
         /\ paper[d].status # "issued" => paper[d].paid = 0
         /\ paper[d].status # "none" => paper[d].kind \in Kinds /\ paper[d].terms \in Terms
         /\ paper[d].status = "none" => paper[d].kind = "none" /\ paper[d].source = NoPaper
  <1>1. paper[d] \in Paper /\ RowSound(paper[d])
    BY DEF DocumentsInv, DocumentsTyped, RowsSound
  <1>2. paper[d].paid \in Nat
    BY <1>1 DEF Paper
  <1>3. paper[d].status # "issued" => paper[d].paid = 0
    BY <1>1, <1>2 DEF RowSound
  <1> QED BY <1>1, <1>3, NoDocumentSound DEF RowSound

LEMMA CreateDocumentSafe ==
  ASSUME DocumentsInv, NEW d \in Papers, NEW kind \in Kinds, NEW terms \in Terms, NEW p \in Stores,
         CreateDocument(d, kind, terms, p)
  PROVE  DocumentsInv'
  <1>1. PICK row : row = [NoDocument EXCEPT !.kind = kind, !.status = "draft",
                                            !.terms = terms, !.place = p, !.flow = setting.flow]
    OBVIOUS
  <1>2. paper' = [paper EXCEPT ![d] = row] /\ paper[d].status = "none"
    BY <1>1 DEF CreateDocument
  <1>3. setting.flow \in Flow
    BY FlowTypes DEF DocumentsInv, DocumentsTyped
  <1>4. row \in Paper
    BY <1>1, <1>3, NoDocumentSound DEF Paper, Statuses
  <1>5. /\ row.kind = kind /\ row.status = "draft" /\ row.terms = terms /\ row.flow = setting.flow
        /\ row.paid = 0 /\ row.source = NoPaper
    BY <1>1, NoDocumentSound DEF Paper
  <1>6. /\ kind = "order" => row.flow.orders
        /\ FlowAsks(row, "none")
    <2>1. AllowedDirectly(kind, row.flow)
      BY <1>5 DEF CreateDocument
    <2>2. kind = "order" => row.flow.orders
      BY <2>1 DEF AllowedDirectly
    <2>3. kind = "sale" /\ ~row.flow.skip => ~row.flow.quotations /\ ~row.flow.orders
      BY <2>1 DEF AllowedDirectly
    <2>4. kind = "order" /\ ~row.flow.skip => ~row.flow.quotations
      BY <2>1 DEF AllowedDirectly
    <2> QED BY <1>5, <2>2, <2>3, <2>4 DEF FlowAsks
  <1>7. terms.goods \in Goods => onHand[terms.goods].status # "none"
    BY DocumentsAssumption DEF CreateDocument, Sellable
  <1>8. Lasting(paper[d], row) /\ row.source = paper[d].source
    BY <1>2, <1>5, PaperFields DEF Lasting
  <1>9. agreed' = agreed /\ agreed \in [Papers -> Terms \cup {NoTerms}]
    BY DEF CreateDocument, DocumentsInv, DocumentsTyped
  <1>10. ~(row.kind = "quotation" /\ row.status \in {"accepted", "converted"})
    BY <1>5
  <1>11. UNCHANGED <<setting, onHand, moved, openAt, banked>>
    BY DEF CreateDocument
  <1> QED BY <1>2, <1>4, <1>5, <1>6, <1>7, <1>8, <1>9, <1>10, <1>11, DraftChanges

LEMMA EditDocumentSafe ==
  ASSUME DocumentsInv, NEW d \in Papers, NEW terms \in Terms, NEW p \in Stores, EditDocument(d, terms, p)
  PROVE  DocumentsInv'
  <1>1. PICK x, row : /\ x = paper[d]
                      /\ row = [x EXCEPT !.terms = terms, !.place = p, !.status = StatusAfterEdit(x.status)]
    OBVIOUS
  <1>2. x \in Paper /\ RowSound(x) /\ x.status \in {"draft", "sent", "accepted"}
    BY <1>1, PaperFields DEF EditDocument
  <1>3. paper' = [paper EXCEPT ![d] = row]
    <2>1. paper' = [paper EXCEPT ![d] = [[[paper[d] EXCEPT !.terms = terms] EXCEPT !.place = p]
                                           EXCEPT !.status = StatusAfterEdit(paper[d].status)]]
      BY <1>1, <1>2 DEF EditDocument, DocumentsInv, DocumentsTyped, Paper
    <2> QED BY <1>1, <1>2, <2>1 DEF Paper
  <1>4. StatusAfterEdit(x.status) \in {"draft", "sent"}
    BY <1>2 DEF StatusAfterEdit
  <1>5. row \in Paper
    BY <1>1, <1>2, <1>4 DEF Paper, Statuses
  <1>6. /\ row.kind = x.kind /\ row.status \in {"draft", "sent"} /\ row.terms = terms /\ row.flow = x.flow
        /\ row.paid = x.paid /\ row.source = x.source
    BY <1>1, <1>2, <1>4 DEF Paper
  <1>7. row.paid = 0 /\ row.kind \in Kinds /\ (row.kind = "order" => row.flow.orders)
    BY <1>1, <1>2, <1>6, PaperFields DEF RowSound
  <1>8. terms.goods \in Goods => onHand[terms.goods].status # "none"
    BY DocumentsAssumption DEF EditDocument, Sellable
  <1>9. Lasting(paper[d], row) /\ row.source = paper[d].source
    BY <1>1, <1>6 DEF Lasting
  <1>10. agreed' = agreed /\ agreed \in [Papers -> Terms \cup {NoTerms}]
    BY DEF EditDocument, DocumentsInv, DocumentsTyped
  <1>11. UNCHANGED <<setting, onHand, moved, openAt, banked>>
    BY DEF EditDocument
  <1>12. paper[d].status \notin {"issued", "none"} /\ row.status \notin {"issued", "none", "accepted", "converted"}
    BY <1>1, <1>2, <1>6
  <1> QED BY <1>3, <1>5, <1>6, <1>7, <1>8, <1>9, <1>10, <1>11, <1>12, DraftChanges

LEMMA LinkItemSafe ==
  ASSUME DocumentsInv, NEW d \in Papers, NEW k \in Goods, LinkItem(d, k)
  PROVE  DocumentsInv'
  <1>1. PICK x, t, row : /\ x = paper[d] /\ t = [x.terms EXCEPT !.goods = k]
                         /\ row = [x EXCEPT !.terms = t]
    OBVIOUS
  <1>2. /\ x \in Paper /\ RowSound(x) /\ x.status \in {"draft", "confirmed", "fulfilling"}
        /\ x.kind \in {"order", "sale"}
    BY <1>1, PaperFields DEF LinkItem
  <1>3. x.terms \in Terms
    BY <1>2 DEF RowSound
  <1>4. t \in Terms /\ t.goods = k
    BY <1>1, <1>3 DEF Terms
  <1>5. paper' = [paper EXCEPT ![d] = row]
    BY <1>1 DEF LinkItem
  <1>6. row \in Paper
    BY <1>1, <1>2, <1>4 DEF Paper
  <1>7. /\ row.kind = x.kind /\ row.status = x.status /\ row.terms = t /\ row.flow = x.flow
        /\ row.paid = x.paid /\ row.source = x.source
    BY <1>1, <1>2 DEF Paper
  <1>8. row.paid = 0 /\ row.kind \in Kinds /\ (row.kind = "order" => row.flow.orders)
    BY <1>1, <1>2, <1>7, PaperFields DEF RowSound, Kinds
  <1>9. onHand[t.goods].status # "none"
    BY <1>4 DEF LinkItem
  <1>10. Lasting(paper[d], row) /\ row.source = paper[d].source
    BY <1>1, <1>7 DEF Lasting
  <1>11. agreed' = agreed /\ agreed \in [Papers -> Terms \cup {NoTerms}]
    BY DEF LinkItem, DocumentsInv, DocumentsTyped
  <1>12. UNCHANGED <<setting, onHand, moved, openAt, banked>>
    BY DEF LinkItem
  <1>13. paper[d].status \notin {"issued", "none"} /\ row.status \notin {"issued", "none"} /\ row.kind # "quotation"
    BY <1>1, <1>2, <1>7
  <1> QED BY <1>4, <1>5, <1>6, <1>7, <1>8, <1>9, <1>10, <1>11, <1>12, <1>13, DraftChanges

LEMMA ChangeStatusSafe ==
  ASSUME DocumentsInv, NEW d \in Papers, NEW status, ChangeStatus(d, status)
  PROVE  DocumentsInv'
  <1>1. PICK x, row : x = paper[d] /\ row = [x EXCEPT !.status = status]
    OBVIOUS
  <1>2. x \in Paper /\ RowSound(x) /\ status \in NextStatuses(x.kind, x.status)
    BY <1>1, PaperFields DEF ChangeStatus
  <1>3. /\ x.status \in {"draft", "sent", "accepted", "confirmed", "fulfilling"}
        /\ status \in {"sent", "cancelled", "accepted", "rejected", "expired", "confirmed", "fulfilling"}
    BY <1>2 DEF NextStatuses
  <1>4. paper' = [paper EXCEPT ![d] = row]
    BY <1>1 DEF ChangeStatus
  <1>5. row \in Paper
    BY <1>1, <1>2, <1>3 DEF Paper, Statuses
  <1>6. /\ row.kind = x.kind /\ row.status = status /\ row.terms = x.terms /\ row.flow = x.flow
        /\ row.paid = x.paid /\ row.source = x.source
    BY <1>1, <1>2 DEF Paper
  <1>7. /\ row.paid = 0 /\ row.kind \in Kinds /\ (row.kind = "order" => row.flow.orders)
        /\ row.terms \in Terms /\ (row.terms.goods \in Goods => onHand[row.terms.goods].status # "none")
    BY <1>1, <1>2, <1>3, <1>6, PaperFields DEF RowSound
  <1>8. Lasting(paper[d], row) /\ row.source = paper[d].source
    BY <1>1, <1>3, <1>6 DEF Lasting
  <1>9. agreed' = IF status = "accepted" THEN [agreed EXCEPT ![d] = x.terms] ELSE agreed
    BY <1>1 DEF ChangeStatus
  <1>10. agreed \in [Papers -> Terms \cup {NoTerms}]
    BY DEF DocumentsInv, DocumentsTyped
  <1>11. /\ agreed' \in [Papers -> Terms \cup {NoTerms}]
         /\ \A z \in Papers \ {d} : agreed'[z] = agreed[z]
         /\ row.kind = "quotation" /\ row.status \in {"accepted", "converted"} => agreed'[d] = row.terms
    BY <1>3, <1>6, <1>7, <1>9, <1>10
  <1>12. UNCHANGED <<setting, onHand, moved, openAt, banked>>
    BY DEF ChangeStatus
  <1>13. paper[d].status \notin {"issued", "none"} /\ row.status \notin {"issued", "none"}
    BY <1>1, <1>3, <1>6
  <1> QED BY <1>4, <1>5, <1>7, <1>8, <1>11, <1>12, <1>13, DraftChanges

-----------------------------------------------------------------------------
(* Issuing, cancelling and paying invoices. *)

\* An unpaid invoice becomes the row, and n of what it sells enter its place.
InvoiceStep(d, row, n) ==
  /\ paper' = [paper EXCEPT ![d] = row] /\ UNCHANGED <<setting, agreed, openAt, banked>>
  /\ paper[d].kind = "sale" /\ paper[d].status \in {"draft", "issued"} /\ paper[d].paid = 0
  /\ row.kind = "sale" /\ row.status \in {"issued", "cancelled"} /\ row.paid = 0
  /\ row.terms = paper[d].terms /\ row.place = paper[d].place
  /\ row.flow = paper[d].flow /\ row.source = paper[d].source
  /\ row.status = "issued" /\ row.tracked => row.terms.goods \in Goods
  /\ \/ /\ row.terms.goods \in Goods /\ StockChange(row.terms.goods, row.place, n, d)
        /\ Drawn(row, row.terms.goods, row.place) = Drawn(paper[d], row.terms.goods, row.place) + n
     \/ /\ UNCHANGED <<onHand, moved>>
        /\ \A k \in Goods, p \in Stores : Drawn(row, k, p) = Drawn(paper[d], k, p)

\* An invoice takes its stock or brings it back.
LEMMA InvoiceMoves ==
  ASSUME DocumentsInv, NEW d \in Papers, NEW row \in Paper, NEW n \in Int, InvoiceStep(d, row, n)
  PROVE  DocumentsInv'
  <1>0. /\ paper' = [paper EXCEPT ![d] = row] /\ UNCHANGED <<setting, agreed, openAt, banked>>
        /\ paper[d].kind = "sale" /\ paper[d].status \in {"draft", "issued"} /\ paper[d].paid = 0
        /\ row.kind = "sale" /\ row.status \in {"issued", "cancelled"} /\ row.paid = 0
        /\ row.terms = paper[d].terms /\ row.place = paper[d].place
        /\ row.flow = paper[d].flow /\ row.source = paper[d].source
        /\ row.status = "issued" /\ row.tracked => row.terms.goods \in Goods
    BY DEF InvoiceStep
  <1>1. \A z \in Papers : paper'[z] = IF z = d THEN row ELSE paper[z]
    BY <1>0 DEF DocumentsInv, DocumentsTyped
  <1>2. PICK k, p : k = row.terms.goods /\ p = row.place
    OBVIOUS
  <1>3. /\ p \in Stores /\ d \in Sources /\ moved \in [Goods -> [Stores -> [Sources -> Int]]]
        /\ onHand \in [Goods -> [status : {"none", "active", "archived"}, number : Nat]]
    BY <1>2 DEF Paper, Sources, DocumentsInv, DocumentsTyped
  <1>4. ASSUME k \in Goods, StockChange(k, p, n, d), Drawn(row, k, p) = Drawn(paper[d], k, p) + n
        PROVE  /\ StockFollowsInvoices' /\ UnlistedEmpty' /\ moved' \in [Goods -> [Stores -> [Sources -> Int]]]
               /\ onHand' \in [Goods -> [status : {"none", "active", "archived"}, number : Nat]]
               /\ \A j \in Goods : onHand'[j].status = onHand[j].status
    <2>1. /\ onHand' = [onHand EXCEPT ![k].number = onHand[k].number + n]
          /\ moved' = [moved EXCEPT ![k][p][d] = moved[k][p][d] + n]
      BY <1>4 DEF StockChange
    <2>2. n < 0 => StockAt(k, p) >= -n /\ onHand[k].number >= -n
      BY <1>4 DEF StockChange
    <2>3. onHand[k].number \in Nat /\ onHand[k].number + n \in Nat
      BY <1>3, <1>4, <2>2
    <2>4. onHand' \in [Goods -> [status : {"none", "active", "archived"}, number : Nat]]
      BY <1>3, <1>4, <2>1, <2>3
    <2>5. moved[k][p][d] + n \in Int
      BY <1>3, <1>4
    <2>6. moved' \in [Goods -> [Stores -> [Sources -> Int]]]
      BY <1>3, <1>4, <2>1, <2>5
    <2>7. \A j \in Goods : /\ onHand'[j].status = onHand[j].status
                           /\ onHand'[j].number = onHand[j].number + (IF j = k THEN n ELSE 0)
      BY <1>3, <1>4, <2>1
    <2>8. \A j \in Goods, q \in Stores, z \in Sources :
            moved'[j][q][z] = moved[j][q][z] + (IF j = k /\ q = p /\ z = d THEN n ELSE 0)
      BY <1>3, <1>4, <2>1
    <2>9. \A j \in Goods, q \in Stores :
            /\ Stocks[j][q] \in Int
            /\ Stocks'[j][q] = Stocks[j][q] + (IF j = k /\ q = p THEN n ELSE 0)
      <3>1. onHand'[k].number = onHand[k].number + n
        BY <1>4, <2>7
      <3>2. \A j \in Goods \ {k} : onHand'[j].number = onHand[j].number
        BY <1>3, <2>7
      <3>3. DocumentsTyped
        BY DEF DocumentsInv
      <3>4. Moves(k, p, d, n)
        BY <2>1, <3>1, <3>2 DEF Moves
      <3>5. k \in Goods /\ p \in Stores /\ d \in Sources /\ n \in Int
        BY <1>3, <1>4
      <3> QED BY <3>3, <3>4, <3>5, StockMoves
    <2>10. \A j \in Goods, q \in Stores : Stocks'[j][q] >= 0
      <3>1. \A j \in Goods, q \in Stores : Stocks[j][q] >= 0
        BY StockIs DEF DocumentsInv, DocumentsHold
      <3>2. Stocks[k][p] = StockAt(k, p)
        BY <1>3, <1>4 DEF Stocks
      <3> QED BY <1>4, <2>2, <2>9, <3>1, <3>2
    <2>11. \A j \in Goods, q \in Stores, z \in Papers : moved'[j][q][z] = Drawn(paper'[z], j, q)
      <3> SUFFICES ASSUME NEW j \in Goods, NEW q \in Stores, NEW z \in Papers
                   PROVE  moved'[j][q][z] = Drawn(paper'[z], j, q)
        OBVIOUS
      <3>1. moved[j][q][z] = Drawn(paper[z], j, q) /\ moved[j][q][z] \in Int
        BY <1>3, StockIs DEF DocumentsInv, DocumentsHold, Sources
      <3>2. CASE j = k /\ q = p /\ z = d
        BY <1>1, <1>4, <2>8, <3>1, <3>2, <1>3
      <3>3. CASE z = d /\ ~(j = k /\ q = p)
        <4>1. Drawn(row, j, q) = 0 /\ Drawn(paper[d], j, q) = 0
          BY <1>0, <1>2, <3>3 DEF Drawn, TakesFrom
        <4> QED BY <1>1, <1>3, <2>8, <3>1, <3>3, <4>1
      <3>4. CASE z # d
        BY <1>1, <2>8, <3>1, <3>4 DEF Sources
      <3> QED BY <3>2, <3>3, <3>4
    <2>12. StockFollowsInvoices'
      BY <2>10, <2>11, StockIsNext
    <2>13. UnlistedEmpty'
      <3> SUFFICES ASSUME NEW j \in Goods, onHand[j].status = "none"
                   PROVE  onHand'[j].number = 0 /\ \A q \in Stores : moved'[j][q][NoPaper] = 0
        BY <2>7 DEF UnlistedEmpty
      <3>1. onHand[k].status # "none"
        <4>1. RowSound(paper[d])
          BY PaperFields
        <4> QED BY <1>0, <1>2, <1>4, <4>1 DEF RowSound
      <3>2. j # k /\ onHand[j].number = 0 /\ \A q \in Stores : moved[j][q][NoPaper] = 0
        BY <3>1 DEF DocumentsInv, UnlistedEmpty
      <3>3. NoPaper \in Sources
        BY DEF Sources
      <3> QED BY <2>7, <2>8, <3>2, <3>3
    <2> QED BY <2>4, <2>6, <2>7, <2>12, <2>13
  <1>5. ASSUME UNCHANGED <<onHand, moved>>,
               \A j \in Goods, q \in Stores : Drawn(row, j, q) = Drawn(paper[d], j, q)
        PROVE  /\ StockFollowsInvoices' /\ UnlistedEmpty' /\ moved' \in [Goods -> [Stores -> [Sources -> Int]]]
               /\ onHand' \in [Goods -> [status : {"none", "active", "archived"}, number : Nat]]
               /\ \A j \in Goods : onHand'[j].status = onHand[j].status
    <2>1. StockFollowsInvoices'
      <3>1. \A j \in Goods, q \in Stores : Stocks'[j][q] = Stocks[j][q]
        BY <1>5, StockStands
      <3>2. \A j \in Goods, q \in Stores, z \in Papers : Drawn(paper'[z], j, q) = Drawn(paper[z], j, q)
        BY <1>1, <1>5
      <3>3. moved' = moved
        BY <1>5
      <3>4. StockFollowsInvoices
        BY DEF DocumentsInv, DocumentsHold
      <3> QED BY <3>1, <3>2, <3>3, <3>4, StockIs, StockIsNext
    <2>2. UnlistedEmpty'
      BY <1>5 DEF DocumentsInv, UnlistedEmpty
    <2> QED BY <1>3, <1>5, <2>1, <2>2
  <1>6. /\ StockFollowsInvoices' /\ UnlistedEmpty' /\ moved' \in [Goods -> [Stores -> [Sources -> Int]]]
        /\ onHand' \in [Goods -> [status : {"none", "active", "archived"}, number : Nat]]
        /\ \A j \in Goods : onHand'[j].status = onHand[j].status
    BY <1>2, <1>4, <1>5 DEF InvoiceStep
  <1>7. DocumentsTyped'
    BY <1>0, <1>6 DEF DocumentsInv, DocumentsTyped
  <1>8. \A z \in Papers : Lasting(paper[z], paper'[z])
    BY <1>0, <1>1 DEF Lasting
  <1>9. RowSound(paper[d])
    BY PaperFields
  <1>10. row.source \in Papers => paper'[row.source].status # "none"
    BY <1>0, <1>8, <1>9 DEF RowSound, Lasting
  <1>11. RowSound(paper[d])'
    <2>1. row.terms \in Terms /\ (row.terms.goods \in Goods => onHand'[row.terms.goods].status # "none")
      BY <1>0, <1>6, <1>9 DEF RowSound
    <2> QED BY <1>0, <1>1, <1>10, <2>1 DEF RowSound, Kinds
  <1>12. RowsSound'
    BY <1>0, <1>1, <1>6, <1>8, <1>11, RowsStay
  <1>13. AcceptedAsItStands'
    BY <1>0, <1>1 DEF DocumentsInv, DocumentsHold, AcceptedAsItStands
  <1>14. FollowsItsWorkflow'
    BY <1>0, <1>1, <1>7, <1>8, WorkflowStays
  <1>15. PaymentsStandAgainstInvoices'
    BY <1>0, <1>1, <1>12, PaymentsStay
  <1> QED BY <1>6, <1>7, <1>12, <1>13, <1>14, <1>15 DEF DocumentsInv, DocumentsHold

LEMMA IssueSaleSafe ==
  ASSUME DocumentsInv, NEW d \in Papers, IssueSale(d)
  PROVE  DocumentsInv'
  <1>1. PICK x, row, n : /\ x = paper[d] /\ n = -x.terms.number
                         /\ row = [x EXCEPT !.status = "issued", !.tracked = setting.stock]
    OBVIOUS
  <1>2. x \in Paper /\ RowSound(x) /\ x.kind = "sale" /\ x.status = "draft" /\ x.paid = 0 /\ x.terms \in Terms
    BY <1>1, PaperFields DEF IssueSale
  <1>3. setting.stock \in BOOLEAN
    BY DEF DocumentsInv, DocumentsTyped
  <1>4. /\ row \in Paper /\ row.kind = x.kind /\ row.status = "issued" /\ row.terms = x.terms
        /\ row.place = x.place /\ row.flow = x.flow /\ row.paid = x.paid /\ row.source = x.source
        /\ row.tracked = setting.stock
    BY <1>1, <1>2, <1>3 DEF Paper, Statuses
  <1>5. paper' = [paper EXCEPT ![d] = row]
    <2>1. paper' = [paper EXCEPT ![d] = [[paper[d] EXCEPT !.status = "issued"] EXCEPT !.tracked = setting.stock]]
      BY DEF IssueSale, DocumentsInv, DocumentsTyped, Paper
    <2> QED BY <1>1, <1>2, <2>1 DEF Paper
  <1>6. x.terms.number \in Nat /\ n \in Int /\ x.terms.goods \in Goods \cup {NoGoods}
    BY <1>1, <1>2, TermsTypes
  <1>7. setting.stock => row.terms.goods \in Goods
    BY <1>1, <1>4, <1>6 DEF IssueSale
  <1>8. UNCHANGED <<setting, agreed, openAt, banked>>
    BY DEF IssueSale
  <1>9. CASE setting.stock
    <2>1. StockChange(row.terms.goods, row.place, n, d)
      BY <1>1, <1>4, <1>9 DEF IssueSale
    <2>2. Drawn(row, row.terms.goods, row.place) = n /\ Drawn(x, row.terms.goods, row.place) = 0
      BY <1>1, <1>2, <1>4, <1>9 DEF Drawn, TakesFrom
    <2>3. Drawn(row, row.terms.goods, row.place) = Drawn(x, row.terms.goods, row.place) + n
      BY <1>6, <2>2
    <2>4. InvoiceStep(d, row, n)
      BY <1>1, <1>2, <1>4, <1>5, <1>6, <1>7, <1>8, <1>9, <2>1, <2>3 DEF InvoiceStep
    <2> QED BY <2>4, <1>4, <1>6, InvoiceMoves
  <1>10. CASE ~setting.stock
    <2>1. UNCHANGED <<onHand, moved>>
      BY <1>10 DEF IssueSale
    <2>2. \A k \in Goods, p \in Stores : Drawn(row, k, p) = Drawn(x, k, p)
      BY <1>2, <1>4, <1>10 DEF Drawn, TakesFrom
    <2>4. InvoiceStep(d, row, n)
      BY <1>1, <1>2, <1>4, <1>5, <1>6, <1>7, <1>8, <1>10, <2>1, <2>2 DEF InvoiceStep
    <2> QED BY <2>4, <1>4, <1>6, InvoiceMoves
  <1> QED BY <1>9, <1>10

LEMMA CancelSaleSafe ==
  ASSUME DocumentsInv, NEW d \in Papers, CancelSale(d)
  PROVE  DocumentsInv'
  <1>1. PICK x, row, n : /\ x = paper[d] /\ n = x.terms.number
                         /\ row = [x EXCEPT !.status = "cancelled"]
    OBVIOUS
  <1>2. x \in Paper /\ RowSound(x) /\ x.kind = "sale" /\ x.status = "issued" /\ x.paid = 0 /\ x.terms \in Terms
    BY <1>1, PaperFields DEF CancelSale, NothingPaid
  <1>3. /\ row \in Paper /\ row.kind = x.kind /\ row.status = "cancelled" /\ row.terms = x.terms
        /\ row.place = x.place /\ row.flow = x.flow /\ row.paid = x.paid /\ row.source = x.source
        /\ row.tracked = x.tracked /\ x.tracked \in BOOLEAN
    BY <1>1, <1>2 DEF Paper, Statuses
  <1>4. paper' = [paper EXCEPT ![d] = row]
    BY <1>1 DEF CancelSale
  <1>5. n \in Nat
    BY <1>1, <1>2, TermsTypes
  <1>6. x.tracked => x.terms.goods \in Goods
    BY <1>2 DEF RowSound
  <1>7. UNCHANGED <<setting, agreed, openAt, banked>>
    BY DEF CancelSale
  <1>8. CASE x.tracked
    <2>1. StockChange(row.terms.goods, row.place, n, d)
      BY <1>1, <1>3, <1>8 DEF CancelSale, TookStock
    <2>2. Drawn(row, row.terms.goods, row.place) = 0 /\ Drawn(x, row.terms.goods, row.place) = -n
      BY <1>1, <1>2, <1>3, <1>8 DEF Drawn, TakesFrom
    <2>3. Drawn(row, row.terms.goods, row.place) = Drawn(x, row.terms.goods, row.place) + n
      BY <1>5, <2>2
    <2>4. InvoiceStep(d, row, n)
      BY <1>1, <1>2, <1>3, <1>4, <1>5, <1>6, <1>7, <1>8, <2>1, <2>3 DEF InvoiceStep
    <2> QED BY <2>4, <1>3, <1>5, InvoiceMoves
  <1>9. CASE ~x.tracked
    <2>1. UNCHANGED <<onHand, moved>>
      BY <1>1, <1>9 DEF CancelSale, TookStock
    <2>2. \A k \in Goods, p \in Stores : Drawn(row, k, p) = Drawn(x, k, p)
      BY <1>3, <1>9 DEF Drawn, TakesFrom
    <2>4. InvoiceStep(d, row, n)
      BY <1>1, <1>2, <1>3, <1>4, <1>5, <1>7, <1>9, <2>1, <2>2 DEF InvoiceStep
    <2> QED BY <2>4, <1>3, <1>5, InvoiceMoves
  <1> QED BY <1>8, <1>9

LEMMA PayInvoiceSafe ==
  ASSUME DocumentsInv, NEW d \in Papers, NEW taking \in Quantities, PayInvoice(d, taking)
  PROVE  DocumentsInv'
  <1>1. PICK x, row : x = paper[d] /\ row = [x EXCEPT !.paid = x.paid + taking]
    OBVIOUS
  <1>2. /\ x \in Paper /\ RowSound(x) /\ x.kind = "sale" /\ x.status = "issued" /\ x.terms \in Terms
        /\ taking <= x.terms.number - x.paid /\ banked + taking <= MaxBanked
    BY <1>1, PaperFields DEF PayInvoice
  <1>3. taking \in Nat /\ x.paid \in Nat /\ x.terms.number \in Nat
    BY <1>2, TermsTypes, DocumentsAssumption DEF Paper
  <1>4. /\ row \in Paper /\ row.kind = x.kind /\ row.status = x.status /\ row.terms = x.terms
        /\ row.place = x.place /\ row.flow = x.flow /\ row.paid = x.paid + taking /\ row.source = x.source
        /\ row.tracked = x.tracked
    BY <1>1, <1>2, <1>3 DEF Paper
  <1>5. paper' = [paper EXCEPT ![d] = row]
    BY <1>1 DEF PayInvoice
  <1>6. \A z \in Papers : paper'[z] = IF z = d THEN row ELSE paper[z]
    BY <1>5 DEF DocumentsInv, DocumentsTyped
  <1>7. banked' = banked + taking /\ UNCHANGED <<setting, agreed, onHand, moved, openAt>>
    BY DEF PayInvoice
  <1>8. banked \in Nat /\ banked' \in 0 .. MaxBanked
    BY <1>2, <1>3, <1>7, DocumentsAssumption DEF DocumentsInv, DocumentsTyped
  <1>9. DocumentsTyped'
    BY <1>4, <1>5, <1>7, <1>8 DEF DocumentsInv, DocumentsTyped
  <1>10. \A z \in Papers : Lasting(paper[z], paper'[z])
    BY <1>1, <1>4, <1>6 DEF Lasting
  <1>11. row.source \in Papers => paper'[row.source].status # "none"
    BY <1>2, <1>4, <1>10 DEF RowSound, Lasting
  <1>12. RowSound(paper[d])'
    <2>1. row.terms.goods \in Goods => onHand'[row.terms.goods].status # "none"
      BY <1>2, <1>4, <1>7 DEF RowSound
    <2>2. row.paid <= row.terms.number
      BY <1>2, <1>3, <1>4
    <2> QED BY <1>2, <1>4, <1>6, <1>11, <2>1, <2>2 DEF RowSound, Kinds
  <1>13. RowsSound'
    BY <1>6, <1>7, <1>10, <1>12, RowsStay
  <1>14. UnlistedEmpty'
    BY <1>7 DEF DocumentsInv, UnlistedEmpty
  <1>15. StockFollowsInvoices'
    <2>1. \A z \in Papers :
            \/ paper'[z] = paper[z]
            \/ (paper'[z] = [paper[z] EXCEPT !.paid = paper'[z].paid] /\ paper[z] \in Paper)
      BY <1>1, <1>2, <1>4, <1>6
    <2>2. UNCHANGED moved /\ \A k \in Goods : onHand'[k].number = onHand[k].number
      BY <1>7
    <2>3. StockFollowsInvoices
      BY DEF DocumentsInv, DocumentsHold
    <2> QED BY <2>1, <2>2, <2>3, StockStays
  <1>16. AcceptedAsItStands'
    BY <1>1, <1>2, <1>4, <1>6, <1>7 DEF DocumentsInv, DocumentsHold, AcceptedAsItStands
  <1>17. FollowsItsWorkflow'
    BY <1>1, <1>2, <1>6, <1>9, <1>10, WorkflowStays
  <1>18. PaymentsStandAgainstInvoices'
    <2>1. PICK f, g : f = [z \in Papers |-> paper[z].paid] /\ g = [z \in Papers |-> paper'[z].paid]
      OBVIOUS
    <2>2. \A z \in Papers : f[z] \in Int /\ g[z] \in Int
      BY <1>9, <2>1 DEF DocumentsInv, DocumentsTyped, Paper
    <2>3. f[d] = x.paid /\ g[d] = x.paid + taking /\ \A z \in Papers \ {d} : g[z] = f[z]
      BY <1>1, <1>4, <1>6, <2>1
    <2>4. SumOver(g, Papers) = SumOver(f, Papers) + g[d] - f[d]
      <3>1. IsFiniteSet(Papers) /\ d \in Papers
        BY DocumentsAssumption
      <3>2. \A z \in Papers \ {d} : g[z] = f[z]
        BY <2>3
      <3> QED BY <2>2, <3>1, <3>2, SumUpdate
    <2>5. banked = SumOver(f, Papers)
      BY <2>1, SummedIsSum DEF DocumentsInv, DocumentsHold, PaymentsStandAgainstInvoices
    <2>6. banked' = SumOver(g, Papers)
      BY <1>3, <1>7, <1>8, <2>3, <2>4, <2>5
    <2>7. banked' = Summed([z \in Papers |-> paper'[z].paid], Papers)
      BY <2>1, <2>6, SummedIsSum
    <2>8. \A z \in Papers : paper'[z].paid > 0 => paper'[z].status = "issued" /\ paper'[z].paid <= paper'[z].terms.number
      BY <1>13 DEF RowsSound, RowSound
    <2> QED BY <2>7, <2>8 DEF PaymentsStandAgainstInvoices
  <1> QED BY <1>9, <1>13, <1>14, <1>15, <1>16, <1>17, <1>18 DEF DocumentsInv, DocumentsHold

\* The next document of a chain takes over what the one before it says.
LEMMA ConvertDocumentSafe ==
  ASSUME DocumentsInv, NEW d \in Papers, NEW e \in Papers, NEW kind \in Kinds, ConvertDocument(d, e, kind)
  PROVE  DocumentsInv'
  <1>1. PICK x, row, new :
          /\ x = paper[d]
          /\ row = [x EXCEPT !.status = IF x.kind = "quotation" THEN "converted" ELSE "completed"]
          /\ new = [x EXCEPT !.kind = kind, !.status = "draft", !.source = d]
    OBVIOUS
  <1>2. x \in Paper /\ RowSound(x) /\ paper[e].status = "none"
    BY <1>1, PaperFields DEF ConvertDocument
  <1>3. \/ /\ x.kind = "quotation" /\ x.status = "accepted"
           /\ (kind = "order" /\ x.flow.orders) \/ (kind = "sale" /\ (~x.flow.orders \/ x.flow.skip))
        \/ x.kind = "order" /\ x.status \in {"confirmed", "fulfilling"} /\ kind = "sale"
    BY <1>1 DEF ConvertDocument, Convertible, FlowOf
  <1>4. d # e /\ x.status \notin {"none", "issued"} /\ x.paid = 0 /\ x.terms \in Terms
    BY <1>1, <1>2, <1>3, PaperFields
  <1>5. /\ row \in Paper /\ row.kind = x.kind /\ row.status \in {"converted", "completed"}
        /\ row.terms = x.terms /\ row.flow = x.flow /\ row.paid = 0 /\ row.source = x.source
    BY <1>1, <1>2, <1>4 DEF Paper, Statuses
  <1>6. /\ new \in Paper /\ new.kind = kind /\ new.status = "draft"
        /\ new.terms = x.terms /\ new.flow = x.flow /\ new.paid = 0 /\ new.source = d
    BY <1>1, <1>2, <1>4 DEF Paper, Statuses
  <1>7. \A z \in Papers : paper'[z] = IF z = e THEN new ELSE IF z = d THEN row ELSE paper[z]
    BY <1>1, <1>4 DEF ConvertDocument, DocumentsInv, DocumentsTyped
  <1>8. /\ UNCHANGED <<setting, agreed, onHand, moved, openAt, banked>>
        /\ \E g : paper' = [[paper EXCEPT ![d] = g] EXCEPT ![e] = new]
    BY <1>1 DEF ConvertDocument
  <1>9. paper' \in [Papers -> Paper]
    <2>1. DOMAIN paper' = Papers /\ paper' = [z \in Papers |-> paper'[z]]
      BY <1>8 DEF DocumentsInv, DocumentsTyped
    <2>2. \A z \in Papers : paper'[z] \in Paper
      BY <1>5, <1>6, <1>7 DEF DocumentsInv, DocumentsTyped
    <2> QED BY <2>1, <2>2
  <1>10. DocumentsTyped'
    BY <1>8, <1>9 DEF DocumentsInv, DocumentsTyped
  <1>11. \A z \in Papers : Lasting(paper[z], paper'[z])
    BY <1>1, <1>2, <1>5, <1>7 DEF Lasting
  <1>12. /\ row.source \in Papers => paper'[row.source].status # "none"
         /\ paper'[d].status # "none"
    BY <1>1, <1>2, <1>4, <1>5, <1>11 DEF RowSound, Lasting
  <1>13. x.terms.goods \in Goods => onHand'[x.terms.goods].status # "none"
    BY <1>2, <1>8 DEF RowSound
  <1>14. RowSound(paper[d])'
    BY <1>2, <1>4, <1>5, <1>7, <1>12, <1>13 DEF RowSound, Kinds, Paper
  <1>15. new.kind = "order" => new.flow.orders
    BY <1>3, <1>6
  <1>16. RowSound(paper[e])'
    BY <1>4, <1>6, <1>7, <1>12, <1>13, <1>15 DEF RowSound
  <1>17. RowsSound'
    BY <1>7, <1>8, <1>11, <1>14, <1>16, RowsStay
  <1>18. UnlistedEmpty'
    BY <1>8 DEF DocumentsInv, UnlistedEmpty
  <1>19. StockFollowsInvoices'
    <2>1. \A z \in Papers :
            \/ paper'[z] = paper[z]
            \/ (paper[z].status # "issued" /\ paper'[z].status # "issued")
      BY <1>1, <1>2, <1>4, <1>5, <1>6, <1>7
    <2>2. UNCHANGED moved /\ \A k \in Goods : onHand'[k].number = onHand[k].number
      BY <1>8
    <2>3. StockFollowsInvoices
      BY DEF DocumentsInv, DocumentsHold
    <2> QED BY <2>1, <2>2, <2>3, StockStays
  <1>20. AcceptedAsItStands'
    <2>1. x.kind = "quotation" => agreed[d] = x.terms
      BY <1>1, <1>3 DEF DocumentsInv, DocumentsHold, AcceptedAsItStands
    <2>2. \A z \in Papers : paper[z].kind = "quotation" /\ paper[z].status \in {"accepted", "converted"}
                              => agreed[z] = paper[z].terms
      BY DEF DocumentsInv, DocumentsHold, AcceptedAsItStands
    <2>3. \A z \in Papers : paper'[z].kind = "quotation" /\ paper'[z].status \in {"accepted", "converted"}
                              => agreed'[z] = paper'[z].terms
      BY <1>5, <1>6, <1>7, <1>8, <2>1, <2>2
    <2> QED BY <2>3 DEF AcceptedAsItStands
  <1>21. FollowsItsWorkflow'
    <2>1. x.kind = "order" => x.flow.orders
      BY <1>2 DEF RowSound
    <2>2. FlowAsks(new, x.kind)
      BY <1>3, <1>6, <2>1 DEF FlowAsks
    <2>3. new.source # NoPaper /\ paper[new.source] = x
      BY <1>1, <1>6, DocumentsAssumption
    <2>4. \A z \in Papers : paper[z].status = "none" =>
            \/ paper'[z] = paper[z]
            \/ FlowAsks(paper'[z], IF paper'[z].source = NoPaper THEN "none" ELSE paper[paper'[z].source].kind)
               /\ (paper'[z].source # NoPaper => paper[paper'[z].source].status # "none")
      BY <1>1, <1>4, <1>7, <2>2, <2>3
    <2> QED BY <1>10, <1>11, <2>4, WorkflowStays
  <1>22. PaymentsStandAgainstInvoices'
    <2>1. \A z \in Papers : paper'[z].paid = paper[z].paid
      <3>1. paper[e].paid = 0
        BY <1>2, PaperFields
      <3>2. paper[d].paid = 0 /\ row.paid = 0 /\ new.paid = 0
        BY <1>1, <1>4, <1>5, <1>6
      <3> QED BY <1>7, <3>1, <3>2
    <2>2. UNCHANGED banked
      BY <1>8
    <2> QED BY <1>17, <2>1, <2>2, PaymentsStay
  <1> QED BY <1>10, <1>17, <1>18, <1>19, <1>20, <1>21, <1>22 DEF DocumentsInv, DocumentsHold

-----------------------------------------------------------------------------
(* Steps that write no document. *)

LEMMA NothingWritten ==
  ASSUME DocumentsInv, UNCHANGED <<paper, agreed, banked>>,
         setting' \in [flow : Flows, stock : BOOLEAN], openAt' \subseteq Stores,
         onHand' \in [Goods -> [status : {"none", "active", "archived"}, number : Nat]],
         moved' \in [Goods -> [Stores -> [Sources -> Int]]],
         \A k \in Goods : onHand[k].status # "none" => onHand'[k].status # "none"
  PROVE  /\ DocumentsTyped' /\ RowsSound' /\ AcceptedAsItStands' /\ FollowsItsWorkflow'
         /\ PaymentsStandAgainstInvoices'
  <1>1. DocumentsTyped'
    BY DEF DocumentsInv, DocumentsTyped
  <1>2. \A d \in Papers : Lasting(paper[d], paper'[d])
    BY DEF Lasting
  <1>3. RowsSound'
    BY <1>2, RowsStay
  <1>4. AcceptedAsItStands'
    BY DEF DocumentsInv, DocumentsHold, AcceptedAsItStands
  <1>5. FollowsItsWorkflow'
    BY <1>1, <1>2, WorkflowStays
  <1>6. PaymentsStandAgainstInvoices'
    BY <1>3, PaymentsStay
  <1> QED BY <1>1, <1>3, <1>4, <1>5, <1>6

\* Settings, places and the state of an item.
LEMMA SettingsChange ==
  ASSUME DocumentsInv, UNCHANGED <<paper, agreed, banked, moved>>,
         setting' \in [flow : Flows, stock : BOOLEAN], openAt' \subseteq Stores,
         onHand' \in [Goods -> [status : {"none", "active", "archived"}, number : Nat]],
         \A k \in Goods : /\ onHand'[k].number = onHand[k].number
                          /\ onHand[k].status # "none" <=> onHand'[k].status # "none"
  PROVE  DocumentsInv'
  <1>1. moved' \in [Goods -> [Stores -> [Sources -> Int]]]
    BY DEF DocumentsInv, DocumentsTyped
  <1>2. /\ DocumentsTyped' /\ RowsSound' /\ AcceptedAsItStands' /\ FollowsItsWorkflow'
        /\ PaymentsStandAgainstInvoices'
    BY <1>1, NothingWritten
  <1>3. UnlistedEmpty'
    BY DEF DocumentsInv, UnlistedEmpty
  <1>4. StockFollowsInvoices'
    <2>1. StockFollowsInvoices
      BY DEF DocumentsInv, DocumentsHold
    <2> QED BY <2>1, StockStays
  <1> QED BY <1>2, <1>3, <1>4 DEF DocumentsInv, DocumentsHold

\* An item enters or leaves a place for no document.
FreeMove(k, p, n) ==
  /\ Moves(k, p, NoPaper, n)
  /\ n < 0 => StockAt(k, p) >= -n
  /\ onHand' \in [Goods -> [status : {"none", "active", "archived"}, number : Nat]]
  /\ onHand'[k].status # "none" /\ \A j \in Goods \ {k} : onHand'[j].status = onHand[j].status
  /\ UNCHANGED <<setting, paper, agreed, openAt, banked>>

LEMMA StockEnters ==
  ASSUME DocumentsInv, NEW k \in Goods, NEW p \in Stores, NEW n \in Int, FreeMove(k, p, n)
  PROVE  DocumentsInv'
  <1>1. /\ Moves(k, p, NoPaper, n)
        /\ n < 0 => StockAt(k, p) >= -n
        /\ onHand' \in [Goods -> [status : {"none", "active", "archived"}, number : Nat]]
        /\ onHand'[k].status # "none" /\ \A j \in Goods \ {k} : onHand'[j].status = onHand[j].status
        /\ UNCHANGED <<setting, paper, agreed, openAt, banked>>
    BY DEF FreeMove
  <1>2. NoPaper \in Sources /\ NoPaper \notin Papers
    BY DocumentsAssumption DEF Sources
  <1>3. moved' = [moved EXCEPT ![k][p][NoPaper] = moved[k][p][NoPaper] + n]
    BY <1>1 DEF Moves
  <1>4. moved \in [Goods -> [Stores -> [Sources -> Int]]] /\ DocumentsTyped
    BY DEF DocumentsInv, DocumentsTyped
  <1>5. moved[k][p][NoPaper] + n \in Int
    BY <1>2, <1>4
  <1>6. moved' \in [Goods -> [Stores -> [Sources -> Int]]]
    BY <1>2, <1>3, <1>4, <1>5
  <1>7. /\ DocumentsTyped' /\ RowsSound' /\ AcceptedAsItStands' /\ FollowsItsWorkflow'
        /\ PaymentsStandAgainstInvoices'
    <2>1. setting' \in [flow : Flows, stock : BOOLEAN] /\ openAt' \subseteq Stores
      BY <1>1, <1>4 DEF DocumentsTyped
    <2>2. \A j \in Goods : onHand[j].status # "none" => onHand'[j].status # "none"
      BY <1>1
    <2> QED BY <1>1, <1>6, <2>1, <2>2, NothingWritten
  <1>8. \A j \in Goods, q \in Stores :
          /\ Stocks[j][q] \in Int
          /\ Stocks'[j][q] = Stocks[j][q] + (IF j = k /\ q = p THEN n ELSE 0)
    BY <1>1, <1>2, <1>4, StockMoves
  <1>9. StockFollowsInvoices
    BY DEF DocumentsInv, DocumentsHold
  <1>10. \A j \in Goods, q \in Stores : Stocks'[j][q] >= 0
    <2>1. \A j \in Goods, q \in Stores : Stocks[j][q] >= 0
      BY <1>9, StockIs
    <2>2. Stocks[k][p] = StockAt(k, p)
      BY DEF Stocks
    <2> QED BY <1>1, <1>8, <2>1, <2>2
  <1>11. \A j \in Goods, q \in Stores, d \in Papers : moved'[j][q][d] = moved[j][q][d]
    BY <1>2, <1>3, <1>4
  <1>12. StockFollowsInvoices'
    <2>1. paper' = paper
      BY <1>1
    <2> QED BY <1>9, <1>10, <1>11, <2>1, StockIs, StockIsNext
  <1>13. UnlistedEmpty'
    <2> SUFFICES ASSUME NEW j \in Goods, onHand'[j].status = "none"
                 PROVE  onHand'[j].number = 0 /\ \A q \in Stores : moved'[j][q][NoPaper] = 0
      BY DEF UnlistedEmpty
    <2>1. j # k /\ onHand[j].status = "none"
      BY <1>1
    <2>2. onHand'[j].number = onHand[j].number
      BY <1>1, <2>1 DEF Moves
    <2>3. \A q \in Stores : moved'[j][q][NoPaper] = moved[j][q][NoPaper]
      BY <1>2, <1>3, <1>4, <2>1
    <2> QED BY <2>1, <2>2, <2>3 DEF DocumentsInv, UnlistedEmpty
  <1> QED BY <1>7, <1>12, <1>13 DEF DocumentsInv, DocumentsHold

LEMMA CreateItemSafe ==
  ASSUME DocumentsInv, NEW k \in Goods, NEW p \in Stores, NEW n \in 0 .. MaxOnHand, CreateItem(k, p, n)
  PROVE  DocumentsInv'
  <1>1. n \in Nat
    BY DocumentsAssumption
  <1>2. /\ onHand \in [Goods -> [status : {"none", "active", "archived"}, number : Nat]]
        /\ onHand[k].number = 0 /\ moved[k][p][NoPaper] = 0
    BY DEF CreateItem, DocumentsInv, DocumentsTyped, UnlistedEmpty
  <1>3. /\ onHand' = [onHand EXCEPT ![k] = [status |-> "active", number |-> n]]
        /\ moved' = [moved EXCEPT ![k][p][NoPaper] = n]
        /\ UNCHANGED <<setting, paper, agreed, openAt, banked>>
    BY DEF CreateItem, Opening
  <1>4. moved[k][p][NoPaper] + n = n
    BY <1>1, <1>2
  <1>5. Moves(k, p, NoPaper, n)
    <2>1. moved' = [moved EXCEPT ![k][p][NoPaper] = moved[k][p][NoPaper] + n]
      BY <1>3, <1>4
    <2>2. onHand'[k].number = onHand[k].number + n
      BY <1>1, <1>2, <1>3
    <2>3. \A j \in Goods \ {k} : onHand'[j].number = onHand[j].number
      BY <1>2, <1>3
    <2> QED BY <2>1, <2>2, <2>3 DEF Moves
  <1>6. /\ onHand' \in [Goods -> [status : {"none", "active", "archived"}, number : Nat]]
        /\ onHand'[k].status # "none" /\ \A j \in Goods \ {k} : onHand'[j].status = onHand[j].status
    BY <1>1, <1>2, <1>3
  <1>7. FreeMove(k, p, n)
    BY <1>1, <1>3, <1>5, <1>6 DEF FreeMove
  <1> QED BY <1>1, <1>7, StockEnters

LEMMA AdjustSafe ==
  ASSUME DocumentsInv, NEW k \in Goods, NEW p \in Stores, NEW n \in {-1, 1}, Adjust(k, p, n)
  PROVE  DocumentsInv'
  <1>1. onHand \in [Goods -> [status : {"none", "active", "archived"}, number : Nat]] /\ n \in Int
    BY DEF DocumentsInv, DocumentsTyped
  <1>2. /\ onHand' = [onHand EXCEPT ![k].number = onHand[k].number + n]
        /\ moved' = [moved EXCEPT ![k][p][NoPaper] = moved[k][p][NoPaper] + n]
        /\ n < 0 => StockAt(k, p) >= -n /\ onHand[k].number >= -n
        /\ onHand[k].status # "none"
        /\ UNCHANGED <<setting, paper, agreed, openAt, banked>>
    BY DEF Adjust, StockChange
  <1>3. onHand[k].number + n \in Nat
    BY <1>1, <1>2
  <1>4. /\ onHand' \in [Goods -> [status : {"none", "active", "archived"}, number : Nat]]
        /\ onHand'[k].status # "none" /\ \A j \in Goods \ {k} : onHand'[j].status = onHand[j].status
    BY <1>1, <1>2, <1>3
  <1>5. Moves(k, p, NoPaper, n)
    BY <1>1, <1>2 DEF Moves
  <1>6. FreeMove(k, p, n)
    BY <1>2, <1>4, <1>5 DEF FreeMove
  <1> QED BY <1>1, <1>6, StockEnters

-----------------------------------------------------------------------------
(* Every step. *)

LEMMA DocumentsStart == DocumentsInit => DocumentsInv
  <1> SUFFICES ASSUME DocumentsInit PROVE DocumentsInv
    OBVIOUS
  <1>1. /\ \A d \in Papers : paper[d] = NoDocument
        /\ \A k \in Goods : onHand[k] = [status |-> "none", number |-> 0]
        /\ moved = [k \in Goods |-> [p \in Stores |-> [d \in Sources |-> 0]]]
        /\ banked = 0
    BY DEF DocumentsInit, Sources
  <1>2. DocumentsTyped
    <2>1. paper \in [Papers -> Paper] /\ agreed \in [Papers -> Terms \cup {NoTerms}]
      BY NoDocumentSound DEF DocumentsInit
    <2>2. setting \in [flow : Flows, stock : BOOLEAN]
      BY DEF DocumentsInit
    <2>3. onHand \in [Goods -> [status : {"none", "active", "archived"}, number : Nat]]
      BY DEF DocumentsInit
    <2>4. moved \in [Goods -> [Stores -> [Sources -> Int]]]
      BY <1>1
    <2>5. openAt \subseteq Stores /\ banked \in 0 .. MaxBanked
      BY DocumentsAssumption DEF DocumentsInit
    <2> QED BY <2>1, <2>2, <2>3, <2>4, <2>5 DEF DocumentsTyped
  <1>3. RowsSound
    BY <1>1, NoDocumentSound, DocumentsAssumption DEF RowsSound, RowSound
  <1>4. UnlistedEmpty
    BY <1>1 DEF UnlistedEmpty, Sources
  <1>5. StockFollowsInvoices
    <2>1. \A k \in Goods, p \in Stores : MovedAt(k)[p] = 0
      <3> SUFFICES ASSUME NEW k \in Goods, NEW p \in Stores PROVE MovedAt(k)[p] = 0
        OBVIOUS
      <3>1. \A d \in Sources : moved[k][p][d] = 0
        BY <1>1
      <3>2. IsFiniteSet(Sources)
        BY DocumentsAssumption, FS_AddElement DEF Sources
      <3>3. SumOver(moved[k][p], Sources) = 0
        BY <3>1, <3>2, SumOfZeros
      <3> QED BY <3>3, MovedAtIs
    <2>2. \A k \in Goods, p \in Stores : Stocks[k][p] = 0
      <3> SUFFICES ASSUME NEW k \in Goods, NEW p \in Stores PROVE StockAt(k, p) = 0
        BY DEF Stocks
      <3>1. PICK S, f : S = Stores \ {MainStore} /\ f = MovedAt(k)
        OBVIOUS
      <3>2. IsFiniteSet(S) /\ \A z \in S : f[z] = 0
        BY <2>1, <3>1, DocumentsAssumption, FS_Subset
      <3>3. SumOver(f, S) = 0
        BY <3>2, SumOfZeros
      <3>4. Summed(MovedAt(k), Stores \ {MainStore}) = 0
        BY <3>1, <3>3, SummedIsSum
      <3> QED BY <1>1, <2>1, <3>4 DEF StockAt
    <2>3. \A k \in Goods, p \in Stores, d \in Papers : moved[k][p][d] = 0 /\ Drawn(paper[d], k, p) = 0
      BY <1>1, NoDocumentSound DEF Drawn, TakesFrom, Sources
    <2> QED BY <2>2, <2>3, StockIs
  <1>6. AcceptedAsItStands /\ FollowsItsWorkflow
    BY <1>1, NoDocumentSound DEF AcceptedAsItStands, FollowsItsWorkflow
  <1>7. PaymentsStandAgainstInvoices
    <2>1. PICK f : f = [d \in Papers |-> paper[d].paid]
      OBVIOUS
    <2>2. \A d \in Papers : f[d] = 0
      BY <1>1, <2>1, NoDocumentSound
    <2>3. SumOver(f, Papers) = 0
      BY <2>2, SumOfZeros, DocumentsAssumption
    <2>4. banked = Summed([d \in Papers |-> paper[d].paid], Papers)
      BY <1>1, <2>1, <2>3, SummedIsSum
    <2> QED BY <1>1, <2>4, NoDocumentSound DEF PaymentsStandAgainstInvoices
  <1> QED BY <1>2, <1>3, <1>4, <1>5, <1>6, <1>7 DEF DocumentsInv, DocumentsHold

LEMMA SettingsSafe ==
  ASSUME DocumentsInv,
         \/ \E k \in Goods, status \in {"active", "archived"} : SwitchItem(k, status)
         \/ \E p \in Stores : CloseStore(p) \/ ReopenStore(p)
         \/ SwitchStock
         \/ \E flow \in Flows : SaveWorkflow(flow)
         \/ UNCHANGED documentVars
  PROVE  DocumentsInv'
  <1>1. /\ setting \in [flow : Flows, stock : BOOLEAN] /\ openAt \subseteq Stores
        /\ onHand \in [Goods -> [status : {"none", "active", "archived"}, number : Nat]]
    BY DEF DocumentsInv, DocumentsTyped
  <1>2. ASSUME NEW k \in Goods, NEW status \in {"active", "archived"}, SwitchItem(k, status)
        PROVE  DocumentsInv'
    <2>1. /\ onHand' = [onHand EXCEPT ![k].status = status] /\ onHand[k].status # "none"
          /\ UNCHANGED <<setting, paper, agreed, moved, openAt, banked>>
      BY <1>2 DEF SwitchItem
    <2>2. onHand' \in [Goods -> [status : {"none", "active", "archived"}, number : Nat]]
      BY <1>1, <2>1
    <2>3. \A j \in Goods : /\ onHand'[j].number = onHand[j].number
                           /\ onHand[j].status # "none" <=> onHand'[j].status # "none"
      BY <1>1, <2>1
    <2> QED BY <1>1, <2>1, <2>2, <2>3, SettingsChange
  <1>3. ASSUME NEW p \in Stores, CloseStore(p) \/ ReopenStore(p)
        PROVE  DocumentsInv'
    <2>1. openAt' \subseteq Stores /\ UNCHANGED <<setting, paper, agreed, onHand, moved, banked>>
      BY <1>1, <1>3 DEF CloseStore, ReopenStore
    <2> QED BY <1>1, <2>1, SettingsChange
  <1>4. ASSUME \/ SwitchStock
               \/ \E flow \in Flows : SaveWorkflow(flow)
               \/ UNCHANGED documentVars
        PROVE  DocumentsInv'
    <2>1. /\ setting' \in [flow : Flows, stock : BOOLEAN]
          /\ UNCHANGED <<paper, agreed, onHand, moved, openAt, banked>>
      BY <1>1, <1>4 DEF SwitchStock, SaveWorkflow, documentVars
    <2> QED BY <1>1, <2>1, SettingsChange
  <1> QED BY <1>2, <1>3, <1>4

LEMMA DocumentsStep == DocumentsInv /\ [DocumentsNext]_documentVars => DocumentsInv'
  <1> SUFFICES ASSUME DocumentsInv, [DocumentsNext]_documentVars PROVE DocumentsInv'
    OBVIOUS
  <1>1. ASSUME NEW k \in Goods, NEW p \in Stores, NEW n \in 0 .. MaxOnHand, CreateItem(k, p, n)
        PROVE  DocumentsInv'
    BY <1>1, CreateItemSafe
  <1>2. ASSUME NEW k \in Goods, NEW p \in Stores, NEW n \in {-1, 1}, Adjust(k, p, n)
        PROVE  DocumentsInv'
    BY <1>2, AdjustSafe
  <1>3. ASSUME NEW d \in Papers, NEW kind \in Kinds, NEW terms \in Terms, NEW p \in Stores,
               CreateDocument(d, kind, terms, p)
        PROVE  DocumentsInv'
    BY <1>3, CreateDocumentSafe
  <1>4. ASSUME NEW d \in Papers, NEW terms \in Terms, NEW p \in Stores, EditDocument(d, terms, p)
        PROVE  DocumentsInv'
    BY <1>4, EditDocumentSafe
  <1>5. ASSUME NEW d \in Papers, NEW k \in Goods, LinkItem(d, k)
        PROVE  DocumentsInv'
    BY <1>5, LinkItemSafe
  <1>6. ASSUME NEW d \in Papers, NEW status, ChangeStatus(d, status)
        PROVE  DocumentsInv'
    BY <1>6, ChangeStatusSafe
  <1>7. ASSUME NEW d \in Papers, IssueSale(d) \/ CancelSale(d)
        PROVE  DocumentsInv'
    BY <1>7, IssueSaleSafe, CancelSaleSafe
  <1>8. ASSUME NEW d \in Papers, NEW e \in Papers, NEW kind \in Kinds, ConvertDocument(d, e, kind)
        PROVE  DocumentsInv'
    BY <1>8, ConvertDocumentSafe
  <1>9. ASSUME NEW d \in Papers, NEW taking \in Quantities, PayInvoice(d, taking)
        PROVE  DocumentsInv'
    BY <1>9, PayInvoiceSafe
  <1> QED BY <1>1, <1>2, <1>3, <1>4, <1>5, <1>6, <1>7, <1>8, <1>9, SettingsSafe DEF DocumentsNext

\* Whatever is edited, converted, cancelled or switched in between: an invoice
\* has taken from its place exactly the stock it stands for and a cancelled
\* one nothing, no place is short, an accepted quotation has the terms the
\* customer accepted, every document followed the workflow it was written
\* under, and the money received is that of issued invoices (modules/accounting
\* documents, modules/inventory).
THEOREM DocumentsAreSound == DocumentsSpec => []DocumentsHold
  <1>1. DocumentsInv => DocumentsHold
    BY DEF DocumentsInv
  <1> QED BY <1>1, DocumentsStart, DocumentsStep, PTL DEF DocumentsSpec

LEMMA DocumentsKeepTypes == DocumentsSpec => []DocumentsTypeOK
  <1>1. DocumentsInv => DocumentsTypeOK
    BY DEF DocumentsInv, DocumentsTyped, DocumentsTypeOK, Paper
  <1> QED BY <1>1, DocumentsStart, DocumentsStep, PTL DEF DocumentsSpec

-----------------------------------------------------------------------------
(* Fixed assets.  The argument: a row is posted through a month, what its  *)
(* journal charges adds up to the wear by that month, and it stands with   *)
(* the project that has the asset; a transfer first posts every month that *)
(* is over, so that the only month it leaves to be charged to somebody     *)
(* else is its own.                                                        *)

BookKinds == {"purchase", "depreciation", "transferred_depreciation", "maintenance",
              "transfer_out", "transfer_in", "disposal"}
EntryRow == [asset : Assets, site : Sites, kind : BookKinds, undone : BOOLEAN, period : Int,
             lines : [Accounts -> Int]]
AssetRow == [status : {"none", "active", "disposed", "reversed"},
             site : Sites \cup {NoSite}, inUse : Nat, posted : Nat,
             source : Sites \cup {NoSite}, sourceThrough : Nat,
             batch : SUBSET Assets, touched : BOOLEAN]
MoveRow == [month : Nat, from : Sites]
Entries(J) == IsFiniteSet(J) /\ J \subseteq EntryRow

\* What a set of entries brings to an account in the books of some projects.
Lines(J, a, S, x) == [j \in J |-> IF j.asset = a /\ j.site \in S THEN j.lines[x] ELSE 0]
Brings(J, a, S, x) == SumOver(Lines(J, a, S, x), J)

Worn(row) == AccumulatedBy(row, row.posted)
Here(row, s, n) == IF row.status = "active" /\ s = row.site THEN n ELSE 0
AssetBooks(J, a, row) ==
  /\ \A s \in Sites : /\ Brings(J, a, {s}, "cost") = Here(row, s, Cost)
                      /\ Brings(J, a, {s}, "accumulated") = Here(row, s, -Worn(row))
  /\ Brings(J, a, Sites, "clearing") = 0
  /\ Brings(J, a, Sites, "expense") = (IF row.status = "reversed" THEN 0 ELSE Worn(row))

\* The first transfer in month m or later, and who had the asset in that month.
FirstSince(mv, m, k) == /\ k \in 1 .. Len(mv) /\ mv[k].month >= m
                        /\ \A h \in 1 .. Len(mv) : h < k => mv[h].month < m
HeldBy(mv, site, m, s) ==
  \/ (\A k \in 1 .. Len(mv) : mv[k].month < m) /\ s = site
  \/ \E k \in 1 .. Len(mv) : FirstSince(mv, m, k) /\ mv[k].from = s

\* The row knows who bears the month of its last transfer, and no earlier
\* month is still to be charged.
MovesRight(row, mv) ==
  /\ mv = <<>> => row.source = NoSite /\ row.sourceThrough = 0
  /\ mv # <<>> =>
       /\ row.source \in Sites /\ \A k \in 1 .. Len(mv) : mv[k].month <= row.sourceThrough
       /\ \E k \in 1 .. Len(mv) : FirstSince(mv, row.sourceThrough, k) /\ mv[k].from = row.source
       /\ \/ row.posted + 1 >= row.sourceThrough \/ row.inUse >= row.sourceThrough
          \/ row.posted >= row.inUse + Life - 1
ChargesRight(J, a, row, mv, now) ==
  \A j \in J : j.asset = a /\ j.kind = "depreciation" =>
    j.period < now /\ HeldBy(mv, row.site, j.period, j.site)
\* What has nothing done to it may be reversed as a whole.
StillUntouched(J, a, row, mv) ==
  /\ row.status # "reversed" => \A j \in J : j.asset = a => ~j.undone
  /\ row.status = "active" /\ ~row.touched => mv = <<>> /\ \A j \in J : j.asset = a => j.site = row.site

AssetSound(a, row, mv, J, now) ==
  /\ row \in AssetRow /\ mv \in Seq(MoveRow)
  /\ row.status = "none" => row = NoAsset /\ mv = <<>> /\ \A j \in J : j.asset # a
  /\ row.status # "none" =>
       /\ row.site \in Sites /\ row.inUse >= 1 /\ row.posted < now /\ row.sourceThrough <= now
       /\ AssetBooks(J, a, row) /\ MovesRight(row, mv) /\ ChargesRight(J, a, row, mv, now)
       /\ StillUntouched(J, a, row, mv)

AssetsInv ==
  /\ today \in AssetMonths /\ Entries(journal)
  /\ asset \in [Assets -> AssetRow] /\ moves \in [Assets -> Seq(MoveRow)]
  /\ assetCash \in [Sites -> Nat]
  /\ posting \in [through : Nat, list : SUBSET Assets] /\ posting.through < today
  /\ \A a \in Assets : AssetSound(a, asset[a], moves[a], journal, today)

LEMMA TheAccounts ==
  /\ "cost" \in Accounts /\ "accumulated" \in Accounts /\ "clearing" \in Accounts /\ "expense" \in Accounts
  /\ "upkeep" \in Accounts /\ "cash" \in Accounts /\ "result" \in Accounts
  BY DEF Accounts

LEMMA EntryTypes ==
  ASSUME NEW J, Entries(J), NEW j \in J
  PROVE  /\ j \in EntryRow /\ j.asset \in Assets /\ j.site \in Sites /\ j.kind \in BookKinds
         /\ j.undone \in BOOLEAN /\ j.period \in Int /\ j.lines \in [Accounts -> Int]
  <1>1. j \in EntryRow
    BY DEF Entries
  <1> QED BY <1>1 DEF EntryRow

LEMMA LineTypes ==
  ASSUME NEW J, Entries(J), NEW a, NEW S, NEW x \in Accounts
  PROVE  \A j \in J : Lines(J, a, S, x)[j] \in Int
  <1> SUFFICES ASSUME NEW j \in J PROVE Lines(J, a, S, x)[j] \in Int
    OBVIOUS
  <1>1. j.lines[x] \in Int
    BY EntryTypes
  <1> QED BY <1>1 DEF Lines

LEMMA BooksAreIntegers ==
  ASSUME NEW J, Entries(J), NEW a, NEW S, NEW x \in Accounts
  PROVE  Brings(J, a, S, x) \in Int
  <1>1. IsFiniteSet(J)
    BY DEF Entries
  <1>2. \A j \in J : Lines(J, a, S, x)[j] \in Int
    BY LineTypes
  <1>3. SumOver(Lines(J, a, S, x), J) \in Int
    BY <1>1, <1>2, SumIsInteger
  <1> QED BY <1>3 DEF Brings

\* Entries that are not in the books yet add what they bring.
Apart(J, E) == Entries(J) /\ Entries(E) /\ J \cap E = {}

LEMMA EntriesTogether == ASSUME NEW J, NEW E, Apart(J, E) PROVE Entries(J \cup E)
  BY FS_Union DEF Apart, Entries

LEMMA BooksAdd ==
  ASSUME NEW J, NEW E, Apart(J, E), NEW a, NEW S, NEW x \in Accounts
  PROVE  Brings(J \cup E, a, S, x) = Brings(J, a, S, x) + Brings(E, a, S, x)
  <1>1. Entries(J) /\ Entries(E) /\ Entries(J \cup E) /\ IsFiniteSet(J \cup E) /\ IsFiniteSet(J) /\ IsFiniteSet(E)
    BY EntriesTogether DEF Apart, Entries
  <1>2. J \in SUBSET (J \cup E) /\ (J \cup E) \ J = E
    BY DEF Apart
  <1>3. PICK f, g, h : f = Lines(J \cup E, a, S, x) /\ g = Lines(J, a, S, x) /\ h = Lines(E, a, S, x)
    OBVIOUS
  <1>4. \A j \in J \cup E : f[j] \in Int
    BY <1>1, <1>3, LineTypes
  <1>5. SumOver(f, J \cup E) = SumOver(f, J) + SumOver(f, (J \cup E) \ J)
    BY <1>1, <1>2, <1>4, SumSplit
  <1>6. \A j \in J : f[j] = g[j]
    BY <1>3 DEF Lines
  <1>7. \A j \in E : f[j] = h[j]
    BY <1>3 DEF Lines
  <1>8. SumOver(f, J) = SumOver(g, J)
    BY <1>1, <1>6, SumAgrees
  <1>9. SumOver(f, E) = SumOver(h, E)
    BY <1>1, <1>7, SumAgrees
  <1> QED BY <1>2, <1>3, <1>5, <1>8, <1>9 DEF Brings

\* No entry, the entries of other assets, and one entry.
LEMMA BooksEmpty ==
  ASSUME NEW J, Entries(J), NEW a, \A j \in J : j.asset # a, NEW S, NEW x
  PROVE  Brings(J, a, S, x) = 0
  <1>1. IsFiniteSet(J)
    BY DEF Entries
  <1>2. \A j \in J : Lines(J, a, S, x)[j] = 0
    BY DEF Lines
  <1>4. SumOver(Lines(J, a, S, x), J) = 0
    BY <1>1, <1>2, SumOfZeros
  <1> QED BY <1>4 DEF Brings

LEMMA SumOfOne ==
  ASSUME NEW e, NEW f, f[e] \in Int
  PROVE  SumOver(f, {e}) = f[e]
  <1>1. IsFiniteSet({e}) /\ {e} \ {e} = {} /\ e \in {e} /\ \A x \in {e} : f[x] \in Int
    BY FS_Singleton
  <1>2. SumOver(f, {e}) = f[e] + SumOver(f, {e} \ {e})
    BY <1>1, SumRemove
  <1>3. SumOver(f, {}) = 0
    BY SumOfEmpty
  <1> QED BY <1>1, <1>2, <1>3

LEMMA OneEntry == ASSUME NEW e \in EntryRow PROVE Entries({e})
  BY FS_Singleton DEF Entries

LEMMA OneEntryBrings ==
  ASSUME NEW e \in EntryRow, NEW a, NEW S, NEW x \in Accounts
  PROVE  Brings({e}, a, S, x) = (IF e.asset = a /\ e.site \in S THEN e.lines[x] ELSE 0)
  <1>2. e \in {e} /\ e.lines[x] \in Int
    BY DEF EntryRow
  <1>3. Lines({e}, a, S, x)[e] = (IF e.asset = a /\ e.site \in S THEN e.lines[x] ELSE 0)
    BY <1>2 DEF Lines
  <1>4. Lines({e}, a, S, x)[e] \in Int
    BY <1>2, <1>3
  <1>5. SumOver(Lines({e}, a, S, x), {e}) = Lines({e}, a, S, x)[e]
    BY <1>4, SumOfOne
  <1> QED BY <1>3, <1>5 DEF Brings

-----------------------------------------------------------------------------
(* Wear. *)

LEMMA GreaterOfTwo == ASSUME NEW m \in Int, NEW n \in Int PROVE Max({m, n}) = IF m <= n THEN n ELSE m
  BY DEF Max
LEMMA SmallerOfTwo == ASSUME NEW m \in Int, NEW n \in Int PROVE Min({m, n}) = IF m <= n THEN m ELSE n
  BY DEF Min

LEMMA ElapsedIs ==
  ASSUME NEW row, row.inUse \in Nat, NEW m \in Int
  PROVE  /\ Elapsed(row, m) \in Nat
         /\ m < row.inUse => Elapsed(row, m) = 0
         /\ m >= row.inUse + Life - 1 => Elapsed(row, m) = Life
  <1>1. Life \in Nat \ {0} /\ m - row.inUse + 1 \in Int
    BY AssetsAssumption
  <1>2. PICK n : n = Min({Life, m - row.inUse + 1})
    OBVIOUS
  <1>3. n = IF Life <= m - row.inUse + 1 THEN Life ELSE m - row.inUse + 1
    BY <1>1, <1>2, SmallerOfTwo
  <1>4. n \in Int
    BY <1>1, <1>3
  <1>5. Max({0, n}) = IF 0 <= n THEN n ELSE 0
    BY <1>4, GreaterOfTwo
  <1> QED BY <1>1, <1>2, <1>3, <1>4, <1>5 DEF Elapsed

LEMMA WearIs ==
  ASSUME NEW row, row.inUse \in Nat
  PROVE  /\ \A m \in Int : AccumulatedBy(row, m) \in Int
         /\ \A m \in Int : m < row.inUse => AccumulatedBy(row, m) = 0
         /\ \A m, n \in Int : m >= row.inUse + Life - 1 /\ n >= row.inUse + Life - 1
              => AccumulatedBy(row, m) = AccumulatedBy(row, n)
  <1>1. Life \in Nat \ {0} /\ Cost \in Int /\ Residual \in Int
    BY AssetsAssumption
  <1>2. PICK d : d = 2 * Life
    OBVIOUS
  <1>3. d \in Nat \ {0} /\ Life < d
    BY <1>1, <1>2
  <1>4. ASSUME NEW m \in Int PROVE AccumulatedBy(row, m) \in Int
    <2>1. Elapsed(row, m) \in Nat
      BY ElapsedIs
    <2>2. PICK n : n = 2 * (Cost - Residual) * Elapsed(row, m) + Life
      OBVIOUS
    <2>3. n \in Int
      BY <1>1, <2>1, <2>2
    <2>4. n \div d \in Int
      BY <1>3, <2>3
    <2> QED BY <1>2, <2>2, <2>4 DEF AccumulatedBy
  <1>5. ASSUME NEW m \in Int, m < row.inUse PROVE AccumulatedBy(row, m) = 0
    <2>1. Elapsed(row, m) = 0
      BY <1>5, ElapsedIs
    <2>2. 2 * (Cost - Residual) * Elapsed(row, m) + Life = Life
      BY <1>1, <2>1
    <2>3. Life \div d = 0
      BY <1>1, <1>3
    <2> QED BY <1>2, <2>2, <2>3 DEF AccumulatedBy
  <1>6. ASSUME NEW m \in Int, NEW n \in Int, m >= row.inUse + Life - 1, n >= row.inUse + Life - 1
        PROVE  AccumulatedBy(row, m) = AccumulatedBy(row, n)
    <2>1. Elapsed(row, m) = Elapsed(row, n)
      BY <1>6, ElapsedIs
    <2> QED BY <2>1 DEF AccumulatedBy
  <1> QED BY <1>4, <1>5, <1>6

\* What an asset is worth depends on its first use alone.
LEMMA SameWear ==
  ASSUME NEW r, NEW q, r.inUse = q.inUse
  PROVE  /\ \A m : AccumulatedBy(r, m) = AccumulatedBy(q, m)
         /\ Worn(r) = AccumulatedBy(q, r.posted)
  BY DEF AccumulatedBy, Elapsed, Worn

-----------------------------------------------------------------------------
(* What posting writes. *)

IntegerLines(z) == \A x \in DOMAIN z : z[x] \in Int
EntryOf(e, a, s, kind, p, z) ==
  /\ e \in EntryRow /\ e.asset = a /\ e.site = s /\ e.kind = kind /\ e.period = p /\ e.undone = FALSE
  /\ \A x \in Accounts : e.lines[x] = IF x \in DOMAIN z THEN z[x] ELSE 0

LEMMA EntryIs ==
  ASSUME NEW a \in Assets, NEW s \in Sites, NEW kind \in BookKinds, NEW p \in Int, NEW z, IntegerLines(z)
  PROVE  EntryOf(Entry(a, s, kind, p, z), a, s, kind, p, z)
  <1>1. PICK l : l = [x \in Accounts |-> IF x \in DOMAIN z THEN z[x] ELSE 0]
    OBVIOUS
  <1>2. l \in [Accounts -> Int]
    BY <1>1 DEF IntegerLines
  <1>3. Entry(a, s, kind, p, z)
          = [asset |-> a, site |-> s, kind |-> kind, undone |-> FALSE, period |-> p, lines |-> l]
    BY <1>1 DEF Entry
  <1> QED BY <1>1, <1>2, <1>3 DEF EntryRow, EntryOf

\* A row of a project, maybe with the bearer of its last transfer's month.
RowReady(row) == row \in AssetRow /\ row.site \in Sites

\* Entries that charge an asset with n in all, and stand with its project.
Charges(E, a, row, n) ==
  /\ Entries(E) /\ n \in Int
  /\ \A s \in Sites : /\ Brings(E, a, {s}, "cost") = 0
                      /\ Brings(E, a, {s}, "accumulated") = (IF s = row.site THEN -n ELSE 0)
  /\ Brings(E, a, Sites, "clearing") = 0 /\ Brings(E, a, Sites, "expense") = n

LEMMA ChargesAdd ==
  ASSUME NEW E, NEW F, Apart(E, F), NEW a, NEW row, NEW n, Charges(E, a, row, n), NEW m, Charges(F, a, row, m)
  PROVE  Charges(E \cup F, a, row, n + m)
  <1>1. Entries(E \cup F) /\ n \in Int /\ m \in Int
    BY EntriesTogether DEF Charges
  <1>2. ASSUME NEW s \in Sites
        PROVE  /\ Brings(E \cup F, a, {s}, "cost") = 0
               /\ Brings(E \cup F, a, {s}, "accumulated") = (IF s = row.site THEN -(n + m) ELSE 0)
    <2>1. Brings(E \cup F, a, {s}, "cost") = Brings(E, a, {s}, "cost") + Brings(F, a, {s}, "cost")
      BY TheAccounts, BooksAdd
    <2>2. Brings(E \cup F, a, {s}, "accumulated") = Brings(E, a, {s}, "accumulated") + Brings(F, a, {s}, "accumulated")
      BY TheAccounts, BooksAdd
    <2> QED BY <1>1, <2>1, <2>2 DEF Charges
  <1>3. Brings(E \cup F, a, Sites, "clearing") = Brings(E, a, Sites, "clearing") + Brings(F, a, Sites, "clearing")
    BY TheAccounts, BooksAdd
  <1>4. Brings(E \cup F, a, Sites, "expense") = Brings(E, a, Sites, "expense") + Brings(F, a, Sites, "expense")
    BY TheAccounts, BooksAdd
  <1>5. Brings(E \cup F, a, Sites, "clearing") = 0 /\ Brings(E \cup F, a, Sites, "expense") = n + m
    BY <1>1, <1>3, <1>4 DEF Charges
  <1>6. PICK k \in Int : k = n + m
    BY <1>1
  <1>7. \A s \in Sites : /\ Brings(E \cup F, a, {s}, "cost") = 0
                         /\ Brings(E \cup F, a, {s}, "accumulated") = (IF s = row.site THEN -k ELSE 0)
    BY <1>2, <1>6
  <1>8. Brings(E \cup F, a, Sites, "expense") = k
    BY <1>5, <1>6
  <1>9. Charges(E \cup F, a, row, k)
    BY <1>1, <1>5, <1>7, <1>8 DEF Charges
  <1> QED BY <1>6, <1>9

LEMMA NoCharges ==
  ASSUME NEW E, Entries(E), NEW a, \A e \in E : e.asset # a, NEW row PROVE Charges(E, a, row, 0)
  <1>2. \A S, x : Brings(E, a, S, x) = 0
    BY BooksEmpty
  <1> QED BY <1>2 DEF Charges

\* One month.  Its entries are of the asset and the month; the charge itself
\* is with whoever bears the month.
ChargeOf(e, a, row, m) ==
  /\ e \in EntryRow /\ e.asset = a /\ e.period = m /\ e.undone = FALSE
  /\ e.kind \in {"depreciation", "transferred_depreciation"}
  /\ e.kind = "depreciation" => e.site = IF PriorOwner(row, m) THEN row.source ELSE row.site
  /\ ~PriorOwner(row, m) => e.site = row.site

LEMMA SenderPays ==
  ASSUME NEW a \in Assets, NEW row, RowReady(row), NEW m \in Int, PriorOwner(row, m), NEW c \in Int,
         NEW d, d = Entry(a, row.source, "depreciation", m, [expense |-> c, clearing |-> -c]),
         NEW t, t = Entry(a, row.site, "transferred_depreciation", m, [clearing |-> c, accumulated |-> -c])
  PROVE  Charges({d} \cup {t}, a, row, c) /\ ChargeOf(d, a, row, m) /\ ChargeOf(t, a, row, m)
  <1>1. row.source \in Sites /\ row.site \in Sites
    BY DEF RowReady, AssetRow, PriorOwner
  <1>2. "depreciation" \in BookKinds /\ "transferred_depreciation" \in BookKinds
    BY DEF BookKinds
  <1>3. PICK y : y = [expense |-> c, clearing |-> -c]
    OBVIOUS
  <1>4. PICK z : z = [clearing |-> c, accumulated |-> -c]
    OBVIOUS
  <1>5. /\ DOMAIN y = {"expense", "clearing"} /\ y["expense"] = c /\ y["clearing"] = -c
        /\ DOMAIN z = {"clearing", "accumulated"} /\ z["clearing"] = c /\ z["accumulated"] = -c
    BY <1>3, <1>4
  <1>6. IntegerLines(y) /\ IntegerLines(z)
    BY <1>5 DEF IntegerLines
  <1>7. EntryOf(d, a, row.source, "depreciation", m, y) /\ EntryOf(t, a, row.site, "transferred_depreciation", m, z)
    BY <1>1, <1>2, <1>3, <1>4, <1>6, EntryIs
  <1>8. /\ d \in EntryRow /\ d.asset = a /\ d.site = row.source /\ d.kind = "depreciation"
        /\ t \in EntryRow /\ t.asset = a /\ t.site = row.site /\ t.kind = "transferred_depreciation"
    BY <1>7 DEF EntryOf
  <1>9. /\ d.lines["cost"] = 0 /\ d.lines["accumulated"] = 0 /\ d.lines["clearing"] = -c /\ d.lines["expense"] = c
        /\ t.lines["cost"] = 0 /\ t.lines["accumulated"] = -c /\ t.lines["clearing"] = c /\ t.lines["expense"] = 0
    BY <1>5, <1>7, TheAccounts DEF EntryOf
  <1>10. Apart({d}, {t})
    <2>1. Entries({d}) /\ Entries({t})
      BY <1>8, OneEntry
    <2> QED BY <1>8, <2>1 DEF Apart
  <1>11. ASSUME NEW s \in Sites
         PROVE  /\ Brings({d} \cup {t}, a, {s}, "cost") = 0
                /\ Brings({d} \cup {t}, a, {s}, "accumulated") = (IF s = row.site THEN -c ELSE 0)
    <2>1. Brings({d} \cup {t}, a, {s}, "cost") = Brings({d}, a, {s}, "cost") + Brings({t}, a, {s}, "cost")
      BY <1>10, TheAccounts, BooksAdd
    <2>2. Brings({d} \cup {t}, a, {s}, "accumulated") = Brings({d}, a, {s}, "accumulated") + Brings({t}, a, {s}, "accumulated")
      BY <1>10, TheAccounts, BooksAdd
    <2>3. Brings({d}, a, {s}, "cost") = 0
      <3>1. Brings({d}, a, {s}, "cost") = (IF d.asset = a /\ d.site \in {s} THEN d.lines["cost"] ELSE 0)
        BY <1>8, TheAccounts, OneEntryBrings
      <3> QED BY <1>8, <1>9, <3>1
    <2>4. Brings({d}, a, {s}, "accumulated") = 0
      BY <1>8, <1>9, TheAccounts, OneEntryBrings
    <2>5. Brings({t}, a, {s}, "cost") = 0
      BY <1>8, <1>9, TheAccounts, OneEntryBrings
    <2>6. Brings({t}, a, {s}, "accumulated") = (IF s = row.site THEN -c ELSE 0)
      <3>1. Brings({t}, a, {s}, "accumulated") = (IF t.asset = a /\ t.site \in {s} THEN t.lines["accumulated"] ELSE 0)
        BY <1>8, TheAccounts, OneEntryBrings
      <3> QED BY <1>8, <1>9, <3>1
    <2> QED BY <2>1, <2>2, <2>3, <2>4, <2>5, <2>6
  <1>12. Brings({d} \cup {t}, a, Sites, "clearing") = 0 /\ Brings({d} \cup {t}, a, Sites, "expense") = c
    <2>1. Brings({d} \cup {t}, a, Sites, "clearing") = Brings({d}, a, Sites, "clearing") + Brings({t}, a, Sites, "clearing")
      BY <1>10, TheAccounts, BooksAdd
    <2>2. Brings({d} \cup {t}, a, Sites, "expense") = Brings({d}, a, Sites, "expense") + Brings({t}, a, Sites, "expense")
      BY <1>10, TheAccounts, BooksAdd
    <2>3. Brings({d}, a, Sites, "clearing") = -c /\ Brings({d}, a, Sites, "expense") = c
      BY <1>1, <1>8, <1>9, TheAccounts, OneEntryBrings
    <2>4. Brings({t}, a, Sites, "clearing") = c /\ Brings({t}, a, Sites, "expense") = 0
      BY <1>1, <1>8, <1>9, TheAccounts, OneEntryBrings
    <2> QED BY <2>1, <2>2, <2>3, <2>4
  <1>13. Entries({d} \cup {t})
    BY <1>10, EntriesTogether
  <1>14. Charges({d} \cup {t}, a, row, c)
    BY <1>11, <1>12, <1>13 DEF Charges
  <1> QED BY <1>7, <1>14 DEF EntryOf, ChargeOf

LEMMA HolderPays ==
  ASSUME NEW a \in Assets, NEW row, RowReady(row), NEW m \in Int, ~PriorOwner(row, m), NEW c \in Int,
         NEW d, d = Entry(a, row.site, "depreciation", m, [expense |-> c, accumulated |-> -c])
  PROVE  Charges({d}, a, row, c) /\ ChargeOf(d, a, row, m)
  <1>1. row.site \in Sites /\ "depreciation" \in BookKinds
    BY DEF RowReady, BookKinds
  <1>3. PICK y : y = [expense |-> c, accumulated |-> -c]
    OBVIOUS
  <1>5. DOMAIN y = {"expense", "accumulated"} /\ y["expense"] = c /\ y["accumulated"] = -c
    BY <1>3
  <1>6. IntegerLines(y)
    BY <1>5 DEF IntegerLines
  <1>7. EntryOf(d, a, row.site, "depreciation", m, y)
    BY <1>1, <1>3, <1>6, EntryIs
  <1>8. d \in EntryRow /\ d.asset = a /\ d.site = row.site /\ d.kind = "depreciation"
    BY <1>7 DEF EntryOf
  <1>9. d.lines["cost"] = 0 /\ d.lines["accumulated"] = -c /\ d.lines["clearing"] = 0 /\ d.lines["expense"] = c
    BY <1>5, <1>7, TheAccounts DEF EntryOf
  <1>11. ASSUME NEW s \in Sites
         PROVE  Brings({d}, a, {s}, "cost") = 0 /\ Brings({d}, a, {s}, "accumulated") = (IF s = row.site THEN -c ELSE 0)
    BY <1>8, <1>9, TheAccounts, OneEntryBrings
  <1>12. Brings({d}, a, Sites, "clearing") = 0 /\ Brings({d}, a, Sites, "expense") = c
    BY <1>1, <1>8, <1>9, TheAccounts, OneEntryBrings
  <1>13. Entries({d})
    BY <1>8, OneEntry
  <1>14. Charges({d}, a, row, c)
    BY <1>11, <1>12, <1>13 DEF Charges
  <1> QED BY <1>7, <1>14 DEF EntryOf, ChargeOf

LEMMA MonthCharges ==
  ASSUME NEW a \in Assets, NEW row, RowReady(row), NEW m \in Int
  PROVE  /\ Charges(ChargeEntries(a, row, m), a, row, Charge(row, m))
         /\ \A e \in ChargeEntries(a, row, m) : ChargeOf(e, a, row, m)
  <1>2. PICK c : c = Charge(row, m)
    OBVIOUS
  <1>3. c \in Int
    <2>1. row.inUse \in Nat
      BY DEF RowReady, AssetRow
    <2>2. AccumulatedBy(row, m) \in Int /\ AccumulatedBy(row, m - 1) \in Int
      BY <2>1, WearIs
    <2> QED BY <1>2, <2>2 DEF Charge
  <1>5. CASE c = 0
    <2>1. ChargeEntries(a, row, m) = {}
      BY <1>2, <1>5 DEF ChargeEntries
    <2>2. Entries({})
      BY FS_EmptySet DEF Entries
    <2> QED BY <1>2, <1>5, <2>1, <2>2, NoCharges
  <1>6. CASE c # 0 /\ PriorOwner(row, m)
    <2>1. PICK d : d = Entry(a, row.source, "depreciation", m, [expense |-> c, clearing |-> -c])
      OBVIOUS
    <2>2. PICK t : t = Entry(a, row.site, "transferred_depreciation", m, [clearing |-> c, accumulated |-> -c])
      OBVIOUS
    <2>3. ChargeEntries(a, row, m) = {d} \cup {t}
      BY <1>2, <1>6, <2>1, <2>2 DEF ChargeEntries
    <2>4. Charges({d} \cup {t}, a, row, c) /\ ChargeOf(d, a, row, m) /\ ChargeOf(t, a, row, m)
      BY <1>3, <1>6, <2>1, <2>2, SenderPays
    <2> QED BY <1>2, <2>3, <2>4
  <1>7. CASE c # 0 /\ ~PriorOwner(row, m)
    <2>1. PICK d : d = Entry(a, row.site, "depreciation", m, [expense |-> c, accumulated |-> -c])
      OBVIOUS
    <2>3. ChargeEntries(a, row, m) = {d}
      BY <1>2, <1>7, <2>1 DEF ChargeEntries
    <2>4. Charges({d}, a, row, c) /\ ChargeOf(d, a, row, m)
      BY <1>3, <1>7, <2>1, HolderPays
    <2> QED BY <1>2, <2>3, <2>4
  <1> QED BY <1>5, <1>6, <1>7

\* All months up to one.
Upto(a, row, n) == UNION {ChargeEntries(a, row, m) : m \in FirstDue(row) .. n}
Before(row) == FirstDue(row) - 1

LEMMA FirstDueIs ==
  ASSUME NEW row \in AssetRow
  PROVE  /\ FirstDue(row) = IF row.inUse <= row.posted + 1 THEN row.posted + 1 ELSE row.inUse
         /\ FirstDue(row) \in Nat /\ AccumulatedBy(row, Before(row)) = Worn(row)
  <1>1. row.inUse \in Nat /\ row.posted \in Nat
    BY DEF AssetRow
  <1>2. FirstDue(row) = IF row.inUse <= row.posted + 1 THEN row.posted + 1 ELSE row.inUse
    BY <1>1, GreaterOfTwo DEF FirstDue
  <1>3. CASE row.inUse <= row.posted + 1
    <2>1. Before(row) = row.posted
      BY <1>1, <1>2, <1>3 DEF Before
    <2> QED BY <1>1, <1>2, <1>3, <2>1 DEF Worn
  <1>4. CASE ~(row.inUse <= row.posted + 1)
    <2>1. Before(row) \in Int /\ Before(row) < row.inUse /\ row.posted < row.inUse /\ row.posted \in Int
      BY <1>1, <1>2, <1>4 DEF Before
    <2>2. AccumulatedBy(row, Before(row)) = 0 /\ AccumulatedBy(row, row.posted) = 0
      BY <1>1, <2>1, WearIs
    <2> QED BY <1>1, <1>2, <1>4, <2>2 DEF Worn
  <1> QED BY <1>3, <1>4

LEMMA UptoCharges ==
  ASSUME NEW a \in Assets, NEW row, RowReady(row), NEW k \in Nat
  PROVE  Charges(Upto(a, row, Before(row) + k), a, row, AccumulatedBy(row, Before(row) + k) - Worn(row))
  <1>0. row \in AssetRow /\ row.inUse \in Nat /\ row.posted \in Nat
    BY DEF RowReady, AssetRow
  <1>1. PICK b \in Int : b = Before(row) /\ FirstDue(row) = b + 1 /\ AccumulatedBy(row, b) = Worn(row)
    BY <1>0, FirstDueIs DEF Before
  <1>a. \A n \in Int : AccumulatedBy(row, n) \in Int
    BY <1>0, WearIs
  <1>2. PICK T : T = {h \in Nat : ~Charges(Upto(a, row, b + h), a, row, AccumulatedBy(row, b + h) - Worn(row))}
    OBVIOUS
  <1>3. SUFFICES ASSUME T # {} PROVE FALSE
    BY <1>1, <1>2
  <1>4. PICK h \in T : \A j \in T : h <= j
    BY <1>2, <1>3, LeastNatural
  <1>5. h \in Nat /\ b + h \in Int /\ ~Charges(Upto(a, row, b + h), a, row, AccumulatedBy(row, b + h) - Worn(row))
    BY <1>1, <1>2, <1>4
  <1>6. h # 0
    <2> SUFFICES ASSUME h = 0 PROVE FALSE
      OBVIOUS
    <2>1. FirstDue(row) .. (b + h) = {}
      BY <1>1
    <2>2. Upto(a, row, b + h) = {}
      BY <2>1 DEF Upto
    <2>3. AccumulatedBy(row, b + h) - Worn(row) = 0
      <3>1. b + h = b /\ AccumulatedBy(row, b) \in Int
        BY <1>1, <1>a
      <3> QED BY <1>1, <3>1
    <2>4. Entries({})
      BY FS_EmptySet DEF Entries
    <2> QED BY <1>5, <2>2, <2>3, <2>4, NoCharges
  <1>7. PICK n \in Int : n = b + h
    BY <1>5
  <1>8. h - 1 \in Nat /\ h - 1 \notin T /\ b + (h - 1) = n - 1
    BY <1>1, <1>4, <1>5, <1>6, <1>7
  <1>9. Charges(Upto(a, row, n - 1), a, row, AccumulatedBy(row, n - 1) - Worn(row))
    BY <1>2, <1>8
  <1>10. /\ Charges(ChargeEntries(a, row, n), a, row, Charge(row, n))
         /\ \A e \in ChargeEntries(a, row, n) : ChargeOf(e, a, row, n)
    BY MonthCharges
  <1>11. Upto(a, row, n) = Upto(a, row, n - 1) \cup ChargeEntries(a, row, n)
    <2>1. FirstDue(row) .. n = (FirstDue(row) .. (n - 1)) \cup {n}
      BY <1>1, <1>5, <1>6, <1>7
    <2> QED BY <2>1 DEF Upto
  <1>12. Apart(Upto(a, row, n - 1), ChargeEntries(a, row, n))
    <2>1. \A e \in Upto(a, row, n - 1) : e.period # n
      <3>1. \A m \in FirstDue(row) .. (n - 1) : m \in Int /\ m # n
        BY <1>1
      <3>2. \A m \in FirstDue(row) .. (n - 1) : \A e \in ChargeEntries(a, row, m) : ChargeOf(e, a, row, m)
        BY <3>1, MonthCharges
      <3> QED BY <3>1, <3>2 DEF Upto, ChargeOf
    <2>2. \A e \in ChargeEntries(a, row, n) : e.period = n
      BY <1>10 DEF ChargeOf
    <2> QED BY <1>9, <1>10, <2>1, <2>2 DEF Apart, Charges
  <1>13. Charges(Upto(a, row, n), a, row, (AccumulatedBy(row, n - 1) - Worn(row)) + Charge(row, n))
    BY <1>9, <1>10, <1>11, <1>12, ChargesAdd
  <1>14. (AccumulatedBy(row, n - 1) - Worn(row)) + Charge(row, n) = AccumulatedBy(row, n) - Worn(row)
    <2>1. AccumulatedBy(row, n - 1) \in Int /\ AccumulatedBy(row, n) \in Int /\ Worn(row) \in Int
      BY <1>0, <1>a DEF Worn
    <2> QED BY <2>1 DEF Charge
  <1> QED BY <1>5, <1>7, <1>13, <1>14

\* What postAsset writes, and where the row stands afterwards.
Advances(a, row, q, through) ==
  /\ RowReady(q) /\ q.status = row.status /\ q.site = row.site /\ q.inUse = row.inUse
  /\ q.source = row.source /\ q.sourceThrough = row.sourceThrough /\ q.touched = row.touched
  /\ q.batch = row.batch /\ q.posted >= row.posted
  /\ q.posted <= through \/ q.posted = row.posted
  /\ Charges(Postings(a, row, through), a, row, Worn(q) - Worn(row))

LEMMA PostingIs ==
  ASSUME NEW a \in Assets, NEW row, RowReady(row), NEW through \in Nat
  PROVE  Advances(a, row, Posted(row, through), through)
  <1>q. PICK q : q = Posted(row, through)
    OBVIOUS
  <1> SUFFICES Advances(a, row, q, through)
    BY <1>q
  <1>0. row \in AssetRow /\ row.inUse \in Nat /\ row.posted \in Nat /\ Life \in Nat \ {0}
    BY AssetsAssumption DEF RowReady, AssetRow
  <1>1. PICK f, l : f = FirstDue(row) /\ l = LastDue(row, through)
    OBVIOUS
  <1>2. /\ f = IF row.inUse <= row.posted + 1 THEN row.posted + 1 ELSE row.inUse
        /\ l = IF through <= row.inUse + Life - 1 THEN through ELSE row.inUse + Life - 1
    BY <1>0, <1>1, FirstDueIs, SmallerOfTwo DEF LastDue
  <1>3. f \in Nat /\ l \in Nat
    BY <1>0, <1>2
  <1>4. CASE f > l
    <2>1. DueMonths(row, through) = {}
      BY <1>1, <1>3, <1>4 DEF DueMonths
    <2>2. q = row /\ Postings(a, row, through) = {}
      BY <1>q, <2>1 DEF Posted, Postings
    <2>3. Entries({}) /\ Worn(row) - Worn(row) = 0
      <3>1. Worn(row) \in Int
        BY <1>0, WearIs DEF Worn
      <3> QED BY <3>1, FS_EmptySet DEF Entries
    <2>4. Charges({}, a, row, 0)
      BY <2>3, NoCharges
    <2> QED BY <1>0, <2>2, <2>3, <2>4 DEF Advances
  <1>5. CASE f <= l
    <2>1. DueMonths(row, through) = f .. l /\ f \in f .. l
      BY <1>1, <1>3, <1>5 DEF DueMonths
    <2>2. q = [row EXCEPT !.posted = l]
      BY <1>q, <1>1, <2>1 DEF Posted
    <2>3. /\ q \in AssetRow /\ q.status = row.status /\ q.site = row.site /\ q.inUse = row.inUse
          /\ q.source = row.source /\ q.sourceThrough = row.sourceThrough /\ q.touched = row.touched
          /\ q.batch = row.batch /\ q.posted = l
      BY <1>0, <1>3, <2>2 DEF AssetRow
    <2>4. l >= row.posted /\ l <= through
      BY <1>0, <1>2, <1>5
    <2>5. PICK k \in Nat : l = Before(row) + k
      <3>1. l - Before(row) \in Nat /\ l = Before(row) + (l - Before(row))
        BY <1>1, <1>3, <1>5 DEF Before
      <3> QED BY <3>1
    <2>6. Charges(Upto(a, row, l), a, row, AccumulatedBy(row, l) - Worn(row))
      BY <2>5, UptoCharges
    <2>7. Upto(a, row, l) = Postings(a, row, through)
      BY <1>1, <2>1 DEF Upto, Postings
    <2>8. Worn(q) = AccumulatedBy(row, l)
      BY <2>3, SameWear
    <2> QED BY <2>3, <2>4, <2>6, <2>7, <2>8 DEF RowReady, Advances
  <1> QED BY <1>3, <1>4, <1>5

LEMMA PostingShape ==
  ASSUME NEW a \in Assets, NEW row, RowReady(row), NEW through \in Nat, NEW e \in Postings(a, row, through)
  PROVE  /\ e.period \in Int /\ ChargeOf(e, a, row, e.period) /\ e.period <= through
         /\ e.period >= row.inUse /\ e.period >= row.posted + 1 /\ e.period <= row.inUse + Life - 1
  <1>0. row \in AssetRow /\ row.inUse \in Nat /\ row.posted \in Nat /\ Life \in Nat \ {0}
    BY AssetsAssumption DEF RowReady, AssetRow
  <1>1. PICK m \in DueMonths(row, through) : e \in ChargeEntries(a, row, m)
    BY DEF Postings
  <1>2. /\ FirstDue(row) = IF row.inUse <= row.posted + 1 THEN row.posted + 1 ELSE row.inUse
        /\ LastDue(row, through) = IF through <= row.inUse + Life - 1 THEN through ELSE row.inUse + Life - 1
    BY <1>0, FirstDueIs, SmallerOfTwo DEF LastDue
  <1>3. /\ m \in Int /\ m >= row.inUse /\ m >= row.posted + 1
        /\ m <= through /\ m <= row.inUse + Life - 1
    <2>1. FirstDue(row) \in Int /\ LastDue(row, through) \in Int
      BY <1>0, <1>2
    <2>2. m \in Int /\ FirstDue(row) <= m /\ m <= LastDue(row, through)
      BY <1>1, <2>1 DEF DueMonths
    <2> QED BY <1>0, <1>2, <2>2
  <1>4. ChargeOf(e, a, row, m)
    BY <1>1, <1>3, MonthCharges
  <1> QED BY <1>3, <1>4 DEF ChargeOf

-----------------------------------------------------------------------------
(* What an operation does to the asset it is about. *)

\* Entries of other assets and the passing of time leave an asset sound.
Elsewhere(G, a) == \A e \in G : e.asset # a

LEMMA BooksStay ==
  ASSUME NEW J, NEW G, Apart(J, G), NEW a, Elsewhere(G, a), NEW row, AssetBooks(J, a, row)
  PROVE  AssetBooks(J \cup G, a, row)
  <1>1. Entries(J) /\ Entries(G)
    BY DEF Apart
  <1>2. ASSUME NEW S, NEW x \in Accounts PROVE Brings(J \cup G, a, S, x) = Brings(J, a, S, x)
    <2>1. Brings(J \cup G, a, S, x) = Brings(J, a, S, x) + Brings(G, a, S, x)
      BY BooksAdd
    <2>2. Brings(G, a, S, x) = 0
      BY <1>1, BooksEmpty DEF Elsewhere
    <2>3. Brings(J, a, S, x) \in Int
      BY <1>1, BooksAreIntegers
    <2> QED BY <2>1, <2>2, <2>3
  <1>3. \A s \in Sites : /\ Brings(J \cup G, a, {s}, "cost") = Brings(J, a, {s}, "cost")
                         /\ Brings(J \cup G, a, {s}, "accumulated") = Brings(J, a, {s}, "accumulated")
    BY <1>2, TheAccounts
  <1>4. /\ Brings(J \cup G, a, Sites, "clearing") = Brings(J, a, Sites, "clearing")
        /\ Brings(J \cup G, a, Sites, "expense") = Brings(J, a, Sites, "expense")
    BY <1>2, TheAccounts
  <1> QED BY <1>3, <1>4 DEF AssetBooks

LEMMA AssetStays ==
  ASSUME NEW J, NEW G, Apart(J, G), NEW a, Elsewhere(G, a), NEW row, NEW mv,
         NEW now \in Int, NEW later \in Int, now <= later, AssetSound(a, row, mv, J, now)
  PROVE  AssetSound(a, row, mv, J \cup G, later)
  <1>1. row \in AssetRow /\ mv \in Seq(MoveRow)
    BY DEF AssetSound
  <1>2. row.status = "none" => row = NoAsset /\ mv = <<>> /\ \A j \in J \cup G : j.asset # a
    BY DEF AssetSound, Elsewhere
  <1>3. ASSUME row.status # "none"
        PROVE  /\ row.site \in Sites /\ row.inUse >= 1 /\ row.posted < later /\ row.sourceThrough <= later
               /\ AssetBooks(J \cup G, a, row) /\ MovesRight(row, mv) /\ ChargesRight(J \cup G, a, row, mv, later)
               /\ StillUntouched(J \cup G, a, row, mv)
    <2>1. /\ row.site \in Sites /\ row.inUse >= 1 /\ row.posted < now /\ row.sourceThrough <= now
          /\ AssetBooks(J, a, row) /\ MovesRight(row, mv) /\ ChargesRight(J, a, row, mv, now)
          /\ StillUntouched(J, a, row, mv)
      BY <1>3 DEF AssetSound
    <2>2. row.posted \in Int /\ row.sourceThrough \in Int
      BY <1>1 DEF AssetRow
    <2>3. row.posted < later /\ row.sourceThrough <= later
      BY <2>1, <2>2
    <2>4. AssetBooks(J \cup G, a, row)
      BY <2>1, BooksStay
    <2>5. ASSUME NEW j \in J \cup G, j.asset = a, j.kind = "depreciation"
          PROVE  j.period < later /\ HeldBy(mv, row.site, j.period, j.site)
      <3>1. j \in J
        BY <2>5 DEF Elsewhere
      <3>2. j.period < now /\ HeldBy(mv, row.site, j.period, j.site)
        BY <2>1, <2>5, <3>1 DEF ChargesRight
      <3>3. j.period \in Int
        BY <3>1, EntryTypes DEF Apart
      <3> QED BY <3>2, <3>3
    <2>6. StillUntouched(J \cup G, a, row, mv)
      BY <2>1 DEF StillUntouched, Elsewhere
    <2>7. ChargesRight(J \cup G, a, row, mv, later)
      BY <2>5 DEF ChargesRight
    <2> QED BY <2>1, <2>3, <2>4, <2>6, <2>7
  <1> QED BY <1>1, <1>2, <1>3 DEF AssetSound

\* Of what an operation writes, an asset's own entries are those that count.
Own(E, a) == {e \in E : e.asset = a}

LEMMA OwnApart ==
  ASSUME NEW J, NEW E, Apart(J, E), NEW a
  PROVE  /\ Apart(J, Own(E, a)) /\ Apart(J \cup Own(E, a), E \ Own(E, a)) /\ Elsewhere(E \ Own(E, a), a)
         /\ J \cup E = (J \cup Own(E, a)) \cup (E \ Own(E, a))
  <1>1. Own(E, a) \subseteq E /\ E \ Own(E, a) \subseteq E
    BY DEF Own
  <1>2. Entries(Own(E, a)) /\ Entries(E \ Own(E, a))
    BY <1>1, FS_Subset DEF Apart, Entries
  <1>3. Apart(J, Own(E, a))
    BY <1>1, <1>2 DEF Apart
  <1>4. Entries(J \cup Own(E, a))
    BY <1>3, EntriesTogether
  <1>5. Apart(J \cup Own(E, a), E \ Own(E, a))
    BY <1>1, <1>2, <1>4 DEF Apart
  <1>6. Elsewhere(E \ Own(E, a), a)
    BY DEF Elsewhere, Own
  <1> QED BY <1>1, <1>3, <1>5, <1>6

LEMMA OwnCounts ==
  ASSUME NEW J, NEW E, Apart(J, E), NEW a, NEW row, NEW mv, NEW now \in Int,
         AssetSound(a, row, mv, J \cup Own(E, a), now)
  PROVE  AssetSound(a, row, mv, J \cup E, now)
  <1>1. PICK K, G : K = J \cup Own(E, a) /\ G = E \ Own(E, a)
    OBVIOUS
  <1>a. Apart(J \cup Own(E, a), E \ Own(E, a)) /\ Elsewhere(E \ Own(E, a), a)
    BY OwnApart
  <1>b. J \cup E = (J \cup Own(E, a)) \cup (E \ Own(E, a))
    BY DEF Own
  <1>2. Apart(K, G) /\ Elsewhere(G, a) /\ J \cup E = K \cup G
    BY <1>1, <1>a, <1>b
  <1>3. AssetSound(a, row, mv, K, now) /\ now <= now
    BY <1>1
  <1>4. AssetSound(a, row, mv, K \cup G, now)
    BY <1>2, <1>3, AssetStays
  <1> QED BY <1>2, <1>4

\* The fields of a row that is in the register.
LEMMA SoundFields ==
  ASSUME NEW a, NEW row, NEW mv, NEW J, NEW now, AssetSound(a, row, mv, J, now), row.status # "none"
  PROVE  /\ RowReady(row) /\ mv \in Seq(MoveRow) /\ row.site \in Sites
         /\ row.inUse \in Nat /\ row.posted \in Nat /\ row.sourceThrough \in Nat
         /\ row.inUse >= 1 /\ row.posted < now /\ row.sourceThrough <= now
         /\ AssetBooks(J, a, row) /\ MovesRight(row, mv) /\ ChargesRight(J, a, row, mv, now)
         /\ StillUntouched(J, a, row, mv)
  BY DEF AssetSound, AssetRow, RowReady

LEMMA SoundFrom ==
  ASSUME NEW a, NEW row \in AssetRow, NEW mv \in Seq(MoveRow), NEW J, NEW now,
         row.status # "none", row.site \in Sites, row.inUse >= 1, row.posted < now, row.sourceThrough <= now,
         AssetBooks(J, a, row), MovesRight(row, mv), ChargesRight(J, a, row, mv, now),
         StillUntouched(J, a, row, mv)
  PROVE  AssetSound(a, row, mv, J, now)
  BY DEF AssetSound

LEMMA MoveTypes ==
  ASSUME NEW mv \in Seq(MoveRow)
  PROVE  Len(mv) \in Nat /\ \A k \in 1 .. Len(mv) : mv[k].month \in Nat /\ mv[k].from \in Sites
  <1>1. \A k \in 1 .. Len(mv) : mv[k] \in MoveRow
    OBVIOUS
  <1> QED BY <1>1 DEF MoveRow

-----------------------------------------------------------------------------
(* Posting. *)

LEMMA ChargedBooks ==
  ASSUME NEW J, NEW E, Apart(J, E), NEW a, NEW row, AssetBooks(J, a, row), row.status = "active", row \in AssetRow,
         NEW q \in AssetRow, q.status = "active", q.site = row.site, Charges(E, a, row, Worn(q) - Worn(row))
  PROVE  AssetBooks(J \cup E, a, q)
  <1>1. Worn(q) \in Int /\ Worn(row) \in Int /\ Cost \in Int
    BY WearIs, AssetsAssumption DEF AssetRow, Worn
  <1>2. PICK n \in Int : n = Worn(q) - Worn(row)
    BY <1>1
  <1>3. ASSUME NEW S, NEW x \in Accounts
        PROVE  Brings(J \cup E, a, S, x) = Brings(J, a, S, x) + Brings(E, a, S, x)
    BY BooksAdd
  <1>4. ASSUME NEW s \in Sites PROVE Brings(J \cup E, a, {s}, "cost") = Here(q, s, Cost)
    <2>1. Brings(J, a, {s}, "cost") = Here(row, s, Cost) /\ Brings(E, a, {s}, "cost") = 0
      BY DEF AssetBooks, Charges
    <2>2. Brings(J \cup E, a, {s}, "cost") = Brings(J, a, {s}, "cost") + Brings(E, a, {s}, "cost")
      BY <1>3, TheAccounts
    <2> QED BY <1>1, <2>1, <2>2 DEF Here
  <1>5. ASSUME NEW s \in Sites PROVE Brings(J \cup E, a, {s}, "accumulated") = Here(q, s, -Worn(q))
    <2>1. /\ Brings(J, a, {s}, "accumulated") = Here(row, s, -Worn(row))
          /\ Brings(E, a, {s}, "accumulated") = (IF s = row.site THEN -n ELSE 0)
      BY <1>2 DEF AssetBooks, Charges
    <2>2. Brings(J \cup E, a, {s}, "accumulated") = Brings(J, a, {s}, "accumulated") + Brings(E, a, {s}, "accumulated")
      BY <1>3, TheAccounts
    <2> QED BY <1>1, <1>2, <2>1, <2>2 DEF Here
  <1>6. Brings(J \cup E, a, Sites, "clearing") = 0
    <2>1. Brings(J, a, Sites, "clearing") = 0 /\ Brings(E, a, Sites, "clearing") = 0
      BY DEF AssetBooks, Charges
    <2>2. Brings(J \cup E, a, Sites, "clearing") = Brings(J, a, Sites, "clearing") + Brings(E, a, Sites, "clearing")
      BY <1>3, TheAccounts
    <2> QED BY <2>1, <2>2
  <1>7. Brings(J \cup E, a, Sites, "expense") = Worn(q)
    <2>1. Brings(J, a, Sites, "expense") = Worn(row) /\ Brings(E, a, Sites, "expense") = n
      BY <1>2 DEF AssetBooks, Charges
    <2>2. Brings(J \cup E, a, Sites, "expense") = Brings(J, a, Sites, "expense") + Brings(E, a, Sites, "expense")
      BY <1>3, TheAccounts
    <2> QED BY <1>1, <1>2, <2>1, <2>2
  <1>8. q.status # "reversed"
    OBVIOUS
  <1> QED BY <1>4, <1>5, <1>6, <1>7, <1>8 DEF AssetBooks

\* A month that is still to be charged is charged to who had the asset.
LEMMA ChargedRight ==
  ASSUME NEW a \in Assets, NEW row, RowReady(row), NEW mv \in Seq(MoveRow), MovesRight(row, mv),
         NEW through \in Nat, NEW e \in Postings(a, row, through), e.kind = "depreciation"
  PROVE  HeldBy(mv, row.site, e.period, e.site)
  <1>0. /\ row \in AssetRow /\ row.inUse \in Nat /\ row.posted \in Nat /\ row.sourceThrough \in Nat
        /\ row.site \in Sites /\ Life \in Nat \ {0}
    BY AssetsAssumption DEF RowReady, AssetRow
  <1>1. /\ e.period \in Int /\ e.period <= through
        /\ e.period >= row.inUse /\ e.period >= row.posted + 1 /\ e.period <= row.inUse + Life - 1
    BY PostingShape
  <1>2. e.site = IF PriorOwner(row, e.period) THEN row.source ELSE row.site
    <2>1. ChargeOf(e, a, row, e.period)
      BY PostingShape
    <2> QED BY <2>1 DEF ChargeOf
  <1>3. CASE mv = <<>>
    <2>1. row.source = NoSite
      BY <1>3 DEF MovesRight
    <2>2. e.site = row.site
      BY <1>2, <2>1 DEF PriorOwner
    <2>3. 1 .. Len(mv) = {}
      BY <1>3
    <2> QED BY <2>2, <2>3 DEF HeldBy
  <1>4. CASE mv # <<>>
    <2>1. /\ row.source \in Sites /\ \A k \in 1 .. Len(mv) : mv[k].month <= row.sourceThrough
          /\ \E k \in 1 .. Len(mv) : FirstSince(mv, row.sourceThrough, k) /\ mv[k].from = row.source
          /\ \/ row.posted + 1 >= row.sourceThrough \/ row.inUse >= row.sourceThrough
             \/ row.posted >= row.inUse + Life - 1
      BY <1>4 DEF MovesRight
    <2>2. e.period >= row.sourceThrough
      BY <1>0, <1>1, <2>1
    <2>3. CASE e.period = row.sourceThrough
      <3>1. row.source # NoSite
        BY <2>1, AssetsAssumption
      <3>2. e.site = row.source
        BY <1>0, <1>2, <2>3, <3>1 DEF PriorOwner
      <3> QED BY <2>1, <2>3, <3>2 DEF HeldBy
    <2>4. CASE e.period > row.sourceThrough
      <3>1. e.site = row.site
        BY <1>0, <1>1, <1>2, <2>4 DEF PriorOwner
      <3>2. \A k \in 1 .. Len(mv) : mv[k].month < e.period
        BY <1>0, <1>1, <2>1, <2>4, MoveTypes
      <3> QED BY <3>1, <3>2 DEF HeldBy
    <2> QED BY <1>0, <1>1, <2>2, <2>3, <2>4
  <1> QED BY <1>3, <1>4

LEMMA AssetPosted ==
  ASSUME NEW a \in Assets, NEW row, row.status = "active", NEW mv, NEW J, NEW now \in Int,
         AssetSound(a, row, mv, J, now), NEW through \in Nat, through < now,
         Apart(J, Postings(a, row, through))
  PROVE  AssetSound(a, Posted(row, through), mv, J \cup Postings(a, row, through), now)
  <1>1. /\ RowReady(row) /\ mv \in Seq(MoveRow) /\ row.site \in Sites
        /\ row.inUse \in Nat /\ row.posted \in Nat /\ row.sourceThrough \in Nat
        /\ row.inUse >= 1 /\ row.posted < now /\ row.sourceThrough <= now
        /\ AssetBooks(J, a, row) /\ MovesRight(row, mv) /\ ChargesRight(J, a, row, mv, now)
        /\ StillUntouched(J, a, row, mv)
    BY SoundFields
  <1>2. PICK q, E : q = Posted(row, through) /\ E = Postings(a, row, through)
    OBVIOUS
  <1>3. /\ RowReady(q) /\ q.status = row.status /\ q.site = row.site /\ q.inUse = row.inUse
        /\ q.source = row.source /\ q.sourceThrough = row.sourceThrough /\ q.touched = row.touched
        /\ q.posted >= row.posted
        /\ q.posted <= through \/ q.posted = row.posted
        /\ Charges(E, a, row, Worn(q) - Worn(row))
    <2>1. Advances(a, row, q, through)
      BY <1>1, <1>2, PostingIs
    <2> QED BY <1>2, <2>1 DEF Advances
  <1>4. q \in AssetRow /\ row \in AssetRow /\ q.posted \in Nat
    BY <1>1, <1>3 DEF RowReady, AssetRow
  <1>5. q.posted < now
    BY <1>1, <1>3, <1>4
  <1>6. AssetBooks(J \cup E, a, q)
    BY <1>1, <1>2, <1>3, <1>4, ChargedBooks
  <1>7. MovesRight(q, mv)
    <2>1. mv = <<>> => q.source = NoSite /\ q.sourceThrough = 0
      BY <1>1, <1>3 DEF MovesRight
    <2>2. ASSUME mv # <<>>
          PROVE  /\ q.source \in Sites /\ \A k \in 1 .. Len(mv) : mv[k].month <= q.sourceThrough
                 /\ \E k \in 1 .. Len(mv) : FirstSince(mv, q.sourceThrough, k) /\ mv[k].from = q.source
      BY <1>1, <1>3, <2>2 DEF MovesRight
    <2>3. ASSUME mv # <<>>
          PROVE  \/ q.posted + 1 >= q.sourceThrough \/ q.inUse >= q.sourceThrough
                 \/ q.posted >= q.inUse + Life - 1
      <3>1. \/ row.posted + 1 >= row.sourceThrough \/ row.inUse >= row.sourceThrough
            \/ row.posted >= row.inUse + Life - 1
        BY <1>1, <2>3 DEF MovesRight
      <3>2. Life \in Nat
        BY AssetsAssumption
      <3> QED BY <1>1, <1>3, <1>4, <3>1, <3>2
    <2> QED BY <2>1, <2>2, <2>3 DEF MovesRight
  <1>8. ChargesRight(J \cup E, a, q, mv, now)
    <2> SUFFICES ASSUME NEW j \in J \cup E, j.asset = a, j.kind = "depreciation"
                 PROVE  j.period < now /\ HeldBy(mv, q.site, j.period, j.site)
      BY DEF ChargesRight
    <2>1. CASE j \in J
      BY <1>1, <1>3, <2>1 DEF ChargesRight
    <2>2. CASE j \in E
      <3>1. j \in Postings(a, row, through)
        BY <1>2, <2>2
      <3>2. j.period \in Int /\ j.period <= through
        BY <1>1, <3>1, PostingShape
      <3>3. HeldBy(mv, row.site, j.period, j.site)
        BY <1>1, <3>1, ChargedRight
      <3> QED BY <1>3, <3>2, <3>3
    <2> QED BY <2>1, <2>2
  <1>9. StillUntouched(J \cup E, a, q, mv)
    <2>1. \A j \in E : ~j.undone /\ (~PriorOwner(row, j.period) => j.site = row.site)
      <3> SUFFICES ASSUME NEW j \in E PROVE ~j.undone /\ (~PriorOwner(row, j.period) => j.site = row.site)
        OBVIOUS
      <3>1. j \in Postings(a, row, through)
        BY <1>2
      <3>2. ChargeOf(j, a, row, j.period)
        BY <1>1, <3>1, PostingShape
      <3> QED BY <3>2 DEF ChargeOf
    <2>2. row.status # "reversed" /\ row.status = "active"
      OBVIOUS
    <2>3. \A j \in J : j.asset = a => ~j.undone
      BY <1>1, <2>2 DEF StillUntouched
    <2>4. ASSUME ~row.touched PROVE mv = <<>> /\ \A j \in J \cup E : j.asset = a => j.site = q.site
      <3>1. mv = <<>> /\ \A j \in J : j.asset = a => j.site = row.site
        BY <1>1, <2>4 DEF StillUntouched
      <3>2. row.source = NoSite
        BY <1>1, <3>1 DEF MovesRight
      <3>3. \A j \in E : j.site = row.site
        BY <2>1, <3>2 DEF PriorOwner
      <3> QED BY <1>3, <3>1, <3>3
    <2> QED BY <1>3, <2>1, <2>3, <2>4 DEF StillUntouched
  <1>10. AssetSound(a, q, mv, J \cup E, now)
    BY <1>1, <1>3, <1>4, <1>5, <1>6, <1>7, <1>8, <1>9, SoundFrom
  <1> QED BY <1>2, <1>10

-----------------------------------------------------------------------------
(* Servicing, moving and disposing of an asset: one or two entries more. *)

Line(e, S, x) == IF e.site \in S THEN e.lines[x] ELSE 0

EntryFor(e, a) == e \in EntryRow /\ e.asset = a

LEMMA OneMore ==
  ASSUME NEW J, NEW a, NEW e, EntryFor(e, a), Apart(J, {e}), NEW S, NEW x \in Accounts
  PROVE  Brings(J \cup {e}, a, S, x) = Brings(J, a, S, x) + Line(e, S, x)
  <1>1. Brings(J \cup {e}, a, S, x) = Brings(J, a, S, x) + Brings({e}, a, S, x)
    BY BooksAdd
  <1>2. Brings({e}, a, S, x) = (IF e.asset = a /\ e.site \in S THEN e.lines[x] ELSE 0)
    BY OneEntryBrings DEF EntryFor
  <1> QED BY <1>1, <1>2 DEF Line, EntryFor

LEMMA BooksHave ==
  ASSUME NEW J, NEW a, NEW row, AssetBooks(J, a, row), row \in AssetRow, row.status = "active"
  PROVE  /\ \A s \in Sites : Brings(J, a, {s}, "cost") = IF s = row.site THEN Cost ELSE 0
         /\ \A s \in Sites : Brings(J, a, {s}, "accumulated") = IF s = row.site THEN -Worn(row) ELSE 0
         /\ Brings(J, a, Sites, "clearing") = 0 /\ Brings(J, a, Sites, "expense") = Worn(row)
         /\ Worn(row) \in Int /\ Cost \in Int
  <1>1. row.inUse \in Nat /\ row.posted \in Int /\ Cost \in Int
    BY AssetsAssumption DEF AssetRow
  <1>2. Worn(row) \in Int
    BY <1>1, WearIs DEF Worn
  <1> QED BY <1>1, <1>2 DEF AssetBooks, Here

LEMMA AssetTouched ==
  ASSUME NEW a, NEW row, row.status = "active", NEW mv, NEW J, NEW now, AssetSound(a, row, mv, J, now)
  PROVE  AssetSound(a, [row EXCEPT !.touched = TRUE], mv, J, now)
  <1>1. /\ RowReady(row) /\ mv \in Seq(MoveRow) /\ row.site \in Sites
        /\ row.inUse >= 1 /\ row.posted < now /\ row.sourceThrough <= now
        /\ AssetBooks(J, a, row) /\ MovesRight(row, mv) /\ ChargesRight(J, a, row, mv, now)
        /\ StillUntouched(J, a, row, mv)
    BY SoundFields
  <1>2. PICK q : q = [row EXCEPT !.touched = TRUE]
    OBVIOUS
  <1>3. /\ q \in AssetRow /\ q.status = row.status /\ q.site = row.site /\ q.inUse = row.inUse
        /\ q.posted = row.posted /\ q.touched = TRUE
        /\ q.source = row.source /\ q.sourceThrough = row.sourceThrough
    BY <1>1, <1>2 DEF RowReady, AssetRow
  <1>4. Worn(q) = Worn(row)
    BY <1>3, SameWear
  <1>5. AssetBooks(J, a, q)
    BY <1>1, <1>3, <1>4 DEF AssetBooks, Here
  <1>6. MovesRight(q, mv) /\ ChargesRight(J, a, q, mv, now)
    BY <1>1, <1>3 DEF MovesRight, ChargesRight
  <1>7. StillUntouched(J, a, q, mv)
    BY <1>1, <1>3 DEF StillUntouched
  <1>8. AssetSound(a, q, mv, J, now)
    BY <1>1, <1>3, <1>5, <1>6, <1>7, SoundFrom
  <1> QED BY <1>2, <1>8

LEMMA AssetServiced ==
  ASSUME NEW a, NEW row, row.status = "active", row.touched, NEW mv, NEW J, NEW now,
         AssetSound(a, row, mv, J, now), NEW p, NEW z, DOMAIN z = {"upkeep", "cash"},
         NEW e, EntryOf(e, a, row.site, "maintenance", p, z), Apart(J, {e})
  PROVE  AssetSound(a, row, mv, J \cup {e}, now)
  <1>1. /\ RowReady(row) /\ mv \in Seq(MoveRow) /\ row.site \in Sites
        /\ row.inUse >= 1 /\ row.posted < now /\ row.sourceThrough <= now
        /\ AssetBooks(J, a, row) /\ MovesRight(row, mv) /\ ChargesRight(J, a, row, mv, now)
        /\ StillUntouched(J, a, row, mv)
    BY SoundFields
  <1>2. row \in AssetRow
    BY <1>1 DEF RowReady
  <1>3. /\ e \in EntryRow /\ e.asset = a /\ e.site = row.site /\ e.kind = "maintenance" /\ e.undone = FALSE
        /\ e.lines["cost"] = 0 /\ e.lines["accumulated"] = 0 /\ e.lines["clearing"] = 0 /\ e.lines["expense"] = 0
    BY TheAccounts DEF EntryOf
  <1>4. ASSUME NEW S, NEW x \in {"cost", "accumulated", "clearing", "expense"}
        PROVE  Brings(J \cup {e}, a, S, x) = Brings(J, a, S, x)
    <2>1. x \in Accounts
      BY TheAccounts
    <2>2. Brings(J \cup {e}, a, S, x) = Brings(J, a, S, x) + Line(e, S, x)
      <3>1. EntryFor(e, a)
        BY <1>3 DEF EntryFor
      <3> QED BY <2>1, <3>1, OneMore
    <2>3. Line(e, S, x) = 0
      BY <1>3 DEF Line
    <2>4. Brings(J, a, S, x) \in Int
      BY <2>1, BooksAreIntegers DEF Apart
    <2> QED BY <2>2, <2>3, <2>4
  <1>5. /\ \A s \in Sites : /\ Brings(J \cup {e}, a, {s}, "cost") = Brings(J, a, {s}, "cost")
                            /\ Brings(J \cup {e}, a, {s}, "accumulated") = Brings(J, a, {s}, "accumulated")
        /\ Brings(J \cup {e}, a, Sites, "clearing") = Brings(J, a, Sites, "clearing")
        /\ Brings(J \cup {e}, a, Sites, "expense") = Brings(J, a, Sites, "expense")
    BY <1>4
  <1>6. AssetBooks(J \cup {e}, a, row)
    BY <1>1, <1>5 DEF AssetBooks
  <1>7. ChargesRight(J \cup {e}, a, row, mv, now)
    BY <1>1, <1>3 DEF ChargesRight
  <1>8. StillUntouched(J \cup {e}, a, row, mv)
    BY <1>1, <1>3 DEF StillUntouched
  <1> QED BY <1>1, <1>2, <1>6, <1>7, <1>8, SoundFrom

\* A row that has every month that is over.
CaughtUp(row, now) == \/ row.posted + 1 >= now \/ row.inUse >= now
                      \/ row.posted >= row.inUse + Life - 1

LEMMA CatchesUp ==
  ASSUME NEW row \in AssetRow, NEW now \in Nat, now >= 1
  PROVE  CaughtUp(Posted(row, now - 1), now)
  <1>0. row.inUse \in Nat /\ row.posted \in Nat /\ Life \in Nat \ {0} /\ now - 1 \in Nat
    BY AssetsAssumption DEF AssetRow
  <1>1. PICK f, l : f = FirstDue(row) /\ l = LastDue(row, now - 1)
    OBVIOUS
  <1>2. /\ f = IF row.inUse <= row.posted + 1 THEN row.posted + 1 ELSE row.inUse
        /\ l = IF now - 1 <= row.inUse + Life - 1 THEN now - 1 ELSE row.inUse + Life - 1
    BY <1>0, <1>1, FirstDueIs, SmallerOfTwo DEF LastDue
  <1>3. f \in Nat /\ l \in Nat
    BY <1>0, <1>2
  <1>4. CASE f > l
    <2>1. DueMonths(row, now - 1) = {}
      BY <1>1, <1>3, <1>4 DEF DueMonths
    <2>2. Posted(row, now - 1) = row
      BY <2>1 DEF Posted
    <2>3. CaughtUp(row, now)
      BY <1>0, <1>2, <1>4 DEF CaughtUp
    <2> QED BY <2>2, <2>3
  <1>5. CASE f <= l
    <2>1. DueMonths(row, now - 1) # {}
      BY <1>1, <1>3, <1>5 DEF DueMonths
    <2>2. Posted(row, now - 1) = [row EXCEPT !.posted = l]
      BY <1>1, <2>1 DEF Posted
    <2>3. PICK q : q = [row EXCEPT !.posted = l]
      OBVIOUS
    <2>4. q.posted = l /\ q.inUse = row.inUse
      BY <2>3 DEF AssetRow
    <2>5. CaughtUp(q, now)
      BY <1>0, <1>2, <2>4 DEF CaughtUp
    <2> QED BY <2>2, <2>3, <2>5
  <1> QED BY <1>3, <1>4, <1>5

LEMMA CaughtUpWear ==
  ASSUME NEW row \in AssetRow, NEW now \in Nat, now >= 1, row.posted < now, CaughtUp(row, now)
  PROVE  AccumulatedBy(row, now - 1) = Worn(row)
  <1>0. row.inUse \in Nat /\ row.posted \in Nat /\ Life \in Nat \ {0} /\ now - 1 \in Int
    BY AssetsAssumption DEF AssetRow
  <1>1. CASE row.posted + 1 >= now
    <2>1. row.posted = now - 1
      BY <1>0, <1>1
    <2> QED BY <2>1 DEF Worn
  <1>2. CASE row.inUse >= now
    <2>1. now - 1 < row.inUse /\ row.posted < row.inUse
      BY <1>0, <1>2
    <2> QED BY <1>0, <2>1, WearIs DEF Worn
  <1>3. CASE row.posted >= row.inUse + Life - 1
    <2>1. now - 1 >= row.inUse + Life - 1
      BY <1>0, <1>3
    <2> QED BY <1>0, <1>3, <2>1, WearIs DEF Worn
  <1> QED BY <1>1, <1>2, <1>3 DEF CaughtUp

\* A disposal takes the asset out of the books, whatever it is worth.
LEMMA AssetDisposed ==
  ASSUME NEW a, NEW row, row.status = "active", NEW mv, NEW J, NEW now \in Nat, now >= 1,
         AssetSound(a, row, mv, J, now), NEW p, NEW z, DOMAIN z = {"accumulated", "cost", "cash", "result"},
         z["cost"] = -Cost, z["accumulated"] = Worn(row),
         NEW e, EntryOf(e, a, row.site, "disposal", p, z), Apart(J, {e})
  PROVE  AssetSound(a, [row EXCEPT !.status = "disposed", !.touched = TRUE], mv, J \cup {e}, now)
  <1>1. /\ RowReady(row) /\ mv \in Seq(MoveRow) /\ row.site \in Sites
        /\ row.inUse >= 1 /\ row.posted < now /\ row.sourceThrough <= now
        /\ AssetBooks(J, a, row) /\ MovesRight(row, mv) /\ ChargesRight(J, a, row, mv, now)
        /\ StillUntouched(J, a, row, mv)
    BY SoundFields
  <1>2. PICK q : q = [row EXCEPT !.status = "disposed", !.touched = TRUE]
    OBVIOUS
  <1>3. /\ q \in AssetRow /\ q.status = "disposed" /\ q.site = row.site /\ q.inUse = row.inUse
        /\ q.posted = row.posted /\ q.touched = TRUE
        /\ q.source = row.source /\ q.sourceThrough = row.sourceThrough /\ row \in AssetRow
    BY <1>1, <1>2 DEF RowReady, AssetRow
  <1>4. Worn(q) = Worn(row)
    BY <1>3, SameWear
  <1>5. EntryFor(e, a)
    BY DEF EntryOf, EntryFor
  <1>6. /\ e.site = row.site /\ e.kind = "disposal" /\ e.undone = FALSE
        /\ e.lines["cost"] = -Cost /\ e.lines["accumulated"] = Worn(row)
        /\ e.lines["clearing"] = 0 /\ e.lines["expense"] = 0
    BY TheAccounts DEF EntryOf
  <1>7. ASSUME NEW S, NEW x \in Accounts PROVE Brings(J \cup {e}, a, S, x) = Brings(J, a, S, x) + Line(e, S, x)
    BY <1>5, OneMore
  <1>8. /\ \A s \in Sites : Brings(J, a, {s}, "cost") = IF s = row.site THEN Cost ELSE 0
        /\ \A s \in Sites : Brings(J, a, {s}, "accumulated") = IF s = row.site THEN -Worn(row) ELSE 0
        /\ Brings(J, a, Sites, "clearing") = 0 /\ Brings(J, a, Sites, "expense") = Worn(row)
        /\ Worn(row) \in Int /\ Cost \in Int
    BY <1>1, <1>3, BooksHave
  <1>9. ASSUME NEW s \in Sites PROVE Brings(J \cup {e}, a, {s}, "cost") = 0
    <2>1. Line(e, {s}, "cost") = IF s = row.site THEN -Cost ELSE 0
      BY <1>6 DEF Line
    <2>2. Brings(J \cup {e}, a, {s}, "cost") = Brings(J, a, {s}, "cost") + Line(e, {s}, "cost")
      BY <1>7, TheAccounts
    <2> QED BY <1>8, <2>1, <2>2
  <1>10. ASSUME NEW s \in Sites PROVE Brings(J \cup {e}, a, {s}, "accumulated") = 0
    <2>1. Line(e, {s}, "accumulated") = IF s = row.site THEN Worn(row) ELSE 0
      BY <1>6 DEF Line
    <2>2. Brings(J \cup {e}, a, {s}, "accumulated") = Brings(J, a, {s}, "accumulated") + Line(e, {s}, "accumulated")
      BY <1>7, TheAccounts
    <2> QED BY <1>8, <2>1, <2>2
  <1>11. Brings(J \cup {e}, a, Sites, "clearing") = 0
    <2>1. Line(e, Sites, "clearing") = 0
      BY <1>6 DEF Line
    <2>2. Brings(J \cup {e}, a, Sites, "clearing") = Brings(J, a, Sites, "clearing") + Line(e, Sites, "clearing")
      BY <1>7, TheAccounts
    <2> QED BY <1>8, <2>1, <2>2
  <1>12. Brings(J \cup {e}, a, Sites, "expense") = Worn(row)
    <2>1. Line(e, Sites, "expense") = 0
      BY <1>6 DEF Line
    <2>2. Brings(J \cup {e}, a, Sites, "expense") = Brings(J, a, Sites, "expense") + Line(e, Sites, "expense")
      BY <1>7, TheAccounts
    <2> QED BY <1>8, <2>1, <2>2
  <1>13. AssetBooks(J \cup {e}, a, q)
    BY <1>3, <1>4, <1>9, <1>10, <1>11, <1>12 DEF AssetBooks, Here
  <1>14. MovesRight(q, mv)
    BY <1>1, <1>3 DEF MovesRight
  <1>15. ChargesRight(J \cup {e}, a, q, mv, now)
    BY <1>1, <1>3, <1>6 DEF ChargesRight
  <1>16. StillUntouched(J \cup {e}, a, q, mv)
    BY <1>1, <1>3, <1>6 DEF StillUntouched
  <1>17. AssetSound(a, q, mv, J \cup {e}, now)
    BY <1>1, <1>3, <1>13, <1>14, <1>15, <1>16, SoundFrom
  <1> QED BY <1>2, <1>17

\* A transfer moves cost and wear from one project to another.
LEMMA MovedBooks ==
  ASSUME NEW J, NEW a, NEW row \in AssetRow, row.status = "active", AssetBooks(J, a, row),
         NEW q, q.status = "active", q.site # row.site, Worn(q) = Worn(row),
         NEW o, EntryFor(o, a), o.site = row.site,
         o.lines["cost"] = -Cost, o.lines["accumulated"] = Worn(row), o.lines["clearing"] = Cost - Worn(row),
         o.lines["expense"] = 0, NEW t, EntryFor(t, a), t.site = q.site,
         t.lines["cost"] = Cost, t.lines["accumulated"] = -Worn(row), t.lines["clearing"] = Worn(row) - Cost,
         t.lines["expense"] = 0, Apart(J, {o}), Apart(J \cup {o}, {t}), q.site \in Sites, row.site \in Sites
  PROVE  AssetBooks((J \cup {o}) \cup {t}, a, q)
  <1>1. ASSUME NEW S, NEW x \in Accounts
        PROVE  Brings((J \cup {o}) \cup {t}, a, S, x) = (Brings(J, a, S, x) + Line(o, S, x)) + Line(t, S, x)
    <2>1. Brings(J \cup {o}, a, S, x) = Brings(J, a, S, x) + Line(o, S, x)
      BY OneMore
    <2>2. PICK K : K = J \cup {o}
      OBVIOUS
    <2>3. Brings(K \cup {t}, a, S, x) = Brings(K, a, S, x) + Line(t, S, x)
      BY <2>2, OneMore
    <2> QED BY <2>1, <2>2, <2>3
  <1>2. PICK K : K = (J \cup {o}) \cup {t}
    OBVIOUS
  <1>3. /\ \A s \in Sites : Brings(J, a, {s}, "cost") = IF s = row.site THEN Cost ELSE 0
        /\ \A s \in Sites : Brings(J, a, {s}, "accumulated") = IF s = row.site THEN -Worn(row) ELSE 0
        /\ Brings(J, a, Sites, "clearing") = 0 /\ Brings(J, a, Sites, "expense") = Worn(row)
        /\ Worn(row) \in Int /\ Cost \in Int
    BY BooksHave
  <1>4. ASSUME NEW s \in Sites PROVE Brings(K, a, {s}, "cost") = Here(q, s, Cost)
    <2>1. Line(o, {s}, "cost") = IF s = row.site THEN -Cost ELSE 0
      BY DEF Line
    <2>2. Line(t, {s}, "cost") = IF s = q.site THEN Cost ELSE 0
      BY DEF Line
    <2>3. Brings(K, a, {s}, "cost") = (Brings(J, a, {s}, "cost") + Line(o, {s}, "cost")) + Line(t, {s}, "cost")
      BY <1>1, <1>2, TheAccounts
    <2> QED BY <1>3, <2>1, <2>2, <2>3 DEF Here
  <1>5. ASSUME NEW s \in Sites PROVE Brings(K, a, {s}, "accumulated") = Here(q, s, -Worn(q))
    <2>1. Line(o, {s}, "accumulated") = IF s = row.site THEN Worn(row) ELSE 0
      BY DEF Line
    <2>2. Line(t, {s}, "accumulated") = IF s = q.site THEN -Worn(row) ELSE 0
      BY DEF Line
    <2>3. Brings(K, a, {s}, "accumulated")
            = (Brings(J, a, {s}, "accumulated") + Line(o, {s}, "accumulated")) + Line(t, {s}, "accumulated")
      BY <1>1, <1>2, TheAccounts
    <2> QED BY <1>3, <2>1, <2>2, <2>3 DEF Here
  <1>6. Brings(K, a, Sites, "clearing") = 0
    <2>1. Line(o, Sites, "clearing") = Cost - Worn(row) /\ Line(t, Sites, "clearing") = Worn(row) - Cost
      BY DEF Line
    <2>3. Brings(K, a, Sites, "clearing")
            = (Brings(J, a, Sites, "clearing") + Line(o, Sites, "clearing")) + Line(t, Sites, "clearing")
      BY <1>1, <1>2, TheAccounts
    <2> QED BY <1>3, <2>1, <2>3
  <1>7. Brings(K, a, Sites, "expense") = Worn(q)
    <2>1. Line(o, Sites, "expense") = 0 /\ Line(t, Sites, "expense") = 0
      BY DEF Line
    <2>3. Brings(K, a, Sites, "expense")
            = (Brings(J, a, Sites, "expense") + Line(o, Sites, "expense")) + Line(t, Sites, "expense")
      BY <1>1, <1>2, TheAccounts
    <2> QED BY <1>3, <2>1, <2>3
  <1>8. q.status # "reversed"
    OBVIOUS
  <1>9. AssetBooks(K, a, q)
    BY <1>4, <1>5, <1>6, <1>7, <1>8 DEF AssetBooks
  <1> QED BY <1>2, <1>9

\* One transfer more: who had the asset before still had it, and from now on
\* the sender of the transfer is the first since any later month.
Grown(w, mv, now, s) == w = Append(mv, [month |-> now, from |-> s])

LEMMA HistoryGrows ==
  ASSUME NEW mv \in Seq(MoveRow), NEW now \in Nat, NEW s \in Sites,
         NEW w, Grown(w, mv, now, s)
  PROVE  /\ w \in Seq(MoveRow) /\ w # <<>> /\ Len(w) = Len(mv) + 1
         /\ w[Len(mv) + 1].month = now /\ w[Len(mv) + 1].from = s
         /\ \A k \in 1 .. Len(mv) : w[k] = mv[k]
  <1>1. PICK r : r = [month |-> now, from |-> s]
    OBVIOUS
  <1>2. r \in MoveRow /\ r.month = now /\ r.from = s
    BY <1>1 DEF MoveRow
  <1>3. w = Append(mv, r) /\ Len(mv) \in Nat
    BY <1>1 DEF Grown
  <1> QED BY <1>2, <1>3

LEMMA FirstStaysFirst ==
  ASSUME NEW mv \in Seq(MoveRow), NEW now \in Nat, NEW s \in Sites,
         NEW w, Grown(w, mv, now, s), NEW m, NEW k, FirstSince(mv, m, k)
  PROVE  FirstSince(w, m, k) /\ w[k] = mv[k]
  <1>1. Len(mv) \in Nat /\ Len(w) = Len(mv) + 1 /\ \A h \in 1 .. Len(mv) : w[h] = mv[h]
    <2>1. Len(mv) \in Nat
      OBVIOUS
    <2>2. Len(w) = Len(mv) + 1
      BY HistoryGrows
    <2>3. \A h \in 1 .. Len(mv) : w[h] = mv[h]
      BY HistoryGrows
    <2> QED BY <2>1, <2>2, <2>3
  <1>2. k \in 1 .. Len(mv) /\ mv[k].month >= m /\ \A h \in 1 .. Len(mv) : h < k => mv[h].month < m
    BY DEF FirstSince
  <1>3. k \in 1 .. Len(w) /\ w[k] = mv[k]
    BY <1>1, <1>2
  <1>4. ASSUME NEW h \in 1 .. Len(w), h < k PROVE w[h].month < m
    <2>1. h \in 1 .. Len(mv)
      BY <1>1, <1>2, <1>4
    <2> QED BY <1>1, <1>2, <1>4, <2>1
  <1> QED BY <1>2, <1>3, <1>4 DEF FirstSince

LEMMA LastIsFirst ==
  ASSUME NEW mv \in Seq(MoveRow), NEW now \in Nat, NEW s \in Sites,
         NEW w, Grown(w, mv, now, s), NEW m \in Int, m <= now,
         \A k \in 1 .. Len(mv) : mv[k].month < m
  PROVE  FirstSince(w, m, Len(mv) + 1) /\ w[Len(mv) + 1].from = s
  <1>1. /\ Len(mv) \in Nat /\ Len(w) = Len(mv) + 1 /\ \A h \in 1 .. Len(mv) : w[h] = mv[h]
        /\ w[Len(mv) + 1].month = now /\ w[Len(mv) + 1].from = s
    BY HistoryGrows
  <1>2. \A h \in 1 .. Len(w) : h < Len(mv) + 1 => h \in 1 .. Len(mv)
    BY <1>1
  <1>3. \A h \in 1 .. Len(w) : h < Len(mv) + 1 => w[h].month < m
    BY <1>1, <1>2
  <1>4. Len(mv) + 1 \in 1 .. Len(w)
    BY <1>1
  <1> QED BY <1>1, <1>3, <1>4 DEF FirstSince

LEMMA StillHeldBy ==
  ASSUME NEW mv \in Seq(MoveRow), NEW now \in Nat, NEW s \in Sites,
         NEW w, Grown(w, mv, now, s), NEW m \in Int, m <= now,
         NEW b, HeldBy(mv, s, m, b), NEW target
  PROVE  HeldBy(w, target, m, b)
  <1>1. CASE (\A k \in 1 .. Len(mv) : mv[k].month < m) /\ s = b
    <2>1. FirstSince(w, m, Len(mv) + 1) /\ w[Len(mv) + 1].from = b
      BY <1>1, LastIsFirst
    <2>2. Len(mv) + 1 \in 1 .. Len(w)
      BY <2>1 DEF FirstSince
    <2> QED BY <2>1, <2>2 DEF HeldBy
  <1>2. ASSUME NEW k \in 1 .. Len(mv), FirstSince(mv, m, k), mv[k].from = b PROVE HeldBy(w, target, m, b)
    <2>1. FirstSince(w, m, k) /\ w[k] = mv[k]
      BY <1>2, FirstStaysFirst
    <2>2. k \in 1 .. Len(w)
      BY <2>1 DEF FirstSince
    <2> QED BY <1>2, <2>1, <2>2 DEF HeldBy
  <1> QED BY <1>1, <1>2 DEF HeldBy

\* Who bears the month of a transfer: the first sender of that month.
Sender(row, now) == IF row.sourceThrough >= now THEN row.source ELSE row.site

Sent(q, row, now) ==
  q.source = Sender(row, now) /\ q.sourceThrough = now /\ q.posted = row.posted /\ q.inUse = row.inUse

LEMMA MoveKnown ==
  ASSUME NEW row \in AssetRow, row.site \in Sites, row.inUse >= 1, NEW mv \in Seq(MoveRow), MovesRight(row, mv),
         NEW now \in Nat, now >= 1, row.sourceThrough <= now, CaughtUp(row, now),
         NEW w, Grown(w, mv, now, row.site),
         NEW q, Sent(q, row, now)
  PROVE  MovesRight(q, w)
  <1>0. row.sourceThrough \in Nat
    BY DEF AssetRow
  <1>q. q.source = Sender(row, now) /\ q.sourceThrough = now /\ q.posted = row.posted /\ q.inUse = row.inUse
    BY DEF Sent
  <1>1. /\ w # <<>> /\ Len(mv) \in Nat /\ Len(w) = Len(mv) + 1 /\ \A h \in 1 .. Len(mv) : w[h] = mv[h]
        /\ w[Len(mv) + 1].month = now /\ w[Len(mv) + 1].from = row.site
    BY HistoryGrows
  <1>2. \A k \in 1 .. Len(mv) : mv[k].month \in Nat /\ mv[k].month <= row.sourceThrough
    <2>1. CASE mv = <<>>
      BY <2>1
    <2>2. CASE mv # <<>>
      BY <2>2, MoveTypes DEF MovesRight
    <2> QED BY <2>1, <2>2
  <1>3. \A k \in 1 .. Len(w) : w[k].month <= q.sourceThrough
    <2> SUFFICES ASSUME NEW k \in 1 .. Len(w) PROVE w[k].month <= now
      BY <1>q
    <2>1. CASE k \in 1 .. Len(mv)
      BY <1>0, <1>1, <1>2, <2>1
    <2>2. CASE k = Len(mv) + 1
      BY <1>1, <2>2
    <2> QED BY <1>1, <2>1, <2>2
  <1>4. q.source \in Sites /\ \E k \in 1 .. Len(w) : FirstSince(w, now, k) /\ w[k].from = q.source
    <2>1. CASE row.sourceThrough >= now
      <3>1. row.sourceThrough = now /\ now # 0 /\ mv # <<>>
        BY <1>0, <2>1 DEF MovesRight
      <3>2. row.source \in Sites /\ \E k \in 1 .. Len(mv) : FirstSince(mv, now, k) /\ mv[k].from = row.source
        BY <3>1 DEF MovesRight
      <3>3. PICK k \in 1 .. Len(mv) : FirstSince(mv, now, k) /\ mv[k].from = row.source
        BY <3>2
      <3>4. FirstSince(w, now, k) /\ w[k] = mv[k]
        BY <3>3, FirstStaysFirst
      <3>5. k \in 1 .. Len(w)
        BY <3>4 DEF FirstSince
      <3>6. q.source = row.source
        BY <1>q, <2>1 DEF Sender
      <3> QED BY <3>2, <3>3, <3>4, <3>5, <3>6
    <2>2. CASE ~(row.sourceThrough >= now)
      <3>1. \A k \in 1 .. Len(mv) : mv[k].month < now
        BY <1>0, <1>2, <2>2
      <3>2. FirstSince(w, now, Len(mv) + 1) /\ w[Len(mv) + 1].from = row.site
        BY <3>1, LastIsFirst
      <3>3. Len(mv) + 1 \in 1 .. Len(w)
        BY <1>1
      <3>4. q.source = row.site
        BY <1>q, <2>2 DEF Sender
      <3> QED BY <3>2, <3>3, <3>4
    <2> QED BY <2>1, <2>2
  <1> QED BY <1>q, <1>1, <1>3, <1>4 DEF MovesRight, CaughtUp

TakenOut(y, n) == /\ DOMAIN y = {"accumulated", "clearing", "cost"}
                /\ y["accumulated"] = n /\ y["clearing"] = Cost - n /\ y["cost"] = -Cost
TakenIn(z, n) == /\ DOMAIN z = {"accumulated", "clearing", "cost"}
                 /\ z["accumulated"] = -n /\ z["clearing"] = n - Cost /\ z["cost"] = Cost
AtTarget(q, row, target, now) ==
  q = [row EXCEPT !.site = target, !.source = Sender(row, now), !.sourceThrough = now, !.touched = TRUE]

LEMMA AssetMoved ==
  ASSUME NEW a, NEW row, row.status = "active", NEW mv, NEW J, NEW now \in Nat, now >= 1,
         AssetSound(a, row, mv, J, now), CaughtUp(row, now), NEW target \in Sites, target # row.site,
         NEW w, Grown(w, mv, now, row.site), NEW q, AtTarget(q, row, target, now),
         NEW y, TakenOut(y, Worn(row)), NEW z, TakenIn(z, Worn(row)),
         NEW p, NEW o, EntryOf(o, a, row.site, "transfer_out", p, y), Apart(J, {o}),
         NEW t, EntryOf(t, a, target, "transfer_in", p, z), Apart(J \cup {o}, {t})
  PROVE  AssetSound(a, q, w, (J \cup {o}) \cup {t}, now)
  <1>1. /\ RowReady(row) /\ mv \in Seq(MoveRow) /\ row.site \in Sites /\ row.sourceThrough \in Nat
        /\ row.inUse >= 1 /\ row.posted < now /\ row.sourceThrough <= now
        /\ AssetBooks(J, a, row) /\ MovesRight(row, mv) /\ ChargesRight(J, a, row, mv, now)
        /\ StillUntouched(J, a, row, mv)
    BY SoundFields
  <1>2. row \in AssetRow /\ Sender(row, now) \in Sites \cup {NoSite}
    BY <1>1 DEF RowReady, AssetRow, Sender
  <1>3. /\ q \in AssetRow /\ q.status = "active" /\ q.site = target /\ q.inUse = row.inUse
        /\ q.posted = row.posted /\ q.touched = TRUE
        /\ q.source = Sender(row, now) /\ q.sourceThrough = now
    BY <1>2 DEF AssetRow, AtTarget
  <1>4. Worn(q) = Worn(row)
    BY <1>3 DEF Worn, AccumulatedBy, Elapsed
  <1>5. /\ EntryFor(o, a) /\ o.site = row.site /\ o.kind = "transfer_out" /\ o.undone = FALSE
        /\ o.lines["cost"] = -Cost /\ o.lines["accumulated"] = Worn(row)
        /\ o.lines["clearing"] = Cost - Worn(row) /\ o.lines["expense"] = 0
    BY TheAccounts DEF EntryOf, EntryFor, TakenOut
  <1>6. /\ EntryFor(t, a) /\ t.site = target /\ t.kind = "transfer_in" /\ t.undone = FALSE
        /\ t.lines["cost"] = Cost /\ t.lines["accumulated"] = -Worn(row)
        /\ t.lines["clearing"] = Worn(row) - Cost /\ t.lines["expense"] = 0
    BY TheAccounts DEF EntryOf, EntryFor, TakenIn
  <1>7. AssetBooks((J \cup {o}) \cup {t}, a, q)
    BY <1>1, <1>2, <1>3, <1>4, <1>5, <1>6, MovedBooks
  <1>8. MovesRight(q, w)
    <2>1. Sent(q, row, now)
      BY <1>3 DEF Sent
    <2> QED BY <1>1, <1>2, <2>1, MoveKnown
  <1>9. w \in Seq(MoveRow)
    BY <1>1, HistoryGrows
  <1>10. PICK K : K = (J \cup {o}) \cup {t}
    OBVIOUS
  <1>11. ChargesRight(K, a, q, w, now)
    <2> SUFFICES ASSUME NEW j \in K, j.asset = a, j.kind = "depreciation"
                 PROVE  j.period < now /\ HeldBy(w, target, j.period, j.site)
      BY <1>3 DEF ChargesRight
    <2>1. j \in J
      BY <1>5, <1>6, <1>10
    <2>2. j.period < now /\ HeldBy(mv, row.site, j.period, j.site)
      BY <1>1, <2>1 DEF ChargesRight
    <2>3. j.period \in Int /\ j.period <= now
      BY <2>1, <2>2, EntryTypes DEF Apart
    <2> QED BY <1>1, <2>2, <2>3, StillHeldBy
  <1>12. StillUntouched(K, a, q, w)
    <2>1. \A j \in J : j.asset = a => ~j.undone
      BY <1>1 DEF StillUntouched
    <2>2. \A j \in K : j.asset = a => ~j.undone
      BY <1>5, <1>6, <1>10, <2>1
    <2> QED BY <1>3, <2>2 DEF StillUntouched
  <1>13. AssetBooks(K, a, q)
    BY <1>7, <1>10
  <1>14. q.status # "none" /\ q.site \in Sites /\ q.inUse >= 1 /\ q.posted < now /\ q.sourceThrough <= now
    BY <1>1, <1>3
  <1>15. AssetSound(a, q, w, K, now)
    BY <1>3, <1>8, <1>9, <1>11, <1>12, <1>13, <1>14, SoundFrom
  <1> QED BY <1>10, <1>15

-----------------------------------------------------------------------------
(* Undoing a purchase: every entry of the asset is written once more with  *)
(* the opposite sign, and no two entries become the same.                  *)

UndoneOf(u, e) ==
  /\ u \in EntryRow /\ u.asset = e.asset /\ u.site = e.site /\ u.kind = e.kind /\ u.period = e.period
  /\ u.undone = TRUE /\ \A x \in Accounts : u.lines[x] = -e.lines[x]
Mirror(K) == {Undone(j) : j \in K}

LEMMA UndoneIs == ASSUME NEW e \in EntryRow PROVE UndoneOf(Undone(e), e)
  <1>1. PICK l : l = [x \in Accounts |-> -e.lines[x]]
    OBVIOUS
  <1>2. l \in [Accounts -> Int]
    <2>1. \A x \in Accounts : e.lines[x] \in Int
      BY DEF EntryRow
    <2>2. \A x \in Accounts : -e.lines[x] \in Int
      BY <2>1
    <2> QED BY <1>1, <2>2
  <1>3. Undone(e) = [e EXCEPT !.undone = TRUE, !.lines = l]
    BY <1>1 DEF Undone, EntryRow
  <1>4. PICK u : u = [e EXCEPT !.undone = TRUE, !.lines = l]
    OBVIOUS
  <1>5. /\ u \in EntryRow /\ u.asset = e.asset /\ u.site = e.site /\ u.kind = e.kind /\ u.period = e.period
        /\ u.undone = TRUE /\ u.lines = l
    BY <1>2, <1>4 DEF EntryRow
  <1> QED BY <1>1, <1>3, <1>4, <1>5 DEF UndoneOf

LEMMA UndoneOnce ==
  ASSUME NEW e \in EntryRow, NEW f \in EntryRow, ~e.undone, ~f.undone, Undone(e) = Undone(f)
  PROVE  e = f
  <1>1. PICK u : u = Undone(e)
    OBVIOUS
  <1>2. UndoneOf(u, e) /\ UndoneOf(u, f)
    BY <1>1, UndoneIs
  <1>3. /\ e.asset = f.asset /\ e.site = f.site /\ e.kind = f.kind /\ e.period = f.period
        /\ \A x \in Accounts : -e.lines[x] = -f.lines[x]
    BY <1>2 DEF UndoneOf
  <1>4. e.lines \in [Accounts -> Int] /\ f.lines \in [Accounts -> Int]
    BY DEF EntryRow
  <1>5. \A x \in Accounts : e.lines[x] \in Int /\ f.lines[x] \in Int
    BY <1>4
  <1>6. \A x \in Accounts : e.lines[x] = f.lines[x]
    BY <1>3, <1>5
  <1>7. e.lines = f.lines
    BY <1>4, <1>6
  <1>8. e.undone = f.undone
    BY DEF EntryRow
  <1> QED BY <1>3, <1>7, <1>8 DEF EntryRow

Mirrored(K, a, S, x) == Entries(Mirror(K)) /\ Brings(Mirror(K), a, S, x) = -Brings(K, a, S, x)

LEMMA MirrorBrings ==
  ASSUME NEW K, Entries(K), \A e \in K : ~e.undone, NEW a, NEW S, NEW x \in Accounts
  PROVE  Mirrored(K, a, S, x)
  <1>0. IsFiniteSet(K) /\ K \subseteq EntryRow
    BY DEF Entries
  <1>1. PICK C : C = {T \in SUBSET K : ~Mirrored(T, a, S, x)}
    OBVIOUS
  <1>2. SUFFICES ASSUME C # {} PROVE FALSE
    BY <1>1
  <1>3. PICK T \in C : \A U \in C : ~(U \subseteq T /\ U # T)
    <2>1. C \in SUBSET SUBSET K
      BY <1>1
    <2> QED BY <1>0, <1>2, <2>1, SmallestSubset
  <1>4. T \subseteq K /\ ~Mirrored(T, a, S, x)
    BY <1>1, <1>3
  <1>5. CASE T = {}
    <2>1. Mirror(T) = {}
      BY <1>5 DEF Mirror
    <2>2. Entries({})
      BY FS_EmptySet DEF Entries
    <2>3. Brings({}, a, S, x) = 0
      BY <2>2, BooksEmpty
    <2> QED BY <1>4, <1>5, <2>1, <2>2, <2>3 DEF Mirrored
  <1>6. CASE T # {}
    <2>1. PICK e \in T : TRUE
      BY <1>6
    <2>2. PICK U : U = T \ {e}
      OBVIOUS
    <2>3. U \subseteq T /\ U # T /\ T = U \cup {e} /\ U \subseteq K /\ e \in EntryRow /\ ~e.undone
      BY <1>0, <1>4, <2>1, <2>2
    <2>4. U \notin C
      BY <1>3, <2>3
    <2>5. Mirrored(U, a, S, x)
      BY <1>1, <2>3, <2>4
    <2>6. PICK u : u = Undone(e)
      OBVIOUS
    <2>7. UndoneOf(u, e)
      BY <2>3, <2>6, UndoneIs
    <2>8. Mirror(T) = Mirror(U) \cup {u}
      BY <2>3, <2>6 DEF Mirror
    <2>9. u \notin Mirror(U)
      <3> SUFFICES ASSUME NEW f \in U, Undone(f) = u PROVE FALSE
        BY DEF Mirror
      <3>1. f \in EntryRow /\ ~f.undone /\ f # e
        BY <1>0, <2>2, <2>3
      <3> QED BY <2>3, <2>6, <3>1, UndoneOnce
    <2>10. Entries(Mirror(U)) /\ Brings(Mirror(U), a, S, x) = -Brings(U, a, S, x)
      BY <2>5 DEF Mirrored
    <2>11. Entries({u}) /\ u \in EntryRow /\ Entries({e}) /\ Entries(U)
      <3>1. u \in EntryRow
        BY <2>7 DEF UndoneOf
      <3>2. Entries(U)
        BY <1>0, <2>3, FS_Subset DEF Entries
      <3> QED BY <2>3, <3>1, <3>2, OneEntry
    <2>12. Apart(Mirror(U), {u}) /\ Apart(U, {e})
      BY <2>2, <2>9, <2>10, <2>11 DEF Apart
    <2>13. Brings(Mirror(T), a, S, x) = Brings(Mirror(U), a, S, x) + Brings({u}, a, S, x)
      BY <2>8, <2>12, BooksAdd
    <2>14. Brings(T, a, S, x) = Brings(U, a, S, x) + Brings({e}, a, S, x)
      BY <2>3, <2>12, BooksAdd
    <2>15. Brings({u}, a, S, x) = (IF u.asset = a /\ u.site \in S THEN u.lines[x] ELSE 0)
      BY <2>11, OneEntryBrings
    <2>16. Brings({e}, a, S, x) = (IF e.asset = a /\ e.site \in S THEN e.lines[x] ELSE 0)
      BY <2>3, OneEntryBrings
    <2>17. e.lines[x] \in Int
      BY <2>3 DEF EntryRow
    <2>18. Brings({u}, a, S, x) = -Brings({e}, a, S, x) /\ Brings({e}, a, S, x) \in Int
      <3>1. u.asset = e.asset /\ u.site = e.site /\ u.lines[x] = -e.lines[x]
        BY <2>7 DEF UndoneOf
      <3> QED BY <2>15, <2>16, <2>17, <3>1
    <2>19. Brings(U, a, S, x) \in Int
      BY <2>11, BooksAreIntegers
    <2>20. Brings(Mirror(T), a, S, x) = -Brings(T, a, S, x)
      BY <2>10, <2>13, <2>14, <2>18, <2>19
    <2>21. Entries(Mirror(T))
      BY <2>8, <2>12, EntriesTogether
    <2> QED BY <1>4, <2>20, <2>21 DEF Mirrored
  <1> QED BY <1>5, <1>6

LEMMA OwnBrings ==
  ASSUME NEW J, Entries(J), NEW a, NEW S, NEW x \in Accounts
  PROVE  Brings(Own(J, a), a, S, x) = Brings(J, a, S, x)
  <1>1. PICK K, G : K = Own(J, a) /\ G = J \ Own(J, a)
    OBVIOUS
  <1>2. K \subseteq J /\ G \subseteq J /\ K \cap G = {} /\ J = K \cup G /\ \A e \in G : e.asset # a
    BY <1>1 DEF Own
  <1>3. Entries(K) /\ Entries(G)
    BY <1>2, FS_Subset DEF Entries
  <1>4. Apart(K, G)
    BY <1>2, <1>3 DEF Apart
  <1>5. Brings(J, a, S, x) = Brings(K, a, S, x) + Brings(G, a, S, x)
    BY <1>2, <1>4, BooksAdd
  <1>6. Brings(G, a, S, x) = 0 /\ Brings(K, a, S, x) \in Int
    BY <1>2, <1>3, BooksEmpty, BooksAreIntegers
  <1> QED BY <1>1, <1>5, <1>6

LEMMA AssetReversed ==
  ASSUME NEW a, NEW row, row.status = "active", ~row.touched, NEW mv, NEW J, NEW now, AssetSound(a, row, mv, J, now),
         NEW F, F = Mirror(Own(J, a)), Apart(J, F)
  PROVE  AssetSound(a, [row EXCEPT !.status = "reversed"], mv, J \cup F, now)
  <1>1. /\ RowReady(row) /\ mv \in Seq(MoveRow) /\ row.site \in Sites
        /\ row.inUse >= 1 /\ row.posted < now /\ row.sourceThrough <= now
        /\ MovesRight(row, mv) /\ ChargesRight(J, a, row, mv, now) /\ StillUntouched(J, a, row, mv)
    BY SoundFields
  <1>2. PICK q : q = [row EXCEPT !.status = "reversed"]
    OBVIOUS
  <1>3. /\ q \in AssetRow /\ q.status = "reversed" /\ q.site = row.site /\ q.inUse = row.inUse
        /\ q.posted = row.posted
        /\ q.source = row.source /\ q.sourceThrough = row.sourceThrough
    BY <1>1, <1>2 DEF RowReady, AssetRow
  <1>4. PICK K : K = Own(J, a)
    OBVIOUS
  <1>5. Entries(J) /\ Entries(K) /\ \A e \in K : e \in J /\ e \in EntryRow /\ e.asset = a /\ ~e.undone
    <2>1. Entries(J)
      BY DEF Apart
    <2>2. K \subseteq J /\ \A e \in K : e.asset = a
      BY <1>4 DEF Own
    <2>3. \A e \in J : e.asset = a => ~e.undone
      BY <1>1 DEF StillUntouched
    <2> QED BY <2>1, <2>2, <2>3, FS_Subset DEF Entries
  <1>6. ASSUME NEW S, NEW x \in Accounts PROVE Brings(J \cup F, a, S, x) = 0
    <2>1. Mirrored(K, a, S, x)
      BY <1>5, MirrorBrings
    <2>2. Brings(F, a, S, x) = -Brings(K, a, S, x)
      BY <1>4, <2>1 DEF Mirrored
    <2>3. Brings(K, a, S, x) = Brings(J, a, S, x)
      BY <1>4, <1>5, OwnBrings
    <2>4. Brings(J \cup F, a, S, x) = Brings(J, a, S, x) + Brings(F, a, S, x)
      BY BooksAdd
    <2>5. Brings(J, a, S, x) \in Int
      BY <1>5, BooksAreIntegers
    <2> QED BY <2>2, <2>3, <2>4, <2>5
  <1>7. AssetBooks(J \cup F, a, q)
    <2>1. /\ \A s \in Sites : Brings(J \cup F, a, {s}, "cost") = 0 /\ Brings(J \cup F, a, {s}, "accumulated") = 0
          /\ Brings(J \cup F, a, Sites, "clearing") = 0 /\ Brings(J \cup F, a, Sites, "expense") = 0
      BY <1>6, TheAccounts
    <2> QED BY <1>3, <2>1 DEF AssetBooks, Here
  <1>8. MovesRight(q, mv)
    BY <1>1, <1>3 DEF MovesRight
  <1>9. ChargesRight(J \cup F, a, q, mv, now)
    <2> SUFFICES ASSUME NEW j \in J \cup F, j.asset = a, j.kind = "depreciation"
                 PROVE  j.period < now /\ HeldBy(mv, row.site, j.period, j.site)
      BY <1>3 DEF ChargesRight
    <2>1. CASE j \in J
      BY <1>1, <2>1 DEF ChargesRight
    <2>2. CASE j \in F
      <3>1. PICK e \in K : j = Undone(e)
        BY <1>4, <2>2 DEF Mirror
      <3>2. e \in J /\ e.asset = a /\ e.kind = j.kind /\ e.period = j.period /\ e.site = j.site
        BY <1>5, <3>1, UndoneIs DEF UndoneOf
      <3> QED BY <1>1, <3>2 DEF ChargesRight
    <2> QED BY <2>1, <2>2
  <1>10. StillUntouched(J \cup F, a, q, mv)
    BY <1>3 DEF StillUntouched
  <1>11. AssetSound(a, q, mv, J \cup F, now)
    BY <1>1, <1>3, <1>7, <1>8, <1>9, <1>10, SoundFrom
  <1> QED BY <1>2, <1>11

-----------------------------------------------------------------------------
(* From the asset an operation is about to all of them. *)

LEMMA FreshApart ==
  ASSUME Entries(journal), NEW E, Entries(E), Fresh(E)
  PROVE  Apart(journal, E)
  <1>1. \A e \in E, j \in journal : e # j
    BY DEF Fresh
  <1> QED BY <1>1 DEF Apart

RestSound == /\ assetCash' \in [Sites -> Nat] /\ today' = today
             /\ posting' \in [through : Nat, list : SUBSET Assets] /\ posting'.through < today
BooksStep(E) ==
  /\ Entries(E) /\ Write(E) /\ RestSound
  /\ asset' = [a \in Assets |-> asset'[a]] /\ moves' = [a \in Assets |-> moves'[a]]
  /\ \A a \in Assets : AssetSound(a, asset'[a], moves'[a], journal \cup Own(E, a), today)

LEMMA StepSound ==
  ASSUME AssetsInv, NEW E, BooksStep(E)
  PROVE  AssetsInv'
  <1>1. /\ today \in AssetMonths /\ today \in Int /\ Entries(journal)
    BY AssetsAssumption DEF AssetsInv, AssetMonths
  <1>2. /\ Entries(E) /\ Fresh(E) /\ journal' = journal \cup E /\ today' = today
        /\ assetCash' \in [Sites -> Nat]
        /\ posting' \in [through : Nat, list : SUBSET Assets] /\ posting'.through < today
        /\ asset' = [a \in Assets |-> asset'[a]] /\ moves' = [a \in Assets |-> moves'[a]]
        /\ \A a \in Assets : AssetSound(a, asset'[a], moves'[a], journal \cup Own(E, a), today)
    BY DEF BooksStep, RestSound, Write
  <1>3. Apart(journal, E)
    BY <1>1, <1>2, FreshApart
  <1>4. Entries(journal')
    BY <1>2, <1>3, EntriesTogether
  <1>5. ASSUME NEW a \in Assets PROVE AssetSound(a, asset'[a], moves'[a], journal', today')
    <2>1. AssetSound(a, asset'[a], moves'[a], journal \cup Own(E, a), today)
      BY <1>2
    <2>2. AssetSound(a, asset'[a], moves'[a], journal \cup E, today)
      BY <1>1, <1>3, <2>1, OwnCounts
    <2> QED BY <1>2, <2>2
  <1>6. \A a \in Assets : asset'[a] \in AssetRow /\ moves'[a] \in Seq(MoveRow)
    BY <1>5 DEF AssetSound
  <1>7. asset' \in [Assets -> AssetRow] /\ moves' \in [Assets -> Seq(MoveRow)]
    BY <1>2, <1>6
  <1> QED BY <1>1, <1>2, <1>4, <1>5, <1>7 DEF AssetsInv

\* An operation on one asset.
Touches(a, E) ==
  /\ Entries(E) /\ (\A e \in E : e.asset = a) /\ Write(E) /\ RestSound
  /\ asset' = [asset EXCEPT ![a] = asset'[a]] /\ moves' = [moves EXCEPT ![a] = moves'[a]]
  /\ AssetSound(a, asset'[a], moves'[a], journal \cup E, today)

LEMMA OneAsset ==
  ASSUME AssetsInv, NEW a \in Assets, NEW E, Touches(a, E)
  PROVE  AssetsInv'
  <1>1. /\ asset \in [Assets -> AssetRow] /\ moves \in [Assets -> Seq(MoveRow)]
        /\ \A b \in Assets : AssetSound(b, asset[b], moves[b], journal, today)
    BY DEF AssetsInv
  <1>2. /\ Entries(E) /\ (\A e \in E : e.asset = a) /\ Write(E) /\ RestSound
        /\ asset' = [asset EXCEPT ![a] = asset'[a]] /\ moves' = [moves EXCEPT ![a] = moves'[a]]
        /\ AssetSound(a, asset'[a], moves'[a], journal \cup E, today)
    BY DEF Touches
  <1>3. asset' = [b \in Assets |-> asset'[b]] /\ moves' = [b \in Assets |-> moves'[b]]
    BY <1>1, <1>2
  <1>4. ASSUME NEW b \in Assets PROVE AssetSound(b, asset'[b], moves'[b], journal \cup Own(E, b), today)
    <2>1. CASE b = a
      <3>1. Own(E, b) = E
        BY <1>2, <2>1 DEF Own
      <3> QED BY <1>2, <2>1, <3>1
    <2>2. CASE b # a
      <3>1. Own(E, b) = {} /\ journal \cup {} = journal
        BY <1>2, <2>2 DEF Own
      <3>2. asset'[b] = asset[b] /\ moves'[b] = moves[b]
        BY <1>1, <1>2, <2>2
      <3> QED BY <1>1, <3>1, <3>2
    <2> QED BY <2>1, <2>2
  <1>5. BooksStep(E)
    BY <1>2, <1>3, <1>4 DEF BooksStep
  <1> QED BY <1>5, StepSound

\* The facts every operation starts from.
LEMMA AssetsKnown ==
  ASSUME AssetsInv
  PROVE  /\ today \in Nat /\ today >= 1 /\ Completed \in Nat /\ Completed = today - 1 /\ Completed < today
         /\ Entries(journal) /\ assetCash \in [Sites -> Nat]
         /\ asset \in [Assets -> AssetRow] /\ moves \in [Assets -> Seq(MoveRow)]
         /\ posting \in [through : Nat, list : SUBSET Assets] /\ posting.through < today
         /\ \A a \in Assets : AssetSound(a, asset[a], moves[a], journal, today)
  BY AssetsAssumption DEF AssetsInv, AssetMonths, Completed

LEMMA RestStays ==
  ASSUME AssetsInv, UNCHANGED <<today, posting>>, assetCash' \in [Sites -> Nat]
  PROVE  RestSound
  BY AssetsKnown DEF RestSound

\* What posting writes is written apart, all of it about the asset.
LEMMA PostingWrites ==
  ASSUME NEW a \in Assets, NEW row, RowReady(row), NEW through \in Nat
  PROVE  /\ Entries(Postings(a, row, through))
         /\ \A e \in Postings(a, row, through) :
              e.asset = a /\ e.kind \in {"depreciation", "transferred_depreciation"}
  <1>1. Advances(a, row, Posted(row, through), through)
    BY PostingIs
  <1>2. Entries(Postings(a, row, through))
    BY <1>1 DEF Advances, Charges
  <1>3. \A e \in Postings(a, row, through) : ChargeOf(e, a, row, e.period)
    BY PostingShape
  <1> QED BY <1>2, <1>3 DEF ChargeOf

LEMMA PostOneSafe == ASSUME AssetsInv, NEW a \in Assets, PostOne(a) PROVE AssetsInv'
  <1>0. PICK through : through = posting.through
    OBVIOUS
  <1>1. /\ today \in Nat /\ through \in Nat /\ through < today /\ asset \in [Assets -> AssetRow]
        /\ moves \in [Assets -> Seq(MoveRow)] /\ Entries(journal)
        /\ AssetSound(a, asset[a], moves[a], journal, today)
    BY <1>0, AssetsKnown
  <1>2. RestSound
    <2>1. RestOfRound(a) \in [through : Nat, list : SUBSET Assets] /\ RestOfRound(a).through < today
      <3>1. NotPosting \in [through : Nat, list : SUBSET Assets] /\ NotPosting.through = 0
        BY DEF NotPosting
      <3>2. [posting EXCEPT !.list = @ \ {a}] \in [through : Nat, list : SUBSET Assets]
        BY AssetsKnown
      <3>3. [posting EXCEPT !.list = @ \ {a}].through = posting.through /\ posting.through < today /\ 0 < today
        BY AssetsKnown
      <3> QED BY <3>1, <3>2, <3>3 DEF RestOfRound
    <2>2. posting' = RestOfRound(a) /\ today' = today /\ assetCash' = assetCash
      BY DEF PostOne
    <2> QED BY <2>1, <2>2, AssetsKnown DEF RestSound
  <1>3. CASE asset[a].status = "active"
    <2>1. PICK E : E = Postings(a, asset[a], through)
      OBVIOUS
    <2>2. /\ asset' = [asset EXCEPT ![a] = Posted(@, through)] /\ Write(E) /\ moves' = moves
      BY <1>0, <1>3, <2>1 DEF PostOne, StillPosted
    <2>3. RowReady(asset[a])
      BY <1>1, <1>3, SoundFields
    <2>4. Entries(E) /\ \A e \in E : e.asset = a
      BY <1>1, <2>1, <2>3, PostingWrites
    <2>5. Apart(journal, E)
      BY <1>1, <2>2, <2>4, FreshApart DEF Write
    <2>6. AssetSound(a, Posted(asset[a], through), moves[a], journal \cup E, today)
      BY <1>1, <1>3, <2>1, <2>5, AssetPosted
    <2>7. asset'[a] = Posted(asset[a], through) /\ moves'[a] = moves[a]
      BY <1>1, <2>2
    <2>8. asset' = [asset EXCEPT ![a] = asset'[a]] /\ moves' = [moves EXCEPT ![a] = moves'[a]]
      BY <1>1, <2>2, <2>7
    <2>9. Touches(a, E)
      BY <1>2, <2>2, <2>4, <2>6, <2>7, <2>8 DEF Touches
    <2> QED BY <2>9, OneAsset
  <1>4. CASE asset[a].status # "active"
    <2>1. UNCHANGED <<today, asset, moves, journal>>
      BY <1>4 DEF PostOne, StillPosted
    <2>2. /\ assetCash' \in [Sites -> Nat] /\ posting' \in [through : Nat, list : SUBSET Assets]
          /\ posting'.through < today
      BY <1>2 DEF RestSound
    <2> QED BY <2>1, <2>2 DEF AssetsInv
  <1> QED BY <1>3, <1>4

LEMMA RoundSafe ==
  ASSUME AssetsInv, \/ StartPosting \/ \E a \in Assets : PostingFails(a)
  PROVE  AssetsInv'
  <1>1. UNCHANGED <<today, asset, moves, journal, assetCash>>
    BY DEF StartPosting, PostingFails
  <1>2. posting' \in [through : Nat, list : SUBSET Assets] /\ posting'.through < today
    <2>1. CASE StartPosting
      <3>1. PICK due : due = {a \in Assets : asset[a].status = "active" /\ asset[a].posted < Completed}
        OBVIOUS
      <3>2. posting' = [through |-> Completed, list |-> due]
        BY <2>1, <3>1 DEF StartPosting
      <3> QED BY <3>1, <3>2, AssetsKnown
    <2>2. ASSUME NEW a \in Assets, PostingFails(a)
          PROVE  posting' \in [through : Nat, list : SUBSET Assets] /\ posting'.through < today
      <3>1. NotPosting \in [through : Nat, list : SUBSET Assets] /\ NotPosting.through = 0
        BY DEF NotPosting
      <3>2. [posting EXCEPT !.list = @ \ {a}] \in [through : Nat, list : SUBSET Assets]
        BY AssetsKnown
      <3>3. [posting EXCEPT !.list = @ \ {a}].through = posting.through /\ posting.through < today /\ 0 < today
        BY AssetsKnown
      <3>4. posting' = RestOfRound(a)
        BY <2>2 DEF PostingFails
      <3> QED BY <3>1, <3>2, <3>3, <3>4 DEF RestOfRound
    <2> QED BY <2>1, <2>2
  <1> QED BY <1>1, <1>2 DEF AssetsInv

LEMMA MonthEndsSafe == ASSUME AssetsInv, MonthEnds PROVE AssetsInv'
  <1>1. /\ today' = today + 1 /\ today' \in AssetMonths /\ UNCHANGED <<asset, moves, journal, assetCash, posting>>
    BY AssetsKnown, AssetsAssumption DEF MonthEnds, AssetMonths
  <1>2. /\ today \in Int /\ today + 1 \in Int /\ today <= today + 1 /\ posting.through < today + 1
    BY AssetsKnown
  <1>3. Apart(journal, {}) /\ journal \cup {} = journal
    BY AssetsKnown, FS_EmptySet DEF Apart, Entries
  <1>4. ASSUME NEW a \in Assets PROVE AssetSound(a, asset[a], moves[a], journal, today + 1)
    <2>1. AssetSound(a, asset[a], moves[a], journal, today)
      BY AssetsKnown
    <2>2. Elsewhere({}, a)
      BY DEF Elsewhere
    <2>3. AssetSound(a, asset[a], moves[a], journal \cup {}, today + 1)
      BY <1>2, <1>3, <2>1, <2>2, AssetStays
    <2> QED BY <1>3, <2>3
  <1>5. \A a \in Assets : AssetSound(a, asset'[a], moves'[a], journal', today')
    BY <1>1, <1>4
  <1> QED BY <1>1, <1>2, <1>5 DEF AssetsInv

LEMMA ReassignSafe == ASSUME AssetsInv, NEW a \in Assets, NEW s \in Sites, Reassign(a, s) PROVE AssetsInv'
  <1>1. /\ today \in Nat /\ Completed \in Nat /\ Completed < today /\ asset \in [Assets -> AssetRow]
        /\ moves \in [Assets -> Seq(MoveRow)] /\ Entries(journal)
        /\ AssetSound(a, asset[a], moves[a], journal, today)
    BY AssetsKnown
  <1>2. PICK E, q : E = Postings(a, asset[a], Completed) /\ q = Posted(asset[a], Completed)
    OBVIOUS
  <1>3. /\ asset[a].status = "active" /\ asset' = [asset EXCEPT ![a] = [q EXCEPT !.touched = TRUE]]
        /\ Write(E) /\ moves' = moves
    BY <1>2 DEF Reassign, InRegister
  <1>4. RowReady(asset[a])
    BY <1>1, <1>3, SoundFields
  <1>5. Entries(E) /\ \A e \in E : e.asset = a
    BY <1>1, <1>2, <1>4, PostingWrites
  <1>6. Apart(journal, E)
    BY <1>1, <1>3, <1>5, FreshApart DEF Write
  <1>7. AssetSound(a, q, moves[a], journal \cup E, today) /\ q.status = "active"
    <2>1. AssetSound(a, q, moves[a], journal \cup E, today)
      BY <1>1, <1>2, <1>3, <1>6, AssetPosted
    <2>2. Advances(a, asset[a], q, Completed)
      BY <1>1, <1>2, <1>4, PostingIs
    <2> QED BY <1>3, <2>1, <2>2 DEF Advances
  <1>8. AssetSound(a, [q EXCEPT !.touched = TRUE], moves[a], journal \cup E, today)
    BY <1>7, AssetTouched
  <1>9. asset'[a] = [q EXCEPT !.touched = TRUE] /\ moves'[a] = moves[a]
    BY <1>1, <1>3
  <1>10. asset' = [asset EXCEPT ![a] = asset'[a]] /\ moves' = [moves EXCEPT ![a] = moves'[a]]
    BY <1>1, <1>3, <1>9
  <1>11. RestSound
    BY AssetsKnown, RestStays DEF Reassign
  <1>12. Touches(a, E)
    BY <1>3, <1>5, <1>8, <1>9, <1>10, <1>11 DEF Touches
  <1> QED BY <1>12, OneAsset

LEMMA ServiceSafe ==
  ASSUME AssetsInv, NEW a \in Assets, NEW s \in Sites, NEW price \in {0, ServiceCost}, Service(a, s, price)
  PROVE  AssetsInv'
  <1>1. /\ today \in Nat /\ asset \in [Assets -> AssetRow]
        /\ moves \in [Assets -> Seq(MoveRow)] /\ Entries(journal) /\ assetCash \in [Sites -> Nat]
        /\ AssetSound(a, asset[a], moves[a], journal, today)
    BY AssetsKnown
  <1>2. PICK turn : turn = Cardinality({j \in journal : j.asset = a /\ j.kind = "maintenance"}) + 1
    OBVIOUS
  <1>3. PICK e, z : /\ z = [upkeep |-> price, cash |-> -price] /\ e = Entry(a, s, "maintenance", turn, z)
    OBVIOUS
  <1>4. /\ asset[a].status = "active" /\ asset[a].site = s /\ asset' = [asset EXCEPT ![a].touched = TRUE]
        /\ Write(IF price = 0 THEN {} ELSE {e}) /\ moves' = moves
        /\ assetCash[s] >= price /\ assetCash' = [assetCash EXCEPT ![s] = @ - price]
    BY <1>2, <1>3 DEF Service, InRegister
  <1>5. turn \in Int
    <2>1. IsFiniteSet({j \in journal : j.asset = a /\ j.kind = "maintenance"})
      BY <1>1, FS_Subset DEF Entries
    <2> QED BY <1>2, <2>1, FS_CardinalityType
  <1>6. PICK q : q = [asset[a] EXCEPT !.touched = TRUE]
    OBVIOUS
  <1>7. AssetSound(a, q, moves[a], journal, today) /\ q.status = "active" /\ q.touched /\ q.site = s
    <2>1. AssetSound(a, q, moves[a], journal, today)
      BY <1>1, <1>4, <1>6, AssetTouched
    <2>2. asset[a] \in AssetRow
      BY <1>1
    <2> QED BY <1>4, <1>6, <2>1, <2>2 DEF AssetRow
  <1>8. asset'[a] = q /\ moves'[a] = moves[a]
    BY <1>1, <1>4, <1>6
  <1>9. asset' = [asset EXCEPT ![a] = asset'[a]] /\ moves' = [moves EXCEPT ![a] = moves'[a]]
    BY <1>1, <1>4, <1>6, <1>8
  <1>10. RestSound
    <2>1. price \in Nat
      BY AssetsAssumption
    <2>2. assetCash[s] - price \in Nat
      BY <1>1, <1>4, <2>1
    <2>3. assetCash' \in [Sites -> Nat]
      BY <1>1, <1>4, <2>2
    <2> QED BY <2>3, RestStays DEF Service
  <1>11. CASE price = 0
    <2>1. Write({}) /\ Entries({}) /\ journal \cup {} = journal
      BY <1>4, <1>11, FS_EmptySet DEF Entries
    <2>2. Touches(a, {})
      BY <1>7, <1>8, <1>9, <1>10, <2>1 DEF Touches
    <2> QED BY <2>2, OneAsset
  <1>12. CASE price # 0
    <2>1. Write({e})
      BY <1>4, <1>12
    <2>2. price \in Int /\ "maintenance" \in BookKinds
      BY AssetsAssumption DEF BookKinds
    <2>3. DOMAIN z = {"upkeep", "cash"} /\ z["upkeep"] = price /\ z["cash"] = -price
      BY <1>3
    <2>4. IntegerLines(z)
      BY <2>2, <2>3 DEF IntegerLines
    <2>5. EntryOf(e, a, s, "maintenance", turn, z)
      BY <1>3, <1>5, <2>2, <2>4, EntryIs
    <2>6. Entries({e}) /\ e.asset = a
      BY <2>5, OneEntry DEF EntryOf
    <2>7. Apart(journal, {e})
      BY <1>1, <2>1, <2>6, FreshApart DEF Write
    <2>8. AssetSound(a, q, moves[a], journal \cup {e}, today)
      BY <1>7, <2>3, <2>5, <2>7, AssetServiced
    <2>9. Touches(a, {e})
      BY <1>8, <1>9, <1>10, <2>1, <2>6, <2>8 DEF Touches
    <2> QED BY <2>9, OneAsset
  <1> QED BY <1>11, <1>12

\* A transfer or a disposal first posts what is over.
Ready(a, q) == /\ q.status = "active" /\ CaughtUp(q, today) /\ RowReady(q) /\ Worn(q) \in Int
               /\ AccumulatedBy(q, Completed) = Worn(q)

LEMMA PostedReady ==
  ASSUME AssetsInv, NEW a \in Assets, asset[a].status = "active", NEW E, E = Postings(a, asset[a], Completed),
         Apart(journal, E), NEW q, q = Posted(asset[a], Completed)
  PROVE  /\ AssetSound(a, q, moves[a], journal \cup E, today) /\ Ready(a, q)
         /\ q.site = asset[a].site /\ q.inUse = asset[a].inUse
  <1>1. /\ today \in Nat /\ today >= 1 /\ Completed \in Nat /\ Completed = today - 1 /\ Completed < today
        /\ asset[a] \in AssetRow /\ AssetSound(a, asset[a], moves[a], journal, today)
    BY AssetsKnown
  <1>2. RowReady(asset[a])
    BY <1>1, SoundFields
  <1>3. AssetSound(a, q, moves[a], journal \cup E, today)
    BY <1>1, AssetPosted
  <1>4. /\ RowReady(q) /\ q.status = "active" /\ q.site = asset[a].site /\ q.inUse = asset[a].inUse
    <2>1. Advances(a, asset[a], q, Completed)
      BY <1>1, <1>2, PostingIs
    <2> QED BY <2>1 DEF Advances
  <1>5. q \in AssetRow /\ q.posted < today
    <2>1. q.posted < today
      BY <1>3, <1>4, SoundFields
    <2> QED BY <1>4, <2>1 DEF RowReady
  <1>6. CaughtUp(q, today)
    BY <1>1, CatchesUp
  <1>7. AccumulatedBy(q, Completed) = Worn(q)
    BY <1>1, <1>5, <1>6, CaughtUpWear
  <1>8. Worn(q) \in Int
    <2>1. q.inUse \in Nat /\ q.posted \in Int
      BY <1>5 DEF AssetRow
    <2> QED BY <2>1, WearIs DEF Worn
  <1> QED BY <1>3, <1>4, <1>6, <1>7, <1>8 DEF Ready

LEMMA OneMoreApart ==
  ASSUME NEW J, NEW P, Entries(P), NEW o \in EntryRow, o \notin P, Apart(J, P \cup {o})
  PROVE  Apart(J, P) /\ Apart(J \cup P, {o}) /\ Entries(J \cup P)
  <1>1. Entries(J) /\ J \cap (P \cup {o}) = {}
    BY DEF Apart
  <1>2. Apart(J, P)
    BY <1>1 DEF Apart
  <1>3. Entries(J \cup P)
    BY <1>2, EntriesTogether
  <1>4. Entries({o})
    BY OneEntry
  <1>5. (J \cup P) \cap {o} = {}
    BY <1>1
  <1> QED BY <1>2, <1>3, <1>4, <1>5 DEF Apart

LEMMA TransferSafe ==
  ASSUME AssetsInv, NEW a \in Assets, NEW s \in Sites, NEW target \in Sites, Transfer(a, s, target)
  PROVE  AssetsInv'
  <1>1. /\ today \in Nat /\ today >= 1 /\ Completed \in Nat /\ Completed < today /\ asset \in [Assets -> AssetRow]
        /\ moves \in [Assets -> Seq(MoveRow)] /\ Entries(journal)
        /\ AssetSound(a, asset[a], moves[a], journal, today)
    BY AssetsKnown
  <1>2. PICK P, q : P = Postings(a, asset[a], Completed) /\ q = Posted(asset[a], Completed)
    OBVIOUS
  <1>3. PICK value, turn : value = AccumulatedBy(q, Completed) /\ turn = Len(moves[a]) + 1
    OBVIOUS
  <1>4. PICK y, z : /\ y = [accumulated |-> value, clearing |-> Cost - value, cost |-> -Cost]
                    /\ z = [cost |-> Cost, accumulated |-> -value, clearing |-> value - Cost]
    OBVIOUS
  <1>5. PICK o, t : o = Entry(a, s, "transfer_out", turn, y) /\ t = Entry(a, target, "transfer_in", turn, z)
    OBVIOUS
  <1>6. PICK w, m : /\ w = Append(moves[a], [month |-> today, from |-> s])
                    /\ m = [q EXCEPT !.site = target, !.source = Bearer(q), !.sourceThrough = today, !.touched = TRUE]
    OBVIOUS
  <1>7. /\ asset[a].status = "active" /\ asset[a].site = s /\ target # s
        /\ asset' = [asset EXCEPT ![a] = m] /\ moves' = [moves EXCEPT ![a] = w]
        /\ Write(P \cup {o, t})
    BY <1>2, <1>3, <1>4, <1>5, <1>6 DEF Transfer, InRegister
  <1>8. Entries(P) /\ \A e \in P : e.asset = a /\ e.kind \in {"depreciation", "transferred_depreciation"}
    <2>1. RowReady(asset[a])
      BY <1>1, <1>7, SoundFields
    <2> QED BY <1>1, <1>2, <2>1, PostingWrites
  <1>9. value \in Int /\ Cost \in Int /\ turn \in Int
    <2>1. q \in AssetRow
      <3>1. asset[a] \in AssetRow /\ RowReady(asset[a])
        BY <1>1, <1>7, SoundFields
      <3>2. Advances(a, asset[a], q, Completed)
        BY <1>1, <1>2, <3>1, PostingIs
      <3> QED BY <3>2 DEF Advances, RowReady
    <2>2. q.inUse \in Nat /\ Completed \in Int
      BY <1>1, <2>1 DEF AssetRow
    <2>3. Len(moves[a]) \in Nat
      BY <1>1, MoveTypes
    <2> QED BY <1>3, <2>2, <2>3, WearIs, AssetsAssumption
  <1>10. /\ DOMAIN y = {"accumulated", "clearing", "cost"}
         /\ y["accumulated"] = value /\ y["clearing"] = Cost - value /\ y["cost"] = -Cost
         /\ DOMAIN z = {"accumulated", "clearing", "cost"}
         /\ z["accumulated"] = -value /\ z["clearing"] = value - Cost /\ z["cost"] = Cost
    BY <1>4
  <1>11. IntegerLines(y) /\ IntegerLines(z)
    BY <1>9, <1>10 DEF IntegerLines
  <1>12. EntryOf(o, a, s, "transfer_out", turn, y) /\ EntryOf(t, a, target, "transfer_in", turn, z)
    <2>1. "transfer_out" \in BookKinds /\ "transfer_in" \in BookKinds
      BY DEF BookKinds
    <2> QED BY <1>5, <1>9, <1>11, <2>1, EntryIs
  <1>13. /\ o \in EntryRow /\ o.asset = a /\ o.kind = "transfer_out"
         /\ t \in EntryRow /\ t.asset = a /\ t.kind = "transfer_in"
    BY <1>12 DEF EntryOf
  <1>14. /\ o \notin P /\ t \notin P \cup {o} /\ Entries(P \cup {o}) /\ Entries((P \cup {o}) \cup {t})
    <2>1. o \notin P /\ t \notin P \cup {o}
      BY <1>8, <1>13
    <2>2. Entries({o}) /\ Entries({t})
      BY <1>13, OneEntry
    <2>3. Apart(P, {o})
      BY <1>8, <2>1, <2>2 DEF Apart
    <2>4. Entries(P \cup {o})
      BY <2>3, EntriesTogether
    <2>5. Apart(P \cup {o}, {t})
      BY <2>1, <2>2, <2>4 DEF Apart
    <2> QED BY <2>1, <2>4, <2>5, EntriesTogether
  <1>15. PICK E : E = (P \cup {o}) \cup {t}
    OBVIOUS
  <1>16. Write(E) /\ Entries(E) /\ \A e \in E : e.asset = a
    <2>1. P \cup {o, t} = E
      BY <1>15
    <2> QED BY <1>7, <1>8, <1>13, <1>14, <1>15, <2>1
  <1>17. Apart(journal, E)
    BY <1>1, <1>16, FreshApart DEF Write
  <1>18. Apart(journal, P \cup {o}) /\ Apart(journal \cup (P \cup {o}), {t})
    BY <1>13, <1>14, <1>15, <1>17, OneMoreApart
  <1>19. Apart(journal, P) /\ Apart(journal \cup P, {o})
    BY <1>8, <1>13, <1>14, <1>18, OneMoreApart
  <1>20. PICK J : J = journal \cup P
    OBVIOUS
  <1>21. Apart(J, {o}) /\ Apart(J \cup {o}, {t}) /\ (J \cup {o}) \cup {t} = journal \cup E
    <2>1. J \cup {o} = journal \cup (P \cup {o})
      BY <1>20
    <2> QED BY <1>15, <1>18, <1>19, <1>20, <2>1
  <1>22. AssetSound(a, q, moves[a], J, today) /\ Ready(a, q) /\ q.site = s
    <2>1. AssetSound(a, q, moves[a], journal \cup P, today)
      BY <1>2, <1>7, <1>19, PostedReady
    <2>2. Ready(a, q) /\ q.site = asset[a].site
      BY <1>2, <1>7, <1>19, PostedReady
    <2> QED BY <1>7, <1>20, <2>1, <2>2
  <1>23. q.status = "active" /\ CaughtUp(q, today) /\ value = Worn(q)
    BY <1>3, <1>22 DEF Ready
  <1>24. Bearer(q) = Sender(q, today)
    BY DEF Bearer, Sender
  <1>25. Grown(w, moves[a], today, q.site)
    BY <1>6, <1>22 DEF Grown
  <1>26. AssetSound(a, m, w, journal \cup E, today)
    <2>1. AtTarget(m, q, target, today)
      BY <1>6, <1>24 DEF AtTarget
    <2>2. TakenOut(y, Worn(q)) /\ TakenIn(z, Worn(q))
      BY <1>10, <1>23 DEF TakenOut, TakenIn
    <2>3. EntryOf(o, a, q.site, "transfer_out", turn, y) /\ EntryOf(t, a, target, "transfer_in", turn, z)
      BY <1>12, <1>22
    <2>4. target # q.site
      BY <1>7, <1>22
    <2>5. AssetSound(a, m, w, (J \cup {o}) \cup {t}, today)
      BY <1>1, <1>21, <1>22, <1>23, <1>25, <2>1, <2>2, <2>3, <2>4, AssetMoved
    <2> QED BY <1>21, <2>5
  <1>27. asset'[a] = m /\ moves'[a] = w
    BY <1>1, <1>7
  <1>28. asset' = [asset EXCEPT ![a] = asset'[a]] /\ moves' = [moves EXCEPT ![a] = moves'[a]]
    BY <1>1, <1>7, <1>27
  <1>29. RestSound
    BY AssetsKnown, RestStays DEF Transfer
  <1>30. Touches(a, E)
    BY <1>16, <1>26, <1>27, <1>28, <1>29 DEF Touches
  <1> QED BY <1>30, OneAsset

LEMMA DisposeSafe ==
  ASSUME AssetsInv, NEW a \in Assets, NEW s \in Sites, NEW price \in {0, Proceeds}, Dispose(a, s, price)
  PROVE  AssetsInv'
  <1>1. /\ today \in Nat /\ today >= 1 /\ Completed \in Nat /\ Completed < today /\ asset \in [Assets -> AssetRow]
        /\ moves \in [Assets -> Seq(MoveRow)] /\ Entries(journal) /\ assetCash \in [Sites -> Nat]
        /\ AssetSound(a, asset[a], moves[a], journal, today) /\ price \in Nat /\ Cost \in Nat
    BY AssetsKnown, AssetsAssumption
  <1>2. PICK P, q : P = Postings(a, asset[a], Completed) /\ q = Posted(asset[a], Completed)
    OBVIOUS
  <1>3. PICK value : value = BookValue(asset[a], Completed)
    OBVIOUS
  <1>4. PICK z : z = [accumulated |-> Cost - value, cost |-> -Cost, cash |-> price, result |-> value - price]
    OBVIOUS
  <1>5. PICK e : e = Entry(a, s, "disposal", today, z)
    OBVIOUS
  <1>6. PICK m : m = [q EXCEPT !.status = "disposed", !.touched = TRUE]
    OBVIOUS
  <1>7. /\ asset[a].status = "active" /\ asset[a].site = s
        /\ asset' = [asset EXCEPT ![a] = m] /\ moves' = moves
        /\ Write(P \cup {e}) /\ assetCash' = [assetCash EXCEPT ![s] = @ + price]
    BY <1>2, <1>3, <1>4, <1>5, <1>6 DEF Dispose, InRegister
  <1>8. Entries(P) /\ \A c \in P : c.asset = a /\ c.kind \in {"depreciation", "transferred_depreciation"}
    <2>1. RowReady(asset[a])
      BY <1>1, <1>7, SoundFields
    <2> QED BY <1>1, <1>2, <2>1, PostingWrites
  <1>9. value \in Int
    <2>1. asset[a].inUse \in Nat /\ Completed \in Int
      BY <1>1 DEF AssetRow
    <2>2. AccumulatedBy(asset[a], Completed) \in Int
      BY <2>1, WearIs
    <2> QED BY <1>1, <1>3, <2>2 DEF BookValue
  <1>10. /\ DOMAIN z = {"accumulated", "cost", "cash", "result"}
         /\ z["accumulated"] = Cost - value /\ z["cost"] = -Cost /\ z["cash"] = price /\ z["result"] = value - price
    BY <1>4
  <1>11. IntegerLines(z)
    BY <1>1, <1>9, <1>10 DEF IntegerLines
  <1>12. EntryOf(e, a, s, "disposal", today, z)
    <2>1. "disposal" \in BookKinds /\ today \in Int
      BY <1>1 DEF BookKinds
    <2> QED BY <1>5, <1>11, <2>1, EntryIs
  <1>13. e \in EntryRow /\ e.asset = a /\ e.kind = "disposal"
    BY <1>12 DEF EntryOf
  <1>14. e \notin P /\ Entries(P \cup {e})
    <2>1. e \notin P
      BY <1>8, <1>13
    <2>2. Apart(P, {e})
      BY <1>8, <1>13, <2>1, OneEntry DEF Apart
    <2> QED BY <2>1, <2>2, EntriesTogether
  <1>15. Apart(journal, P \cup {e})
    BY <1>1, <1>7, <1>14, FreshApart DEF Write
  <1>16. Apart(journal, P) /\ Apart(journal \cup P, {e})
    BY <1>8, <1>13, <1>14, <1>15, OneMoreApart
  <1>17. PICK J : J = journal \cup P
    OBVIOUS
  <1>18. AssetSound(a, q, moves[a], J, today) /\ Ready(a, q) /\ q.site = s /\ q.inUse = asset[a].inUse
    <2>1. AssetSound(a, q, moves[a], journal \cup P, today)
      BY <1>2, <1>7, <1>16, PostedReady
    <2>2. Ready(a, q) /\ q.site = asset[a].site /\ q.inUse = asset[a].inUse
      BY <1>2, <1>7, <1>16, PostedReady
    <2> QED BY <1>7, <1>17, <2>1, <2>2
  <1>19. Cost - value = Worn(q) /\ q.status = "active"
    <2>1. AccumulatedBy(asset[a], Completed) = AccumulatedBy(q, Completed)
      BY <1>18 DEF AccumulatedBy, Elapsed
    <2>2. AccumulatedBy(q, Completed) = Worn(q) /\ Worn(q) \in Int /\ q.status = "active"
      BY <1>18 DEF Ready
    <2> QED BY <1>1, <1>3, <2>1, <2>2 DEF BookValue
  <1>20. AssetSound(a, m, moves[a], J \cup {e}, today)
    <2>1. EntryOf(e, a, q.site, "disposal", today, z)
      BY <1>12, <1>18
    <2>2. DOMAIN z = {"accumulated", "cost", "cash", "result"} /\ z["cost"] = -Cost /\ z["accumulated"] = Worn(q)
      BY <1>10, <1>19
    <2>3. Apart(J, {e})
      BY <1>16, <1>17
    <2> QED BY <1>1, <1>6, <1>18, <1>19, <2>1, <2>2, <2>3, AssetDisposed
  <1>21. AssetSound(a, m, moves[a], journal \cup (P \cup {e}), today)
    <2>1. J \cup {e} = journal \cup (P \cup {e})
      BY <1>17
    <2> QED BY <1>20, <2>1
  <1>22. asset'[a] = m /\ moves'[a] = moves[a]
    BY <1>1, <1>7
  <1>23. asset' = [asset EXCEPT ![a] = asset'[a]] /\ moves' = [moves EXCEPT ![a] = moves'[a]]
    BY <1>1, <1>7, <1>22
  <1>24. RestSound
    <2>1. assetCash[s] + price \in Nat
      BY <1>1
    <2>2. assetCash' \in [Sites -> Nat]
      BY <1>1, <1>7, <2>1
    <2> QED BY <2>2, RestStays DEF Dispose
  <1>25. \A c \in P \cup {e} : c.asset = a
    BY <1>8, <1>13
  <1>26. Touches(a, P \cup {e})
    BY <1>7, <1>14, <1>21, <1>22, <1>23, <1>24, <1>25 DEF Touches
  <1> QED BY <1>26, OneAsset

-----------------------------------------------------------------------------
(* Operations on several assets: each has its part of what is written. *)

Family(f, U) == /\ U \subseteq Assets
                /\ \A u \in U : Entries(f[u]) /\ \A e \in f[u] : e.asset = u
WrittenBy(f, U) == UNION {f[u] : u \in U}

LEMMA FamilyEntries == ASSUME NEW f, NEW U, Family(f, U) PROVE Entries(WrittenBy(f, U))
  <1>1. PICK V : V = {f[u] : u \in U}
    OBVIOUS
  <1>2. IsFiniteSet(U)
    BY AssetsAssumption, FS_Subset DEF Family
  <1>3. PICK g : g = [u \in U |-> f[u]]
    OBVIOUS
  <1>4. g \in Surjection(U, V)
    <2>1. g \in [U -> V]
      BY <1>1, <1>3
    <2>2. \A v \in V : \E u \in U : g[u] = v
      BY <1>1, <1>3
    <2> QED BY <2>1, <2>2 DEF Surjection
  <1>5. IsFiniteSet(V)
    BY <1>2, <1>4, FS_Surjection
  <1>6. \A T \in V : IsFiniteSet(T) /\ T \subseteq EntryRow
    BY <1>1 DEF Family, Entries
  <1>7. IsFiniteSet(UNION V) /\ UNION V \subseteq EntryRow
    BY <1>5, <1>6, FS_UNION
  <1> QED BY <1>1, <1>7 DEF WrittenBy, Entries

LEMMA FamilyOwn ==
  ASSUME NEW f, NEW U, Family(f, U), NEW a
  PROVE  Own(WrittenBy(f, U), a) = IF a \in U THEN f[a] ELSE {}
  <1>1. \A e : e \in WrittenBy(f, U) <=> \E u \in U : e \in f[u]
    BY DEF WrittenBy
  <1>2. \A u \in U : \A e \in f[u] : e.asset = u
    BY DEF Family
  <1>3. CASE a \in U
    <2>1. \A e : e \in Own(WrittenBy(f, U), a) <=> e \in f[a]
      BY <1>1, <1>2, <1>3 DEF Own
    <2> QED BY <1>3, <2>1
  <1>4. CASE a \notin U
    <2>1. \A e : e \notin Own(WrittenBy(f, U), a)
      BY <1>1, <1>2, <1>4 DEF Own
    <2> QED BY <1>4, <2>1
  <1> QED BY <1>3, <1>4

LEMMA FamilyApart ==
  ASSUME NEW f, NEW U, Family(f, U), Entries(journal), Write(WrittenBy(f, U)), NEW a \in U
  PROVE  Apart(journal, f[a])
  <1>1. Apart(journal, WrittenBy(f, U))
    BY FamilyEntries, FreshApart DEF Write
  <1>2. f[a] \subseteq WrittenBy(f, U) /\ Entries(f[a])
    BY DEF WrittenBy, Family
  <1> QED BY <1>1, <1>2 DEF Apart

\* An operation on several assets of which the others are not touched.
TouchesAll(f, U) ==
  /\ Family(f, U) /\ Write(WrittenBy(f, U)) /\ RestSound /\ moves' = moves
  /\ asset' = [a \in Assets |-> asset'[a]] /\ \A a \in Assets \ U : asset'[a] = asset[a]
  /\ \A a \in U : AssetSound(a, asset'[a], moves[a], journal \cup f[a], today)

LEMMA ManyAssets ==
  ASSUME AssetsInv, NEW f, NEW U, TouchesAll(f, U)
  PROVE  AssetsInv'
  <1>1. PICK E : E = WrittenBy(f, U)
    OBVIOUS
  <1>2. /\ Family(f, U) /\ Write(E) /\ RestSound /\ moves' = moves
        /\ asset' = [a \in Assets |-> asset'[a]] /\ \A a \in Assets \ U : asset'[a] = asset[a]
        /\ \A a \in U : AssetSound(a, asset'[a], moves[a], journal \cup f[a], today)
    BY <1>1 DEF TouchesAll
  <1>3. ASSUME NEW a \in Assets PROVE AssetSound(a, asset'[a], moves'[a], journal \cup Own(E, a), today)
    <2>1. Own(E, a) = IF a \in U THEN f[a] ELSE {}
      BY <1>1, <1>2, FamilyOwn
    <2>2. CASE a \in U
      BY <1>2, <2>1, <2>2
    <2>3. CASE a \notin U
      <3>1. asset'[a] = asset[a] /\ moves'[a] = moves[a] /\ Own(E, a) = {} /\ journal \cup {} = journal
        BY <1>2, <2>1, <2>3
      <3>2. AssetSound(a, asset[a], moves[a], journal, today)
        BY AssetsKnown
      <3> QED BY <3>1, <3>2
    <2> QED BY <2>2, <2>3
  <1>4. moves' = [a \in Assets |-> moves'[a]]
    BY <1>2, AssetsKnown
  <1>5. Entries(E)
    BY <1>1, <1>2, FamilyEntries
  <1>6. BooksStep(E)
    BY <1>2, <1>3, <1>4, <1>5 DEF BooksStep
  <1> QED BY <1>6, StepSound

LEMMA PostProjectSafe == ASSUME AssetsInv, NEW s \in Sites, PostProject(s) PROVE AssetsInv'
  <1>1. /\ today \in Nat /\ Completed \in Nat /\ Completed < today /\ asset \in [Assets -> AssetRow] /\ Entries(journal)
        /\ \A a \in Assets : AssetSound(a, asset[a], moves[a], journal, today)
    BY AssetsKnown
  <1>2. PICK U : U = {a \in Assets : InRegister(a, s)}
    OBVIOUS
  <1>3. PICK f : f = [a \in U |-> Postings(a, asset[a], Completed)]
    OBVIOUS
  <1>4. WrittenBy(f, U) = UNION {Postings(a, asset[a], Completed) : a \in U}
    BY <1>3 DEF WrittenBy
  <1>5. /\ Write(WrittenBy(f, U)) /\ UNCHANGED <<today, moves, assetCash, posting>>
        /\ asset' = [a \in Assets |-> IF a \in U THEN Posted(asset[a], Completed) ELSE asset[a]]
    BY <1>2, <1>4 DEF PostProject
  <1>6. \A a \in U : a \in Assets /\ asset[a].status = "active"
    BY <1>2 DEF InRegister
  <1>7. Family(f, U)
    <2> SUFFICES ASSUME NEW a \in U PROVE Entries(f[a]) /\ \A e \in f[a] : e.asset = a
      BY <1>6 DEF Family
    <2>1. RowReady(asset[a])
      BY <1>1, <1>6, SoundFields
    <2>2. f[a] = Postings(a, asset[a], Completed)
      BY <1>3
    <2> QED BY <1>1, <1>6, <2>1, <2>2, PostingWrites
  <1>8. ASSUME NEW a \in U PROVE AssetSound(a, asset'[a], moves[a], journal \cup f[a], today)
    <2>1. f[a] = Postings(a, asset[a], Completed) /\ asset'[a] = Posted(asset[a], Completed)
      BY <1>3, <1>5, <1>6
    <2>2. Apart(journal, f[a])
      BY <1>1, <1>5, <1>7, FamilyApart
    <2>3. AssetSound(a, Posted(asset[a], Completed), moves[a], journal \cup Postings(a, asset[a], Completed), today)
      BY <1>1, <1>6, <2>1, <2>2, AssetPosted
    <2> QED BY <2>1, <2>3
  <1>9. RestSound
    BY <1>5, AssetsKnown, RestStays
  <1>10. asset' = [a \in Assets |-> asset'[a]] /\ \A a \in Assets \ U : asset'[a] = asset[a]
    BY <1>5
  <1>11. TouchesAll(f, U)
    BY <1>5, <1>7, <1>8, <1>9, <1>10 DEF TouchesAll
  <1> QED BY <1>11, ManyAssets

LEMMA ReversePurchaseSafe ==
  ASSUME AssetsInv, NEW a \in Assets, NEW s \in Sites, ReversePurchase(a, s) PROVE AssetsInv'
  <1>1. /\ today \in Nat /\ asset \in [Assets -> AssetRow] /\ Entries(journal) /\ assetCash \in [Sites -> Nat]
        /\ \A u \in Assets : AssetSound(u, asset[u], moves[u], journal, today)
    BY AssetsKnown
  <1>2. PICK U : U = asset[a].batch
    OBVIOUS
  <1>3. U \subseteq Assets
    BY <1>1, <1>2 DEF AssetRow
  <1>4. PICK f : f = [u \in U |-> Mirror(Own(journal, u))]
    OBVIOUS
  <1>5. /\ \A u \in U : asset[u].status = "active" /\ asset[u].site = s /\ ~asset[u].touched
        /\ assetCash' = [assetCash EXCEPT ![s] = @ + Cost * Cardinality(U)]
        /\ asset' = [u \in Assets |-> IF u \in U THEN [asset[u] EXCEPT !.status = "reversed"] ELSE asset[u]]
        /\ Write({Undone(j) : j \in {e \in journal : e.asset \in U /\ e.site = s}})
        /\ UNCHANGED <<today, moves, posting>>
    BY <1>2 DEF ReversePurchase, InRegister
  <1>6. ASSUME NEW u \in U PROVE StillUntouched(journal, u, asset[u], moves[u])
    BY <1>1, <1>3, <1>5, SoundFields
  <1>7. \A u \in U : \A e \in journal : e.asset = u => e.site = s /\ ~e.undone
    BY <1>5, <1>6 DEF StillUntouched
  <1>8. WrittenBy(f, U) = {Undone(j) : j \in {e \in journal : e.asset \in U /\ e.site = s}}
    <2>1. \A y : y \in WrittenBy(f, U) <=> \E u \in U : \E e \in journal : e.asset = u /\ y = Undone(e)
      BY <1>4 DEF WrittenBy, Mirror, Own
    <2>2. \A y : y \in {Undone(j) : j \in {e \in journal : e.asset \in U /\ e.site = s}}
                   <=> \E u \in U : \E e \in journal : e.asset = u /\ y = Undone(e)
      BY <1>7
    <2> QED BY <2>1, <2>2
  <1>9. Family(f, U)
    <2> SUFFICES ASSUME NEW u \in U PROVE Entries(f[u]) /\ \A e \in f[u] : e.asset = u
      BY <1>3 DEF Family
    <2>1. PICK K : K = Own(journal, u)
      OBVIOUS
    <2>2. K \subseteq journal /\ \A e \in K : e.asset = u /\ ~e.undone
      BY <1>7, <2>1 DEF Own
    <2>3. Entries(K)
      BY <1>1, <2>2, FS_Subset DEF Entries
    <2>4. Mirrored(K, u, Sites, "cost")
      BY <2>2, <2>3, TheAccounts, MirrorBrings
    <2>5. \A e \in K : Undone(e).asset = u
      BY <2>2, <2>3, UndoneIs DEF UndoneOf, Entries
    <2>6. f[u] = Mirror(K)
      BY <1>4, <2>1
    <2> QED BY <2>4, <2>5, <2>6 DEF Mirrored, Mirror
  <1>10. Write(WrittenBy(f, U))
    BY <1>5, <1>8
  <1>11. ASSUME NEW u \in U PROVE AssetSound(u, asset'[u], moves[u], journal \cup f[u], today)
    <2>1. f[u] = Mirror(Own(journal, u)) /\ asset'[u] = [asset[u] EXCEPT !.status = "reversed"]
      BY <1>3, <1>4, <1>5
    <2>2. Apart(journal, f[u])
      BY <1>1, <1>9, <1>10, FamilyApart
    <2>3. AssetSound(u, [asset[u] EXCEPT !.status = "reversed"], moves[u], journal \cup f[u], today)
      BY <1>1, <1>3, <1>5, <2>1, <2>2, AssetReversed
    <2> QED BY <2>1, <2>3
  <1>12. RestSound
    <2>1. IsFiniteSet(U)
      BY <1>3, AssetsAssumption, FS_Subset
    <2>2. Cost \in Nat /\ Cardinality(U) \in Nat
      BY <2>1, AssetsAssumption, FS_CardinalityType
    <2>3. PICK n \in Nat : n = Cost * Cardinality(U)
      BY <2>2
    <2>4. assetCash' \in [Sites -> Nat]
      BY <1>1, <1>5, <2>3
    <2> QED BY <1>5, <2>4, RestStays
  <1>13. asset' = [u \in Assets |-> asset'[u]] /\ \A u \in Assets \ U : asset'[u] = asset[u]
    BY <1>5
  <1>14. TouchesAll(f, U)
    BY <1>5, <1>9, <1>10, <1>11, <1>12, <1>13 DEF TouchesAll
  <1> QED BY <1>14, ManyAssets

-----------------------------------------------------------------------------
(* Buying: the entry of the purchase, then the months that are over.       *)

Bought(row, s, use, units) ==
  row = [NoAsset EXCEPT !.status = "active", !.site = s, !.inUse = use, !.batch = units]

LEMMA BoughtRow ==
  ASSUME NEW s \in Sites, NEW use \in Nat, NEW units \in SUBSET Assets, NEW row, Bought(row, s, use, units)
  PROVE  /\ row \in AssetRow /\ RowReady(row) /\ row.status = "active" /\ row.site = s /\ row.inUse = use
         /\ row.posted = 0 /\ row.source = NoSite /\ row.sourceThrough = 0 /\ ~row.touched
  <1>1. row = [status |-> "active", site |-> s, inUse |-> use, posted |-> 0,
               source |-> NoSite, sourceThrough |-> 0, batch |-> units, touched |-> FALSE]
    BY DEF Bought, NoAsset
  <1> QED BY <1>1 DEF AssetRow, RowReady

LEMMA AssetBought ==
  ASSUME NEW a, NEW s \in Sites, NEW use \in Nat, use >= 1, NEW units \in SUBSET Assets,
         NEW row, Bought(row, s, use, units), NEW J, Elsewhere(J, a), NEW now \in Nat, now >= 1,
         NEW z, DOMAIN z = {"cost", "cash"}, z["cost"] = Cost,
         NEW e, EntryOf(e, a, s, "purchase", 0, z), Apart(J, {e})
  PROVE  AssetSound(a, row, <<>>, J \cup {e}, now)
  <1>1. /\ row \in AssetRow /\ row.status = "active" /\ row.site = s /\ row.inUse = use
        /\ row.posted = 0 /\ row.source = NoSite /\ row.sourceThrough = 0 /\ ~row.touched
    BY BoughtRow
  <1>2. EntryFor(e, a)
    BY DEF EntryOf, EntryFor
  <1>3. /\ e.site = s /\ e.kind = "purchase" /\ e.undone = FALSE
        /\ e.lines["cost"] = Cost /\ e.lines["accumulated"] = 0
        /\ e.lines["clearing"] = 0 /\ e.lines["expense"] = 0
    BY TheAccounts DEF EntryOf
  <1>4. Worn(row) = 0 /\ Cost \in Int
    <2>1. row.inUse \in Nat /\ 0 < row.inUse /\ 0 \in Int
      BY <1>1
    <2>2. AccumulatedBy(row, 0) = 0
      BY <2>1, WearIs
    <2> QED BY <1>1, <2>2, AssetsAssumption DEF Worn
  <1>5. ASSUME NEW S, NEW x \in Accounts PROVE Brings(J \cup {e}, a, S, x) = Line(e, S, x)
    <2>1. Brings(J \cup {e}, a, S, x) = Brings(J, a, S, x) + Line(e, S, x)
      BY <1>2, OneMore
    <2>2. Brings(J, a, S, x) = 0
      BY BooksEmpty DEF Apart, Elsewhere
    <2>3. Line(e, S, x) \in Int
      <3>1. e.lines[x] \in Int
        BY <1>2 DEF EntryFor, EntryRow
      <3> QED BY <3>1 DEF Line
    <2> QED BY <2>1, <2>2, <2>3
  <1>6. AssetBooks(J \cup {e}, a, row)
    <2>1. ASSUME NEW t \in Sites PROVE Brings(J \cup {e}, a, {t}, "cost") = Here(row, t, Cost)
      <3>1. Brings(J \cup {e}, a, {t}, "cost") = Line(e, {t}, "cost")
        BY <1>5, TheAccounts
      <3> QED BY <1>1, <1>3, <3>1 DEF Line, Here
    <2>2. ASSUME NEW t \in Sites PROVE Brings(J \cup {e}, a, {t}, "accumulated") = Here(row, t, -Worn(row))
      <3>1. Brings(J \cup {e}, a, {t}, "accumulated") = Line(e, {t}, "accumulated")
        BY <1>5, TheAccounts
      <3> QED BY <1>1, <1>3, <1>4, <3>1 DEF Line, Here
    <2>3. Brings(J \cup {e}, a, Sites, "clearing") = 0
      <3>1. Brings(J \cup {e}, a, Sites, "clearing") = Line(e, Sites, "clearing")
        BY <1>5, TheAccounts
      <3> QED BY <1>3, <3>1 DEF Line
    <2>4. Brings(J \cup {e}, a, Sites, "expense") = Worn(row)
      <3>1. Brings(J \cup {e}, a, Sites, "expense") = Line(e, Sites, "expense")
        BY <1>5, TheAccounts
      <3> QED BY <1>3, <1>4, <3>1 DEF Line
    <2>5. row.status # "reversed"
      BY <1>1
    <2> QED BY <2>1, <2>2, <2>3, <2>4, <2>5 DEF AssetBooks
  <1>7. MovesRight(row, <<>>)
    BY <1>1 DEF MovesRight
  <1>8. \A j \in J \cup {e} : j.asset = a => j = e
    BY DEF Elsewhere
  <1>9. ChargesRight(J \cup {e}, a, row, <<>>, now)
    BY <1>3, <1>8 DEF ChargesRight
  <1>10. StillUntouched(J \cup {e}, a, row, <<>>)
    BY <1>1, <1>3, <1>8 DEF StillUntouched
  <1>11. row.status # "none" /\ row.site \in Sites /\ row.inUse >= 1 /\ row.posted < now /\ row.sourceThrough <= now
    BY <1>1
  <1>12. <<>> \in Seq(MoveRow)
    OBVIOUS
  <1> QED BY <1>1, <1>6, <1>7, <1>9, <1>10, <1>11, <1>12, SoundFrom

LEMMA PurchaseSafe ==
  ASSUME AssetsInv, NEW s \in Sites, NEW units \in SUBSET Assets \ {{}}, NEW use \in AssetMonths,
         Purchase(s, units, use)
  PROVE  AssetsInv'
  <1>1. /\ today \in Nat /\ today >= 1 /\ Completed \in Nat /\ Completed < today
        /\ asset \in [Assets -> AssetRow] /\ Entries(journal) /\ assetCash \in [Sites -> Nat]
        /\ \A a \in Assets : AssetSound(a, asset[a], moves[a], journal, today)
    BY AssetsKnown
  <1>2. use \in Nat /\ use >= 1 /\ units \in SUBSET Assets /\ Cost \in Nat
    BY AssetsAssumption DEF AssetMonths
  <1>3. PICK row : row = [NoAsset EXCEPT !.status = "active", !.site = s, !.inUse = use, !.batch = units]
    OBVIOUS
  <1>4. PICK z : z = [cost |-> Cost, cash |-> -Cost]
    OBVIOUS
  <1>5. PICK f : f = [a \in units |-> Postings(a, row, Completed) \cup {Entry(a, s, "purchase", 0, z)}]
    OBVIOUS
  <1>6. WrittenBy(f, units)
          = UNION {Postings(a, row, Completed) \cup {Entry(a, s, "purchase", 0, z)} : a \in units}
    BY <1>5 DEF WrittenBy
  <1>7. /\ \A a \in units : asset[a].status = "none"
        /\ assetCash[s] >= Cost * Cardinality(units)
        /\ assetCash' = [assetCash EXCEPT ![s] = @ - Cost * Cardinality(units)]
        /\ asset' = [a \in Assets |-> IF a \in units THEN Posted(row, Completed) ELSE asset[a]]
        /\ Write(WrittenBy(f, units)) /\ UNCHANGED <<today, moves, posting>>
    BY <1>3, <1>4, <1>6 DEF Purchase
  <1>8. Bought(row, s, use, units)
    BY <1>3 DEF Bought
  <1>9. RowReady(row) /\ row.status = "active"
    BY <1>2, <1>8, BoughtRow
  <1>10. DOMAIN z = {"cost", "cash"} /\ z["cost"] = Cost /\ z["cash"] = -Cost
    BY <1>4
  <1>11. IntegerLines(z)
    BY <1>2, <1>10 DEF IntegerLines
  <1>12. ASSUME NEW a \in units
         PROVE  /\ EntryOf(Entry(a, s, "purchase", 0, z), a, s, "purchase", 0, z)
                /\ Entries(Postings(a, row, Completed)) /\ Entry(a, s, "purchase", 0, z) \in EntryRow
                /\ Entry(a, s, "purchase", 0, z) \notin Postings(a, row, Completed)
                /\ \A e \in Postings(a, row, Completed) : e.asset = a
    <2>1. a \in Assets /\ "purchase" \in BookKinds /\ 0 \in Int
      BY <1>2 DEF BookKinds
    <2>2. PICK p : p = Entry(a, s, "purchase", 0, z)
      OBVIOUS
    <2>3. EntryOf(p, a, s, "purchase", 0, z)
      BY <1>11, <2>1, <2>2, EntryIs
    <2>4. p \in EntryRow /\ p.kind = "purchase"
      BY <2>3 DEF EntryOf
    <2>5. /\ Entries(Postings(a, row, Completed))
          /\ \A e \in Postings(a, row, Completed) :
               e.asset = a /\ e.kind \in {"depreciation", "transferred_depreciation"}
      BY <1>1, <1>9, <2>1, PostingWrites
    <2>6. p \notin Postings(a, row, Completed)
      BY <2>4, <2>5
    <2> QED BY <2>2, <2>3, <2>4, <2>5, <2>6
  <1>13. Family(f, units)
    <2> SUFFICES ASSUME NEW a \in units PROVE Entries(f[a]) /\ \A e \in f[a] : e.asset = a
      BY <1>2 DEF Family
    <2>1. PICK p, P : p = Entry(a, s, "purchase", 0, z) /\ P = Postings(a, row, Completed)
      OBVIOUS
    <2>2. EntryOf(p, a, s, "purchase", 0, z) /\ Entries(P) /\ p \in EntryRow /\ p \notin P /\ \A e \in P : e.asset = a
      BY <1>12, <2>1
    <2>3. f[a] = P \cup {p}
      BY <1>5, <2>1
    <2>4. Entries({p})
      BY <2>2, OneEntry
    <2>5. Apart(P, {p}) /\ p.asset = a
      BY <2>2, <2>4 DEF Apart, EntryOf
    <2>6. Entries(P \cup {p})
      BY <2>5, EntriesTogether
    <2> QED BY <2>2, <2>3, <2>5, <2>6
  <1>14. ASSUME NEW a \in units PROVE AssetSound(a, asset'[a], moves[a], journal \cup f[a], today)
    <2>1. PICK p, P : p = Entry(a, s, "purchase", 0, z) /\ P = Postings(a, row, Completed)
      OBVIOUS
    <2>2. EntryOf(p, a, s, "purchase", 0, z) /\ Entries(P) /\ p \in EntryRow /\ p \notin P
      BY <1>12, <2>1
    <2>3. f[a] = {p} \cup P /\ a \in Assets
      BY <1>2, <1>5, <2>1
    <2>4. Apart(journal, {p} \cup P)
      <3>1. Apart(journal, f[a])
        BY <1>1, <1>7, <1>13, FamilyApart
      <3> QED BY <2>3, <3>1
    <2>5. Entries({p})
      BY <2>2, OneEntry
    <2>6. Apart(journal, {p}) /\ Apart(journal \cup {p}, P)
      <3>1. Apart(journal, {p})
        BY <2>4, <2>5 DEF Apart
      <3>2. Entries(journal \cup {p})
        BY <3>1, EntriesTogether
      <3> QED BY <2>2, <2>4, <3>1, <3>2 DEF Apart
    <2>7. moves[a] = <<>> /\ Elsewhere(journal, a)
      BY <1>1, <1>7, <2>3 DEF AssetSound, Elsewhere
    <2>8. PICK J : J = journal \cup {p}
      OBVIOUS
    <2>9. AssetSound(a, row, <<>>, J, today)
      BY <1>1, <1>2, <1>8, <1>10, <2>2, <2>6, <2>7, <2>8, AssetBought
    <2>10. AssetSound(a, Posted(row, Completed), <<>>, J \cup P, today)
      <3>1. Apart(J, Postings(a, row, Completed))
        BY <2>1, <2>6, <2>8
      <3>2. AssetSound(a, Posted(row, Completed), <<>>, J \cup Postings(a, row, Completed), today)
        BY <1>1, <1>9, <2>3, <2>9, <3>1, AssetPosted
      <3> QED BY <2>1, <3>2
    <2>11. J \cup P = journal \cup f[a]
      BY <2>3, <2>8
    <2>12. asset'[a] = Posted(row, Completed)
      BY <1>7, <2>3
    <2> QED BY <2>7, <2>10, <2>11, <2>12
  <1>15. RestSound
    <2>1. IsFiniteSet(units)
      BY <1>2, AssetsAssumption, FS_Subset
    <2>2. Cardinality(units) \in Nat
      BY <2>1, FS_CardinalityType
    <2>3. PICK n \in Nat : n = Cost * Cardinality(units)
      BY <1>2, <2>2
    <2>4. assetCash[s] - n \in Nat
      BY <1>1, <1>7, <2>3
    <2>5. assetCash' \in [Sites -> Nat]
      BY <1>1, <1>7, <2>3, <2>4
    <2> QED BY <1>7, <2>5, RestStays
  <1>16. asset' = [a \in Assets |-> asset'[a]] /\ \A a \in Assets \ units : asset'[a] = asset[a]
    BY <1>7
  <1>17. TouchesAll(f, units)
    BY <1>7, <1>13, <1>14, <1>15, <1>16 DEF TouchesAll
  <1> QED BY <1>17, ManyAssets

-----------------------------------------------------------------------------
LEMMA AssetsStart == AssetsInit => AssetsInv
  <1> SUFFICES ASSUME AssetsInit PROVE AssetsInv
    OBVIOUS
  <1>1. /\ today = 1 /\ journal = {} /\ posting = NotPosting
        /\ asset = [a \in Assets |-> NoAsset] /\ moves = [a \in Assets |-> <<>>]
        /\ assetCash = [s \in Sites |-> StartCash]
    BY DEF AssetsInit
  <1>2. today \in AssetMonths /\ StartCash \in Nat
    BY <1>1, AssetsAssumption DEF AssetMonths
  <1>3. Entries(journal)
    BY <1>1, FS_EmptySet DEF Entries
  <1>4. NoAsset \in AssetRow /\ NoAsset.status = "none" /\ <<>> \in Seq(MoveRow)
    BY DEF NoAsset, AssetRow
  <1>5. posting \in [through : Nat, list : SUBSET Assets] /\ posting.through < today
    BY <1>1 DEF NotPosting
  <1>6. ASSUME NEW a \in Assets PROVE AssetSound(a, asset[a], moves[a], journal, today)
    <2>1. asset[a] = NoAsset /\ moves[a] = <<>> /\ journal = {}
      BY <1>1
    <2> QED BY <1>4, <2>1 DEF AssetSound
  <1>7. asset \in [Assets -> AssetRow] /\ moves \in [Assets -> Seq(MoveRow)] /\ assetCash \in [Sites -> Nat]
    BY <1>1, <1>2, <1>4
  <1> QED BY <1>2, <1>3, <1>5, <1>6, <1>7 DEF AssetsInv

LEMMA AssetsStep == AssetsInv /\ [AssetsNext]_assetVars => AssetsInv'
  <1> SUFFICES ASSUME AssetsInv, [AssetsNext]_assetVars PROVE AssetsInv'
    OBVIOUS
  <1>1. CASE \E s \in Sites, units \in SUBSET Assets \ {{}}, use \in AssetMonths : Purchase(s, units, use)
    BY <1>1, PurchaseSafe
  <1>2. CASE \E a \in Assets, s \in Sites, price \in {0, ServiceCost} : Service(a, s, price)
    BY <1>2, ServiceSafe
  <1>3. CASE \E a \in Assets, s \in Sites : Reassign(a, s) \/ ReversePurchase(a, s)
    BY <1>3, ReassignSafe, ReversePurchaseSafe
  <1>4. CASE \E a \in Assets, s, target \in Sites : Transfer(a, s, target)
    BY <1>4, TransferSafe
  <1>5. CASE \E a \in Assets, s \in Sites, price \in {0, Proceeds} : Dispose(a, s, price)
    BY <1>5, DisposeSafe
  <1>6. CASE \E s \in Sites : PostProject(s)
    BY <1>6, PostProjectSafe
  <1>7. CASE StartPosting \/ \E a \in Assets : PostOne(a) \/ PostingFails(a)
    BY <1>7, RoundSafe, PostOneSafe
  <1>8. CASE MonthEnds
    BY <1>8, MonthEndsSafe
  <1>9. CASE UNCHANGED assetVars
    BY <1>9 DEF assetVars, AssetsInv
  <1>10. \/ \E s \in Sites, units \in SUBSET Assets \ {{}}, use \in AssetMonths : Purchase(s, units, use)
         \/ \E a \in Assets, s \in Sites, price \in {0, ServiceCost} : Service(a, s, price)
         \/ \E a \in Assets, s \in Sites : Reassign(a, s) \/ ReversePurchase(a, s)
         \/ \E a \in Assets, s, target \in Sites : Transfer(a, s, target)
         \/ \E a \in Assets, s \in Sites, price \in {0, Proceeds} : Dispose(a, s, price)
         \/ \E s \in Sites : PostProject(s)
         \/ StartPosting
         \/ \E a \in Assets : PostOne(a) \/ PostingFails(a)
         \/ MonthEnds
         \/ UNCHANGED assetVars
    BY DEF AssetsNext
  <1> QED BY <1>1, <1>2, <1>3, <1>4, <1>5, <1>6, <1>7, <1>8, <1>9, <1>10

-----------------------------------------------------------------------------
(* What the properties say of the books. *)

LEMMA BalanceIs ==
  ASSUME Entries(journal), NEW a, NEW s, NEW x \in Accounts
  PROVE  Balance(a, s, x) = Brings(journal, a, {s}, x)
  <1>1. PICK own : own = {j \in journal : j.asset = a /\ j.site = s}
    OBVIOUS
  <1>2. PICK f, g : f = [j \in own |-> j.lines[x]] /\ g = Lines(journal, a, {s}, x)
    OBVIOUS
  <1>3. own \in SUBSET journal /\ IsFiniteSet(journal) /\ IsFiniteSet(own) /\ IsFiniteSet(journal \ own)
    BY <1>1, FS_Subset DEF Entries
  <1>4. \A j \in journal : g[j] \in Int
    BY <1>2, LineTypes
  <1>5. SumOver(g, journal) = SumOver(g, own) + SumOver(g, journal \ own)
    BY <1>3, <1>4, SumSplit
  <1>6. SumOver(g, journal \ own) = 0
    <2>1. \A j \in journal \ own : g[j] = 0
      BY <1>1, <1>2 DEF Lines
    <2> QED BY <1>3, <2>1, SumOfZeros
  <1>7. SumOver(f, own) = SumOver(g, own)
    <2>1. \A j \in own : f[j] = g[j]
      BY <1>1, <1>2 DEF Lines
    <2> QED BY <1>3, <2>1, SumAgrees
  <1>8. SumOver(g, own) \in Int
    BY <1>3, <1>4, SumIsInteger
  <1>9. Balance(a, s, x) = BookTotal(f, own)
    BY <1>1, <1>2 DEF Balance
  <1>10. BookTotal(f, own) = SumOver(f, own)
    BY DEF BookTotal, SumOver
  <1>11. Brings(journal, a, {s}, x) = SumOver(g, journal)
    BY <1>2 DEF Brings
  <1> QED BY <1>5, <1>6, <1>7, <1>8, <1>9, <1>10, <1>11

LEMMA BringsMore ==
  ASSUME NEW J, Entries(J), NEW a, NEW S, NEW s, s \notin S, NEW x \in Accounts
  PROVE  Brings(J, a, S \cup {s}, x) = Brings(J, a, {s}, x) + Brings(J, a, S, x)
  <1>1. PICK f, g, h : f = Lines(J, a, {s}, x) /\ g = Lines(J, a, S, x) /\ h = Lines(J, a, S \cup {s}, x)
    OBVIOUS
  <1>2. \A j \in J : f[j] \in Int /\ g[j] \in Int
    BY <1>1, LineTypes
  <1>3. \A j \in J : h[j] = f[j] + g[j]
    <2> SUFFICES ASSUME NEW j \in J PROVE h[j] = f[j] + g[j]
      OBVIOUS
    <2>1. /\ h[j] = (IF j.asset = a /\ j.site \in S \cup {s} THEN j.lines[x] ELSE 0)
          /\ f[j] = (IF j.asset = a /\ j.site \in {s} THEN j.lines[x] ELSE 0)
          /\ g[j] = (IF j.asset = a /\ j.site \in S THEN j.lines[x] ELSE 0)
      BY <1>1 DEF Lines
    <2>2. j.lines[x] \in Int
      BY EntryTypes
    <2> QED BY <2>1, <2>2
  <1>4. IsFiniteSet(J)
    BY DEF Entries
  <1>5. SumOver(h, J) = SumOver(f, J) + SumOver(g, J)
    BY <1>2, <1>3, <1>4, SumOfChanges
  <1> QED BY <1>1, <1>5 DEF Brings

LEMMA SumIs ==
  ASSUME Entries(journal), NEW a, NEW x \in Accounts
  PROVE  Sum(a, x) = Brings(journal, a, Sites, x)
  <1>1. PICK f : f = [s \in Sites |-> Balance(a, s, x)]
    OBVIOUS
  <1>2. PICK C : C = {T \in SUBSET Sites : SumOver(f, T) # Brings(journal, a, T, x)}
    OBVIOUS
  <1>3. \A s \in Sites : f[s] = Brings(journal, a, {s}, x) /\ f[s] \in Int
    BY <1>1, BalanceIs, BooksAreIntegers
  <1>4. C = {}
    <2> SUFFICES ASSUME C # {} PROVE FALSE
      OBVIOUS
    <2>1. PICK T \in C : \A U \in C : ~(U \subseteq T /\ U # T)
      <3>1. C \in SUBSET SUBSET Sites
        BY <1>2
      <3> QED BY <3>1, AssetsAssumption, SmallestSubset
    <2>2. T \subseteq Sites /\ IsFiniteSet(T) /\ SumOver(f, T) # Brings(journal, a, T, x)
      BY <1>2, <2>1, AssetsAssumption, FS_Subset
    <2>3. T # {}
      <3> SUFFICES ASSUME T = {} PROVE FALSE
        OBVIOUS
      <3>1. SumOver(f, T) = 0
        BY SumOfEmpty
      <3>2. \A j \in journal : Lines(journal, a, T, x)[j] = 0
        BY DEF Lines
      <3>3. Brings(journal, a, T, x) = 0
        BY <3>2, SumOfZeros DEF Entries, Brings
      <3> QED BY <2>2, <3>1, <3>3
    <2>4. PICK s \in T : TRUE
      BY <2>3
    <2>5. PICK U : U = T \ {s}
      OBVIOUS
    <2>6. U \subseteq T /\ U # T /\ T = U \cup {s} /\ s \notin U /\ U \in SUBSET Sites /\ s \in Sites
      BY <2>2, <2>4, <2>5
    <2>7. SumOver(f, U) = Brings(journal, a, U, x)
      BY <1>2, <2>1, <2>6
    <2>8. SumOver(f, T) = f[s] + SumOver(f, U)
      BY <1>3, <2>2, <2>4, <2>5, SumRemove
    <2>9. Brings(journal, a, T, x) = Brings(journal, a, {s}, x) + Brings(journal, a, U, x)
      BY <2>6, BringsMore
    <2> QED BY <1>3, <2>2, <2>6, <2>7, <2>8, <2>9
  <1>5. SumOver(f, Sites) = Brings(journal, a, Sites, x)
    BY <1>2, <1>4
  <1>6. Sum(a, x) = BookTotal(f, Sites)
    BY <1>1 DEF Sum
  <1>7. BookTotal(f, Sites) = SumOver(f, Sites)
    BY DEF BookTotal, SumOver
  <1> QED BY <1>5, <1>6, <1>7

LEMMA HolderIs ==
  ASSUME NEW a, moves[a] \in Seq(MoveRow), NEW m \in Int, NEW b, HeldBy(moves[a], asset[a].site, m, b)
  PROVE  b = HolderAt(a, m)
  <1>1. PICK mv : mv = moves[a]
    OBVIOUS
  <1>2. mv \in Seq(MoveRow) /\ DOMAIN mv = 1 .. Len(mv) /\ Len(mv) \in Nat /\ \A k \in 1 .. Len(mv) : mv[k].month \in Nat
    BY <1>1, MoveTypes
  <1>3. PICK later : later = {k \in 1 .. Len(mv) : mv[k].month >= m}
    OBVIOUS
  <1>4. HolderAt(a, m) = IF later = {} THEN asset[a].site ELSE mv[Min(later)].from
    BY <1>1, <1>2, <1>3 DEF HolderAt
  <1>5. CASE (\A k \in 1 .. Len(mv) : mv[k].month < m) /\ asset[a].site = b
    <2>1. later = {}
      BY <1>2, <1>3, <1>5
    <2> QED BY <1>4, <1>5, <2>1
  <1>6. ASSUME NEW k \in 1 .. Len(mv), FirstSince(mv, m, k), mv[k].from = b PROVE b = HolderAt(a, m)
    <2>1. k \in later /\ \A h \in later : ~(h < k)
      BY <1>2, <1>3, <1>6 DEF FirstSince
    <2>2. \A h \in later : h \in Int
      BY <1>2, <1>3
    <2>3. Min(later) = k
      <3>1. \A h \in later : k <= h
        BY <2>1, <2>2
      <3>2. \A h \in later : (\A c \in later : h <= c) => h = k
        BY <2>1, <2>2, <3>1
      <3> QED BY <2>1, <3>1, <3>2 DEF Min
    <2> QED BY <1>4, <1>6, <2>1, <2>3
  <1> QED BY <1>1, <1>5, <1>6 DEF HeldBy

LEMMA AssetsFollow == AssetsInv => AssetsTypeOK /\ AssetBooksRight
  <1> SUFFICES ASSUME AssetsInv PROVE AssetsTypeOK /\ AssetBooksRight
    OBVIOUS
  <1>1. /\ Entries(journal) /\ asset \in [Assets -> AssetRow] /\ moves \in [Assets -> Seq(MoveRow)]
        /\ today \in AssetMonths /\ assetCash \in [Sites -> Nat]
        /\ posting \in [through : Nat, list : SUBSET Assets]
        /\ \A a \in Assets : AssetSound(a, asset[a], moves[a], journal, today)
    BY DEF AssetsInv
  <1>2. AssetsTypeOK
    BY <1>1 DEF AssetsTypeOK, AssetRow
  <1>3. BooksFollowTheAsset
    <2> SUFFICES ASSUME NEW a \in Assets, asset[a].status # "none"
                 PROVE  /\ \A s \in Sites :
                             /\ Balance(a, s, "cost")
                                  = IF asset[a].status = "active" /\ asset[a].site = s THEN Cost ELSE 0
                             /\ Balance(a, s, "accumulated")
                                  = IF asset[a].status = "active" /\ asset[a].site = s THEN -Worn(asset[a]) ELSE 0
                        /\ Sum(a, "clearing") = 0
                        /\ Sum(a, "expense") = IF asset[a].status = "reversed" THEN 0 ELSE Worn(asset[a])
      BY DEF BooksFollowTheAsset, Worn
    <2>1. AssetBooks(journal, a, asset[a])
      BY <1>1, SoundFields
    <2>2. \A s \in Sites : /\ Brings(journal, a, {s}, "cost") = Here(asset[a], s, Cost)
                           /\ Brings(journal, a, {s}, "accumulated") = Here(asset[a], s, -Worn(asset[a]))
      BY <2>1 DEF AssetBooks
    <2>3. /\ Brings(journal, a, Sites, "clearing") = 0
          /\ Brings(journal, a, Sites, "expense") = (IF asset[a].status = "reversed" THEN 0 ELSE Worn(asset[a]))
      BY <2>1 DEF AssetBooks
    <2>4. \A s \in Sites : /\ Balance(a, s, "cost") = Brings(journal, a, {s}, "cost")
                           /\ Balance(a, s, "accumulated") = Brings(journal, a, {s}, "accumulated")
      BY <1>1, TheAccounts, BalanceIs
    <2>5. Sum(a, "clearing") = Brings(journal, a, Sites, "clearing")
      BY <1>1, TheAccounts, SumIs
    <2>6. Sum(a, "expense") = Brings(journal, a, Sites, "expense")
      BY <1>1, TheAccounts, SumIs
    <2>7. ASSUME NEW s \in Sites
          PROVE  /\ Balance(a, s, "cost")
                      = IF asset[a].status = "active" /\ asset[a].site = s THEN Cost ELSE 0
                 /\ Balance(a, s, "accumulated")
                      = IF asset[a].status = "active" /\ asset[a].site = s THEN -Worn(asset[a]) ELSE 0
      BY <2>2, <2>4 DEF Here
    <2> QED BY <2>3, <2>5, <2>6, <2>7
  <1>4. ChargedToHolder
    <2> SUFFICES ASSUME NEW j \in journal, j.kind = "depreciation" PROVE j.site = HolderAt(j.asset, j.period)
      BY DEF ChargedToHolder
    <2>1. PICK a : a = j.asset
      OBVIOUS
    <2>2. a \in Assets /\ j.period \in Int
      BY <1>1, <2>1, EntryTypes
    <2>3. AssetSound(a, asset[a], moves[a], journal, today)
      BY <1>1, <2>2
    <2>4. asset[a].status # "none"
      BY <2>1, <2>3 DEF AssetSound
    <2>5. ChargesRight(journal, a, asset[a], moves[a], today) /\ moves[a] \in Seq(MoveRow)
      BY <2>3, <2>4, SoundFields
    <2>6. HeldBy(moves[a], asset[a].site, j.period, j.site)
      BY <2>1, <2>5 DEF ChargesRight
    <2>7. j.site = HolderAt(a, j.period)
      BY <2>2, <2>5, <2>6, HolderIs
    <2> QED BY <2>1, <2>7
  <1> QED BY <1>2, <1>3, <1>4 DEF AssetBooksRight

\* The register of fixed assets keeps its books (modules/fixed-assets): for any
\* units, projects, costs, lives and order of transfers, disposals, reversals and
\* rounds of the worker, cost and wear stand with the project that has the asset,
\* what was charged is what it lost, and each month is charged to who had it.
THEOREM AssetsAreSound == AssetsSpec => [](AssetsTypeOK /\ AssetBooksRight)
  <1> QED BY AssetsStart, AssetsStep, AssetsFollow, PTL DEF AssetsSpec

-----------------------------------------------------------------------------
(* The back office as one: every step of it is a step of the one component *)
(* at work and of no other.                                                *)

LEMMA LoopComposed == OperationsSpec => LoopSpec
  <1>1. OperationsInit => LoopInit
    BY DEF OperationsInit
  <1>2. [OperationsNext]_OperationsVars => [LoopNext]_loopVars
    BY DEF OperationsNext, OperationsVars, On, LoopMoves, SchedulesMove, BillsMove, CustomersMove,
           RunsMove, StaffMoves, AssetsMove, DocumentsMove
  <1> QED BY <1>1, <1>2, PTL DEF OperationsSpec, LoopSpec

LEMMA RuleComposed == OperationsSpec => RecurringSpec
  <1>1. OperationsInit => RecurringInit
    BY DEF OperationsInit
  <1>2. [OperationsNext]_OperationsVars => [RecurringNext]_recurringVars
    BY DEF OperationsNext, OperationsVars, On, LoopMoves, SchedulesMove, BillsMove, CustomersMove,
           RunsMove, StaffMoves, AssetsMove, DocumentsMove
  <1> QED BY <1>1, <1>2, PTL DEF OperationsSpec, RecurringSpec

LEMMA BillComposed == OperationsSpec => BillsSpec
  <1>1. OperationsInit => BillsInit
    BY DEF OperationsInit
  <1>2. [OperationsNext]_OperationsVars => [BillsNext]_billVars
    BY DEF OperationsNext, OperationsVars, On, LoopMoves, SchedulesMove, BillsMove, CustomersMove,
           RunsMove, StaffMoves, AssetsMove, DocumentsMove
  <1> QED BY <1>1, <1>2, PTL DEF OperationsSpec, BillsSpec

LEMMA CustomersComposed == OperationsSpec => BillingSpec
  <1>1. OperationsInit => BillingInit
    BY DEF OperationsInit
  <1>2. [OperationsNext]_OperationsVars => [BillingNext]_billingVars
    BY DEF OperationsNext, OperationsVars, On, LoopMoves, SchedulesMove, BillsMove, CustomersMove,
           RunsMove, StaffMoves, AssetsMove, DocumentsMove
  <1> QED BY <1>1, <1>2, PTL DEF OperationsSpec, BillingSpec

LEMMA RunsComposed == OperationsSpec => RunsSpec
  <1>1. OperationsInit => RunsInit
    BY DEF OperationsInit
  <1>2. [OperationsNext]_OperationsVars => [RunsNext]_runVars
    BY DEF OperationsNext, OperationsVars, On, LoopMoves, SchedulesMove, BillsMove, CustomersMove,
           RunsMove, StaffMoves, AssetsMove, DocumentsMove
  <1> QED BY <1>1, <1>2, PTL DEF OperationsSpec, RunsSpec

LEMMA PayrollComposed == OperationsSpec => PayrollSpec
  <1>1. OperationsInit => PayrollInit
    BY DEF OperationsInit
  <1>2. [OperationsNext]_OperationsVars => [PayrollNext]_payrollVars
    BY DEF OperationsNext, OperationsVars, On, LoopMoves, SchedulesMove, BillsMove, CustomersMove,
           RunsMove, StaffMoves, AssetsMove, DocumentsMove
  <1> QED BY <1>1, <1>2, PTL DEF OperationsSpec, PayrollSpec

LEMMA AssetsComposed == OperationsSpec => AssetsSpec
  <1>1. OperationsInit => AssetsInit
    BY DEF OperationsInit
  <1>2. [OperationsNext]_OperationsVars => [AssetsNext]_assetVars
    BY DEF OperationsNext, OperationsVars, On, LoopMoves, SchedulesMove, BillsMove, CustomersMove,
           RunsMove, StaffMoves, AssetsMove, DocumentsMove
  <1> QED BY <1>1, <1>2, PTL DEF OperationsSpec, AssetsSpec

LEMMA DocumentsComposed == OperationsSpec => DocumentsSpec
  <1>1. OperationsInit => DocumentsInit
    BY DEF OperationsInit
  <1>2. [OperationsNext]_OperationsVars => [DocumentsNext]_documentVars
    BY DEF OperationsNext, OperationsVars, On, LoopMoves, SchedulesMove, BillsMove, CustomersMove,
           RunsMove, StaffMoves, AssetsMove, DocumentsMove
  <1> QED BY <1>1, <1>2, PTL DEF OperationsSpec, DocumentsSpec

\* Every row of the back office keeps its type, for any constants.
THEOREM BackOfficeTypes == OperationsSpec => []OperationsTypeOK
  <1>1. OperationsSpec => [](LoopTypeOK /\ RecurringTypeOK /\ BillsTypeOK)
    BY LoopComposed, RuleComposed, BillComposed, LoopKeepsTypes, RuleKeepsTypes, BillKeepsTypes, PTL
  <1>2. OperationsSpec => [](BillingTypeOK /\ RunsTypeOK)
    BY CustomersComposed, RunsComposed, CustomersMoneyTraced, RunsAreSound, PTL
  <1>3. PayrollSpec => []PayrollTypeOK
    BY PayrollIsSound
  <1>4. OperationsSpec => [](PayrollTypeOK /\ AssetsTypeOK /\ DocumentsTypeOK)
    BY <1>3, PayrollComposed, AssetsComposed, DocumentsComposed, AssetsAreSound, DocumentsKeepTypes, PTL
  <1>5. LoopTypeOK /\ RecurringTypeOK /\ BillsTypeOK /\ BillingTypeOK /\ RunsTypeOK /\ PayrollTypeOK
          /\ AssetsTypeOK /\ DocumentsTypeOK => OperationsTypeOK
    BY DEF OperationsTypeOK
  <1> QED BY <1>1, <1>2, <1>4, <1>5, PTL

\* Customers' money is traced through credits, settlements and releases, and
\* the run that makes their invoices accounts for each of them once
\* (billing.service.ts, billing-worker.ts).
THEOREM CustomersAreBilled == OperationsSpec => []CustomersBilled
  <1>1. CustomersBilled <=> MoneyTraced /\ RunAccountsForAll
    BY DEF CustomersBilled
  <1> QED BY <1>1, CustomersComposed, RunsComposed, CustomersMoneyTraced, RunsAreSound, PTL

\* What the components promise holds of the back office: payments are assigned
\* in full and in order, no period is lost or handled twice, the asset register
\* keeps its books, and the documents of a project and its payroll keep theirs.
THEOREM BackOfficeIsSound ==
  OperationsSpec => ([](AllocationHolds /\ NoPeriodLost /\ BillHandledOnce /\ AssetBooksRight /\ DocumentsHold)
                       /\ PayrollHolds)
  <1>1. OperationsSpec => [](AllocationHolds /\ NoPeriodLost /\ BillHandledOnce)
    BY LoopComposed, RuleComposed, BillComposed, LoopComputesPlan, NoPeriodMissed, BillsHandledOnce, PTL
  <1>2. OperationsSpec => [](AssetBooksRight /\ DocumentsHold)
    BY AssetsComposed, DocumentsComposed, AssetsAreSound, DocumentsAreSound, PTL
  <1>3. OperationsSpec => PayrollHolds
    BY PayrollComposed, PayrollIsSound
  <1> QED BY <1>1, <1>2, <1>3, PTL
=============================================================================
