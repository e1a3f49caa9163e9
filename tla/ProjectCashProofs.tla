------------------------- MODULE ProjectCashProofs --------------------------
(***************************************************************************)
(* Theorems about the cash book, for every value of its constants.         *)
(***************************************************************************)
EXTENDS ProjectCash, DueAllocationProofs, TLAPS

\* The stage of a request tells what it holds.
LEMMA RequestByStage ==
  ASSUME NEW q \in Request
  PROVE  /\ q.pc \in DocSteps => q \in DocReq
         /\ q.pc \in {"transfer", "adjust"} => q \in CashReq
  <1>1. CASE q = Idle
    <2>1. q.pc = "idle"
      BY <1>1 DEF Idle
    <2> QED BY <2>1 DEF DocSteps
  <1>2. CASE q \in DocReq
    <2>1. q.pc \in DocSteps
      BY <1>2 DEF DocReq
    <2> QED BY <1>2, <2>1 DEF DocSteps
  <1>3. CASE q \in CashReq
    <2>1. q.pc \in {"transfer", "adjust"}
      BY <1>3 DEF CashReq
    <2> QED BY <1>3, <2>1 DEF DocSteps
  <1> QED BY <1>1, <1>2, <1>3 DEF Request

LEMMA AmountsAreNat ==
  /\ \A n \in Amounts : n \in Nat
  /\ \A row \in DocRow : row.amount \in Nat
  <1>1. Amounts \cup {0} \subseteq Nat
    BY CashAssumption DEF CashAssumption
  <1>2. \A row \in DocRow : row.amount \in Amounts \cup {0}
    BY DEF DocRow
  <1> QED BY <1>1, <1>2

-----------------------------------------------------------------------------
(* Cash is paid from, or returned from, an account of the project. *)

Payments == {"approve", "disburse", "receive", "cancel sale"}
PaysFromAccount == \A r \in Requests : req[r].pc \in Payments => req[r].account \in Accounts
SoldIntoAccount == \A d \in Docs : doc[d].status = "completed" => doc[d].account \in Accounts
AdjustAllowed   == \A r \in Requests : req[r].pc = "adjust" => "adjust" \in Ops
CashInv == TypeOK /\ PaysFromAccount /\ SoldIntoAccount /\ AdjustAllowed

\* What a request still at work holds, for the steps that use it.
LEMMA TakenByStage ==
  ASSUME TypeOK, NEW r \in Requests
  PROVE  /\ req[r].pc \in DocSteps =>
              /\ req[r].doc \in Docs /\ req[r].row \in DocRow /\ req[r].row.amount \in Nat
              /\ req[r].user \in Users \cup {Nobody}
              /\ req[r].account \in Accounts \cup {NoAccount}
         /\ req[r].pc \in {"transfer", "adjust"} =>
              /\ req[r].from \in Accounts /\ req[r].to \in Accounts
              /\ req[r].amount \in Nat /\ req[r].sign \in {1, -1}
  <1>1. req[r] \in Request
    BY DEF TypeOK
  <1>2. ASSUME req[r].pc \in DocSteps
        PROVE  /\ req[r].doc \in Docs /\ req[r].row \in DocRow /\ req[r].row.amount \in Nat
               /\ req[r].user \in Users \cup {Nobody}
               /\ req[r].account \in Accounts \cup {NoAccount}
    <2>1. req[r] \in DocReq
      BY <1>1, <1>2, RequestByStage
    <2> QED BY <2>1, AmountsAreNat DEF DocReq
  <1>3. ASSUME req[r].pc \in {"transfer", "adjust"}
        PROVE  /\ req[r].from \in Accounts /\ req[r].to \in Accounts
               /\ req[r].amount \in Nat /\ req[r].sign \in {1, -1}
    <2>1. req[r] \in CashReq
      BY <1>1, <1>3, RequestByStage
    <2> QED BY <2>1, AmountsAreNat DEF CashReq
  <1> QED BY <1>2, <1>3

-----------------------------------------------------------------------------
(* How cash moves: every step leaves the accounts alone, or posts one line *)
(* on one account, or the two lines of a transfer.                         *)

EntryFor == Docs \cup {"transfer", "adjustment", "income"}

OneLine ==
  \E what \in EntryFor, type \in {"original", "reversal"}, a \in Accounts, n \in Int :
    /\ Post(what, type, On(a, n))
    /\ n >= 0 \/ balance[a] + n >= 0 \/ "adjust" \in Ops
Carried(a, b, n) == [c \in Accounts |-> IF c = a THEN -n ELSE IF c = b THEN n ELSE 0]
TwoLines ==
  \E a \in Accounts, b \in Accounts, n \in Nat :
    /\ a # b /\ balance[a] >= n
    /\ Post("transfer", "original", Carried(a, b, n))
Moves == UNCHANGED <<balance, statement>> \/ OneLine \/ TwoLines

\* A debit made while the account holds the amount.
LEMMA DebitIsOneLine ==
  ASSUME TypeOK, NEW what \in EntryFor, NEW type \in {"original", "reversal"},
         NEW a \in Accounts, NEW n \in Int, Affords(a, n), Post(what, type, On(a, -n))
  PROVE  OneLine
  <1>1. -n \in Int /\ balance[a] \in Int /\ balance[a] + (-n) >= 0
    BY DEF TypeOK, Affords
  <1> QED BY <1>1 DEF OneLine

LEMMA CreditIsOneLine ==
  ASSUME NEW what \in EntryFor, NEW type \in {"original", "reversal"},
         NEW a \in Accounts, NEW n \in Nat, Post(what, type, On(a, n))
  PROVE  OneLine
  <1>1. n \in Int /\ n >= 0
    OBVIOUS
  <1> QED BY <1>1 DEF OneLine

LEMMA PaymentsMove ==
  ASSUME CashInv, NEW r \in Requests, NEW type \in {"original", "reversal"},
         req[r].pc \in Payments, Affords(req[r].account, req[r].row.amount),
         Post(req[r].doc, type, On(req[r].account, -req[r].row.amount))
  PROVE  OneLine
  <1>1. req[r].pc \in DocSteps
    BY DEF Payments, DocSteps
  <1>2. req[r].account \in Accounts
    BY DEF CashInv, PaysFromAccount
  <1>3. req[r].doc \in EntryFor /\ req[r].row.amount \in Int
    BY <1>1, TakenByStage DEF EntryFor, CashInv
  <1> QED BY <1>2, <1>3, DebitIsOneLine DEF CashInv

LEMMA ReverseMoves ==
  ASSUME CashInv, NEW d \in Docs, Reverse(d)
  PROVE  OneLine
  <1>0. PICK a \in Accounts : \E i \in DOMAIN statement[a] :
          /\ Reversible(d, a, i)
          /\ Post(d, "reversal", On(a, -statement[a][i].amount))
    BY DEF Reverse
  <1>1. PICK i \in DOMAIN statement[a] :
          /\ Reversible(d, a, i)
          /\ Post(d, "reversal", On(a, -statement[a][i].amount))
    BY <1>0
  <1>2. /\ statement[a][i].amount \in Int /\ doc[d].amount \in Nat /\ d \in EntryFor
    <2>1. statement[a][i] \in EntryRow
      BY DEF CashInv, TypeOK
    <2> QED BY <2>1, AmountsAreNat DEF CashInv, TypeOK, EntryRow, EntryFor
  <1>3. CASE d \in Expenses
    <2>1. -statement[a][i].amount = doc[d].amount
      BY <1>1, <1>2, <1>3 DEF Reversible
    <2> QED BY <1>1, <1>2, <2>1, CreditIsOneLine
  <1>4. CASE d \notin Expenses
    <2>1. Affords(a, statement[a][i].amount)
      BY <1>1, <1>4 DEF Reversible
    <2> QED BY <1>1, <1>2, <2>1, DebitIsOneLine DEF CashInv
  <1> QED BY <1>3, <1>4

LEMMA TransferMoves ==
  ASSUME CashInv, NEW r \in Requests, CommitTransfer(r)
  PROVE  OneLine \/ TwoLines
  <1> DEFINE q == req[r]
  <1>1. q.from \in Accounts /\ q.to \in Accounts /\ q.amount \in Nat
    BY TakenByStage DEF CommitTransfer, CashInv
  <1>2. Affords(q.from, q.amount) /\ Post("transfer", "original", TransferLines(q))
    BY DEF CommitTransfer
  <1>3. CASE q.from = q.to
    <2>1. TransferLines(q) = On(q.from, -q.amount)
      BY <1>3 DEF TransferLines, On
    <2> QED BY <1>1, <1>2, <2>1, DebitIsOneLine DEF CashInv, EntryFor
  <1>4. CASE q.from # q.to
    BY <1>1, <1>2, <1>4 DEF TwoLines, Carried, TransferLines, Affords
  <1> QED BY <1>3, <1>4

LEMMA AdjustMoves ==
  ASSUME CashInv, NEW r \in Requests, CommitAdjust(r)
  PROVE  OneLine
  <1>1. /\ req[r].from \in Accounts /\ req[r].amount \in Nat /\ req[r].sign \in {1, -1}
    BY TakenByStage DEF CommitAdjust, CashInv
  <1>2. req[r].sign * req[r].amount \in Int
    BY <1>1
  <1>3. "adjust" \in Ops
    BY DEF CommitAdjust, CashInv, AdjustAllowed
  <1> QED BY <1>1, <1>2, <1>3 DEF OneLine, CommitAdjust, EntryFor

RecordsMove(e, u) == RecordExpense(e, u) \/ SaveReviewed(e, u) \/ SubmitDraft(e, u)

LEMMA RecordsMoveCash ==
  ASSUME CashInv, NEW e \in Expenses, NEW u \in Users, RecordsMove(e, u)
  PROVE  UNCHANGED <<balance, statement>> \/ OneLine
  <1>1. e \in EntryFor /\ doc[e].amount \in Nat
    BY AmountsAreNat DEF EntryFor, Docs, CashInv, TypeOK
  <1>2. ASSUME NEW a \in Accounts, NEW n \in Nat, Affords(a, n), Post(e, "original", On(a, -n))
        PROVE  OneLine
    BY <1>1, <1>2, DebitIsOneLine DEF CashInv
  <1>3. CASE RecordExpense(e, u)
    BY <1>2, <1>3, AmountsAreNat DEF RecordExpense, RecordPaid, RecordUnpaid
  <1>4. CASE SaveReviewed(e, u)
    BY <1>2, <1>4, AmountsAreNat DEF SaveReviewed, RecordPaid, RecordUnpaid
  <1>5. CASE SubmitDraft(e, u)
    BY <1>1, <1>2, <1>5 DEF SubmitDraft
  <1> QED BY <1>3, <1>4, <1>5 DEF RecordsMove

\* Every step moves cash in one of these ways, or not at all.
LEMMA StepsMove ==
  ASSUME CashInv, Next
  PROVE  Moves
  <1>1. ASSUME NEW e \in Expenses, NEW u \in Users, RecordsMove(e, u)
        PROVE  Moves
    BY <1>1, RecordsMoveCash DEF Moves
  <1>2. ASSUME NEW r \in Requests, NEW e \in Expenses, NEW u \in Users,
               StartApprove(r, e, u) \/ StartReject(r, e, u) \/ StartDisburse(r, e, u)
        PROVE  Moves
    BY <1>2 DEF StartApprove, StartReject, StartDisburse, Take, Moves
  <1>3. ASSUME NEW r \in Requests, CommitApprove(r)
        PROVE  Moves
    BY <1>3, PaymentsMove DEF CommitApprove, Pay, Payments, Moves
  <1>4. ASSUME NEW r \in Requests, CommitDisburse(r)
        PROVE  Moves
    BY <1>4, PaymentsMove DEF CommitDisburse, Pay, Payments, Moves
  <1>5. ASSUME NEW r \in Requests, CommitReject(r) \/ CommitCancelPurchase(r) \/ GiveUp(r)
        PROVE  Moves
    BY <1>5 DEF CommitReject, CommitCancelPurchase, GiveUp, Moves
  <1>6. ASSUME NEW d \in Expenses \cup Incomes, Reverse(d)
        PROVE  Moves
    BY <1>6, ReverseMoves DEF Docs, Moves
  <1>7. ASSUME NEW s \in Sales, RecordSale(s)
        PROVE  Moves
    <2>1. s \in EntryFor
      BY DEF EntryFor, Docs
    <2> QED BY <1>7, <2>1, AmountsAreNat, CreditIsOneLine DEF RecordSale, Moves
  <1>8. ASSUME NEW i \in Incomes, RecordIncome(i)
        PROVE  Moves
    <2>1. i \in EntryFor
      BY DEF EntryFor, Docs
    <2> QED BY <1>8, <2>1, AmountsAreNat, CreditIsOneLine DEF RecordIncome, Moves
  <1>9. ASSUME NEW p \in Purchases, OrderPurchase(p)
        PROVE  Moves
    BY <1>9 DEF OrderPurchase, Moves
  <1>10. ASSUME NEW r \in Requests, NEW s \in Sales, StartCancelSale(r, s)
         PROVE  Moves
    BY <1>10 DEF StartCancelSale, Take, Moves
  <1>11. ASSUME NEW r \in Requests, NEW p \in Purchases,
                StartReceive(r, p) \/ StartCancelPurchase(r, p)
         PROVE  Moves
    BY <1>11 DEF StartReceive, StartCancelPurchase, Take, Moves
  <1>12. ASSUME NEW r \in Requests, CommitCancelSale(r)
         PROVE  Moves
    BY <1>12, PaymentsMove DEF CommitCancelSale, Payments, Moves
  <1>13. ASSUME NEW r \in Requests, CommitReceive(r)
         PROVE  Moves
    BY <1>13, PaymentsMove DEF CommitReceive, Pay, Payments, Moves
  <1>14. ASSUME NEW r \in Requests, StartTransfer(r) \/ StartAdjust(r)
         PROVE  Moves
    BY <1>14 DEF StartTransfer, StartAdjust, Moves
  <1>15. ASSUME NEW r \in Requests, CommitTransfer(r) \/ CommitAdjust(r)
         PROVE  Moves
    BY <1>15, TransferMoves, AdjustMoves DEF Moves
  <1>16. CASE ExpenseNext
    BY <1>16, <1>1, <1>2, <1>3, <1>4, <1>5, <1>6 DEF ExpenseNext, RecordsMove
  <1>17. CASE TradeNext
    BY <1>17, <1>5, <1>7, <1>8, <1>9, <1>10, <1>11, <1>12, <1>13, <1>14, <1>15 DEF TradeNext
  <1>18. CASE \E r \in Requests : GiveUp(r)
    BY <1>18, <1>5
  <1> QED BY <1>16, <1>17, <1>18 DEF Next

-----------------------------------------------------------------------------
(* Type correctness. *)

CashTyped ==
  /\ balance \in [Accounts -> Int]
  /\ \A a \in Accounts : balance[a] \in (-MaxBalance - 1)..MaxBalance
  /\ statement \in [Accounts -> Seq(EntryRow)]

LEMMA PostTyped ==
  ASSUME CashTyped, NEW what \in EntryFor, NEW type \in {"original", "reversal"},
         NEW lines \in [Accounts -> Int], Post(what, type, lines)
  PROVE  CashTyped'
  <1>1. \A a \in Accounts : balance[a] + lines[a] \in Int
    BY DEF CashTyped
  <1>2. balance' \in [Accounts -> Int]
    BY <1>1 DEF Post
  <1>3. \A a \in Accounts : balance'[a] \in (-MaxBalance - 1)..MaxBalance
    BY DEF Post
  <1>4. ASSUME NEW a \in Accounts
        PROVE  statement'[a] \in Seq(EntryRow)
    <2> DEFINE e == [for |-> what, type |-> type, amount |-> lines[a],
                     after |-> balance[a] + lines[a]]
    <2>1. e \in EntryRow
      BY <1>1 DEF EntryRow, EntryFor
    <2>2. statement[a] \in Seq(EntryRow)
      BY DEF CashTyped
    <2>3. Append(statement[a], e) \in Seq(EntryRow)
      BY <2>1, <2>2
    <2> QED BY <2>2, <2>3 DEF Post
  <1>5. statement' \in [Accounts -> Seq(EntryRow)]
    BY <1>4 DEF Post
  <1> QED BY <1>2, <1>3, <1>5 DEF CashTyped

LEMMA LinesTyped ==
  /\ \A a \in Accounts, n \in Int : On(a, n) \in [Accounts -> Int]
  /\ \A a \in Accounts, b \in Accounts, n \in Nat :
       Carried(a, b, n) \in [Accounts -> Int]
  BY DEF On, Carried

LEMMA MovesTyped ==
  ASSUME CashTyped, Moves
  PROVE  CashTyped'
  <1>1. CASE UNCHANGED <<balance, statement>>
    BY <1>1 DEF CashTyped
  <1>2. CASE OneLine
    BY <1>2, LinesTyped, PostTyped DEF OneLine
  <1>3. CASE TwoLines
    BY <1>3, LinesTyped, PostTyped DEF TwoLines, EntryFor
  <1> QED BY <1>1, <1>2, <1>3 DEF Moves

DocTyped == doc \in [Docs -> DocRow] /\ SoldIntoAccount
ReqTyped == req \in [Requests -> Request] /\ PaysFromAccount /\ AdjustAllowed

LEMMA RowWritten ==
  ASSUME DocTyped, NEW d \in Docs, NEW row \in DocRow,
         row.status = "completed" => row.account \in Accounts,
         doc' = [doc EXCEPT ![d] = row]
  PROVE  DocTyped'
  BY DEF DocTyped, SoldIntoAccount

LEMMA BecomesIdle ==
  ASSUME ReqTyped, NEW r \in Requests, Become(r, Idle)
  PROVE  ReqTyped'
  <1>1. Idle \in Request /\ Idle.pc = "idle"
    BY DEF Request, Idle
  <1> QED BY <1>1 DEF ReqTyped, Become, PaysFromAccount, AdjustAllowed, Payments

LEMMA Takes ==
  ASSUME ReqTyped, DocTyped, NEW r \in Requests, NEW pc \in DocSteps, NEW d \in Docs,
         NEW u \in Users \cup {Nobody}, NEW a \in Accounts \cup {NoAccount},
         pc \in Payments => a \in Accounts, Take(r, pc, d, u, a)
  PROVE  ReqTyped' /\ DocTyped'
  <1> DEFINE q == [pc |-> pc, doc |-> d, row |-> doc[d], user |-> u, account |-> a]
  <1>1. q \in DocReq /\ q.pc = pc /\ q.account = a
    BY DEF DocReq, DocTyped
  <1>2. q \in Request /\ q.pc # "adjust"
    BY <1>1 DEF Request, DocSteps
  <1> HIDE DEF q
  <1>3. req' = [req EXCEPT ![r] = q]
    BY DEF Take, Become, q
  <1>4. ReqTyped'
    BY <1>1, <1>2, <1>3 DEF ReqTyped, PaysFromAccount, AdjustAllowed
  <1>5. DocTyped'
    BY DEF Take, DocTyped, SoldIntoAccount
  <1> QED BY <1>4, <1>5

LEMMA RequestsForCash ==
  ASSUME ReqTyped, balance \in [Accounts -> Int], NEW r \in Requests,
         StartTransfer(r) \/ StartAdjust(r)
  PROVE  ReqTyped'
  <1>1. CASE StartTransfer(r)
    <2>1. PICK a \in Accounts, b \in Accounts, n \in Amounts :
            Become(r, [pc |-> "transfer", from |-> a, to |-> b, amount |-> n, sign |-> 1,
                       seen |-> balance[a]])
      BY <1>1 DEF StartTransfer
    <2> DEFINE q == [pc |-> "transfer", from |-> a, to |-> b, amount |-> n, sign |-> 1,
                     seen |-> balance[a]]
    <2>2. q \in CashReq /\ q.pc = "transfer"
      BY DEF CashReq
    <2>3. q \in Request /\ q.pc \notin Payments
      BY <2>2 DEF Request, Payments
    <2> QED BY <2>1, <2>2, <2>3 DEF ReqTyped, Become, PaysFromAccount, AdjustAllowed
  <1>2. CASE StartAdjust(r)
    <2>1. PICK a \in Accounts, n \in Amounts, sign \in {1, -1} :
            Become(r, [pc |-> "adjust", from |-> a, to |-> a, amount |-> n, sign |-> sign,
                       seen |-> balance[a]])
      BY <1>2 DEF StartAdjust
    <2> DEFINE q == [pc |-> "adjust", from |-> a, to |-> a, amount |-> n, sign |-> sign,
                     seen |-> balance[a]]
    <2>2. q \in CashReq /\ q.pc = "adjust" /\ "adjust" \in Ops
      BY <1>2 DEF CashReq, StartAdjust
    <2>3. q \in Request /\ q.pc \notin Payments
      BY <2>2 DEF Request, Payments
    <2> QED BY <2>1, <2>2, <2>3 DEF ReqTyped, Become, PaysFromAccount, AdjustAllowed
  <1> QED BY <1>1, <1>2

Sound(row) == row \in DocRow /\ (row.status = "completed" => row.account \in Accounts)

LEMMA RecordedSound ==
  ASSUME NEW status \in Statuses \ {"completed"}, NEW u \in Users, NEW n \in Amounts,
         NEW a \in Accounts \cup {NoAccount}, NEW repeats \in BOOLEAN
  PROVE  Sound(Recorded(status, u, a, n, repeats))
  BY DEF Sound, Recorded, NoDoc, DocRow, Statuses

LEMMA WrittenSound ==
  ASSUME NEW status \in Statuses, NEW n \in Amounts, NEW a \in Accounts \cup {NoAccount},
         NEW from \in Accounts \cup {NoAccount}, status = "completed" => a \in Accounts
  PROVE  Sound(Written(status, a, n, from))
  BY DEF Sound, Written, NoDoc, DocRow, Statuses

\* A change of status alone.
LEMMA StatusSound ==
  ASSUME NEW row \in DocRow, NEW status \in Statuses \ {"completed"}
  PROVE  Sound([row EXCEPT !.status = status])
  BY DEF Sound, DocRow

LEMMA RecordsTyped ==
  ASSUME ReqTyped, DocTyped, NEW e \in Expenses, NEW u \in Users, RecordsMove(e, u)
  PROVE  ReqTyped' /\ DocTyped'
  <1>1. e \in Docs
    BY DEF Docs
  <1>2. ReqTyped'
    BY DEF RecordsMove, RecordExpense, SaveReviewed, SubmitDraft, ReqTyped, PaysFromAccount,
           AdjustAllowed
  <1>3. \E row \in DocRow : Sound(row) /\ doc' = [doc EXCEPT ![e] = row]
    <2>0. ASSUME NEW status \in {"paid", "approved", "pending", "draft"}, NEW n \in Amounts,
                 NEW a \in Accounts \cup {NoAccount}, NEW repeats \in BOOLEAN,
                 doc' = [doc EXCEPT ![e] = Recorded(status, u, a, n, repeats)]
          PROVE  \E row \in DocRow : Sound(row) /\ doc' = [doc EXCEPT ![e] = row]
      <3>1. status \in Statuses \ {"completed"}
        BY DEF Statuses
      <3>2. Sound(Recorded(status, u, a, n, repeats))
        BY <3>1, RecordedSound
      <3> QED BY <2>0, <3>2 DEF Sound
    <2>1. CASE RecordExpense(e, u)
      <3>1. PICK a \in Accounts, n \in Amounts :
              \/ RecordPaid(e, u, a, n)
              \/ RecordUnpaid(e, Recorded(IF "accountant" \in Roles[u] THEN "approved"
                                          ELSE "pending", u, a, n, FALSE))
              \/ RecordUnpaid(e, Recorded("pending", u, a, n, TRUE))
        BY <2>1 DEF RecordExpense
      <3>2. CASE RecordPaid(e, u, a, n)
        BY <3>2, <2>0 DEF RecordPaid
      <3>3. CASE RecordUnpaid(e, Recorded(IF "accountant" \in Roles[u] THEN "approved"
                                         ELSE "pending", u, a, n, FALSE))
        <4>1. (IF "accountant" \in Roles[u] THEN "approved" ELSE "pending")
                \in {"paid", "approved", "pending", "draft"}
          OBVIOUS
        <4> QED BY <3>3, <4>1, <2>0 DEF RecordUnpaid
      <3>4. CASE RecordUnpaid(e, Recorded("pending", u, a, n, TRUE))
        BY <3>4, <2>0 DEF RecordUnpaid
      <3> QED BY <3>1, <3>2, <3>3, <3>4
    <2>2. CASE SaveReviewed(e, u)
      BY <2>2, <2>0 DEF SaveReviewed, RecordPaid, RecordUnpaid
    <2>3. CASE SubmitDraft(e, u)
      <3>1. PICK a \in Accounts :
              \/ doc' = [doc EXCEPT ![e].status = "paid", ![e].account = a, ![e].paidFrom = a,
                                    ![e].approved = u, ![e].paid = u]
              \/ doc' = [doc EXCEPT ![e].status = "pending", ![e].account = a]
        BY <2>3 DEF SubmitDraft
      <3>2. CASE doc' = [doc EXCEPT ![e].status = "paid", ![e].account = a, ![e].paidFrom = a,
                                    ![e].approved = u, ![e].paid = u]
        <4> DEFINE row == [doc[e] EXCEPT !.status = "paid", !.account = a, !.paidFrom = a,
                                         !.approved = u, !.paid = u]
        <4>1. Sound(row) /\ row \in DocRow
          BY <1>1 DEF Sound, DocRow, DocTyped, Statuses
        <4>2. doc' = [doc EXCEPT ![e] = row]
          BY <3>2, <1>1 DEF DocTyped, DocRow
        <4> QED BY <4>1, <4>2
      <3>3. CASE doc' = [doc EXCEPT ![e].status = "pending", ![e].account = a]
        <4> DEFINE row == [doc[e] EXCEPT !.status = "pending", !.account = a]
        <4>1. Sound(row) /\ row \in DocRow
          BY <1>1 DEF Sound, DocRow, DocTyped, Statuses
        <4>2. doc' = [doc EXCEPT ![e] = row]
          BY <3>3, <1>1 DEF DocTyped, DocRow
        <4> QED BY <4>1, <4>2
      <3> QED BY <3>1, <3>2, <3>3
    <2> QED BY <2>1, <2>2, <2>3 DEF RecordsMove
  <1> QED BY <1>1, <1>2, <1>3, RowWritten DEF Sound

\* A handler writes the row of the document it took and is done.
LEMMA TakenWritten ==
  ASSUME ReqTyped, DocTyped, NEW r \in Requests, req[r].pc \in DocSteps, Become(r, Idle),
         NEW row \in DocRow, Sound(row), doc' = [doc EXCEPT ![req[r].doc] = row]
  PROVE  ReqTyped' /\ DocTyped'
  <1>1. req[r].doc \in Docs
    BY RequestByStage DEF ReqTyped, DocReq
  <1> QED BY <1>1, BecomesIdle, RowWritten DEF Sound

LEMMA CommitsTyped ==
  ASSUME ReqTyped, DocTyped, NEW r \in Requests,
         \/ CommitApprove(r) \/ CommitDisburse(r) \/ CommitReject(r) \/ CommitReceive(r)
         \/ CommitCancelPurchase(r) \/ CommitCancelSale(r)
  PROVE  ReqTyped' /\ DocTyped'
  <1> DEFINE d == req[r].doc
             q == req[r]
  <1>1. q.pc \in DocSteps /\ Become(r, Idle)
    BY DEF CommitApprove, CommitDisburse, CommitReject, CommitReceive, CommitCancelPurchase,
           CommitCancelSale, Pay, DocSteps
  <1>2. q \in DocReq
    BY <1>1, RequestByStage DEF ReqTyped
  <1>3. d \in Docs /\ doc[d] \in DocRow /\ q.user \in Users \cup {Nobody}
    BY <1>2 DEF DocReq, DocTyped
  <1>4. q.pc \in Payments => q.account \in Accounts
    BY DEF ReqTyped, PaysFromAccount
  <1>5. CASE CommitApprove(r)
    <2> DEFINE row == [doc[d] EXCEPT !.status = "paid", !.approved = q.user,
                                     !.paid = q.user, !.paidFrom = q.account]
    <2>1. Sound(row) /\ row \in DocRow
      BY <1>3, <1>4, <1>5 DEF Sound, DocRow, Statuses, Payments, CommitApprove
    <2>2. doc' = [doc EXCEPT ![d] = row]
      BY <1>5 DEF CommitApprove, Pay
    <2> QED BY <1>1, <2>1, <2>2, TakenWritten
  <1>6. CASE CommitDisburse(r)
    <2> DEFINE row == [doc[d] EXCEPT !.status = "paid", !.paid = q.user,
                                     !.paidFrom = q.account]
    <2>1. Sound(row) /\ row \in DocRow
      BY <1>3, <1>4, <1>6 DEF Sound, DocRow, Statuses, Payments, CommitDisburse
    <2>2. doc' = [doc EXCEPT ![d] = row]
      BY <1>6 DEF CommitDisburse, Pay
    <2> QED BY <1>1, <2>1, <2>2, TakenWritten
  <1>7. CASE CommitReceive(r)
    <2> DEFINE row == [doc[d] EXCEPT !.status = "received", !.account = q.account,
                                     !.paidFrom = q.account]
    <2>1. Sound(row) /\ row \in DocRow
      BY <1>3, <1>4, <1>7 DEF Sound, DocRow, Statuses, Payments, CommitReceive
    <2>2. doc' = [doc EXCEPT ![d] = row]
      BY <1>7 DEF CommitReceive, Pay
    <2> QED BY <1>1, <2>1, <2>2, TakenWritten
  <1>8. ASSUME NEW status \in {"rejected", "cancelled"}, doc' = [doc EXCEPT ![d].status = status]
        PROVE  ReqTyped' /\ DocTyped'
    <2> DEFINE row == [doc[d] EXCEPT !.status = status]
    <2>1. status \in Statuses \ {"completed"}
      BY DEF Statuses
    <2>2. Sound(row) /\ row \in DocRow
      BY <1>3, <2>1, StatusSound DEF Sound
    <2>3. doc' = [doc EXCEPT ![d] = row]
      BY <1>8, <1>3 DEF DocTyped
    <2> QED BY <1>1, <2>2, <2>3, TakenWritten
  <1>9. CASE CommitReject(r)
    BY <1>8, <1>9 DEF CommitReject
  <1>10. CASE CommitCancelPurchase(r) \/ CommitCancelSale(r)
    BY <1>8, <1>10 DEF CommitCancelPurchase, CommitCancelSale
  <1> QED BY <1>5, <1>6, <1>7, <1>9, <1>10

LEMMA StartsTyped ==
  ASSUME CashInv, NEW r \in Requests
  PROVE  /\ \A e \in Expenses, u \in Users :
              (StartApprove(r, e, u) \/ StartReject(r, e, u) \/ StartDisburse(r, e, u))
                => ReqTyped' /\ DocTyped'
         /\ \A s \in Sales : StartCancelSale(r, s) => ReqTyped' /\ DocTyped'
         /\ \A p \in Purchases : (StartReceive(r, p) \/ StartCancelPurchase(r, p))
                => ReqTyped' /\ DocTyped'
  <1>0. ReqTyped /\ DocTyped
    BY DEF CashInv, ReqTyped, DocTyped, TypeOK
  <1>1. ASSUME NEW d \in Docs, NEW u \in Users \cup {Nobody}, NEW a \in Accounts,
               NEW pc \in DocSteps, Take(r, pc, d, u, a)
        PROVE  ReqTyped' /\ DocTyped'
    BY <1>0, <1>1, Takes
  <1>2. ASSUME NEW d \in Docs, NEW u \in Users \cup {Nobody},
               NEW pc \in {"reject", "cancel purchase"}, Take(r, pc, d, u, NoAccount)
        PROVE  ReqTyped' /\ DocTyped'
    <2>1. pc \in DocSteps /\ pc \notin Payments
      BY DEF DocSteps, Payments
    <2> QED BY <1>0, <1>2, <2>1, Takes
  <1>3. \A d \in Docs : doc[d].account \in Accounts \cup {NoAccount}
    BY DEF CashInv, TypeOK, DocRow
  <1>4. ASSUME NEW e \in Expenses, NEW u \in Users
        PROVE  (StartApprove(r, e, u) \/ StartReject(r, e, u) \/ StartDisburse(r, e, u))
                 => ReqTyped' /\ DocTyped'
    <2>1. e \in Docs
      BY DEF Docs
    <2>2. StartApprove(r, e, u) => ReqTyped' /\ DocTyped'
      BY <1>1, <1>3, <2>1 DEF StartApprove, DocSteps
    <2>3. StartReject(r, e, u) => ReqTyped' /\ DocTyped'
      BY <1>2, <2>1 DEF StartReject
    <2>4. StartDisburse(r, e, u) => ReqTyped' /\ DocTyped'
      BY <1>1, <2>1 DEF StartDisburse, DocSteps
    <2> QED BY <2>2, <2>3, <2>4
  <1>5. ASSUME NEW s \in Sales, StartCancelSale(r, s)
        PROVE  ReqTyped' /\ DocTyped'
    <2>1. s \in Docs
      BY DEF Docs
    <2>2. doc[s].account \in Accounts
      BY <1>5, <2>1 DEF StartCancelSale, CashInv, SoldIntoAccount
    <2> QED BY <1>1, <1>5, <2>1, <2>2 DEF StartCancelSale, DocSteps
  <1>6. ASSUME NEW p \in Purchases, StartReceive(r, p) \/ StartCancelPurchase(r, p)
        PROVE  ReqTyped' /\ DocTyped'
    <2>1. p \in Docs
      BY DEF Docs
    <2>2. StartReceive(r, p) => ReqTyped' /\ DocTyped'
      BY <1>1, <2>1 DEF StartReceive, DocSteps
    <2>3. StartCancelPurchase(r, p) => ReqTyped' /\ DocTyped'
      BY <1>2, <2>1 DEF StartCancelPurchase
    <2> QED BY <1>6, <2>2, <2>3
  <1> QED BY <1>4, <1>5, <1>6

LEMMA WritesTyped ==
  ASSUME ReqTyped, DocTyped, UNCHANGED req, NEW d \in Docs
  PROVE  /\ d \in Sales /\ RecordSale(d) => ReqTyped' /\ DocTyped'
         /\ d \in Purchases /\ OrderPurchase(d) => ReqTyped' /\ DocTyped'
         /\ d \in Incomes /\ RecordIncome(d) => ReqTyped' /\ DocTyped'
         /\ Reverse(d) => ReqTyped' /\ DocTyped'
  <1>1. ReqTyped'
    BY DEF ReqTyped, PaysFromAccount, AdjustAllowed
  <1>2. ASSUME NEW status \in {"completed", "ordered", "posted"}, NEW n \in Amounts,
               NEW a \in Accounts \cup {NoAccount}, NEW from \in Accounts \cup {NoAccount},
               status = "completed" => a \in Accounts,
               doc' = [doc EXCEPT ![d] = Written(status, a, n, from)]
        PROVE  DocTyped'
    <2>1. status \in Statuses
      BY DEF Statuses
    <2>2. Sound(Written(status, a, n, from))
      BY <1>2, <2>1, WrittenSound
    <2> QED BY <1>2, <2>2, RowWritten DEF Sound
  <1>3. ASSUME Reverse(d)
        PROVE  DocTyped'
    <2>1. doc[d] \in DocRow /\ "reversed" \in Statuses \ {"completed"}
      BY DEF DocTyped, Statuses
    <2>2. Sound([doc[d] EXCEPT !.status = "reversed"])
      BY <2>1, StatusSound
    <2>3. doc' = [doc EXCEPT ![d] = [doc[d] EXCEPT !.status = "reversed"]]
      BY <1>3 DEF Reverse, DocTyped
    <2> QED BY <2>2, <2>3, RowWritten DEF Sound
  <1>4. ASSUME RecordSale(d)
        PROVE  DocTyped'
    BY <1>2, <1>4 DEF RecordSale
  <1>5. ASSUME OrderPurchase(d)
        PROVE  DocTyped'
    BY <1>2, <1>5 DEF OrderPurchase
  <1>6. ASSUME RecordIncome(d)
        PROVE  DocTyped'
    BY <1>2, <1>6 DEF RecordIncome
  <1> QED BY <1>1, <1>3, <1>4, <1>5, <1>6

LEMMA CashInvInit == Init => CashInv
  <1> SUFFICES ASSUME Init PROVE CashInv
    OBVIOUS
  <1>1. balance \in [Accounts -> Int]
        /\ \A a \in Accounts : balance[a] \in (-MaxBalance - 1)..MaxBalance
    BY CashAssumption DEF CashAssumption, Init
  <1>2. ASSUME NEW a \in Accounts
        PROVE  Opened(a) \in Seq(EntryRow)
    <2>1. Opening[a] \in Int
      BY CashAssumption DEF CashAssumption
    <2>2. [for |-> "income", type |-> "original", amount |-> Opening[a], after |-> Opening[a]]
            \in EntryRow
      BY <2>1 DEF EntryRow
    <2> QED BY <2>2 DEF Opened
  <1>3. statement \in [Accounts -> Seq(EntryRow)]
    BY <1>2 DEF Init
  <1>4. NoDoc \in DocRow /\ NoDoc.status = "none"
    BY DEF NoDoc, DocRow, Statuses
  <1>5. Idle \in Request /\ Idle.pc = "idle"
    BY DEF Request, Idle
  <1> QED BY <1>1, <1>3, <1>4, <1>5
          DEF Init, CashInv, TypeOK, PaysFromAccount, SoldIntoAccount, AdjustAllowed, Payments

LEMMA CashInvStep == CashInv /\ [Next]_vars => CashInv'
  <1> SUFFICES ASSUME CashInv, [Next]_vars PROVE CashInv'
    OBVIOUS
  <1>0. CashTyped /\ ReqTyped /\ DocTyped
    BY DEF CashInv, TypeOK, CashTyped, ReqTyped, DocTyped
  <1> DEFINE Typed == ReqTyped /\ DocTyped
  <1>1. CASE UNCHANGED vars
    BY <1>1 DEF vars, CashInv, TypeOK, PaysFromAccount, SoldIntoAccount, AdjustAllowed
  <1>2. CASE Next
    <2>1. CashTyped'
      BY <1>0, <1>2, StepsMove, MovesTyped
    <2>2. ASSUME NEW e \in Expenses, NEW u \in Users, RecordsMove(e, u)
          PROVE  Typed'
      BY <1>0, <2>2, RecordsTyped
    <2>3. ASSUME NEW r \in Requests, NEW e \in Expenses, NEW u \in Users,
                 StartApprove(r, e, u) \/ StartReject(r, e, u) \/ StartDisburse(r, e, u)
          PROVE  Typed'
      BY <2>3, StartsTyped
    <2>4. ASSUME NEW r \in Requests, NEW s \in Sales, StartCancelSale(r, s)
          PROVE  Typed'
      BY <2>4, StartsTyped
    <2>5. ASSUME NEW r \in Requests, NEW p \in Purchases,
                 StartReceive(r, p) \/ StartCancelPurchase(r, p)
          PROVE  Typed'
      BY <2>5, StartsTyped
    <2>6. ASSUME NEW r \in Requests,
                 \/ CommitApprove(r) \/ CommitDisburse(r) \/ CommitReject(r) \/ CommitReceive(r)
                 \/ CommitCancelPurchase(r) \/ CommitCancelSale(r)
          PROVE  Typed'
      BY <1>0, <2>6, CommitsTyped
    <2>7. ASSUME NEW d \in Docs,
                 \/ d \in Sales /\ RecordSale(d)
                 \/ d \in Purchases /\ OrderPurchase(d)
                 \/ d \in Incomes /\ RecordIncome(d)
                 \/ Reverse(d)
          PROVE  Typed'
      <3>1. UNCHANGED req
        BY <2>7 DEF RecordSale, OrderPurchase, RecordIncome, Reverse
      <3> QED BY <1>0, <2>7, <3>1, WritesTyped
    <2>8. ASSUME NEW r \in Requests, StartTransfer(r) \/ StartAdjust(r)
          PROVE  Typed'
      <3>1. UNCHANGED doc
        BY <2>8 DEF StartTransfer, StartAdjust
      <3> QED BY <1>0, <2>8, <3>1, RequestsForCash DEF CashTyped, DocTyped, SoldIntoAccount
    <2>9. ASSUME NEW r \in Requests, CommitTransfer(r) \/ CommitAdjust(r) \/ GiveUp(r)
          PROVE  Typed'
      <3>1. UNCHANGED doc /\ Become(r, Idle)
        BY <2>9 DEF CommitTransfer, CommitAdjust, GiveUp
      <3> QED BY <1>0, <3>1, BecomesIdle DEF DocTyped, SoldIntoAccount
    <2>10. ASSUME ExpenseNext PROVE Typed'
      BY <2>10, <2>2, <2>3, <2>6, <2>7 DEF ExpenseNext, RecordsMove, Docs
    <2>11. ASSUME TradeNext PROVE Typed'
      BY <2>11, <2>4, <2>5, <2>6, <2>7, <2>8, <2>9 DEF TradeNext, Docs
    <2>12. ASSUME \E r \in Requests : GiveUp(r) PROVE Typed'
      BY <2>12, <2>9
    <2>13. Typed'
      BY <1>2, <2>10, <2>11, <2>12 DEF Next
    <2> QED BY <2>1, <2>13 DEF CashInv, TypeOK, CashTyped, ReqTyped, DocTyped
  <1> QED BY <1>1, <1>2

THEOREM CashInvAlways == Spec => []CashInv
  BY CashInvInit, CashInvStep, PTL DEF Spec

\* Every table keeps to its type, and no balance leaves the range of the
\* database's integers, in every interleaving of the handlers.
THEOREM CashTypeCorrect == Spec => []TypeOK
  <1>1. CashInv => TypeOK
    BY DEF CashInv
  <1> QED BY <1>1, CashInvAlways, PTL

-----------------------------------------------------------------------------
(* The statement explains the balance. *)

LEMMA PostAgrees ==
  ASSUME CashTyped, StatementAgrees, NEW what \in EntryFor,
         NEW type \in {"original", "reversal"},
         NEW lines \in [Accounts -> Int], Post(what, type, lines)
  PROVE  StatementAgrees'
  <1> SUFFICES ASSUME NEW a \in Accounts
               PROVE  /\ \A i \in DOMAIN statement'[a] :
                           statement'[a][i].after = statement'[a][i].amount
                             + (IF i = 1 THEN 0 ELSE statement'[a][i - 1].after)
                      /\ balance'[a] = IF statement'[a] = <<>> THEN 0
                                       ELSE statement'[a][Len(statement'[a])].after
    BY DEF StatementAgrees
  <1> DEFINE s == statement[a]
             e == [for |-> what, type |-> type, amount |-> lines[a],
                   after |-> balance[a] + lines[a]]
  <1>1. /\ s \in Seq(EntryRow) /\ balance[a] \in Int /\ lines[a] \in Int
        /\ balance'[a] = balance[a] + lines[a]
        /\ statement'[a] = IF lines[a] = 0 THEN s ELSE Append(s, e)
    BY DEF CashTyped, Post
  <1>2. /\ \A i \in DOMAIN s : s[i].after = s[i].amount + (IF i = 1 THEN 0 ELSE s[i - 1].after)
        /\ balance[a] = IF s = <<>> THEN 0 ELSE s[Len(s)].after
    BY DEF StatementAgrees
  <1>3. CASE lines[a] = 0
    BY <1>1, <1>2, <1>3
  <1>4. CASE lines[a] # 0
    <2> DEFINE t == Append(s, e)
    <2>1. /\ Len(s) \in Nat /\ DOMAIN s = 1..Len(s) /\ Len(t) = Len(s) + 1
          /\ DOMAIN t = 1..(Len(s) + 1) /\ t # <<>>
          /\ \A i \in 1..Len(s) : t[i] = s[i]
          /\ t[Len(s) + 1] = e
      BY <1>1
    <2>2. e.after = balance[a] + lines[a] /\ e.amount = lines[a]
      OBVIOUS
    <2> HIDE DEF t, e
    <2>3. \A i \in 1..Len(s) : t[i].after = t[i].amount + (IF i = 1 THEN 0 ELSE t[i - 1].after)
      <3> TAKE i \in 1..Len(s)
      <3>1. t[i] = s[i] /\ (i # 1 => t[i - 1] = s[i - 1])
        BY <2>1
      <3> QED BY <1>2, <2>1, <3>1
    <2>4. t[Len(s) + 1].after = t[Len(s) + 1].amount
            + (IF Len(s) + 1 = 1 THEN 0 ELSE t[Len(s)].after)
      <3>1. CASE s = <<>>
        BY <1>1, <1>2, <2>1, <2>2, <3>1
      <3>2. CASE s # <<>>
        <4>1. Len(s) # 0 /\ t[Len(s)] = s[Len(s)]
          BY <1>1, <2>1, <3>2
        <4> QED BY <1>1, <1>2, <2>1, <2>2, <3>2, <4>1
      <3> QED BY <3>1, <3>2
    <2>5. \A i \in DOMAIN t : t[i].after = t[i].amount + (IF i = 1 THEN 0 ELSE t[i - 1].after)
      <3> TAKE i \in DOMAIN t
      <3>1. CASE i \in 1..Len(s)
        BY <2>3, <3>1
      <3>2. CASE i = Len(s) + 1
        BY <2>1, <2>4, <3>2
      <3> QED BY <2>1, <3>1, <3>2
    <2>6. statement'[a] = t /\ balance'[a] = t[Len(t)].after
      BY <1>1, <1>4, <2>1, <2>2 DEF t, e
    <2> QED BY <2>1, <2>5, <2>6
  <1> QED BY <1>3, <1>4

LEMMA MovesAgree ==
  ASSUME CashTyped, StatementAgrees, Moves
  PROVE  StatementAgrees'
  <1>1. CASE UNCHANGED <<balance, statement>>
    BY <1>1 DEF StatementAgrees
  <1>2. CASE OneLine
    BY <1>2, LinesTyped, PostAgrees DEF OneLine
  <1>3. CASE TwoLines
    BY <1>3, LinesTyped, PostAgrees DEF TwoLines, EntryFor
  <1> QED BY <1>1, <1>2, <1>3 DEF Moves

LEMMA OpenedAgrees == Init => StatementAgrees
  <1> SUFFICES ASSUME Init, NEW a \in Accounts
               PROVE  /\ \A i \in DOMAIN statement[a] :
                           statement[a][i].after = statement[a][i].amount
                             + (IF i = 1 THEN 0 ELSE statement[a][i - 1].after)
                      /\ balance[a] = IF statement[a] = <<>> THEN 0
                                      ELSE statement[a][Len(statement[a])].after
    BY DEF StatementAgrees
  <1>1. balance[a] = Opening[a] /\ statement[a] = Opened(a) /\ Opening[a] \in Int
    BY CashAssumption DEF Init, CashAssumption
  <1> QED BY <1>1 DEF Opened

\* Whatever handlers interleave, adjustments included, each line of an
\* account's statement carries the balance it led to and the last carries
\* the present one.
THEOREM StatementsAgree == Spec => []StatementAgrees
  <1>1. Init => StatementAgrees
    BY OpenedAgrees
  <1>2. CashInv /\ StatementAgrees /\ [Next]_vars => StatementAgrees'
    <2> SUFFICES ASSUME CashInv, StatementAgrees, [Next]_vars PROVE StatementAgrees'
      OBVIOUS
    <2>1. CASE UNCHANGED vars
      BY <2>1 DEF vars, StatementAgrees
    <2>2. CASE Next
      BY <2>2, StepsMove, MovesAgree DEF CashInv, TypeOK, CashTyped
    <2> QED BY <2>1, <2>2
  <1> QED BY <1>1, <1>2, CashInvAlways, PTL DEF Spec

-----------------------------------------------------------------------------
(* No account is overdrawn. *)

LEMMA NoneOverdrawnStep ==
  ASSUME CashTyped, NeverOverdrawn, Moves, "adjust" \notin Ops
  PROVE  NeverOverdrawn'
  <1>1. CASE UNCHANGED <<balance, statement>>
    BY <1>1 DEF NeverOverdrawn
  <1>2. CASE OneLine
    <2>1. PICK a \in Accounts, n \in Int :
            /\ balance' = [c \in Accounts |-> balance[c] + On(a, n)[c]]
            /\ n >= 0 \/ balance[a] + n >= 0
      BY <1>2 DEF OneLine, Post
    <2> QED BY <2>1 DEF On, NeverOverdrawn, CashTyped
  <1>3. CASE TwoLines
    <2>1. PICK a \in Accounts, b \in Accounts, n \in Nat :
            /\ balance' = [c \in Accounts |-> balance[c] + Carried(a, b, n)[c]]
            /\ balance[a] >= n
      BY <1>3 DEF TwoLines, Post
    <2> QED BY <2>1 DEF Carried, NeverOverdrawn, CashTyped
  <1> QED BY <1>1, <1>2, <1>3 DEF Moves

\* While nobody adjusts an account by hand, no interleaving of payments,
\* cancellations, reversals and transfers overdraws it.
THEOREM NoneOverdrawn ==
  ASSUME "adjust" \notin Ops
  PROVE  Spec => []NeverOverdrawn
  <1>1. Init => NeverOverdrawn
    BY CashAssumption DEF CashAssumption, Init, NeverOverdrawn
  <1>2. CashInv /\ NeverOverdrawn /\ [Next]_vars => NeverOverdrawn'
    <2> SUFFICES ASSUME CashInv, NeverOverdrawn, [Next]_vars
                 PROVE  NeverOverdrawn'
      OBVIOUS
    <2>1. CASE UNCHANGED vars
      BY <2>1 DEF vars, NeverOverdrawn
    <2>2. CASE Next
      BY <2>2, StepsMove, NoneOverdrawnStep DEF CashInv, TypeOK, CashTyped
    <2> QED BY <2>1, <2>2
  <1> QED BY <1>1, <1>2, CashInvAlways, PTL DEF Spec

-----------------------------------------------------------------------------
(* The accounts implement the account book. *)

\* Appending a line to a statement appends its amount to the book.
LEMMA AmountsAppend ==
  ASSUME NEW s \in Seq(EntryRow), NEW e \in EntryRow
  PROVE  [i \in DOMAIN Append(s, e) |-> Append(s, e)[i].amount]
           = Append([i \in DOMAIN s |-> s[i].amount], e.amount)
  <1> DEFINE f == [i \in DOMAIN s |-> s[i].amount]
             g == [i \in DOMAIN Append(s, e) |-> Append(s, e)[i].amount]
  <1>1. Len(s) \in Nat /\ DOMAIN s = 1..Len(s) /\ DOMAIN Append(s, e) = 1..(Len(s) + 1)
    OBVIOUS
  <1>2. \A i \in 1..Len(s) : s[i] \in EntryRow
    BY <1>1
  <1>3. f \in Seq(Int) /\ Len(f) = Len(s) /\ e.amount \in Int
    <2>1. f \in [1..Len(s) -> Int]
      BY <1>1, <1>2 DEF EntryRow
    <2> QED BY <1>1, <2>1 DEF EntryRow
  <1>4. /\ DOMAIN Append(f, e.amount) = 1..(Len(s) + 1)
        /\ \A i \in 1..Len(s) : Append(f, e.amount)[i] = f[i]
        /\ Append(f, e.amount)[Len(s) + 1] = e.amount
        /\ Append(f, e.amount) \in Seq(Int)
    BY <1>1, <1>3
  <1>5. /\ DOMAIN g = 1..(Len(s) + 1)
        /\ \A i \in 1..Len(s) : g[i] = f[i]
        /\ g[Len(s) + 1] = e.amount
    BY <1>1
  <1>6. Append(f, e.amount) = [i \in 1..(Len(s) + 1) |-> Append(f, e.amount)[i]]
    BY <1>4
  <1>7. g = [i \in 1..(Len(s) + 1) |-> g[i]]
    BY <1>5
  <1>8. \A i \in 1..(Len(s) + 1) : g[i] = Append(f, e.amount)[i]
    BY <1>1, <1>4, <1>5
  <1> QED BY <1>6, <1>7, <1>8

LEMMA PostWrites ==
  ASSUME CashTyped, NeverOverdrawn', NEW what \in EntryFor,
         NEW type \in {"original", "reversal"},
         NEW lines \in [Accounts -> Int], Post(what, type, lines)
  PROVE  B!Write(lines)
  <1>1. \A a \in Accounts : BookOf(a)' = IF lines[a] = 0 THEN BookOf(a)
                                         ELSE Append(BookOf(a), lines[a])
    <2> TAKE a \in Accounts
    <2> DEFINE e == [for |-> what, type |-> type, amount |-> lines[a],
                     after |-> balance[a] + lines[a]]
    <2>0. balance[a] + lines[a] \in Int /\ statement[a] \in Seq(EntryRow)
      BY DEF CashTyped
    <2>1. e \in EntryRow /\ e.amount = lines[a] /\ statement[a] \in Seq(EntryRow)
      BY <2>0 DEF EntryRow, EntryFor
    <2>2. statement'[a] = IF lines[a] = 0 THEN statement[a] ELSE Append(statement[a], e)
      BY DEF Post
    <2>3. BookOf(a)' = [i \in DOMAIN statement'[a] |-> statement'[a][i].amount]
      BY DEF BookOf
    <2> HIDE DEF e
    <2>4. CASE lines[a] = 0
      BY <2>2, <2>3, <2>4 DEF BookOf
    <2>5. CASE lines[a] # 0
      <3>1. statement'[a] = Append(statement[a], e)
        BY <2>2, <2>5
      <3>2. BookOf(a)' = Append(BookOf(a), e.amount)
        BY <2>1, <2>3, <3>1, AmountsAppend DEF BookOf
      <3> QED BY <2>1, <2>5, <3>2
    <2> QED BY <2>4, <2>5
  <1>2. balance' = [a \in Accounts |-> balance[a] + lines[a]]
    BY DEF Post
  <1>3. \A a \in Accounts : balance'[a] >= 0
    BY DEF NeverOverdrawn
  <1> QED BY <1>1, <1>2, <1>3 DEF B!Write

LEMMA MovesAreBookSteps ==
  ASSUME CashTyped, NeverOverdrawn', Moves
  PROVE  [B!Next]_<<balance, [a \in Accounts |-> BookOf(a)]>>
  <1>1. CASE UNCHANGED <<balance, statement>>
    BY <1>1 DEF BookOf
  <1>2. CASE OneLine
    <2>1. PICK what \in EntryFor, type \in {"original", "reversal"}, a \in Accounts, n \in Int :
            Post(what, type, On(a, n))
      BY <1>2 DEF OneLine
    <2>2. B!Write(On(a, n))
      BY <2>1, LinesTyped, PostWrites
    <2>3. balance'[a] - balance[a] = n
      BY <2>1 DEF Post, On, CashTyped
    <2>4. On(a, n) = B!Line(a, balance'[a] - balance[a])
      BY <2>3 DEF On, B!Line
    <2> QED BY <2>2, <2>4 DEF B!Next, B!InOrOut
  <1>3. CASE TwoLines
    <2>1. PICK a \in Accounts, b \in Accounts, n \in Nat :
            a # b /\ Post("transfer", "original", Carried(a, b, n))
      BY <1>3 DEF TwoLines
    <2>2. B!Write(Carried(a, b, n))
      BY <2>1, LinesTyped, PostWrites DEF EntryFor
    <2>3. balance'[b] - balance[b] = n
      BY <2>1 DEF Post, Carried, CashTyped
    <2>4. Carried(a, b, n) = B!Move(a, b, balance'[b] - balance[b])
      BY <2>3 DEF Carried, B!Move
    <2> QED BY <2>1, <2>2, <2>4 DEF B!Next, B!Between
  <1> QED BY <1>1, <1>2, <1>3 DEF Moves

\* While nobody adjusts an account by hand, the handlers implement the
\* account book: cash moves in or out of one account or between two, never
\* below zero, and nothing written is changed.
THEOREM CashKeepsBook ==
  ASSUME "adjust" \notin Ops
  PROVE  Spec => KeepsBook
  <1>1. Init => B!Init
    <2> SUFFICES ASSUME Init PROVE B!Init
      OBVIOUS
    <2>1. ASSUME NEW a \in Accounts
          PROVE  BookOf(a) = IF Opening[a] = 0 THEN <<>> ELSE <<Opening[a]>>
      <3>1. statement[a] = Opened(a)
        BY DEF Init
      <3> QED BY <3>1 DEF BookOf, Opened
    <2> QED BY <2>1 DEF Init, B!Init
  <1>2. CashInv /\ NeverOverdrawn' /\ [Next]_vars
          => [B!Next]_<<balance, [a \in Accounts |-> BookOf(a)]>>
    <2> SUFFICES ASSUME CashInv, NeverOverdrawn', [Next]_vars
                 PROVE  [B!Next]_<<balance, [a \in Accounts |-> BookOf(a)]>>
      OBVIOUS
    <2>1. CASE UNCHANGED vars
      BY <2>1 DEF vars, BookOf
    <2>2. CASE Next
      BY <2>2, StepsMove, MovesAreBookSteps DEF CashInv, TypeOK, CashTyped
    <2> QED BY <2>1, <2>2
  <1> QED BY <1>1, <1>2, CashInvAlways, NoneOverdrawn, PTL DEF Spec, KeepsBook, B!Spec

-----------------------------------------------------------------------------
(* Money leaves for an expense with authority. *)

\* Whoever is about to pay may: the roles were checked when the handler
\* began, and an expense that skipped review was posted by an accountant,
\* so that only an administrator disburses it.
ReviewersAreAllowed ==
  \A r \in Requests : req[r].pc = "approve" => CanReview(req[r].user)
DisbursersAreAdmins ==
  \A r \in Requests : req[r].pc = "disburse" => Admin(req[r].user)
ApprovedByRecorder ==
  \A e \in Expenses : doc[e].status = "approved" => doc[e].approved = doc[e].by
Authority ==
  ReviewersAreAllowed /\ DisbursersAreAdmins /\ ApprovedByRecorder /\ PaidWithAuthority

PaidRow(row) == /\ row.status \in {"paid", "reversed"} => CanReview(row.paid)
                /\ row.status = "approved" => row.approved = row.by

\* Only one document and one request change, and they keep the rule.
DocKeeps(d) == /\ \A x \in Docs \ {d} : doc'[x] = doc[x]
               /\ d \in Expenses => PaidRow(doc'[d])
ReqKeeps(r) == /\ \A x \in Requests \ {r} : req'[x] = req[x]
               /\ req'[r].pc = "approve" => CanReview(req'[r].user)
               /\ req'[r].pc = "disburse" => Admin(req'[r].user)

LEMMA KeepingIsEnough ==
  ASSUME Authority,
         UNCHANGED doc \/ (\E d \in Docs : DocKeeps(d)),
         UNCHANGED req \/ (\E r \in Requests : ReqKeeps(r))
  PROVE  Authority'
  <1>1. (ApprovedByRecorder /\ PaidWithAuthority)'
    <2>1. CASE UNCHANGED doc
      BY <2>1 DEF Authority, ApprovedByRecorder, PaidWithAuthority
    <2>2. CASE \E d \in Docs : DocKeeps(d)
      BY <2>2 DEF Authority, ApprovedByRecorder, PaidWithAuthority, DocKeeps, PaidRow, Docs
    <2> QED BY <2>1, <2>2
  <1>2. (ReviewersAreAllowed /\ DisbursersAreAdmins)'
    <2>1. CASE UNCHANGED req
      BY <2>1 DEF Authority, ReviewersAreAllowed, DisbursersAreAdmins
    <2>2. CASE \E r \in Requests : ReqKeeps(r)
      BY <2>2 DEF Authority, ReviewersAreAllowed, DisbursersAreAdmins, ReqKeeps
    <2> QED BY <2>1, <2>2
  <1> QED BY <1>1, <1>2 DEF Authority

LEMMA IdleKeeps ==
  ASSUME CashInv, NEW r \in Requests, Become(r, Idle)
  PROVE  ReqKeeps(r)
  <1>1. req'[r] = Idle /\ \A x \in Requests \ {r} : req'[x] = req[x]
    BY DEF CashInv, TypeOK, Become
  <1> QED BY <1>1 DEF ReqKeeps, Idle

LEMMA RecordsKeep ==
  ASSUME CashInv, NEW e \in Expenses, NEW u \in Users, RecordsMove(e, u)
  PROVE  DocKeeps(e)
  <1>1. e \in Docs /\ doc \in [Docs -> DocRow] /\ doc[e] \in DocRow
    BY DEF Docs, CashInv, TypeOK
  <1>2. Admin(u) => CanReview(u)
    BY DEF CanReview
  <1>3. ASSUME NEW a \in Accounts \cup {NoAccount}, NEW n \in Amounts, NEW repeats \in BOOLEAN,
               NEW status \in {"paid", "approved", "pending", "draft"},
               status = "paid" => Admin(u),
               doc' = [doc EXCEPT ![e] = Recorded(status, u, a, n, repeats)]
        PROVE  DocKeeps(e)
    <2>1. doc'[e] = Recorded(status, u, a, n, repeats)
      BY <1>1, <1>3
    <2>2. PaidRow(Recorded(status, u, a, n, repeats))
      BY <1>2, <1>3 DEF PaidRow, Recorded, NoDoc
    <2> QED BY <1>1, <1>3, <2>1, <2>2 DEF DocKeeps
  <1>4. CASE RecordExpense(e, u)
    <2>1. PICK a \in Accounts, n \in Amounts :
            \/ Admin(u) /\ RecordPaid(e, u, a, n)
            \/ RecordUnpaid(e, Recorded(IF "accountant" \in Roles[u] THEN "approved"
                                        ELSE "pending", u, a, n, FALSE))
            \/ RecordUnpaid(e, Recorded("pending", u, a, n, TRUE))
      BY <1>4 DEF RecordExpense
    <2>2. CASE Admin(u) /\ RecordPaid(e, u, a, n)
      BY <1>3, <2>2 DEF RecordPaid
    <2>3. CASE RecordUnpaid(e, Recorded(IF "accountant" \in Roles[u] THEN "approved"
                                       ELSE "pending", u, a, n, FALSE))
      <3>1. CASE "accountant" \in Roles[u]
        BY <1>3, <2>3, <3>1 DEF RecordUnpaid
      <3>2. CASE "accountant" \notin Roles[u]
        BY <1>3, <2>3, <3>2 DEF RecordUnpaid
      <3> QED BY <3>1, <3>2
    <2>4. CASE RecordUnpaid(e, Recorded("pending", u, a, n, TRUE))
      BY <1>3, <2>4 DEF RecordUnpaid
    <2> QED BY <2>1, <2>2, <2>3, <2>4
  <1>5. CASE SaveReviewed(e, u)
    BY <1>3, <1>5 DEF SaveReviewed, RecordPaid, RecordUnpaid
  <1>6. CASE SubmitDraft(e, u)
    <2>1. /\ \A x \in Docs \ {e} : doc'[x] = doc[x]
          /\ \/ doc'[e].status = "paid" /\ doc'[e].paid = u /\ Admin(u)
             \/ doc'[e].status = "pending"
      BY <1>1, <1>6 DEF SubmitDraft, DocRow
    <2> QED BY <1>2, <2>1 DEF DocKeeps, PaidRow
  <1> QED BY <1>4, <1>5, <1>6 DEF RecordsMove

LEMMA TakesKeep ==
  ASSUME CashInv, Authority, NEW r \in Requests, NEW e \in Expenses, NEW u \in Users,
         StartApprove(r, e, u) \/ StartReject(r, e, u) \/ StartDisburse(r, e, u)
  PROVE  UNCHANGED doc /\ ReqKeeps(r)
  <1>1. req \in [Requests -> Request]
    BY DEF CashInv, TypeOK
  <1>2. CASE StartApprove(r, e, u)
    BY <1>1, <1>2 DEF StartApprove, Take, Become, ReqKeeps
  <1>3. CASE StartReject(r, e, u)
    BY <1>1, <1>3 DEF StartReject, Take, Become, ReqKeeps
  <1>4. CASE StartDisburse(r, e, u)
    <2>1. Admin(u)
      BY <1>4 DEF StartDisburse, Authority, ApprovedByRecorder
    <2> QED BY <1>1, <1>4, <2>1 DEF StartDisburse, Take, Become, ReqKeeps
  <1> QED BY <1>2, <1>3, <1>4

LEMMA CommitsKeep ==
  ASSUME CashInv, Authority, NEW r \in Requests,
         \/ CommitApprove(r) \/ CommitDisburse(r) \/ CommitReject(r) \/ CommitReceive(r)
         \/ CommitCancelPurchase(r) \/ CommitCancelSale(r)
  PROVE  ReqKeeps(r) /\ (\E d \in Docs : DocKeeps(d))
  <1> DEFINE d == req[r].doc
  <1>1. req[r].pc \in DocSteps /\ Become(r, Idle)
    BY DEF CommitApprove, CommitDisburse, CommitReject, CommitReceive, CommitCancelPurchase,
           CommitCancelSale, Pay, DocSteps
  <1>2. d \in Docs /\ doc \in [Docs -> DocRow] /\ doc[d] \in DocRow
    BY <1>1, TakenByStage DEF CashInv, TypeOK
  <1>3. Admin(req[r].user) => CanReview(req[r].user)
    BY DEF CanReview
  <1>4. CASE CommitApprove(r)
    <2>1. /\ \A x \in Docs \ {d} : doc'[x] = doc[x]
          /\ doc'[d].status = "paid" /\ doc'[d].paid = req[r].user
      BY <1>2, <1>4 DEF CommitApprove, Pay, DocRow
    <2>2. CanReview(req[r].user)
      BY <1>4 DEF CommitApprove, Authority, ReviewersAreAllowed
    <2> QED BY <1>1, <1>2, <2>1, <2>2, IdleKeeps DEF DocKeeps, PaidRow
  <1>5. CASE CommitDisburse(r)
    <2>1. /\ \A x \in Docs \ {d} : doc'[x] = doc[x]
          /\ doc'[d].status = "paid" /\ doc'[d].paid = req[r].user
      BY <1>2, <1>5 DEF CommitDisburse, Pay, DocRow
    <2>2. CanReview(req[r].user)
      BY <1>3, <1>5 DEF CommitDisburse, Authority, DisbursersAreAdmins
    <2> QED BY <1>1, <1>2, <2>1, <2>2, IdleKeeps DEF DocKeeps, PaidRow
  <1>6. CASE CommitReceive(r)
    <2>1. /\ \A x \in Docs \ {d} : doc'[x] = doc[x]
          /\ doc'[d].status = "received"
      BY <1>2, <1>6 DEF CommitReceive, Pay, DocRow
    <2> QED BY <1>1, <1>2, <2>1, IdleKeeps DEF DocKeeps, PaidRow
  <1>7. CASE CommitReject(r) \/ CommitCancelPurchase(r) \/ CommitCancelSale(r)
    <2>1. /\ \A x \in Docs \ {d} : doc'[x] = doc[x]
          /\ doc'[d].status \in {"rejected", "cancelled"}
      <3>1. \E status \in {"rejected", "cancelled"} : doc' = [doc EXCEPT ![d].status = status]
        BY <1>7 DEF CommitReject, CommitCancelPurchase, CommitCancelSale
      <3> QED BY <1>2, <3>1 DEF DocRow
    <2> QED BY <1>1, <1>2, <2>1, IdleKeeps DEF DocKeeps, PaidRow
  <1> QED BY <1>4, <1>5, <1>6, <1>7

LEMMA WritesKeep ==
  ASSUME CashInv, Authority, NEW d \in Docs,
         RecordSale(d) \/ OrderPurchase(d) \/ RecordIncome(d) \/ Reverse(d)
  PROVE  DocKeeps(d)
  <1>1. doc \in [Docs -> DocRow] /\ doc[d] \in DocRow
    BY DEF CashInv, TypeOK
  <1>2. CASE RecordSale(d) \/ OrderPurchase(d) \/ RecordIncome(d)
    <2>1. /\ \A x \in Docs \ {d} : doc'[x] = doc[x]
          /\ doc'[d].status \in {"completed", "ordered", "posted"}
      BY <1>1, <1>2 DEF RecordSale, OrderPurchase, RecordIncome, Written, NoDoc
    <2> QED BY <2>1 DEF DocKeeps, PaidRow
  <1>3. CASE Reverse(d)
    <2>1. /\ \A x \in Docs \ {d} : doc'[x] = doc[x]
          /\ doc'[d].status = "reversed" /\ doc'[d].paid = doc[d].paid
      BY <1>1, <1>3 DEF Reverse, DocRow
    <2>2. d \in Expenses => doc[d].status = "paid"
      BY <1>3 DEF Reverse, Reversible
    <2>3. d \in Expenses => CanReview(doc[d].paid)
      BY <2>2 DEF Authority, PaidWithAuthority
    <2> QED BY <2>1, <2>3 DEF DocKeeps, PaidRow
  <1> QED BY <1>2, <1>3

LEMMA OtherStartsKeep ==
  ASSUME CashInv, NEW r \in Requests,
         \/ \E s \in Sales : StartCancelSale(r, s)
         \/ \E p \in Purchases : StartReceive(r, p) \/ StartCancelPurchase(r, p)
         \/ StartTransfer(r) \/ StartAdjust(r)
  PROVE  UNCHANGED doc /\ ReqKeeps(r)
  <1>1. req \in [Requests -> Request]
    BY DEF CashInv, TypeOK
  <1>2. ASSUME NEW s \in Sales, StartCancelSale(r, s)
        PROVE  UNCHANGED doc /\ ReqKeeps(r)
    BY <1>1, <1>2 DEF StartCancelSale, Take, Become, ReqKeeps
  <1>3. ASSUME NEW p \in Purchases, StartReceive(r, p)
        PROVE  UNCHANGED doc /\ ReqKeeps(r)
    BY <1>1, <1>3 DEF StartReceive, Take, Become, ReqKeeps
  <1>4. ASSUME NEW p \in Purchases, StartCancelPurchase(r, p)
        PROVE  UNCHANGED doc /\ ReqKeeps(r)
    BY <1>1, <1>4 DEF StartCancelPurchase, Take, Become, ReqKeeps
  <1>5. CASE StartTransfer(r)
    BY <1>1, <1>5 DEF StartTransfer, Become, ReqKeeps
  <1>6. CASE StartAdjust(r)
    BY <1>1, <1>6 DEF StartAdjust, Become, ReqKeeps
  <1> QED BY <1>2, <1>3, <1>4, <1>5, <1>6

\* Whatever handlers interleave, an expense that was paid, or was paid and
\* reversed, was paid by an administrator or a role that may review it.
THEOREM PaidOnlyWithAuthority == Spec => []PaidWithAuthority
  <1>1. Init => Authority
    <2> SUFFICES ASSUME Init PROVE Authority
      OBVIOUS
    <2>1. \A d \in Docs : doc[d].status = "none"
      BY DEF Init, NoDoc
    <2>2. \A r \in Requests : req[r].pc = "idle"
      BY DEF Init, Idle
    <2> QED BY <2>1, <2>2 DEF Authority, ReviewersAreAllowed, DisbursersAreAdmins,
               ApprovedByRecorder, PaidWithAuthority, Docs
  <1>2. CashInv /\ Authority /\ [Next]_vars => Authority'
    <2> SUFFICES ASSUME CashInv, Authority, [Next]_vars
                 PROVE  /\ UNCHANGED doc \/ (\E d \in Docs : DocKeeps(d))
                        /\ UNCHANGED req \/ (\E r \in Requests : ReqKeeps(r))
      BY KeepingIsEnough
    <2> DEFINE Keeps == /\ UNCHANGED doc \/ (\E d \in Docs : DocKeeps(d))
                        /\ UNCHANGED req \/ (\E r \in Requests : ReqKeeps(r))
    <2>1. ASSUME NEW e \in Expenses, NEW u \in Users, RecordsMove(e, u)
          PROVE  Keeps
      <3>1. UNCHANGED req /\ e \in Docs
        BY <2>1 DEF RecordsMove, RecordExpense, SaveReviewed, SubmitDraft, Docs
      <3> QED BY <2>1, <3>1, RecordsKeep
    <2>2. ASSUME NEW r \in Requests, NEW e \in Expenses, NEW u \in Users,
                 StartApprove(r, e, u) \/ StartReject(r, e, u) \/ StartDisburse(r, e, u)
          PROVE  Keeps
      BY <2>2, TakesKeep
    <2>3. ASSUME NEW r \in Requests,
                 \/ CommitApprove(r) \/ CommitDisburse(r) \/ CommitReject(r) \/ CommitReceive(r)
                 \/ CommitCancelPurchase(r) \/ CommitCancelSale(r)
          PROVE  Keeps
      BY <2>3, CommitsKeep
    <2>4. ASSUME NEW d \in Docs,
                 RecordSale(d) \/ OrderPurchase(d) \/ RecordIncome(d) \/ Reverse(d)
          PROVE  Keeps
      <3>1. UNCHANGED req
        BY <2>4 DEF RecordSale, OrderPurchase, RecordIncome, Reverse
      <3> QED BY <2>4, <3>1, WritesKeep
    <2>5. ASSUME NEW r \in Requests,
                 \/ \E s \in Sales : StartCancelSale(r, s)
                 \/ \E p \in Purchases : StartReceive(r, p) \/ StartCancelPurchase(r, p)
                 \/ StartTransfer(r) \/ StartAdjust(r)
          PROVE  Keeps
      BY <2>5, OtherStartsKeep
    <2>6. ASSUME NEW r \in Requests, CommitTransfer(r) \/ CommitAdjust(r) \/ GiveUp(r)
          PROVE  Keeps
      BY <2>6, IdleKeeps DEF CommitTransfer, CommitAdjust, GiveUp
    <2>7. ASSUME ExpenseNext PROVE Keeps
      BY <2>7, <2>1, <2>2, <2>3, <2>4 DEF ExpenseNext, RecordsMove, Docs
    <2>8. ASSUME TradeNext PROVE Keeps
      BY <2>8, <2>3, <2>4, <2>5, <2>6 DEF TradeNext, Docs
    <2>9. ASSUME UNCHANGED vars PROVE Keeps
      BY <2>9 DEF vars
    <2> QED BY <2>6, <2>7, <2>8, <2>9 DEF Next
  <1>3. Authority => PaidWithAuthority
    BY DEF Authority
  <1> QED BY <1>1, <1>2, <1>3, CashInvAlways, PTL DEF Spec

-----------------------------------------------------------------------------
(* What posting writes, line by line. *)

LEMMA LinesWritten ==
  ASSUME CashTyped, NEW what \in EntryFor, NEW type \in {"original", "reversal"},
         NEW lines \in [Accounts -> Int], Post(what, type, lines), NEW a \in Accounts
  PROVE  /\ DOMAIN statement[a] = 1 .. Len(statement[a]) /\ Len(statement[a]) \in Nat
         /\ DOMAIN statement'[a] = IF lines[a] = 0 THEN 1 .. Len(statement[a])
                                   ELSE 1 .. (Len(statement[a]) + 1)
         /\ \A i \in 1 .. Len(statement[a]) : statement'[a][i] = statement[a][i]
         /\ lines[a] # 0 =>
              /\ statement'[a][Len(statement[a]) + 1].for = what
              /\ statement'[a][Len(statement[a]) + 1].type = type
              /\ statement'[a][Len(statement[a]) + 1].amount = lines[a]
  <1> DEFINE e == [for |-> what, type |-> type, amount |-> lines[a],
                   after |-> balance[a] + lines[a]]
  <1>1. statement[a] \in Seq(EntryRow)
    BY DEF CashTyped
  <1>2. statement'[a] = IF lines[a] = 0 THEN statement[a] ELSE Append(statement[a], e)
    BY DEF Post
  <1>3. e.for = what /\ e.type = type /\ e.amount = lines[a]
    OBVIOUS
  <1>4. /\ DOMAIN statement[a] = 1 .. Len(statement[a]) /\ Len(statement[a]) \in Nat
        /\ DOMAIN Append(statement[a], e) = 1 .. (Len(statement[a]) + 1)
        /\ \A i \in 1 .. Len(statement[a]) : Append(statement[a], e)[i] = statement[a][i]
        /\ Append(statement[a], e)[Len(statement[a]) + 1] = e
    BY <1>1
  <1> HIDE DEF e
  <1> QED BY <1>2, <1>3, <1>4

LEMMA OfWritten ==
  ASSUME CashTyped, NEW what \in EntryFor, NEW type \in {"original", "reversal"},
         NEW lines \in [Accounts -> Int], Post(what, type, lines), NEW a \in Accounts,
         NEW d, NEW t
  PROVE  /\ (d # what \/ t # type \/ lines[a] = 0) => Of(d, a, t)' = Of(d, a, t)
         /\ (d = what /\ t = type /\ lines[a] # 0)
              => Of(d, a, t)' = Of(d, a, t) \cup {Len(statement[a]) + 1}
         /\ Of(d, a, t) \subseteq 1 .. Len(statement[a])
  <1>1. /\ DOMAIN statement[a] = 1 .. Len(statement[a]) /\ Len(statement[a]) \in Nat
        /\ \A i \in 1 .. Len(statement[a]) : statement'[a][i] = statement[a][i]
    BY LinesWritten
  <1>2. Of(d, a, t)' = {i \in DOMAIN statement'[a] : /\ statement'[a][i].for = d
                                                    /\ statement'[a][i].type = t}
    BY DEF Of
  <1>3. Of(d, a, t) = {i \in 1 .. Len(statement[a]) : /\ statement'[a][i].for = d
                                                     /\ statement'[a][i].type = t}
    BY <1>1 DEF Of
  <1>4. CASE lines[a] = 0
    <2>1. DOMAIN statement'[a] = 1 .. Len(statement[a])
      BY <1>4, LinesWritten
    <2> QED BY <1>2, <1>3, <1>4, <2>1
  <1>5. CASE lines[a] # 0
    <2>1. /\ DOMAIN statement'[a] = 1 .. (Len(statement[a]) + 1)
          /\ statement'[a][Len(statement[a]) + 1].for = what
          /\ statement'[a][Len(statement[a]) + 1].type = type
      BY <1>5, LinesWritten
    <2>2. 1 .. (Len(statement[a]) + 1) = (1 .. Len(statement[a])) \cup {Len(statement[a]) + 1}
      BY <1>1
    <2> QED BY <1>2, <1>3, <1>5, <2>1, <2>2
  <1> QED BY <1>4, <1>5

\* A document's line of a type on an account, when there is just one.
OneLineOf(d, a, type, n) ==
  \E i \in DOMAIN statement[a] : Of(d, a, type) = {i} /\ statement[a][i].amount = n

LEMMA LinesKept ==
  ASSUME CashTyped, NEW what \in EntryFor, NEW type \in {"original", "reversal"},
         NEW lines \in [Accounts -> Int], Post(what, type, lines), NEW a \in Accounts,
         NEW d, NEW t, d # what \/ t # type \/ lines[a] = 0
  PROVE  /\ Of(d, a, t)' = Of(d, a, t)
         /\ \A n : OneLineOf(d, a, t, n) => OneLineOf(d, a, t, n)'
  <1>1. Of(d, a, t)' = Of(d, a, t)
    BY OfWritten
  <1>2. \A i \in DOMAIN statement[a] :
          i \in DOMAIN statement'[a] /\ statement'[a][i] = statement[a][i]
    BY LinesWritten
  <1> QED BY <1>1, <1>2 DEF OneLineOf

LEMMA LineAdded ==
  ASSUME CashTyped, NEW what \in EntryFor, NEW type \in {"original", "reversal"},
         NEW lines \in [Accounts -> Int], Post(what, type, lines), NEW a \in Accounts,
         lines[a] # 0, Of(what, a, type) = {}
  PROVE  /\ Of(what, a, type)' = {Len(statement[a]) + 1}
         /\ OneLineOf(what, a, type, lines[a])'
  <1>1. Of(what, a, type)' = {Len(statement[a]) + 1}
    BY OfWritten
  <1>2. /\ Len(statement[a]) + 1 \in DOMAIN statement'[a]
        /\ statement'[a][Len(statement[a]) + 1].amount = lines[a]
    BY LinesWritten
  <1> QED BY <1>1, <1>2 DEF OneLineOf

-----------------------------------------------------------------------------
(* Documents and their lines. *)

\* The body of DocumentCash.
Told(d) ==
  /\ CashMoved(d) => doc[d].paidFrom \in Accounts
  /\ \A a \in Accounts :
       /\ Tells(d, a, "original", CashMoved(d), Signed(d))
       /\ Tells(d, a, "reversal", CashReturned(d), -Signed(d))
       /\ \A i \in Of(d, a, "original"), j \in Of(d, a, "reversal") : i < j

LEMMA ToldLines ==
  ASSUME NEW d, NEW a \in Accounts, Told(d)
  PROVE  /\ CashMoved(d) => doc[d].paidFrom \in Accounts
         /\ IF CashMoved(d) /\ a = doc[d].paidFrom THEN OneLineOf(d, a, "original", Signed(d))
                                                   ELSE Of(d, a, "original") = {}
         /\ IF CashReturned(d) /\ a = doc[d].paidFrom THEN OneLineOf(d, a, "reversal", -Signed(d))
                                                      ELSE Of(d, a, "reversal") = {}
         /\ \A i \in Of(d, a, "original"), j \in Of(d, a, "reversal") : i < j
  BY Zenon DEF Told, Tells, OneLineOf

LEMMA LinesTell ==
  ASSUME NEW d, CashMoved(d)' => doc'[d].paidFrom \in Accounts,
         \A a \in Accounts :
           /\ IF CashMoved(d)' /\ a = doc'[d].paidFrom
              THEN OneLineOf(d, a, "original", Signed(d))' ELSE Of(d, a, "original")' = {}
           /\ IF CashReturned(d)' /\ a = doc'[d].paidFrom
              THEN OneLineOf(d, a, "reversal", -Signed(d))' ELSE Of(d, a, "reversal")' = {}
           /\ \A i \in Of(d, a, "original")', j \in Of(d, a, "reversal")' : i < j
  PROVE  Told(d)'
  BY Zenon DEF Told, Tells, OneLineOf

\* A document no step writes, and one whose cash does not move.
LEMMA ToldUnwritten ==
  ASSUME CashTyped, NEW what \in EntryFor, NEW type \in {"original", "reversal"},
         NEW lines \in [Accounts -> Int], Post(what, type, lines),
         NEW d, d # what, doc'[d] = doc[d], Told(d)
  PROVE  Told(d)'
  <1>1. CashMoved(d)' = CashMoved(d) /\ CashReturned(d)' = CashReturned(d)
    BY Zenon DEF CashMoved, CashReturned
  <1>2. Signed(d)' = Signed(d) /\ doc'[d].paidFrom = doc[d].paidFrom
    BY DEF Signed
  <1>3. ASSUME NEW a \in Accounts, NEW t
        PROVE  /\ Of(d, a, t)' = Of(d, a, t)
               /\ \A n : OneLineOf(d, a, t, n) => OneLineOf(d, a, t, n)'
    BY LinesKept
  <1>4. ASSUME NEW a \in Accounts
        PROVE  /\ IF CashMoved(d) /\ a = doc[d].paidFrom
                  THEN OneLineOf(d, a, "original", Signed(d))'
                  ELSE Of(d, a, "original")' = {}
               /\ IF CashReturned(d) /\ a = doc[d].paidFrom
                  THEN OneLineOf(d, a, "reversal", -Signed(d))'
                  ELSE Of(d, a, "reversal")' = {}
               /\ \A i \in Of(d, a, "original")', j \in Of(d, a, "reversal")' : i < j
    <2>1. OneLineOf(d, a, "original", Signed(d)) => OneLineOf(d, a, "original", Signed(d))'
      BY <1>2, <1>3
    <2>2. OneLineOf(d, a, "reversal", -Signed(d)) => OneLineOf(d, a, "reversal", -Signed(d))'
      BY <1>2, <1>3
    <2> QED BY <1>3, <2>1, <2>2, ToldLines
  <1>5. CashMoved(d)' => doc'[d].paidFrom \in Accounts
    BY <1>1, <1>2 DEF Told
  <1>6. ASSUME NEW a \in Accounts
        PROVE  /\ IF CashMoved(d)' /\ a = doc'[d].paidFrom
                  THEN OneLineOf(d, a, "original", Signed(d))' ELSE Of(d, a, "original")' = {}
               /\ IF CashReturned(d)' /\ a = doc'[d].paidFrom
                  THEN OneLineOf(d, a, "reversal", -Signed(d))' ELSE Of(d, a, "reversal")' = {}
               /\ \A i \in Of(d, a, "original")', j \in Of(d, a, "reversal")' : i < j
    BY <1>1, <1>2, <1>4
  <1> QED BY <1>5, <1>6, LinesTell
\* The document that a step pays for, or returns the cash of.
Quiet(d) == UNCHANGED statement /\ ~CashMoved(d) /\ ~CashMoved(d)'
Pays(d) ==
  /\ ~CashMoved(d) /\ CashMoved(d)' /\ ~CashReturned(d)'
  /\ doc'[d].paidFrom \in Accounts /\ Signed(d)' \in Int \ {0}
  /\ Post(d, "original", On(doc'[d].paidFrom, Signed(d)'))
Returns(d) ==
  /\ CashMoved(d) /\ ~CashReturned(d) /\ CashReturned(d)'
  /\ doc'[d].paidFrom = doc[d].paidFrom /\ Signed(d)' = Signed(d)
  /\ Signed(d) \in Int \ {0} /\ -Signed(d) \in Int \ {0}
  /\ Post(d, "reversal", On(doc[d].paidFrom, -Signed(d)))

LEMMA ToldQuiet == ASSUME NEW d, Told(d), Quiet(d) PROVE Told(d)'
  <1>1. ~CashReturned(d) /\ ~CashReturned(d)'
    BY DEF Quiet, CashMoved
  <1>2. \A a \in Accounts : Of(d, a, "original") = {} /\ Of(d, a, "reversal") = {}
    BY <1>1, ToldLines DEF Quiet
  <1>3. \A a \in Accounts : Of(d, a, "original")' = {} /\ Of(d, a, "reversal")' = {}
    BY <1>2 DEF Quiet, Of
  <1> QED BY <1>1, <1>3, LinesTell DEF Quiet

LEMMA ToldPaid ==
  ASSUME CashTyped, NEW d \in Docs, Told(d), Pays(d)
  PROVE  Told(d)'
  <1>1. PICK b \in Accounts, n \in Int \ {0} :
          b = doc'[d].paidFrom /\ n = Signed(d)' /\ Post(d, "original", On(b, n))
    BY DEF Pays
  <1>2. d \in EntryFor /\ On(b, n) \in [Accounts -> Int]
    BY LinesTyped DEF EntryFor
  <1>3. \A a \in Accounts : On(b, n)[a] = IF a = b THEN n ELSE 0
    BY DEF On
  <1>4. ~CashReturned(d)
    BY DEF Pays, CashMoved
  <1>5. \A a \in Accounts : Of(d, a, "original") = {} /\ Of(d, a, "reversal") = {}
    BY <1>4, ToldLines DEF Pays
  <1>6. \A a \in Accounts : Of(d, a, "reversal")' = {}
    BY <1>1, <1>2, <1>5, LinesKept
  <1>7. \A a \in Accounts \ {b} : Of(d, a, "original")' = {}
    BY <1>1, <1>2, <1>3, <1>5, LinesKept
  <1>8. OneLineOf(d, b, "original", Signed(d))'
    <2>1. OneLineOf(d, b, "original", On(b, n)[b])'
      BY <1>1, <1>2, <1>3, <1>5, LineAdded
    <2>2. OneLineOf(d, b, "original", n)'
      BY <1>3, <2>1
    <2> QED BY <1>1, <2>2
  <1> QED BY <1>1, <1>6, <1>7, <1>8, LinesTell DEF Pays

LEMMA ToldReturned ==
  ASSUME CashTyped, NEW d \in Docs, Told(d), Returns(d)
  PROVE  Told(d)'
  <1>1. doc[d].paidFrom \in Accounts
    BY DEF Told, Returns
  <1>2. PICK b \in Accounts, n \in Int \ {0} :
          b = doc[d].paidFrom /\ n = -Signed(d) /\ Post(d, "reversal", On(b, n))
    BY <1>1 DEF Returns
  <1>3. d \in EntryFor /\ On(b, n) \in [Accounts -> Int]
    BY LinesTyped DEF EntryFor
  <1>4. \A a \in Accounts : On(b, n)[a] = IF a = b THEN n ELSE 0
    BY DEF On
  <1>5. \A a \in Accounts : /\ Of(d, a, "reversal") = {}
                            /\ IF a = b THEN OneLineOf(d, a, "original", Signed(d))
                                        ELSE Of(d, a, "original") = {}
    BY <1>2, ToldLines DEF Returns
  <1>6. \A a \in Accounts : /\ Of(d, a, "original")' = Of(d, a, "original")
                            /\ a = b => OneLineOf(d, a, "original", Signed(d))'
    <2> TAKE a \in Accounts
    <2>1. \A m : OneLineOf(d, a, "original", m) => OneLineOf(d, a, "original", m)'
      BY <1>2, <1>3, LinesKept
    <2>2. PICK k : k = Signed(d) /\ k = Signed(d)'
      BY DEF Returns
    <2>3. Of(d, a, "original")' = Of(d, a, "original")
      BY <1>2, <1>3, LinesKept
    <2>4. OneLineOf(d, a, "original", k) => OneLineOf(d, a, "original", k)'
      BY <2>1
    <2>5. a = b => OneLineOf(d, a, "original", k)
      BY <1>5, <2>2
    <2>6. OneLineOf(d, a, "original", k)' => OneLineOf(d, a, "original", Signed(d))'
      BY <2>2 DEF OneLineOf
    <2> QED BY <2>3, <2>4, <2>5, <2>6
  <1>7. \A a \in Accounts \ {b} : Of(d, a, "reversal")' = {}
    BY <1>2, <1>3, <1>4, <1>5, LinesKept
  <1>8. Of(d, b, "reversal")' = {Len(statement[b]) + 1} /\ OneLineOf(d, b, "reversal", n)'
    <2>1. On(b, n)[b] = n /\ Of(d, b, "reversal") = {}
      BY <1>4, <1>5
    <2> QED BY <1>2, <1>3, <2>1, LineAdded
  <1>9. \A i \in Of(d, b, "original") : i < Len(statement[b]) + 1
    BY <1>2, <1>3, OfWritten, LinesWritten
  <1>10. CashMoved(d)'
    BY DEF Returns, CashMoved
  <1>11. n = -Signed(d)'
    BY <1>2 DEF Returns
  <1>12. ASSUME NEW a \in Accounts
         PROVE  /\ IF a = b THEN OneLineOf(d, a, "original", Signed(d))'
                            ELSE Of(d, a, "original")' = {}
                /\ IF a = b THEN OneLineOf(d, a, "reversal", -Signed(d))'
                            ELSE Of(d, a, "reversal")' = {}
                /\ \A i \in Of(d, a, "original")', j \in Of(d, a, "reversal")' : i < j
    <2>1. CASE a = b
      <3>1. OneLineOf(d, a, "reversal", -Signed(d))'
        BY <1>8, <1>11, <2>1
      <3> QED BY <1>6, <1>8, <1>9, <2>1, <3>1
    <2>2. CASE a # b
      BY <1>5, <1>6, <1>7, <2>2
    <2> QED BY <2>1, <2>2
  <1> QED BY <1>2, <1>10, <1>12, LinesTell DEF Returns

\* The ways a step treats the documents and their lines.
Without == {"transfer", "adjustment"}
LinesFollow ==
  \/ UNCHANGED <<statement, doc>>
  \/ UNCHANGED doc /\ \E what \in Without, lines \in [Accounts -> Int] :
                        /\ Post(what, "original", lines)
                        /\ what = "transfer" => \E a, b \in Accounts, n \in Nat :
                                                a # b /\ lines = Carried(a, b, n)
  \/ \E d \in Docs : /\ \A x \in Docs \ {d} : doc'[x] = doc[x]
                     /\ Quiet(d) \/ Pays(d) \/ Returns(d)

LEMMA DocumentsFollow ==
  ASSUME CashTyped, DocumentCash, LinesFollow
  PROVE  DocumentCash'
  <1>1. \A d \in Docs : Told(d)
    BY Zenon DEF DocumentCash, Told
  <1>2. SUFFICES ASSUME NEW x \in Docs PROVE Told(x)'
    BY Zenon DEF DocumentCash, Told
  <1>3. CASE UNCHANGED <<statement, doc>>
    BY <1>1, <1>3 DEF Told, Tells, Of, CashMoved, CashReturned, Signed
  <1>4. CASE UNCHANGED doc /\ \E what \in Without, lines \in [Accounts -> Int] :
                                Post(what, "original", lines)
    <2>1. PICK what \in Without, lines \in [Accounts -> Int] : Post(what, "original", lines)
      BY <1>4
    <2>2. what \in EntryFor /\ x # what
      BY CashAssumption DEF CashAssumption, EntryFor, Without
    <2> QED BY <1>1, <1>4, <2>1, <2>2, ToldUnwritten
  <1>5. ASSUME NEW d \in Docs, \A y \in Docs \ {d} : doc'[y] = doc[y],
               Quiet(d) \/ Pays(d) \/ Returns(d)
        PROVE  Told(x)'
    <2>1. CASE x = d
      BY <1>1, <1>5, <2>1, ToldQuiet, ToldPaid, ToldReturned
    <2>2. CASE x # d
      <3>1. doc'[x] = doc[x] /\ Told(x) /\ d \in EntryFor
        BY <1>1, <1>5, <2>2 DEF EntryFor
      <3>2. CASE Quiet(d)
        BY <3>1, <3>2 DEF Told, Tells, Of, CashMoved, CashReturned, Signed, Quiet
      <3>3. CASE Pays(d)
        BY <2>2, <3>1, <3>3, LinesTyped, ToldUnwritten DEF Pays
      <3>4. CASE Returns(d)
        <4>1. doc[d].paidFrom \in Accounts
          BY <1>1, <3>4 DEF Returns, Told
        <4> QED BY <2>2, <3>1, <3>4, <4>1, LinesTyped, ToldUnwritten DEF Returns
      <3> QED BY <1>5, <3>2, <3>3, <3>4
    <2> QED BY <2>1, <2>2
  <1> QED BY <1>3, <1>4, <1>5 DEF LinesFollow
-----------------------------------------------------------------------------
(* What the documents of each kind go through, and what requests know.     *)

KindStatuses(d) ==
  {"none"} \cup
  (IF d \in Expenses
   THEN {"draft", "pending", "approved", "paid", "rejected", "reversed"}
   ELSE IF d \in Sales THEN {"completed", "cancelled"}
   ELSE IF d \in Purchases THEN {"ordered", "received", "cancelled"} ELSE {"posted", "reversed"})
RowSound(d, row) ==
  /\ row.status \in KindStatuses(d)
  /\ row.status # "none" => row.amount # 0
  /\ d \in Sales /\ row.status = "completed" => row.paidFrom = row.account

\* A rejection has nobody to race with.
RejectsAlone == "reject" \notin Ops \/ \A r, s \in Requests : r = s

Remembers(q, row) ==
  /\ row.status # "none" /\ q.row.amount = row.amount
  /\ q.pc = "cancel sale" => q.account = row.paidFrom
  /\ q.pc = "reject" => row.status = "pending" /\ "reject" \in Ops
ReqSound(q) ==
  /\ q.pc \in DocSteps => Remembers(q, doc[q.doc])
  /\ q.pc \in {"approve", "reject", "disburse"} => q.doc \in Expenses
  /\ q.pc \in {"receive", "cancel purchase"} => q.doc \in Purchases
  /\ q.pc = "cancel sale" => q.doc \in Sales
  /\ q.pc = "transfer" => q.from # q.to
DocsSound == \A d \in Docs : RowSound(d, doc[d])
ReqsSound == \A r \in Requests : ReqSound(req[r])

\* Only one document changes; one already recorded keeps its amount and, if
\* it is a sale, its account.
RowKeeps(d) ==
  /\ \A x \in Docs \ {d} : doc'[x] = doc[x]
  /\ RowSound(d, doc'[d])
  /\ doc[d].status # "none" => /\ doc'[d].status # "none" /\ doc'[d].amount = doc[d].amount
                               /\ d \in Sales => doc'[d].paidFrom = doc[d].paidFrom

LEMMA KindsApart ==
  ASSUME NEW d \in Docs
  PROVE  /\ d \in Expenses => d \notin Sales /\ d \notin Purchases /\ d \notin Incomes
         /\ d \in Sales => d \notin Expenses /\ d \notin Purchases /\ d \notin Incomes
         /\ d \in Purchases => d \notin Expenses /\ d \notin Sales /\ d \notin Incomes
         /\ d \in Incomes => d \notin Expenses /\ d \notin Purchases /\ d \notin Sales
  BY CashAssumption DEF CashAssumption

LEMMA AmountsNotZero == \A n \in Amounts : n \in Int \ {0} /\ -n \in Int \ {0}
  BY CashAssumption DEF CashAssumption

LEMMA StatusOfCash ==
  ASSUME NEW d \in Docs
  PROVE  /\ d \in Expenses =>
              /\ CashMoved(d) <=> doc[d].status \in {"paid", "received", "completed", "posted",
                                                      "reversed"}
              /\ CashReturned(d) <=> doc[d].status = "reversed"
              /\ Signed(d) = -doc[d].amount
         /\ d \in Sales => Signed(d) = doc[d].amount
         /\ d \in Purchases =>
              /\ CashMoved(d) <=> doc[d].status \in {"paid", "received", "completed", "posted",
                                                      "reversed"}
              /\ CashReturned(d) <=> doc[d].status = "reversed"
              /\ Signed(d) = -doc[d].amount
         /\ d \in Incomes => Signed(d) = doc[d].amount
  BY KindsApart DEF CashMoved, CashReturned, Signed

\* A document that is given a new row and is paid for with it.
LEMMA NewRowPays ==
  ASSUME TypeOK, NEW d \in Docs, NEW row \in DocRow, doc' = [doc EXCEPT ![d] = row],
         ~CashMoved(d), row.status \in {"paid", "received", "completed", "posted"},
         row.paidFrom \in Accounts, row.amount \in Amounts,
         Post(d, "original",
              On(row.paidFrom, IF d \in Expenses \cup Purchases THEN -row.amount ELSE row.amount))
  PROVE  Pays(d)
  <1>1. doc'[d] = row
    BY DEF TypeOK
  <1>2. Signed(d)' = IF d \in Expenses \cup Purchases THEN -row.amount ELSE row.amount
    BY <1>1 DEF Signed
  <1>3. CashMoved(d)' /\ ~CashReturned(d)'
    BY <1>1 DEF CashMoved, CashReturned
  <1>4. Signed(d)' \in Int \ {0}
    BY <1>2, AmountsNotZero
  <1> QED BY <1>1, <1>2, <1>3, <1>4 DEF Pays

LEMMA RecordsFollow ==
  ASSUME TypeOK, DocsSound, NEW e \in Expenses, NEW u \in Users, RecordsMove(e, u)
  PROVE  RowKeeps(e) /\ (Quiet(e) \/ Pays(e))
  <1>1. e \in Docs /\ e \notin Sales /\ e \notin Purchases
    BY KindsApart DEF Docs
  <1>2. ~CashMoved(e) /\ doc[e].status \in {"none", "draft"}
    BY <1>1, StatusOfCash DEF RecordsMove, RecordExpense, SaveReviewed, SubmitDraft
  <1>3. ASSUME NEW row \in DocRow, doc' = [doc EXCEPT ![e] = row], row.amount \in Amounts,
               row.status \in {"draft", "pending", "approved", "paid"},
               doc[e].status # "none" => row.amount = doc[e].amount,
               IF row.status = "paid"
               THEN /\ row.paidFrom \in Accounts
                    /\ Post(e, "original", On(row.paidFrom, -row.amount))
               ELSE UNCHANGED statement
        PROVE  RowKeeps(e) /\ (Quiet(e) \/ Pays(e))
    <2>1. doc'[e] = row /\ \A x \in Docs \ {e} : doc'[x] = doc[x]
      BY <1>1, <1>3 DEF TypeOK
    <2>2. RowSound(e, row)
      BY <1>1, <1>3, AmountsNotZero DEF RowSound, KindStatuses
    <2>3. row.status # "none"
      BY <1>3
    <2>4. RowKeeps(e)
      BY <1>1, <1>3, <2>1, <2>2, <2>3 DEF RowKeeps
    <2>5. CASE row.status = "paid"
      BY <1>1, <1>2, <1>3, <2>4, <2>5, NewRowPays
    <2>6. CASE row.status # "paid"
      <3>1. ~CashMoved(e)'
        BY <1>3, <2>1, <2>6 DEF CashMoved, CashReturned
      <3> QED BY <1>2, <1>3, <2>4, <2>6, <3>1 DEF Quiet
    <2> QED BY <2>5, <2>6
  <1>4. ASSUME NEW status \in {"draft", "pending", "approved", "paid"}, NEW a \in Accounts \cup {NoAccount},
               NEW n \in Amounts, NEW repeats \in BOOLEAN, doc[e].status = "none",
               doc' = [doc EXCEPT ![e] = Recorded(status, u, a, n, repeats)],
               IF status = "paid" THEN a \in Accounts /\ Post(e, "original", On(a, -n))
               ELSE UNCHANGED statement
        PROVE  RowKeeps(e) /\ (Quiet(e) \/ Pays(e))
    <2>1. PICK row : row = Recorded(status, u, a, n, repeats)
      OBVIOUS
    <2>2. row \in DocRow
      <3>1. status \in Statuses \ {"completed"}
        BY DEF Statuses
      <3> QED BY <2>1, <3>1, RecordedSound DEF Sound
    <2>3. /\ row.status = status /\ row.amount = n
          /\ row.paidFrom = IF status = "paid" THEN a ELSE NoAccount
      BY <2>1 DEF Recorded, NoDoc
    <2> QED BY <1>3, <1>4, <2>1, <2>2, <2>3
  <1>5. CASE RecordExpense(e, u)
    <2>1. PICK a \in Accounts, n \in Amounts :
            \/ RecordPaid(e, u, a, n)
            \/ RecordUnpaid(e, Recorded("approved", u, a, n, FALSE))
            \/ RecordUnpaid(e, Recorded("pending", u, a, n, FALSE))
            \/ RecordUnpaid(e, Recorded("pending", u, a, n, TRUE))
      BY <1>5 DEF RecordExpense
    <2>2. doc[e].status = "none"
      BY <1>5 DEF RecordExpense
    <2> QED BY <1>4, <2>1, <2>2 DEF RecordPaid, RecordUnpaid
  <1>6. CASE SaveReviewed(e, u)
    <2>1. PICK a \in Accounts \cup {NoAccount}, n \in Amounts :
            \/ RecordUnpaid(e, Recorded("draft", u, a, n, FALSE))
            \/ a \in Accounts /\ RecordPaid(e, u, a, n)
            \/ RecordUnpaid(e, Recorded("pending", u, a, n, FALSE))
      BY <1>6 DEF SaveReviewed
    <2>2. doc[e].status = "none"
      BY <1>6 DEF SaveReviewed
    <2> QED BY <1>4, <2>1, <2>2 DEF RecordPaid, RecordUnpaid
  <1>7. CASE SubmitDraft(e, u)
    <2>0. doc[e] \in DocRow /\ doc[e].amount \in Amounts
      BY <1>1, <1>7 DEF TypeOK, DocsSound, RowSound, SubmitDraft, DocRow
    <2>1. PICK a \in Accounts :
            \/ /\ doc' = [doc EXCEPT ![e].status = "paid", ![e].account = a, ![e].paidFrom = a,
                                     ![e].approved = u, ![e].paid = u]
               /\ Post(e, "original", On(a, -doc[e].amount))
            \/ /\ doc' = [doc EXCEPT ![e].status = "pending", ![e].account = a]
               /\ UNCHANGED statement
      BY <1>7 DEF SubmitDraft
    <2>2. CASE /\ doc' = [doc EXCEPT ![e].status = "paid", ![e].account = a, ![e].paidFrom = a,
                                     ![e].approved = u, ![e].paid = u]
               /\ Post(e, "original", On(a, -doc[e].amount))
      <3>1. PICK row : row = [doc[e] EXCEPT !.status = "paid", !.account = a, !.paidFrom = a,
                                            !.approved = u, !.paid = u]
        OBVIOUS
      <3>2. /\ row \in DocRow /\ row.status = "paid" /\ row.paidFrom = a
            /\ row.amount = doc[e].amount
        BY <2>0, <3>1 DEF DocRow, Statuses
      <3>3. doc' = [doc EXCEPT ![e] = row]
        BY <1>1, <2>0, <2>2, <3>1 DEF TypeOK, DocRow
      <3> QED BY <1>3, <2>0, <2>2, <3>2, <3>3
    <2>3. CASE /\ doc' = [doc EXCEPT ![e].status = "pending", ![e].account = a]
               /\ UNCHANGED statement
      <3>1. PICK row : row = [doc[e] EXCEPT !.status = "pending", !.account = a]
        OBVIOUS
      <3>2. row \in DocRow /\ row.status = "pending" /\ row.amount = doc[e].amount
        BY <2>0, <3>1 DEF DocRow, Statuses
      <3>3. doc' = [doc EXCEPT ![e] = row]
        BY <1>1, <2>0, <2>3, <3>1 DEF TypeOK, DocRow
      <3> QED BY <1>3, <2>0, <2>3, <3>2, <3>3
    <2> QED BY <2>1, <2>2, <2>3
  <1> QED BY <1>5, <1>6, <1>7 DEF RecordsMove

LEMMA TradesFollow ==
  ASSUME TypeOK, DocsSound, NEW d \in Docs,
         \/ d \in Sales /\ RecordSale(d)
         \/ d \in Purchases /\ OrderPurchase(d)
         \/ d \in Incomes /\ RecordIncome(d)
  PROVE  RowKeeps(d) /\ (Quiet(d) \/ Pays(d))
  <1>1. PICK status \in {"completed", "ordered", "posted"}, a \in Accounts \cup {NoAccount},
             n \in Amounts, from \in Accounts \cup {NoAccount} :
          /\ doc' = [doc EXCEPT ![d] = Written(status, a, n, from)]
          /\ status \in KindStatuses(d) /\ (status = "completed" => from = a)
          /\ IF status = "ordered" THEN d \in Purchases /\ UNCHANGED statement
             ELSE /\ d \notin Expenses \cup Purchases /\ from \in Accounts
                  /\ Post(d, "original", On(from, n))
    <2>1. CASE d \in Sales /\ RecordSale(d)
      BY <2>1, KindsApart DEF RecordSale, KindStatuses
    <2>2. CASE d \in Purchases /\ OrderPurchase(d)
      BY <2>2, KindsApart DEF OrderPurchase, KindStatuses
    <2>3. CASE d \in Incomes /\ RecordIncome(d)
      BY <2>3, KindsApart DEF RecordIncome, KindStatuses
    <2> QED BY <2>1, <2>2, <2>3
  <1>2. doc[d].status = "none"
    BY DEF RecordSale, OrderPurchase, RecordIncome
  <1>3. PICK row : row = Written(status, a, n, from)
    OBVIOUS
  <1>4. /\ row.status = status /\ row.amount = n /\ row.account = a /\ row.paidFrom = from
        /\ row \in DocRow
    <2>1. status \in Statuses
      BY DEF Statuses
    <2>2. row = [NoDoc EXCEPT !.status = status, !.account = a, !.amount = n, !.paidFrom = from]
      BY <1>3 DEF Written
    <2> QED BY <2>1, <2>2 DEF NoDoc, DocRow
  <1>5. doc'[d] = row /\ \A x \in Docs \ {d} : doc'[x] = doc[x]
    BY <1>1, <1>3 DEF TypeOK
  <1>6. RowKeeps(d)
    BY <1>1, <1>2, <1>4, <1>5, AmountsNotZero DEF RowKeeps, RowSound
  <1>7. ~CashMoved(d)
    BY <1>2 DEF CashMoved, CashReturned
  <1>8. CASE status = "ordered"
    <2>1. ~CashMoved(d)'
      BY <1>4, <1>5, <1>8 DEF CashMoved, CashReturned
    <2> QED BY <1>1, <1>6, <1>7, <1>8, <2>1 DEF Quiet
  <1>9. CASE status # "ordered"
    BY <1>1, <1>3, <1>4, <1>6, <1>7, <1>9, NewRowPays
  <1> QED BY <1>8, <1>9

LEMMA PaymentsFollow ==
  ASSUME CashInv, DocsSound, ReqsSound, NEW r \in Requests,
         CommitApprove(r) \/ CommitDisburse(r) \/ CommitReceive(r), NEW d, d = req[r].doc
  PROVE  /\ d \in Docs /\ RowKeeps(d) /\ Pays(d)
         /\ CommitApprove(r) \/ doc[d].status # "pending"
  <1>1. PICK q : d = req[r].doc /\ q = req[r]
    OBVIOUS
  <1>2. /\ q.pc \in {"approve", "disburse", "receive"} /\ q.pc \in DocSteps /\ q.pc \in Payments
    BY <1>1 DEF CommitApprove, CommitDisburse, CommitReceive, DocSteps, Payments
  <1>3. d \in Docs /\ q.user \in Users \cup {Nobody} /\ q.account \in Accounts
    BY <1>1, <1>2, TakenByStage DEF CashInv, PaysFromAccount
  <1>4. /\ q.row.amount = doc[d].amount /\ doc[d].status # "none"
        /\ q.pc \in {"approve", "disburse"} => d \in Expenses
        /\ q.pc = "receive" => d \in Purchases
    BY <1>1, <1>2 DEF ReqsSound, ReqSound, Remembers
  <1>5. doc[d] \in DocRow
    BY <1>3 DEF CashInv, TypeOK
  <1>6. doc[d].amount \in Amounts
    BY <1>3, <1>4, <1>5 DEF DocsSound, RowSound, DocRow
  <1>7. PICK row :
          /\ row \in DocRow /\ doc' = [doc EXCEPT ![d] = row]
          /\ row.amount = doc[d].amount /\ row.paidFrom = q.account
          /\ row.status = IF q.pc = "receive" THEN "received" ELSE "paid"
    <2>1. CASE CommitApprove(r)
      <3>1. PICK row : row = [doc[d] EXCEPT !.status = "paid", !.approved = q.user,
                                            !.paid = q.user, !.paidFrom = q.account]
        OBVIOUS
      <3>2. /\ row \in DocRow /\ row.amount = doc[d].amount /\ row.paidFrom = q.account
            /\ row.status = "paid"
        BY <1>3, <1>5, <3>1 DEF DocRow, Statuses
      <3> QED BY <1>1, <2>1, <3>1, <3>2 DEF CommitApprove, Pay
    <2>2. CASE CommitDisburse(r)
      <3>1. PICK row : row = [doc[d] EXCEPT !.status = "paid", !.paid = q.user,
                                            !.paidFrom = q.account]
        OBVIOUS
      <3>2. /\ row \in DocRow /\ row.amount = doc[d].amount /\ row.paidFrom = q.account
            /\ row.status = "paid"
        BY <1>3, <1>5, <3>1 DEF DocRow, Statuses
      <3> QED BY <1>1, <2>2, <3>1, <3>2 DEF CommitDisburse, Pay
    <2>3. CASE CommitReceive(r)
      <3>1. PICK row : row = [doc[d] EXCEPT !.status = "received", !.account = q.account,
                                            !.paidFrom = q.account]
        OBVIOUS
      <3>2. /\ row \in DocRow /\ row.amount = doc[d].amount /\ row.paidFrom = q.account
            /\ row.status = "received"
        BY <1>3, <1>5, <3>1 DEF DocRow, Statuses
      <3> QED BY <1>1, <2>3, <3>1, <3>2 DEF CommitReceive, Pay
    <2> QED BY <2>1, <2>2, <2>3
  <1>8. doc'[d] = row /\ \A x \in Docs \ {d} : doc'[x] = doc[x]
    BY <1>3, <1>7 DEF CashInv, TypeOK
  <1>9. d \in Expenses \cup Purchases /\ d \notin Sales /\ d \notin Incomes
    BY <1>2, <1>3, <1>4, KindsApart
  <1>10. RowKeeps(d)
    <2>1. row.status \in KindStatuses(d)
      BY <1>2, <1>3, <1>4, <1>7, KindsApart DEF KindStatuses
    <2> QED BY <1>4, <1>6, <1>7, <1>8, <1>9, <2>1, AmountsNotZero DEF RowKeeps, RowSound
  <1>11. Post(d, "original", On(row.paidFrom, -row.amount)) /\ doc[d].status \in {"pending", "approved", "ordered"}
    BY <1>1, <1>4, <1>7 DEF CommitApprove, CommitDisburse, CommitReceive, Pay
  <1>12. ~CashMoved(d)
    BY <1>9, <1>11 DEF CashMoved, CashReturned
  <1>13. Pays(d)
    BY <1>3, <1>6, <1>7, <1>9, <1>11, <1>12, NewRowPays DEF CashInv
  <1>14. CommitApprove(r) \/ doc[d].status # "pending"
    BY <1>1 DEF CommitDisburse, CommitReceive, Pay
  <1> QED BY <1>1, <1>3, <1>10, <1>13, <1>14

\* A change of status alone.
LEMMA StatusWritten ==
  ASSUME TypeOK, NEW d \in Docs, NEW s, doc' = [doc EXCEPT ![d].status = s]
  PROVE  /\ doc'[d].status = s /\ doc'[d].amount = doc[d].amount
         /\ doc'[d].paidFrom = doc[d].paidFrom /\ doc'[d].account = doc[d].account
         /\ Signed(d)' = Signed(d) /\ \A x \in Docs \ {d} : doc'[x] = doc[x]
  <1>1. doc'[d] = [doc[d] EXCEPT !.status = s] /\ doc[d] \in DocRow
    BY DEF TypeOK
  <1>2. /\ doc'[d].status = s /\ doc'[d].amount = doc[d].amount
        /\ doc'[d].paidFrom = doc[d].paidFrom /\ doc'[d].account = doc[d].account
    BY <1>1 DEF DocRow
  <1> QED BY <1>2 DEF Signed, TypeOK

LEMMA RefusalsFollow ==
  ASSUME CashInv, DocsSound, ReqsSound, NEW r \in Requests,
         CommitReject(r) \/ CommitCancelPurchase(r), NEW d, d = req[r].doc
  PROVE  d \in Docs /\ RowKeeps(d) /\ Quiet(d)
  <1>1. PICK q : d = req[r].doc /\ q = req[r]
    OBVIOUS
  <1>2. q.pc \in {"reject", "cancel purchase"} /\ q.pc \in DocSteps
    BY <1>1 DEF CommitReject, CommitCancelPurchase, DocSteps
  <1>3. d \in Docs
    BY <1>1, <1>2, TakenByStage DEF CashInv
  <1>4. PICK s \in {"rejected", "cancelled"} :
          doc' = [doc EXCEPT ![d].status = s] /\ s = IF q.pc = "reject" THEN "rejected" ELSE "cancelled"
    BY <1>1 DEF CommitReject, CommitCancelPurchase
  <1>5. /\ doc[d].status # "none" /\ (q.pc = "reject" => doc[d].status = "pending" /\ d \in Expenses)
        /\ q.pc = "cancel purchase" => d \in Purchases /\ doc[d].status = "ordered"
    BY <1>1, <1>2 DEF ReqsSound, ReqSound, Remembers, CommitCancelPurchase, CommitReject
  <1>6. d \notin Sales /\ s \in KindStatuses(d)
    BY <1>2, <1>3, <1>4, <1>5, KindsApart DEF KindStatuses
  <1>7. RowKeeps(d)
    BY <1>3, <1>4, <1>5, <1>6, StatusWritten DEF CashInv, RowKeeps, RowSound, DocsSound
  <1>8. ~CashMoved(d)
    BY <1>2, <1>5, <1>6 DEF CashMoved, CashReturned
  <1>9. ~CashMoved(d)'
    <2>1. doc'[d].status \in {"rejected", "cancelled"}
      BY <1>3, <1>4, StatusWritten DEF CashInv
    <2> QED BY <1>6, <2>1 DEF CashMoved, CashReturned
  <1>10. UNCHANGED statement
    BY DEF CommitReject, CommitCancelPurchase
  <1> QED BY <1>1, <1>3, <1>7, <1>8, <1>9, <1>10 DEF Quiet

LEMMA CancelFollows ==
  ASSUME CashInv, DocsSound, ReqsSound, NEW r \in Requests, CommitCancelSale(r),
         NEW d, d = req[r].doc
  PROVE  d \in Sales /\ RowKeeps(d) /\ Returns(d)
  <1>1. PICK q : d = req[r].doc /\ q = req[r]
    OBVIOUS
  <1>2. q.pc = "cancel sale" /\ q.pc \in DocSteps
    BY <1>1 DEF CommitCancelSale, DocSteps
  <1>3. d \in Docs /\ d \in Sales /\ q.row.amount = doc[d].amount /\ q.account = doc[d].paidFrom
    BY <1>1, <1>2, TakenByStage DEF CashInv, ReqsSound, ReqSound, Remembers
  <1>4. /\ doc[d].status = "completed" /\ doc' = [doc EXCEPT ![d].status = "cancelled"]
        /\ Post(d, "reversal", On(doc[d].paidFrom, -doc[d].amount))
    BY <1>1, <1>3 DEF CommitCancelSale
  <1>5. doc[d].amount \in Amounts /\ d \notin Expenses \cup Purchases
    BY <1>3, <1>4, KindsApart DEF DocsSound, RowSound, CashInv, TypeOK, DocRow
  <1>0. doc[d].amount \in Int \ {0} /\ -doc[d].amount \in Int \ {0}
    BY <1>5, AmountsNotZero
  <1>6. RowKeeps(d)
    <2>1. "cancelled" \in KindStatuses(d)
      BY <1>3, <1>5 DEF KindStatuses
    <2>2. /\ doc'[d].status = "cancelled" /\ doc'[d].amount = doc[d].amount
          /\ doc'[d].paidFrom = doc[d].paidFrom /\ \A x \in Docs \ {d} : doc'[x] = doc[x]
      BY <1>3, <1>4, StatusWritten DEF CashInv
    <2> QED BY <1>0, <1>4, <2>1, <2>2 DEF RowKeeps, RowSound
  <1>7. Signed(d) = doc[d].amount
    BY <1>5 DEF Signed
  <1>8. /\ CashMoved(d) /\ ~CashReturned(d) /\ CashReturned(d)'
    BY <1>3, <1>4, StatusWritten DEF CashInv, CashMoved, CashReturned
  <1>9. doc'[d].paidFrom = doc[d].paidFrom /\ Signed(d)' = Signed(d)
    BY <1>3, <1>4, StatusWritten DEF CashInv
  <1> QED BY <1>0, <1>1, <1>3, <1>4, <1>6, <1>7, <1>8, <1>9 DEF Returns

LEMMA ReversalsFollow ==
  ASSUME CashInv, DocsSound, DocumentCash, NEW d \in Expenses \cup Incomes, Reverse(d)
  PROVE  RowKeeps(d) /\ Returns(d) /\ (d \in Expenses => doc[d].status # "pending")
  <1>1. d \in Docs /\ Told(d)
    BY DEF Docs, DocumentCash, Told
  <1>a. PICK a \in Accounts : \E i \in DOMAIN statement[a] :
          Reversible(d, a, i) /\ Post(d, "reversal", On(a, -statement[a][i].amount))
    BY DEF Reverse
  <1>2. PICK i \in DOMAIN statement[a] :
          Reversible(d, a, i) /\ Post(d, "reversal", On(a, -statement[a][i].amount))
    BY <1>a
  <1>3. Of(d, a, "original") = {i} /\ Of(d, a, "reversal") = {}
    BY <1>2 DEF Reversible
  <1>4. CashMoved(d) /\ a = doc[d].paidFrom /\ OneLineOf(d, a, "original", Signed(d))
    BY <1>1, <1>3, ToldLines
  <1>5. ~CashReturned(d)
    <2>1. ASSUME CashReturned(d) PROVE FALSE
      <3>1. OneLineOf(d, a, "reversal", -Signed(d))
        BY <1>1, <1>4, <2>1, ToldLines
      <3> QED BY <1>3, <3>1 DEF OneLineOf
    <2> QED BY <2>1
  <1>6. statement[a][i].amount = Signed(d)
    BY <1>3, <1>4 DEF OneLineOf
  <1>7. doc' = [doc EXCEPT ![d].status = "reversed"]
    BY DEF Reverse
  <1>8. d \notin Sales /\ d \notin Purchases /\ "reversed" \in KindStatuses(d)
    BY <1>1, KindsApart DEF KindStatuses
  <1>9. doc[d].status # "none" /\ doc[d].status # "pending"
    BY <1>4, <1>8 DEF CashMoved, CashReturned
  <1>10. doc[d].amount \in Amounts
    BY <1>1, <1>9 DEF DocsSound, RowSound, CashInv, TypeOK, DocRow
  <1>0. doc[d].amount \in Int \ {0} /\ -doc[d].amount \in Int \ {0}
    BY <1>10, AmountsNotZero
  <1>14. /\ doc'[d].status = "reversed" /\ doc'[d].amount = doc[d].amount
         /\ doc'[d].paidFrom = doc[d].paidFrom /\ \A x \in Docs \ {d} : doc'[x] = doc[x]
    BY <1>1, <1>7, StatusWritten DEF CashInv
  <1>11. RowKeeps(d)
    BY <1>0, <1>8, <1>9, <1>14 DEF RowKeeps, RowSound
  <1>12. Signed(d) \in Int \ {0} /\ -Signed(d) \in Int \ {0}
    <2>1. PICK n \in Int \ {0} : n = doc[d].amount
      BY <1>0
    <2>2. Signed(d) = n \/ Signed(d) = -n
      BY <2>1 DEF Signed
    <2> QED BY <2>2
  <1>13. CashReturned(d)' /\ doc'[d].paidFrom = doc[d].paidFrom /\ Signed(d)' = Signed(d)
    BY <1>1, <1>7, StatusWritten DEF CashInv, CashReturned
  <1> QED BY <1>2, <1>4, <1>5, <1>6, <1>9, <1>11, <1>12, <1>13 DEF Returns

LEMMA KnownKept ==
  ASSUME ReqsSound, NEW d \in Docs, RowKeeps(d),
         \A s \in Requests : \/ req'[s] = Idle
                             \/ /\ req'[s] = req[s]
                                /\ req[s].pc = "reject" => req[s].doc # d
  PROVE  ReqsSound'
  <1> SUFFICES ASSUME NEW s \in Requests PROVE ReqSound(req[s])'
    BY DEF ReqsSound
  <1>1. CASE req'[s] = Idle
    BY <1>1 DEF ReqSound, Idle, DocSteps
  <1>2. CASE req'[s] = req[s] /\ (req[s].pc = "reject" => req[s].doc # d)
    <2>1. PICK q : q = req[s] /\ q = req'[s] /\ ReqSound(q)
      BY <1>2 DEF ReqsSound
    <2>2. q.pc \in DocSteps => Remembers(q, doc'[q.doc])
      <3> SUFFICES ASSUME q.pc \in DocSteps PROVE Remembers(q, doc'[q.doc])
        OBVIOUS
      <3>1. Remembers(q, doc[q.doc]) /\ (q.pc = "cancel sale" => q.doc \in Sales)
        BY <2>1 DEF ReqSound
      <3>2. q.doc \in Docs
        BY <2>1 DEF ReqSound, Docs, DocSteps
      <3>3. CASE q.doc # d
        BY <3>1, <3>2, <3>3 DEF RowKeeps
      <3>4. CASE q.doc = d
        BY <1>2, <2>1, <3>1, <3>4 DEF RowKeeps, Remembers
      <3> QED BY <3>3, <3>4
    <2>3. ReqSound(q)'
      BY <2>1, <2>2 DEF ReqSound
    <2> QED BY <2>1, <2>3 DEF ReqSound
  <1> QED BY <1>1, <1>2

LEMMA KnownStarted ==
  ASSUME TypeOK, ReqsSound, NEW r \in Requests, NEW q, Become(r, q), UNCHANGED doc, ReqSound(q)
  PROVE  ReqsSound'
  <1> SUFFICES ASSUME NEW s \in Requests PROVE ReqSound(req[s])'
    BY DEF ReqsSound
  <1>1. PICK p : p = req'[s] /\ ReqSound(p)
    BY DEF ReqsSound, Become, TypeOK
  <1> QED BY <1>1 DEF ReqSound

LEMMA StartsKnow ==
  ASSUME CashInv, DocsSound, ReqsSound, NEW r \in Requests,
         \/ \E e \in Expenses, u \in Users :
              StartApprove(r, e, u) \/ StartReject(r, e, u) \/ StartDisburse(r, e, u)
         \/ \E s \in Sales : StartCancelSale(r, s)
         \/ \E p \in Purchases : StartReceive(r, p) \/ StartCancelPurchase(r, p)
         \/ StartTransfer(r) \/ StartAdjust(r)
         \/ GiveUp(r) \/ CommitTransfer(r) \/ CommitAdjust(r)
  PROVE  ReqsSound' /\ UNCHANGED doc
  <1>1. ASSUME NEW pc \in DocSteps, NEW d \in Docs, NEW u, NEW a, Take(r, pc, d, u, a),
               doc[d].status # "none",
               pc = "cancel sale" => a = doc[d].paidFrom /\ d \in Sales,
               pc = "reject" => doc[d].status = "pending" /\ "reject" \in Ops,
               pc \in {"approve", "reject", "disburse"} => d \in Expenses,
               pc \in {"receive", "cancel purchase"} => d \in Purchases
        PROVE  ReqsSound' /\ UNCHANGED doc
    <2>1. PICK q : q = [pc |-> pc, doc |-> d, row |-> doc[d], user |-> u, account |-> a]
      OBVIOUS
    <2>2. q.pc = pc /\ q.doc = d /\ q.row = doc[d] /\ q.account = a
      BY <2>1
    <2>3. ReqSound(q)
      BY <1>1, <2>2 DEF ReqSound, Remembers, DocSteps
    <2> QED BY <1>1, <2>1, <2>3, KnownStarted DEF Take, CashInv
  <1>2. ASSUME NEW e \in Expenses, NEW u \in Users,
               StartApprove(r, e, u) \/ StartReject(r, e, u) \/ StartDisburse(r, e, u)
        PROVE  ReqsSound' /\ UNCHANGED doc
    <2>1. e \in Docs
      BY DEF Docs
    <2>2. PICK pc, a :
            /\ pc \in {"approve", "reject", "disburse"}
            /\ Take(r, pc, e, u, a) /\ doc[e].status # "none"
            /\ pc = "reject" => doc[e].status = "pending" /\ "reject" \in Ops
      BY <1>2 DEF StartApprove, StartReject, StartDisburse
    <2> QED BY <1>1, <2>1, <2>2 DEF DocSteps
  <1>3. ASSUME NEW s \in Sales, StartCancelSale(r, s)
        PROVE  ReqsSound' /\ UNCHANGED doc
    <2>1. s \in Docs /\ doc[s].account = doc[s].paidFrom
      BY <1>3 DEF Docs, StartCancelSale, DocsSound, RowSound
    <2> QED BY <1>1, <1>3, <2>1 DEF StartCancelSale, DocSteps
  <1>4. ASSUME NEW p \in Purchases, StartReceive(r, p) \/ StartCancelPurchase(r, p)
        PROVE  ReqsSound' /\ UNCHANGED doc
    <2>1. p \in Docs
      BY DEF Docs
    <2> QED BY <1>1, <1>4, <2>1 DEF StartReceive, StartCancelPurchase, DocSteps
  <1>5. CASE StartTransfer(r)
    <2>1. PICK q : Become(r, q) /\ q.pc = "transfer" /\ q.from # q.to
      BY <1>5 DEF StartTransfer
    <2> QED BY <1>5, <2>1, KnownStarted DEF ReqSound, DocSteps, StartTransfer, CashInv
  <1>6. CASE StartAdjust(r)
    <2>1. PICK q : Become(r, q) /\ q.pc = "adjust"
      BY <1>6 DEF StartAdjust
    <2> QED BY <1>6, <2>1, KnownStarted DEF ReqSound, DocSteps, StartAdjust, CashInv
  <1>7. CASE GiveUp(r) \/ CommitTransfer(r) \/ CommitAdjust(r)
    <2>1. Become(r, Idle) /\ UNCHANGED doc
      BY <1>7 DEF GiveUp, CommitTransfer, CommitAdjust
    <2>2. ReqSound(Idle)
      BY DEF ReqSound, Idle, DocSteps
    <2> QED BY <2>1, <2>2, KnownStarted DEF CashInv
  <1> QED BY <1>2, <1>3, <1>4, <1>5, <1>6, <1>7

DocumentsInv == CashInv /\ DocsSound /\ ReqsSound /\ DocumentCash

LEMMA DocumentsStep ==
  ASSUME RejectsAlone, DocumentsInv, [Next]_vars
  PROVE  LinesFollow /\ DocsSound' /\ ReqsSound'
  <1> USE DEF DocumentsInv
  <1>1. ASSUME NEW d \in Docs, RowKeeps(d), Quiet(d) \/ Pays(d) \/ Returns(d)
        PROVE  LinesFollow /\ DocsSound'
    BY <1>1 DEF LinesFollow, RowKeeps, DocsSound
  <1>2. ASSUME NEW d \in Docs, RowKeeps(d), UNCHANGED req, doc[d].status # "pending"
        PROVE  ReqsSound'
    <2>1. \A s \in Requests : req[s].pc = "reject" => req[s].doc # d
      BY <1>2 DEF ReqsSound, ReqSound, Remembers, DocSteps
    <2> QED BY <1>2, <2>1, KnownKept
  <1>3. ASSUME NEW e \in Expenses, NEW u \in Users, RecordsMove(e, u)
        PROVE  LinesFollow /\ DocsSound' /\ ReqsSound'
    <2>1. e \in Docs /\ UNCHANGED req /\ doc[e].status # "pending"
      BY <1>3 DEF Docs, RecordsMove, RecordExpense, SaveReviewed, SubmitDraft
    <2> QED BY <1>1, <1>2, <1>3, <2>1, RecordsFollow DEF CashInv
  <1>4. ASSUME NEW d \in Docs,
               \/ d \in Sales /\ RecordSale(d)
               \/ d \in Purchases /\ OrderPurchase(d)
               \/ d \in Incomes /\ RecordIncome(d)
        PROVE  LinesFollow /\ DocsSound' /\ ReqsSound'
    <2>1. UNCHANGED req /\ doc[d].status # "pending"
      BY <1>4 DEF RecordSale, OrderPurchase, RecordIncome
    <2> QED BY <1>1, <1>2, <1>4, <2>1, TradesFollow DEF CashInv
  <1>5. ASSUME NEW d \in Expenses \cup Incomes, Reverse(d)
        PROVE  LinesFollow /\ DocsSound' /\ ReqsSound'
    <2>1. d \in Docs /\ UNCHANGED req
      BY <1>5 DEF Docs, Reverse
    <2>2. RowKeeps(d) /\ Returns(d) /\ (d \in Expenses => doc[d].status # "pending")
      BY <1>5, ReversalsFollow
    <2>3. doc[d].status # "pending"
      BY <2>1, <2>2, KindsApart DEF DocsSound, RowSound, KindStatuses
    <2> QED BY <1>1, <1>2, <2>1, <2>2, <2>3
  <1>6. ASSUME NEW r \in Requests, Become(r, Idle), NEW d \in Docs, RowKeeps(d),
               doc[d].status # "pending" \/ req[r].pc \in {"approve", "reject"}
        PROVE  ReqsSound'
    <2>1. \A s \in Requests : req'[s] = IF s = r THEN Idle ELSE req[s]
      BY <1>6 DEF Become, CashInv, TypeOK
    <2>2. ASSUME NEW s \in Requests, s # r, req[s].pc = "reject", req[s].doc = d
          PROVE  FALSE
      <3>1. doc[d].status = "pending" /\ "reject" \in Ops
        BY <2>2 DEF ReqsSound, ReqSound, Remembers, DocSteps
      <3> QED BY <1>6, <2>2, <3>1 DEF RejectsAlone
    <2> QED BY <1>6, <2>1, <2>2, KnownKept
  <1>7. ASSUME NEW r \in Requests, CommitApprove(r) \/ CommitDisburse(r) \/ CommitReceive(r)
        PROVE  LinesFollow /\ DocsSound' /\ ReqsSound'
    <2>1. PICK d : d = req[r].doc
      OBVIOUS
    <2>2. /\ d \in Docs /\ RowKeeps(d) /\ Pays(d)
          /\ CommitApprove(r) \/ doc[d].status # "pending"
      BY <1>7, <2>1, PaymentsFollow
    <2>3. Become(r, Idle) /\ (CommitApprove(r) => req[r].pc = "approve")
      BY <1>7 DEF CommitApprove, CommitDisburse, CommitReceive, Pay
    <2> QED BY <1>1, <1>6, <2>2, <2>3
  <1>8. ASSUME NEW r \in Requests, CommitReject(r) \/ CommitCancelPurchase(r)
        PROVE  LinesFollow /\ DocsSound' /\ ReqsSound'
    <2>1. PICK d : d = req[r].doc
      OBVIOUS
    <2>2. d \in Docs /\ RowKeeps(d) /\ Quiet(d)
      BY <1>8, <2>1, RefusalsFollow
    <2>3. Become(r, Idle) /\ (doc[d].status # "pending" \/ req[r].pc = "reject")
      BY <1>8, <2>1 DEF CommitReject, CommitCancelPurchase
    <2> QED BY <1>1, <1>6, <2>2, <2>3
  <1>9. ASSUME NEW r \in Requests, CommitCancelSale(r)
        PROVE  LinesFollow /\ DocsSound' /\ ReqsSound'
    <2>1. PICK d : d = req[r].doc
      OBVIOUS
    <2>2. d \in Sales /\ RowKeeps(d) /\ Returns(d)
      BY <1>9, <2>1, CancelFollows
    <2>3. Become(r, Idle) /\ doc[d].status # "pending" /\ d \in Docs
      BY <1>9, <2>1, <2>2 DEF CommitCancelSale, Docs
    <2> QED BY <1>1, <1>6, <2>2, <2>3
  <1>10. ASSUME NEW r \in Requests,
                \/ \E e \in Expenses, u \in Users :
                     StartApprove(r, e, u) \/ StartReject(r, e, u) \/ StartDisburse(r, e, u)
                \/ \E s \in Sales : StartCancelSale(r, s)
                \/ \E p \in Purchases : StartReceive(r, p) \/ StartCancelPurchase(r, p)
                \/ StartTransfer(r) \/ StartAdjust(r) \/ GiveUp(r)
         PROVE  LinesFollow /\ DocsSound' /\ ReqsSound'
    <2>1. ReqsSound' /\ UNCHANGED doc
      BY <1>10, StartsKnow
    <2>2. UNCHANGED statement
      BY <1>10 DEF StartApprove, StartReject, StartDisburse, StartCancelSale, StartReceive,
         StartCancelPurchase, StartTransfer, StartAdjust, GiveUp, Take
    <2> QED BY <2>1, <2>2 DEF LinesFollow, DocsSound
  <1>11. ASSUME NEW r \in Requests, CommitTransfer(r) \/ CommitAdjust(r)
         PROVE  LinesFollow /\ DocsSound' /\ ReqsSound'
    <2>1. ReqsSound' /\ UNCHANGED doc
      BY <1>11, StartsKnow
    <2>2. /\ req[r].from \in Accounts /\ req[r].to \in Accounts
          /\ req[r].amount \in Nat /\ req[r].sign \in {1, -1}
      BY <1>11, TakenByStage DEF CommitTransfer, CommitAdjust, CashInv
    <2>3. TransferLines(req[r]) \in [Accounts -> Int]
      BY <2>2 DEF TransferLines
    <2>4. On(req[r].from, req[r].sign * req[r].amount) \in [Accounts -> Int]
      <3>1. req[r].sign * req[r].amount \in Int
        BY <2>2
      <3> QED BY <2>2, <3>1, LinesTyped
    <2>5. \E what \in Without, lines \in [Accounts -> Int] :
            /\ Post(what, "original", lines)
            /\ what = "transfer" => \E a, b \in Accounts, n \in Nat :
                                    a # b /\ lines = Carried(a, b, n)
      <3>1. CASE CommitTransfer(r)
        <4>1. req[r].from # req[r].to
          BY <3>1 DEF ReqsSound, ReqSound, CommitTransfer
        <4>2. TransferLines(req[r]) = Carried(req[r].from, req[r].to, req[r].amount)
          BY DEF TransferLines, Carried
        <4>3. Post("transfer", "original", TransferLines(req[r]))
          BY <3>1 DEF CommitTransfer
        <4> QED BY <2>2, <2>3, <4>1, <4>2, <4>3 DEF Without
      <3>2. CASE CommitAdjust(r)
        BY <2>4, <3>2 DEF CommitAdjust, Without
      <3> QED BY <1>11, <3>1, <3>2
    <2> QED BY <2>1, <2>5 DEF LinesFollow, DocsSound
  <1>12. CASE UNCHANGED vars
    <2>1. ReqsSound' /\ DocsSound'
      BY <1>12 DEF vars, ReqsSound, ReqSound, DocsSound
    <2> QED BY <1>12, <2>1 DEF vars, LinesFollow
  <1>13. CASE ExpenseNext
    BY <1>13, <1>3, <1>5, <1>7, <1>8, <1>10 DEF ExpenseNext, RecordsMove
  <1>14. CASE TradeNext
    BY <1>14, <1>4, <1>7, <1>8, <1>9, <1>10, <1>11 DEF TradeNext, Docs
  <1>15. CASE \E r \in Requests : GiveUp(r)
    BY <1>15, <1>10
  <1> QED BY <1>12, <1>13, <1>14, <1>15 DEF Next

-----------------------------------------------------------------------------
(* Transfers cancel out. *)

LEMMA TotalIsSum == ASSUME NEW f, NEW S PROVE Total(f, S) = SumOver(f, S)
  BY DEF Total, SumOver

\* An account's total of transfers follows what is posted for transfers.
LEMMA TransferTotalStep ==
  ASSUME CashTyped, NEW what \in EntryFor, NEW type \in {"original", "reversal"},
         NEW lines \in [Accounts -> Int], Post(what, type, lines), NEW a \in Accounts
  PROVE  /\ TransferTotal(a) \in Int
         /\ TransferTotal(a)' = TransferTotal(a) + (IF what = "transfer" THEN lines[a] ELSE 0)
  <1> DEFINE New == Len(statement[a]) + 1
  <1>1. /\ DOMAIN statement[a] = 1 .. Len(statement[a]) /\ Len(statement[a]) \in Nat
        /\ DOMAIN statement'[a] = IF lines[a] = 0 THEN 1 .. Len(statement[a]) ELSE 1 .. New
        /\ \A i \in 1 .. Len(statement[a]) : statement'[a][i] = statement[a][i]
        /\ lines[a] # 0 => statement'[a][New].for = what /\ statement'[a][New].amount = lines[a]
    BY LinesWritten
  <1>2. PICK S, T : S = TransferLinesOf(a) /\ T = TransferLinesOf(a)'
    OBVIOUS
  <1>3. PICK f, g : /\ f = [i \in S |-> statement[a][i].amount]
                    /\ g = [i \in T |-> statement'[a][i].amount]
    OBVIOUS
  <1>4. TransferTotal(a) = SumOver(f, S) /\ TransferTotal(a)' = SumOver(g, T)
    BY <1>2, <1>3, TotalIsSum DEF TransferTotal
  <1>5. S \subseteq 1 .. Len(statement[a]) /\ IsFiniteSet(S)
    <2>1. S \subseteq 1 .. Len(statement[a])
      BY <1>1, <1>2 DEF TransferLinesOf
    <2>2. Len(statement[a]) \in Int /\ 1 \in Int
      BY <1>1
    <2>3. IsFiniteSet(1 .. Len(statement[a]))
      BY <2>2, FS_Interval
    <2> QED BY <2>1, <2>3, FS_Subset
  <1>6. \A i \in S : f[i] \in Int
    <2>1. \A i \in 1 .. Len(statement[a]) : statement[a][i] \in EntryRow
      BY DEF CashTyped
    <2> QED BY <1>3, <1>5, <2>1 DEF EntryRow
  <1>7. SumOver(f, S) \in Int
    BY <1>5, <1>6, SumIsInteger
  <1>8. T = IF what = "transfer" /\ lines[a] # 0 THEN S \cup {New} ELSE S
    <2>1. S = {i \in 1 .. Len(statement[a]) : statement'[a][i].for = "transfer"}
      BY <1>1, <1>2 DEF TransferLinesOf
    <2>2. T = {i \in DOMAIN statement'[a] : statement'[a][i].for = "transfer"}
      BY <1>2 DEF TransferLinesOf
    <2>3. 1 .. New = (1 .. Len(statement[a])) \cup {New}
      BY <1>1
    <2>4. CASE lines[a] = 0
      BY <1>1, <2>1, <2>2, <2>4
    <2>5. CASE lines[a] # 0
      BY <1>1, <2>1, <2>2, <2>3, <2>5
    <2> QED BY <2>4, <2>5
  <1>9. \A i \in S : g[i] = f[i]
    BY <1>1, <1>3, <1>5, <1>8
  <1>10. SumOver(g, S) = SumOver(f, S)
    BY <1>5, <1>9, SumAgrees
  <1>11. CASE what = "transfer" /\ lines[a] # 0
    <2>1. New \notin S /\ T = S \cup {New} /\ g[New] = lines[a] /\ lines[a] \in Int
      BY <1>1, <1>3, <1>5, <1>8, <1>11
    <2>2. IsFiniteSet(T) /\ \A i \in T : g[i] \in Int
      BY <1>5, <1>6, <1>9, <2>1, FS_AddElement
    <2>3. SumOver(g, T) = g[New] + SumOver(g, T \ {New})
      BY <2>1, <2>2, SumRemove
    <2>4. T \ {New} = S
      BY <2>1
    <2>5. SumOver(g, T) = lines[a] + SumOver(f, S)
      BY <1>10, <2>1, <2>3, <2>4
    <2>6. TransferTotal(a)' = TransferTotal(a) + lines[a]
      BY <1>4, <1>7, <2>1, <2>5
    <2> QED BY <1>4, <1>7, <1>11, <2>6
  <1>12. CASE what # "transfer"
    BY <1>4, <1>7, <1>8, <1>10, <1>12
  <1>13. CASE lines[a] = 0
    BY <1>4, <1>7, <1>8, <1>10, <1>13
  <1> QED BY <1>4, <1>7, <1>11, <1>12, <1>13

LEMMA CarriedSum ==
  ASSUME NEW a \in Accounts, NEW b \in Accounts, NEW n \in Nat, a # b
  PROVE  SumOver(Carried(a, b, n), Accounts) = 0
  <1>1. PICK f, g, h : /\ f = [c \in Accounts |-> 0]
                       /\ g = [c \in Accounts |-> IF c = a THEN -n ELSE 0]
                       /\ h = Carried(a, b, n)
    OBVIOUS
  <1>2. IsFiniteSet(Accounts)
    BY CashAssumption DEF CashAssumption
  <1>3. \A c \in Accounts : f[c] \in Int /\ g[c] \in Int /\ h[c] \in Int
    BY <1>1 DEF Carried
  <1>4. SumOver(f, Accounts) = 0
    BY <1>1, <1>2, SumOfZeros
  <1>5. SumOver(g, Accounts) = SumOver(f, Accounts) + g[a] - f[a]
    <2>1. \A c \in Accounts \ {a} : g[c] = f[c]
      BY <1>1
    <2>2. \A c \in Accounts : f[c] \in Int /\ g[c] \in Int
      BY <1>3
    <2> QED BY <1>2, <2>1, <2>2, SumUpdate
  <1>6. SumOver(h, Accounts) = SumOver(g, Accounts) + h[b] - g[b]
    <2>1. \A c \in Accounts \ {b} : h[c] = g[c]
      BY <1>1 DEF Carried
    <2> QED BY <1>2, <1>3, <2>1, SumUpdate
  <1>7. f[a] = 0 /\ g[a] = -n /\ g[b] = 0 /\ h[b] = n
    BY <1>1 DEF Carried
  <1> QED BY <1>1, <1>4, <1>5, <1>6, <1>7

LEMMA TransfersCancelStep ==
  ASSUME CashTyped, TransfersCancelOut, DocumentCash, LinesFollow
  PROVE  TransfersCancelOut'
  <1>0. IsFiniteSet(Accounts)
    BY CashAssumption DEF CashAssumption
  <1>1. CASE UNCHANGED statement
    BY <1>1 DEF TransfersCancelOut, TransferTotal, TransferLinesOf
  <1>2. ASSUME NEW what \in EntryFor, NEW type \in {"original", "reversal"},
               NEW lines \in [Accounts -> Int], Post(what, type, lines),
               what = "transfer" => SumOver(lines, Accounts) = 0
        PROVE  TransfersCancelOut'
    <2>1. PICK f, g, h : /\ f = [a \in Accounts |-> TransferTotal(a)]
                         /\ g = [a \in Accounts |-> IF what = "transfer" THEN lines[a] ELSE 0]
                         /\ h = [a \in Accounts |-> TransferTotal(a)']
      OBVIOUS
    <2>2. \A a \in Accounts : f[a] \in Int /\ g[a] \in Int /\ h[a] = f[a] + g[a]
      BY <1>2, <2>1, TransferTotalStep
    <2>3. SumOver(h, Accounts) = SumOver(f, Accounts) + SumOver(g, Accounts)
      BY <1>0, <2>2, SumOfChanges
    <2>4. SumOver(f, Accounts) = 0
      BY <2>1, TotalIsSum DEF TransfersCancelOut
    <2>5. SumOver(g, Accounts) = 0
      <3>1. CASE what = "transfer"
        BY <1>0, <1>2, <2>1, <3>1, SumAgrees
      <3>2. CASE what # "transfer"
        BY <1>0, <2>1, <3>2, SumOfZeros
      <3> QED BY <3>1, <3>2
    <2>6. SumOver(h, Accounts) = 0
      BY <2>3, <2>4, <2>5
    <2>7. Total(h, Accounts) = 0
      BY <2>6, TotalIsSum
    <2> QED BY <2>1, <2>7 DEF TransfersCancelOut
  <1>3. CASE \E what \in Without, lines \in [Accounts -> Int] :
               /\ Post(what, "original", lines)
               /\ what = "transfer" => \E a, b \in Accounts, n \in Nat :
                                       a # b /\ lines = Carried(a, b, n)
    <2>1. PICK what \in Without, lines \in [Accounts -> Int] :
            /\ Post(what, "original", lines)
            /\ what = "transfer" => \E a, b \in Accounts, n \in Nat :
                                    a # b /\ lines = Carried(a, b, n)
      BY <1>3
    <2>2. what \in EntryFor
      BY DEF Without, EntryFor
    <2>3. what = "transfer" => SumOver(lines, Accounts) = 0
      BY <2>1, CarriedSum
    <2> QED BY <1>2, <2>1, <2>2, <2>3
  <1>4. ASSUME NEW d \in Docs, Quiet(d) \/ Pays(d) \/ Returns(d), Told(d)
        PROVE  TransfersCancelOut'
    <2>1. d \in EntryFor /\ d # "transfer"
      BY CashAssumption DEF CashAssumption, EntryFor
    <2>2. CASE Quiet(d)
      BY <1>1, <2>2 DEF Quiet
    <2>3. CASE Pays(d)
      BY <1>2, <2>1, <2>3, LinesTyped DEF Pays
    <2>4. CASE Returns(d)
      <3>1. doc[d].paidFrom \in Accounts
        BY <1>4, <2>4 DEF Returns, Told
      <3> QED BY <1>2, <2>1, <2>4, <3>1, LinesTyped DEF Returns
    <2> QED BY <1>4, <2>2, <2>3, <2>4
  <1>5. \A d \in Docs : Told(d)
    BY Zenon DEF DocumentCash, Told
  <1> QED BY <1>1, <1>3, <1>4, <1>5 DEF LinesFollow

LEMMA DocumentsInit == Init => DocumentsInv /\ TransfersCancelOut
  <1> SUFFICES ASSUME Init PROVE DocumentsInv /\ TransfersCancelOut
    OBVIOUS
  <1>1. CashInv
    BY CashInvInit
  <1>2. \A d \in Docs : doc[d].status = "none"
    BY DEF Init, NoDoc
  <1>3. \A r \in Requests : req[r].pc = "idle"
    BY DEF Init, Idle
  <1>4. DocsSound /\ ReqsSound
    BY <1>2, <1>3 DEF DocsSound, RowSound, KindStatuses, ReqsSound, ReqSound, DocSteps
  <1>5. \A a \in Accounts : \A i \in DOMAIN statement[a] : statement[a][i].for = "income"
    BY DEF Init, Opened
  <1>6. DocumentCash
    <2>1. \A d \in Docs : \A a \in Accounts : \A t : Of(d, a, t) = {}
      BY <1>5, CashAssumption DEF CashAssumption, Of
    <2>2. \A d \in Docs : ~CashMoved(d) /\ ~CashReturned(d)
      BY <1>2 DEF CashMoved, CashReturned
    <2> QED BY <2>1, <2>2 DEF DocumentCash, Tells
  <1>7. TransfersCancelOut
    <2>1. \A a \in Accounts : TransferLinesOf(a) = {}
      BY <1>5 DEF TransferLinesOf
    <2>2. \A a \in Accounts : TransferTotal(a) = 0
      BY <2>1, TotalIsSum, SumOfEmpty DEF TransferTotal
    <2>3. SumOver([a \in Accounts |-> TransferTotal(a)], Accounts) = 0
      <3>1. PICK f : f = [a \in Accounts |-> TransferTotal(a)]
        OBVIOUS
      <3> QED BY <2>2, <3>1, SumOfZeros, CashAssumption DEF CashAssumption
    <2> QED BY <2>3, TotalIsSum DEF TransfersCancelOut
  <1> QED BY <1>1, <1>4, <1>6, <1>7 DEF DocumentsInv

\* While no rejection can race a payment, documents and statements tell the
\* same story through every interleaving (expenses, sales, purchases, incomes,
\* accounts): what a document's status says was paid or returned is on its
\* account once, transfers neither make nor lose money, and an expense was
\* paid by somebody who may.
THEOREM MoneyFollowsDocuments ==
  ASSUME RejectsAlone
  PROVE  Spec => []PaidRight
  <1>1. Init => DocumentsInv /\ TransfersCancelOut
    BY DocumentsInit
  <1>2. CashInv' /\ (DocumentsInv /\ TransfersCancelOut) /\ [Next]_vars
          => (DocumentsInv /\ TransfersCancelOut)'
    <2> SUFFICES ASSUME CashInv', DocumentsInv, TransfersCancelOut, [Next]_vars
                 PROVE  (DocumentsInv /\ TransfersCancelOut)'
      OBVIOUS
    <2>1. CashTyped
      BY DEF DocumentsInv, CashInv, TypeOK, CashTyped
    <2>2. LinesFollow /\ DocsSound' /\ ReqsSound'
      BY DocumentsStep
    <2>3. DocumentCash' /\ TransfersCancelOut'
      BY <2>1, <2>2, DocumentsFollow, TransfersCancelStep DEF DocumentsInv
    <2> QED BY <2>2, <2>3 DEF DocumentsInv
  <1>3. DocumentsInv /\ TransfersCancelOut /\ PaidWithAuthority => PaidRight
    BY DEF DocumentsInv, PaidRight
  <1> QED BY <1>1, <1>2, <1>3, CashInvAlways, PaidOnlyWithAuthority, PTL DEF Spec
=============================================================================
