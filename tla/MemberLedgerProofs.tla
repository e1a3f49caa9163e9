------------------------- MODULE MemberLedgerProofs -------------------------
(***************************************************************************)
(* Theorems about the member ledger, for every value of its constants and  *)
(* every interleaving of its handlers: types first, then safety.           *)
(***************************************************************************)
EXTENDS MemberLedger, DueAllocationProofs

LEMMA FiniteTables ==
  /\ IsFiniteSet(Dues) /\ IsFiniteSet(Deposits) /\ IsFiniteSet(Promises)
  /\ Deposits \subseteq Nat /\ Promises \subseteq Nat
  /\ \A u \in Dues : Rank[u] = u[1] /\ Rank[u] \in Nat /\ Owner(u) \in Members
  BY LedgerAssumption, FS_Product DEF LedgerAssumption, Dues, Rank, Owner

-----------------------------------------------------------------------------
(* Requests. *)

\* The stage of a request tells what it holds.
LEMMA RequestByStage ==
  ASSUME NEW q \in Request
  PROVE  /\ q.pc = "submit" => q \in SubmitReq
         /\ q.pc = "review" => q \in OpenReq
         /\ q.pc \in {"endorse", "confirm", "planned"} => q \in ReadReq
         /\ q.pc = "posting" => q \in PostReq
         /\ q.pc = "waive" => q \in WaiveReq
         /\ q.pc = "promise" => q \in MakeReq
         /\ q.pc = "settle" => q \in SettleReq
         /\ q.pc = "bill" => q \in BillReq
  BY DEF Request, Idle, SubmitReq, OpenReq, ReadReq, PostReq, WaiveReq, MakeReq,
         SettleReq, BillReq

LEMMA BecomeType ==
  ASSUME TypeOK, NEW r \in Requests, NEW q \in Request, Become(r, q)
  PROVE  req' \in [Requests -> Request]
  BY DEF TypeOK, Become

LEMMA IdleType == Idle \in Request
  BY DEF Request

\* A step of a handler that writes no table.
LEMMA OnlyRequestChanged ==
  ASSUME TypeOK, NEW r \in Requests, NEW q \in Request, Become(r, q),
         UNCHANGED <<dep, alloc, receipt, entries, due, balance, spent, active, route, promise>>
  PROVE  TypeOK'
  BY BecomeType DEF TypeOK

LEMMA MoneyOfType == ASSUME NEW u \in DueRow PROVE MoneyOf(u) \in MoneyRow
  BY DEF DueRow, MoneyRow, MoneyOf

LEMMA VersionType ==
  ASSUME NEW rows \in [Dues -> DueRow], NEW D \in SUBSET Dues, NEW n \in Nat, NEW k \in Kinds
  PROVE  VersionOf(rows, D, n, k) \in Version
  <1>1. MoneyOf(NoDue) \in MoneyRow
    BY DEF NoDue, MoneyOf, MoneyRow
  <1>2. \A u \in Dues : MoneyOf(rows[u]) \in MoneyRow
    BY MoneyOfType
  <1>3. [u \in DOMAIN rows |-> IF u \in D THEN MoneyOf(rows[u]) ELSE MoneyOf(NoDue)] \in MoneyRows
    BY <1>1, <1>2 DEF MoneyRows
  <1> QED BY <1>3 DEF VersionOf, Version

LEMMA ReviewedType == ASSUME NEW row \in DepositRow PROVE ReviewedOf(row) \in Reviewed
  BY DEF DepositRow, Reviewed, ReviewedOf

LEMMA StartSubmitType ==
  ASSUME TypeOK, NEW r \in Requests, StartSubmit(r) \/ StartSubmitAdvance(r)
  PROVE  TypeOK'
  <1>1. \E q \in SubmitReq : Become(r, q)
    <2>1. CASE StartSubmit(r)
      <3>1. PICK m \in Members, n \in Amounts, k \in Priorities, a \in Accounts,
                 byAccountant \in BOOLEAN, finalize \in BOOLEAN, D \in SUBSET Dues :
              Become(r, [pc |-> "submit", member |-> m, amount |-> n, kind |-> k,
                         account |-> a, dues |-> D, route |-> route,
                         endorsed |-> route = "accountant" /\ byAccountant,
                         finalize |-> finalize])
        BY <2>1 DEF StartSubmit, DuesOf
      <3>2. /\ n \in Nat /\ k \in Kinds /\ route \in Routes
            /\ (route = "accountant" /\ byAccountant) \in BOOLEAN
        BY LedgerAssumption DEF LedgerAssumption, Kinds, TypeOK
      <3> QED BY <3>1, <3>2 DEF SubmitReq
    <2>2. CASE StartSubmitAdvance(r)
      <3>1. PICK m \in Members, n \in Amounts, a \in Accounts, byAccountant \in BOOLEAN :
              Become(r, [pc |-> "submit", member |-> m, amount |-> n, kind |-> "advance",
                         account |-> a, dues |-> {}, route |-> route,
                         endorsed |-> route = "accountant" /\ byAccountant,
                         finalize |-> FALSE])
        BY <2>2 DEF StartSubmitAdvance
      <3>2. /\ n \in Nat /\ "advance" \in Kinds /\ route \in Routes
            /\ (route = "accountant" /\ byAccountant) \in BOOLEAN
        BY LedgerAssumption DEF LedgerAssumption, Kinds, TypeOK
      <3> QED BY <3>1, <3>2 DEF SubmitReq
    <2> QED BY <2>1, <2>2
  <1>2. PICK q \in SubmitReq : Become(r, q)
    BY <1>1
  <1>3. q \in Request
    BY <1>2 DEF Request
  <1> QED BY <1>2, <1>3, OnlyRequestChanged DEF StartSubmit, StartSubmitAdvance

LEMMA OpenReviewType ==
  ASSUME TypeOK, NEW r \in Requests, OpenReview(r)
  PROVE  TypeOK'
  <1>1. PICK d \in Deposits, given \in BOOLEAN :
          Become(r, [pc |-> "review", dep |-> d, given |-> given,
                     seen |-> IF given THEN ReviewVersion(d)
                              ELSE VersionOf(Opening, {}, 0, "advance")])
    BY DEF OpenReview
  <1>2. ReviewVersion(d) \in Version
    <2>1. Linked(d) \in SUBSET Dues /\ dep[d].amount \in Nat /\ dep[d].kind \in Kinds
      BY DEF TypeOK, Linked, DepositRow
    <2>2. VersionOf(due, Linked(d), dep[d].amount, dep[d].kind) \in Version
      BY <2>1, VersionType DEF TypeOK
    <2>3. VersionOf(due, {}, dep[d].amount, "advance") \in Version
      BY <2>1, VersionType DEF TypeOK, Kinds
    <2> QED BY <2>2, <2>3 DEF ReviewVersion
  <1>3. VersionOf(Opening, {}, 0, "advance") \in Version
    BY OpeningAssumption, VersionType DEF OpeningAssumption, Kinds
  <1> DEFINE q == [pc |-> "review", dep |-> d, given |-> given,
                   seen |-> IF given THEN ReviewVersion(d)
                            ELSE VersionOf(Opening, {}, 0, "advance")]
  <1>4. q \in OpenReq
    BY <1>2, <1>3 DEF OpenReq
  <1>5. q \in Request
    BY <1>4 DEF Request
  <1> QED BY <1>1, <1>5, OnlyRequestChanged DEF OpenReview

LEMMA ReadDepositType ==
  ASSUME TypeOK, NEW r \in Requests, ReadDeposit(r)
  PROVE  TypeOK'
  <1>1. req[r] \in OpenReq
    BY RequestByStage DEF ReadDeposit, TypeOK
  <1>2. ReviewedOf(dep[req[r].dep]) \in Reviewed
    BY <1>1, ReviewedType DEF TypeOK, OpenReq
  <1>3. \E q \in ReadReq : Become(r, q)
    BY <1>1, <1>2 DEF ReadDeposit, ReadReq, OpenReq
  <1>4. PICK q \in ReadReq : Become(r, q)
    BY <1>3
  <1>5. q \in Request
    BY <1>4 DEF Request
  <1> QED BY <1>4, <1>5, OnlyRequestChanged DEF ReadDeposit

LEMMA PlanConfirmationType ==
  ASSUME TypeOK, NEW r \in Requests, PlanConfirmation(r)
  PROVE  TypeOK'
  <1> DEFINE v == VersionOf(due, Linked(req[r].dep), req[r].before.amount, req[r].before.kind)
             q == [req[r] EXCEPT !.pc = "planned", !.seen = v]
  <1>1. req[r] \in ReadReq
    BY RequestByStage DEF PlanConfirmation, TypeOK
  <1>2. v \in Version
    <2>1. Linked(req[r].dep) \in SUBSET Dues
          /\ req[r].before.amount \in Nat /\ req[r].before.kind \in Kinds
      BY <1>1 DEF Linked, ReadReq, Reviewed
    <2> QED BY <2>1, VersionType DEF TypeOK
  <1>3. q \in ReadReq
    <2> HIDE DEF v
    <2> QED BY <1>1, <1>2 DEF ReadReq
  <1>4. q \in Request
    BY <1>3 DEF Request
  <1>5. Become(r, q)
    BY DEF PlanConfirmation
  <1> QED BY <1>4, <1>5, OnlyRequestChanged DEF PlanConfirmation

-----------------------------------------------------------------------------
(* Payments. *)

LEMMA MaxInSet ==
  ASSUME NEW S \in SUBSET Promises, S # {}
  PROVE  Max(S) \in S
  <1> DEFINE f == [x \in S |-> x]
  <1>1. IsFiniteSet(Promises) /\ Promises \subseteq Nat
    BY FiniteTables, Zenon
  <1>2. IsFiniteSet(S)
    BY <1>1, FS_Subset, Zenon
  <1>3. S \subseteq Int
    BY <1>1
  <1>4. \A x \in S : f[x] = x
    OBVIOUS
  <1>5. \E x \in S : \A y \in S : f[y] <= f[x]
    <2> HIDE DEF f
    <2>1. \A x \in S : f[x] \in Int
      BY <1>3, <1>4
    <2> QED BY <1>2, <2>1, GreatestElement, Zenon
  <1>6. \E x \in S : \A y \in S : x >= y
    BY <1>3, <1>4, <1>5
  <1> QED BY <1>6 DEF Max

LEMMA KeptType ==
  ASSUME NEW deps, NEW rows, NEW m, KeptBy(deps, rows, m) # {}
  PROVE  /\ KeptBy(deps, rows, m) \in SUBSET Promises
         /\ Max(KeptBy(deps, rows, m)) \in Promises
         /\ promise[Max(KeptBy(deps, rows, m))].member = m
         /\ promise[Max(KeptBy(deps, rows, m))].status \in {"pending", "broken"}
  <1>1. /\ PromisesOf(m, "pending") \in SUBSET Promises
        /\ PromisesOf(m, "broken") \in SUBSET Promises
    BY DEF PromisesOf
  <1>2. OpenPromise(m) \subseteq PromisesOf(m, "pending") \cup PromisesOf(m, "broken")
    BY <1>1, MaxInSet DEF OpenPromise
  <1>3. KeptBy(deps, rows, m) \subseteq OpenPromise(m)
    BY DEF KeptBy
  <1>4. KeptBy(deps, rows, m) \in SUBSET Promises
    BY <1>1, <1>2, <1>3
  <1>5. Max(KeptBy(deps, rows, m)) \in KeptBy(deps, rows, m)
    BY <1>4, MaxInSet
  <1> QED BY <1>2, <1>3, <1>4, <1>5 DEF PromisesOf

LEMMA KeepType ==
  ASSUME TypeOK, NEW c \in Promises, NEW d \in Deposits
  PROVE  Keep(c, d) \in [Promises -> PromiseRow]
  <1>1. [promise[c] EXCEPT !.status = "kept", !.by = d] \in PromiseRow
    BY DEF TypeOK, PromiseRow, PromiseStatuses
  <1> QED BY <1>1 DEF TypeOK, Keep, PromiseRow, PromiseStatuses

LEMMA LinkType == NoAlloc \in AllocRow /\ Link \in AllocRow
  BY DEF NoAlloc, Link, AllocRow

LEMMA RecordEntryType ==
  ASSUME TypeOK, NEW d \in Deposits, NEW type \in EntryTypes, NEW a \in Accounts, NEW n \in Nat,
         RecordEntry(d, type, a, n)
  PROVE  entries' \in [Deposits -> Seq(EntryRow)]
  <1>1. [type |-> type, account |-> a, amount |-> n] \in EntryRow
    BY DEF EntryRow
  <1> QED BY <1>1 DEF TypeOK, RecordEntry

LEMMA PostDepositType ==
  ASSUME TypeOK, NEW d \in Deposits, NEW row \in DepositRow, NEW D \in SUBSET Dues,
         PostDeposit(d, row, D)
  PROVE  /\ dep' \in [Deposits -> DepositRow]
         /\ receipt' \in [Deposits -> {"none", "issued", "voided"}]
         /\ balance' \in [Accounts -> 0 .. MaxBalance]
         /\ entries' \in [Deposits -> Seq(EntryRow)]
         /\ due' \in [Dues -> DueRow]
         /\ alloc' \in [Deposits -> [Dues -> AllocRow]]
  <1>1. row.amount \in Nat /\ row.account \in Accounts
    BY DEF DepositRow
  <1>2. dep' \in [Deposits -> DepositRow]
    <2>1. [row EXCEPT !.status = "confirmed"] \in DepositRow
      BY DEF DepositRow, DepositStatuses
    <2> QED BY <2>1 DEF TypeOK, PostDeposit
  <1>3. receipt' \in [Deposits -> {"none", "issued", "voided"}]
    BY DEF TypeOK, PostDeposit
  <1>4. balance' \in [Accounts -> 0 .. MaxBalance]
    <2>1. balance[row.account] + row.amount \in 0 .. MaxBalance
      BY <1>1, LedgerAssumption DEF LedgerAssumption, TypeOK, PostDeposit, Credit
    <2> QED BY <1>1, <2>1 DEF TypeOK, PostDeposit, Credit
  <1>5. entries' \in [Deposits -> Seq(EntryRow)]
    BY <1>1, RecordEntryType DEF PostDeposit, EntryTypes
  <1>6. PICK p \in PlanDepositAllocation(due, D, Rank, row.amount) :
          /\ due' = [u \in Dues |-> IF u \in D THEN AllocatePayment(due[u], p[u], row.kind)
                                                ELSE due[u]]
          /\ alloc' = [alloc EXCEPT ![d] =
                         [u \in Dues |-> IF u \in D THEN PostedAlloc(u, p[u], row.kind)
                                                    ELSE NoAlloc]]
    BY DEF PostDeposit
  <1>7. \A u \in D : p[u] \in Nat
    BY <1>1 DEF PlanDepositAllocation
  <1>8. due' \in [Dues -> DueRow]
    BY <1>6, <1>7, AllocateType DEF TypeOK
  <1>9. \A u \in D : PostedAlloc(u, p[u], row.kind) \in AllocRow
    <2>1. \A u \in D : /\ PrincipalShare(due[u], p[u], row.kind) \in Nat
                       /\ PenaltyShare(due[u], p[u], row.kind) \in Nat
      BY <1>7, SharesType DEF TypeOK
    <2> QED BY <1>7, <2>1 DEF PostedAlloc, AllocRow
  <1>10. alloc' \in [Deposits -> [Dues -> AllocRow]]
    <2>1. [u \in Dues |-> IF u \in D THEN PostedAlloc(u, p[u], row.kind) ELSE NoAlloc]
            \in [Dues -> AllocRow]
      BY <1>9, LinkType
    <2> QED BY <1>6, <2>1 DEF TypeOK
  <1> QED BY <1>2, <1>3, <1>4, <1>5, <1>8, <1>10

LEMMA SubmittedType ==
  ASSUME NEW q \in SubmitReq
  PROVE  /\ SubmittedRow(q) \in DepositRow
         /\ SubmittedRow(q).status \in Pending
         /\ SubmittedRow(q).member = q.member /\ SubmittedRow(q).kind = q.kind
         /\ SubmittedRow(q).route = q.route /\ SubmittedRow(q).endorsed = q.endorsed
         /\ SubmittedRow(q).refunded = 0
  BY DEF SubmitReq, SubmittedRow, DepositRow, DepositStatuses, Pending

LEMMA SubmitType ==
  ASSUME TypeOK, NEW r \in Requests, Submit(r)
  PROVE  TypeOK'
  <1>1. req[r] \in SubmitReq
    BY RequestByStage DEF Submit, TypeOK
  <1>2. dep' \in [Deposits -> DepositRow]
    BY <1>1, SubmittedType DEF TypeOK, Submit
  <1>3. alloc' \in [Deposits -> [Dues -> AllocRow]]
    BY LinkType DEF TypeOK, Submit
  <1>4. req' \in [Requests -> Request]
    BY BecomeType, IdleType DEF Submit
  <1> QED BY <1>2, <1>3, <1>4 DEF TypeOK, Submit

LEMMA SubmitAndFinalizeType ==
  ASSUME TypeOK, NEW r \in Requests, SubmitAndFinalize(r)
  PROVE  TypeOK'
  <1>1. req[r] \in SubmitReq /\ SubmittedRow(req[r]) \in DepositRow /\ req[r].dues \in SUBSET Dues
    BY RequestByStage, SubmittedType DEF SubmitAndFinalize, TypeOK, SubmitReq
  <1> DEFINE kept == KeptBy(dep', due', req[r].member)
  <1>2. PICK d \in Deposits :
          /\ PostDeposit(d, SubmittedRow(req[r]), req[r].dues)
          /\ promise' = IF kept = {} THEN promise ELSE Keep(Max(kept), d)
    BY DEF SubmitAndFinalize
  <1>3. promise' \in [Promises -> PromiseRow]
    <2> HIDE DEF kept
    <2>1. kept # {} => Max(kept) \in Promises
      BY KeptType DEF kept
    <2> QED BY <1>2, <2>1, KeepType DEF TypeOK
  <1>4. req' \in [Requests -> Request]
    BY BecomeType, IdleType DEF SubmitAndFinalize
  <1> QED BY <1>1, <1>2, <1>3, <1>4, PostDepositType DEF TypeOK, SubmitAndFinalize

LEMMA EndorseType ==
  ASSUME TypeOK, NEW r \in Requests, Endorse(r)
  PROVE  TypeOK'
  <1>1. req[r].dep \in Deposits
    BY RequestByStage DEF Endorse, TypeOK, ReadReq
  <1>2. dep' \in [Deposits -> DepositRow]
    <2>1. PICK a \in Accounts :
            dep' = [dep EXCEPT ![req[r].dep].status = "pending_approver",
                               ![req[r].dep].endorsed = TRUE, ![req[r].dep].account = a]
      BY DEF Endorse
    <2>2. [dep[req[r].dep] EXCEPT !.status = "pending_approver", !.endorsed = TRUE, !.account = a]
            \in DepositRow
      <3>1. dep[req[r].dep] \in DepositRow /\ "pending_approver" \in DepositStatuses
        BY <1>1 DEF TypeOK, DepositStatuses
      <3> QED BY <3>1 DEF DepositRow
    <2>3. dep' = [dep EXCEPT ![req[r].dep] =
             [dep[req[r].dep] EXCEPT !.status = "pending_approver", !.endorsed = TRUE, !.account = a]]
      BY <1>1, <2>1 DEF TypeOK
    <2> QED BY <2>2, <2>3 DEF TypeOK
  <1>3. req' \in [Requests -> Request]
    BY BecomeType, IdleType DEF Endorse
  <1> QED BY <1>2, <1>3 DEF TypeOK, Endorse

LEMMA LockForPostingType ==
  ASSUME TypeOK, NEW r \in Requests, LockForPosting(r)
  PROVE  TypeOK'
  <1> DEFINE d    == req[r].dep
             kept == KeptBy(DepsIfPosted(d), DuesIfPosted(d), dep[d].member)
             q    == [pc |-> "posting", dep |-> d, before |-> req[r].before,
                      direct |-> req[r].direct,
                      keeps |-> IF kept = {} THEN 0 ELSE Max(kept)]
  <1>1. req[r] \in ReadReq
    BY RequestByStage DEF LockForPosting, TypeOK
  <1>2. kept # {} => Max(kept) \in Promises
    BY KeptType
  <1>3. q \in PostReq
    <2> HIDE DEF kept
    <2> QED BY <1>1, <1>2 DEF PostReq, ReadReq
  <1>4. Become(r, q)
    BY DEF LockForPosting
  <1>5. q \in Request
    <2> HIDE DEF q
    <2> QED BY <1>3 DEF Request
  <1> HIDE DEF q
  <1> QED BY <1>4, <1>5, OnlyRequestChanged DEF LockForPosting

LEMMA PostType ==
  ASSUME TypeOK, NEW r \in Requests, Post(r)
  PROVE  TypeOK'
  <1>1. /\ req[r].dep \in Deposits /\ req[r].keeps \in Promises \cup {0}
    BY RequestByStage DEF Post, Posting, TypeOK, PostReq
  <1> DEFINE D == IF dep[req[r].dep].kind = "advance" THEN {} ELSE Linked(req[r].dep)
  <1>2. D \in SUBSET Dues
    BY DEF Linked
  <1>3. PostDeposit(req[r].dep, dep[req[r].dep], D)
    BY DEF Post
  <1>4. dep[req[r].dep] \in DepositRow
    BY <1>1 DEF TypeOK
  <1>5. promise' \in [Promises -> PromiseRow]
    BY <1>1, KeepType DEF TypeOK, Post
  <1>6. req' \in [Requests -> Request]
    BY BecomeType, IdleType DEF Post
  <1> HIDE DEF D
  <1> QED BY <1>1, <1>2, <1>3, <1>4, <1>5, <1>6, PostDepositType DEF TypeOK, Post

LEMMA CloseType ==
  ASSUME TypeOK, NEW d \in Deposits, Reject(d) \/ Remove(d)
  PROVE  TypeOK'
  <1>1. PICK status \in {"rejected", "removed"} : dep' = [dep EXCEPT ![d].status = status]
    BY DEF Reject, Remove, CloseDeposit
  <1>2. [dep[d] EXCEPT !.status = status] \in DepositRow
    <2>1. PICK row \in DepositRow : row = dep[d]
      BY DEF TypeOK
    <2>2. [row EXCEPT !.status = status] \in DepositRow
      BY DEF DepositRow, DepositStatuses
    <2> QED BY <2>1, <2>2
  <1>3. dep' \in [Deposits -> DepositRow]
    BY <1>1, <1>2 DEF TypeOK
  <1>4. alloc' \in [Deposits -> [Dues -> AllocRow]]
    BY LinkType, ZenonT(30) DEF TypeOK, Reject, Remove
  <1> QED BY <1>3, <1>4 DEF TypeOK, Reject, Remove

LEMMA ResolvedType ==
  ASSUME TypeOK, NEW d \in Deposits, NEW k \in Kinds
  PROVE  /\ ResolvedRow(d, k) \in DepositRow
         /\ ResolvedRow(d, k).route = dep[d].route /\ ResolvedRow(d, k).kind = k
         /\ ResolvedRow(d, k).member = dep[d].member
         /\ ResolvedRow(d, k).status = IF dep[d].route = "accountant" THEN "pending_accountant"
                                       ELSE "pending_approver"
         /\ ResolvedRow(d, k).refunded = dep[d].refunded
  <1> DEFINE s == IF dep[d].route = "accountant" THEN "pending_accountant" ELSE "pending_approver"
  <1>1. dep[d] \in DepositRow /\ s \in DepositStatuses
    BY DEF TypeOK, DepositStatuses
  <1>2. ResolvedRow(d, k) = [dep[d] EXCEPT !.kind = k, !.endorsed = FALSE, !.status = s]
    BY DEF ResolvedRow
  <1> HIDE DEF s
  <1>3. ResolvedRow(d, k) \in DepositRow
    BY <1>1, <1>2 DEF DepositRow
  <1>4. /\ ResolvedRow(d, k).route = dep[d].route /\ ResolvedRow(d, k).kind = k
        /\ ResolvedRow(d, k).member = dep[d].member /\ ResolvedRow(d, k).status = s
        /\ ResolvedRow(d, k).refunded = dep[d].refunded
    BY <1>1, <1>2 DEF DepositRow
  <1> QED BY <1>3, <1>4 DEF s

LEMMA ResolveAllocationType ==
  ASSUME TypeOK, NEW d \in Deposits, ResolveAllocation(d)
  PROVE  TypeOK'
  <1>1. dep[d].kind \in Kinds /\ "advance" \in Kinds
    BY DEF TypeOK, DepositRow, Kinds
  <1>2. PICK k \in Kinds : dep' = [dep EXCEPT ![d] = ResolvedRow(d, k)]
    BY <1>1 DEF ResolveAllocation
  <1>3. dep' \in [Deposits -> DepositRow]
    BY <1>2, ResolvedType DEF TypeOK
  <1>4. /\ Reassigned(UnpaidDues(dep[d].member), dep[d].amount) \in [Dues -> AllocRow]
        /\ [u \in Dues |-> NoAlloc] \in [Dues -> AllocRow]
    BY LinkType DEF Reassigned
  <1>5. alloc' \in [Deposits -> [Dues -> AllocRow]]
    BY <1>4 DEF TypeOK, ResolveAllocation
  <1> QED BY <1>3, <1>5 DEF TypeOK, ResolveAllocation

LEMMA ChangeRouteType ==
  ASSUME TypeOK, ChangeRoute
  PROVE  TypeOK'
  BY DEF TypeOK, ChangeRoute

-----------------------------------------------------------------------------
(* Settlement, billing and waivers. *)

Work == SettleReq \cup BillReq

LEMMA UnusedType ==
  ASSUME NEW row \in DepositRow, NEW allocations \in [Dues -> AllocRow]
  PROVE  /\ AllocatedOf(allocations) \in Nat
         /\ UnusedAdvance(row, allocations) \in Nat
  <1>1. AllocatedOf(allocations) \in Nat
    <2> DEFINE f == [u \in Dues |-> allocations[u].amount]
    <2>1. \A u \in Dues : f[u] \in Nat
      BY DEF AllocRow
    <2> HIDE DEF f
    <2>2. SumOver(f, Dues) \in Nat
      BY <2>1, FiniteTables, SumIsNatural
    <2> QED BY <2>2 DEF AllocatedOf, f
  <1> QED BY <1>1 DEF UnusedAdvance, NonNegative, DepositRow

LEMMA LeftType ==
  ASSUME NEW q \in Work, NEW d \in Deposits
  PROVE  LeftOf(q, d) \in Nat
  <1>1. /\ q.was.dep[d] \in DepositRow /\ q.was.alloc[d] \in [Dues -> AllocRow]
        /\ q.take[d] \in [Dues -> Nat]
    BY DEF Work, SettleReq, BillReq, Snapshot, Taken
  <1>2. SumTaken(q.take[d]) \in Nat
    <2>1. \A u \in Dues : q.take[d][u] \in Nat
      BY <1>1
    <2> QED BY <2>1, FiniteTables, SumIsNatural DEF SumTaken
  <1>3. UnusedAdvance(q.was.dep[d], q.was.alloc[d]) \in Nat
    BY <1>1, UnusedType
  <1> QED BY <1>2, <1>3 DEF LeftOf, NonNegative

\* Some advance and due come first.
LEMMA EarliestInSet ==
  ASSUME NEW S \in SUBSET (Deposits \X Dues), S # {}
  PROVE  Earliest(S) \in S
  <1> DEFINE A == {t[1] : t \in S}
  <1>1. A \in SUBSET Nat /\ A # {}
    BY FiniteTables, ZenonT(30)
  <1>2. PICK a \in A : \A x \in A : a <= x
    BY <1>1, LeastNatural
  <1> DEFINE B == {Rank[t[2]] : t \in {x \in S : x[1] = a}}
  <1>3. B \in SUBSET Nat /\ B # {}
    BY <1>2, FiniteTables
  <1>4. PICK b \in B : \A x \in B : b <= x
    BY <1>3, LeastNatural
  <1>5. PICK t \in S : t[1] = a /\ Rank[t[2]] = b
    BY <1>4
  <1>6. ASSUME NEW x \in S
        PROVE  t[1] < x[1] \/ (t[1] = x[1] /\ Rank[t[2]] <= Rank[x[2]])
    <2>1. a <= x[1] /\ a \in Nat /\ x[1] \in Nat
      BY <1>1, <1>2
    <2>2. x[1] = a => b <= Rank[x[2]]
      BY <1>4
    <2> QED BY <1>5, <2>1, <2>2
  <1> QED BY <1>5, <1>6 DEF Earliest

LEMMA ApplyAdvanceType ==
  ASSUME NEW q \in Work, NEW D \in SUBSET Dues, Applicable(q, D) # {}
  PROVE  LET t == Earliest(Applicable(q, D))
         IN  /\ t \in Applicable(q, D) /\ t[1] \in Deposits /\ t[2] \in D
             /\ ApplyAdvance(q, t).due \in [Dues -> DueRow]
             /\ ApplyAdvance(q, t).take \in Taken
             /\ q \in SettleReq => ApplyAdvance(q, t) \in SettleReq
             /\ q \in BillReq => ApplyAdvance(q, t) \in BillReq
  <1> DEFINE t == Earliest(Applicable(q, D))
             n == Lesser(LeftOf(q, t[1]), CalculateDueBalance(q.due[t[2]]))
             newDue == [q.due EXCEPT ![t[2]] = AllocatePayment(@, n, "penalty_first")]
             newTake == [q.take EXCEPT ![t[1]][t[2]] = @ + n]
  <1>1. t \in Applicable(q, D)
    <2>1. Applicable(q, D) \in SUBSET (Deposits \X Dues)
      BY SMTT(30) DEF Applicable
    <2> QED BY <2>1, EarliestInSet
  <1>2. t[1] \in Deposits /\ t[2] \in D /\ t[2] \in Dues
    BY <1>1, ZenonT(30) DEF Applicable
  <1> HIDE DEF t
  <1>3. q.due \in [Dues -> DueRow] /\ q.take \in Taken
    BY DEF Work, SettleReq, BillReq
  <1>4. n \in Nat
    <2>1. q.due[t[2]] \in Money
      BY <1>2, <1>3 DEF Money
    <2>2. CalculateDueBalance(q.due[t[2]]) \in Nat
      BY <2>1, BalanceType
    <2> QED BY <1>2, <2>2, LeftType DEF Lesser
  <1> HIDE DEF n
  <1>5. newDue \in [Dues -> DueRow]
    BY <1>2, <1>3, <1>4, AllocateType
  <1>6. newTake \in Taken
    <2>1. q.take[t[1]][t[2]] + n \in Nat
      BY <1>2, <1>3, <1>4 DEF Taken
    <2> QED BY <1>2, <1>3, <2>1 DEF Taken
  <1>7. ApplyAdvance(q, t) = [q EXCEPT !.due = newDue, !.take = newTake]
    BY <1>3 DEF ApplyAdvance, n, Work, SettleReq, BillReq
  <1> HIDE DEF newDue, newTake
  <1>8. /\ q \in SettleReq => ApplyAdvance(q, t) \in SettleReq
        /\ q \in BillReq => ApplyAdvance(q, t) \in BillReq
    BY <1>5, <1>6, <1>7 DEF SettleReq, BillReq
  <1>9. ApplyAdvance(q, t).due \in [Dues -> DueRow] /\ ApplyAdvance(q, t).take \in Taken
    BY <1>8 DEF SettleReq, BillReq, Work
  <1> QED BY <1>1, <1>2, <1>8, <1>9 DEF t

LEMMA BooksType ==
  ASSUME TypeOK
  PROVE  TheBooks \in Snapshot /\ TakeNothing \in Taken
  <1>1. balance \in [Accounts -> Int]
    BY LedgerAssumption DEF TypeOK, LedgerAssumption
  <1>2. TakeNothing \in Taken
    BY DEF TakeNothing, Taken
  <1> QED BY <1>1, <1>2 DEF TypeOK, TheBooks, Snapshot

LEMMA StartBillingType ==
  ASSUME TypeOK, NEW r \in Requests, StartBilling(r)
  PROVE  TypeOK'
  <1>1. PICK s \in Schedules, unit \in Amounts :
          Become(r, [pc |-> "bill", dues |-> BilledBy(s), was |-> TheBooks,
                     due  |-> [u \in Dues |-> IF u \in BilledBy(s)
                                              THEN NewDue(unit, Owner(u)) ELSE due[u]],
                     take |-> TakeNothing])
    BY DEF StartBilling
  <1>2. BilledBy(s) \in SUBSET Dues
    BY DEF BilledBy
  <1>3. \A u \in Dues : NewDue(unit, Owner(u)) \in DueRow
    <2> TAKE u \in Dues
    <2>1. unit \in Nat /\ Shares[Owner(u)] \in Nat
      BY LedgerAssumption, FiniteTables DEF LedgerAssumption
    <2>2. unit * Shares[Owner(u)] \in Nat
      BY <2>1
    <2> QED BY <2>2 DEF NewDue, NoDue, DueRow, DueStatuses
  <1> DEFINE rows == [u \in Dues |-> IF u \in BilledBy(s) THEN NewDue(unit, Owner(u)) ELSE due[u]]
             q    == [pc |-> "bill", dues |-> BilledBy(s), was |-> TheBooks,
                      due |-> rows, take |-> TakeNothing]
  <1>4. rows \in [Dues -> DueRow]
    BY <1>3 DEF TypeOK
  <1>5. q \in BillReq
    <2> HIDE DEF rows
    <2> QED BY <1>2, <1>4, BooksType DEF BillReq
  <1>6. q \in Request
    <2> HIDE DEF q
    <2> QED BY <1>5 DEF Request
  <1> QED BY <1>1, <1>6, OnlyRequestChanged DEF StartBilling

LEMMA StartSettleType ==
  ASSUME TypeOK, NEW r \in Requests, StartSettle(r)
  PROVE  TypeOK'
  <1>1. PICK m \in Members, apply \in BOOLEAN, writeOff \in BOOLEAN, refund \in BOOLEAN :
          Become(r, [pc |-> "settle", member |-> m, apply |-> apply,
                     writeOff |-> writeOff, refund |-> refund,
                     was |-> TheBooks, due |-> due, take |-> TakeNothing])
    BY DEF StartSettle
  <1> DEFINE q == [pc |-> "settle", member |-> m, apply |-> apply,
                   writeOff |-> writeOff, refund |-> refund,
                   was |-> TheBooks, due |-> due, take |-> TakeNothing]
  <1>2. q \in SettleReq
    BY BooksType DEF TypeOK, SettleReq
  <1>3. q \in Request
    <2> HIDE DEF q
    <2> QED BY <1>2 DEF Request
  <1> QED BY <1>1, <1>3, OnlyRequestChanged DEF StartSettle

LEMMA ApplyStepType ==
  ASSUME TypeOK, NEW r \in Requests, BillApply(r) \/ SettleApply(r)
  PROVE  TypeOK'
  <1>1. CASE BillApply(r)
    <2>1. req[r] \in BillReq /\ req[r] \in Work /\ req[r].dues \in SUBSET Dues
      BY <1>1, RequestByStage DEF BillApply, TypeOK, Work, BillReq
    <2> DEFINE q == ApplyAdvance(req[r], Earliest(Applicable(req[r], req[r].dues)))
    <2>2. q \in BillReq
      BY <1>1, <2>1, ApplyAdvanceType DEF BillApply
    <2>3. q \in Request
      BY <2>2 DEF Request
    <2> QED BY <1>1, <2>3, OnlyRequestChanged DEF BillApply
  <1>2. CASE SettleApply(r)
    <2>1. req[r] \in SettleReq /\ req[r] \in Work /\ OwnDues(req[r]) \in SUBSET Dues
      BY <1>2, RequestByStage DEF SettleApply, TypeOK, Work, OwnDues
    <2>2. ToApply(req[r]) = Applicable(req[r], OwnDues(req[r]))
      BY <1>2 DEF SettleApply, ToApply
    <2> DEFINE q == ApplyAdvance(req[r], Earliest(ToApply(req[r])))
    <2>3. q \in SettleReq
      BY <1>2, <2>1, <2>2, ApplyAdvanceType DEF SettleApply
    <2>4. q \in Request
      BY <2>3 DEF Request
    <2> QED BY <1>2, <2>4, OnlyRequestChanged DEF SettleApply
  <1> QED BY <1>1, <1>2

LEMMA AddTakenType ==
  ASSUME TypeOK, NEW q \in Work
  PROVE  AddTaken(q) \in [Deposits -> [Dues -> AllocRow]]
  <1>1. ASSUME NEW d \in Deposits, NEW u \in Dues
        PROVE  [alloc[d][u] EXCEPT !.linked = TRUE, !.amount = @ + q.take[d][u]] \in AllocRow
    <2>1. alloc[d][u] \in AllocRow /\ q.take[d][u] \in Nat
      BY DEF TypeOK, Work, SettleReq, BillReq, Taken
    <2>2. alloc[d][u].amount + q.take[d][u] \in Nat
      BY <2>1 DEF AllocRow
    <2> QED BY <2>1, <2>2 DEF AllocRow
  <1> QED BY <1>1 DEF AddTaken, TypeOK

LEMMA BillCommitType ==
  ASSUME TypeOK, NEW r \in Requests, BillCommit(r)
  PROVE  TypeOK'
  <1>1. req[r] \in BillReq /\ req[r] \in Work
    BY RequestByStage DEF BillCommit, TypeOK, Work
  <1>2. due' \in [Dues -> DueRow]
    BY <1>1 DEF BillCommit, TypeOK, BillReq
  <1>3. alloc' \in [Deposits -> [Dues -> AllocRow]]
    BY <1>1, AddTakenType DEF BillCommit
  <1>4. req' \in [Requests -> Request]
    BY BecomeType, IdleType DEF BillCommit
  <1> QED BY <1>2, <1>3, <1>4 DEF TypeOK, BillCommit

LEMMA WrittenOffType ==
  ASSUME NEW u \in DueRow
  PROVE  /\ WrittenOff(u) \in DueRow
         /\ WrittenOff(u).paid = u.paid /\ WrittenOff(u).penaltyPaid = u.penaltyPaid
         /\ WrittenOff(u).amount = u.amount
         /\ WrittenOff(u).waived = IF CalculateDueBalance(u) = 0 THEN u.waived
                                   ELSE u.waived + PrincipalBalance(u)
         /\ WrittenOff(u).penaltyDue = IF CalculateDueBalance(u) = 0 THEN u.penaltyDue
                                       ELSE u.penaltyPaid
  <1>1. CASE CalculateDueBalance(u) = 0
    BY <1>1 DEF WrittenOff
  <1>2. CASE CalculateDueBalance(u) # 0
    <2>1. u.waived + PrincipalBalance(u) \in Nat /\ u.penaltyPaid \in Nat
          /\ "waived" \in DueStatuses
      BY BalanceType DEF Money, DueRow, DueStatuses
    <2> DEFINE w == u.waived + PrincipalBalance(u)
    <2>2. WrittenOff(u) = [u EXCEPT !.waived = w, !.penaltyDue = u.penaltyPaid, !.status = "waived"]
      BY <1>2 DEF WrittenOff
    <2> HIDE DEF w
    <2>3. w \in Nat
      BY <2>1 DEF w
    <2>4. WrittenOff(u) \in DueRow
      BY <2>1, <2>2, <2>3 DEF DueRow
    <2>5. /\ WrittenOff(u).paid = u.paid /\ WrittenOff(u).penaltyPaid = u.penaltyPaid
          /\ WrittenOff(u).amount = u.amount
          /\ WrittenOff(u).waived = w /\ WrittenOff(u).penaltyDue = u.penaltyPaid
      BY <2>2 DEF DueRow
    <2> QED BY <1>2, <2>4, <2>5 DEF w
  <1> QED BY <1>1, <1>2

LEMMA RefundType ==
  ASSUME NEW q \in SettleReq
  PROVE  /\ \A d \in Deposits : RefundOf(q, d) \in Nat
         /\ \A a \in Accounts : RefundFrom(q, a) \in Nat
  <1>1. q \in Work
    BY DEF Work
  <1>2. \A d \in Deposits : RefundOf(q, d) \in Nat
    BY <1>1, LeftType DEF RefundOf
  <1>3. ASSUME NEW a \in Accounts PROVE RefundFrom(q, a) \in Nat
    <2> DEFINE f == [d \in Deposits |-> IF q.was.dep[d].account = a THEN RefundOf(q, d) ELSE 0]
    <2>1. \A d \in Deposits : f[d] \in Nat
      BY <1>2
    <2> HIDE DEF f
    <2>2. SumOver(f, Deposits) \in Nat
      BY <2>1, FiniteTables, SumIsNatural
    <2> QED BY <2>2 DEF RefundFrom, f
  <1> QED BY <1>2, <1>3

LEMMA SettleCommitType ==
  ASSUME TypeOK, NEW r \in Requests, SettleCommit(r)
  PROVE  TypeOK'
  <1> DEFINE q == req[r]
  <1>1. q \in SettleReq /\ q \in Work
    BY RequestByStage DEF SettleCommit, TypeOK, Work
  <1>2. \A u \in Dues : SettledDue(q, u) \in DueRow
    BY <1>1, WrittenOffType DEF SettledDue, SettleReq
  <1>3. due' \in [Dues -> DueRow]
    BY <1>2 DEF SettleCommit, TypeOK
  <1>4. alloc' \in [Deposits -> [Dues -> AllocRow]]
    BY <1>1, AddTakenType DEF SettleCommit
  <1>5. dep' \in [Deposits -> DepositRow]
    <2>1. ASSUME NEW d \in Deposits
          PROVE  [dep[d] EXCEPT !.refunded = @ + RefundOf(q, d)] \in DepositRow
      <3>1. dep[d] \in DepositRow /\ dep[d].refunded + RefundOf(q, d) \in Nat
        BY <1>1, RefundType DEF TypeOK, DepositRow
      <3> QED BY <3>1 DEF DepositRow
    <2> QED BY <2>1 DEF SettleCommit, TypeOK
  <1>6. entries' \in [Deposits -> Seq(EntryRow)]
    <2>1. ASSUME NEW d \in Deposits
          PROVE  [type |-> "advance_refund", account |-> dep[d].account,
                  amount |-> RefundOf(q, d)] \in EntryRow
      BY <1>1, RefundType DEF TypeOK, DepositRow, EntryRow, EntryTypes
    <2>2. ASSUME NEW d \in Deposits
          PROVE  Append(entries[d], [type |-> "advance_refund", account |-> dep[d].account,
                                     amount |-> RefundOf(q, d)]) \in Seq(EntryRow)
      BY <2>1 DEF TypeOK
    <2> QED BY <2>2 DEF SettleCommit, TypeOK
  <1>7. balance' \in [Accounts -> 0 .. MaxBalance]
    <2>1. ASSUME NEW a \in Accounts
          PROVE  balance[a] - RefundFrom(q, a) \in 0 .. MaxBalance
      <3>1. /\ RefundFrom(q, a) \in Nat /\ balance[a] \in 0 .. MaxBalance
            /\ q.was.balance[a] \in Int /\ MaxBalance \in Nat
        BY <1>1, RefundType, LedgerAssumption
           DEF TypeOK, SettleReq, Snapshot, LedgerAssumption
      <3>2. /\ RefundFrom(q, a) <= q.was.balance[a]
            /\ RefundFrom(q, a) > 0 => balance[a] = q.was.balance[a]
        BY DEF SettleCommit, NoConflict
      <3> HIDE DEF q
      <3> QED BY <3>1, <3>2
    <2> QED BY <2>1 DEF SettleCommit, TypeOK
  <1>8. req' \in [Requests -> Request]
    BY BecomeType, IdleType DEF SettleCommit
  <1> QED BY <1>3, <1>4, <1>5, <1>6, <1>7, <1>8 DEF TypeOK, SettleCommit

LEMMA WaiverType ==
  ASSUME TypeOK, NEW r \in Requests, StartWaive(r) \/ WaivePenalty(r)
  PROVE  TypeOK'
  <1>1. CASE StartWaive(r)
    <2>1. PICK u \in Dues : Become(r, [pc |-> "waive", due |-> u, row |-> due[u]])
      BY <1>1 DEF StartWaive
    <2>2. [pc |-> "waive", due |-> u, row |-> due[u]] \in WaiveReq
      BY DEF TypeOK, WaiveReq
    <2>3. [pc |-> "waive", due |-> u, row |-> due[u]] \in Request
      BY <2>2 DEF Request
    <2> QED BY <1>1, <2>1, <2>3, OnlyRequestChanged DEF StartWaive
  <1>2. CASE WaivePenalty(r)
    <2> DEFINE u == req[r].due
               q == req[r].row.penaltyPaid
               s == IF FullySettled(req[r].row) THEN "paid" ELSE req[r].row.status
    <2>1. u \in Dues /\ q \in Nat /\ s \in DueStatuses
      BY <1>2, RequestByStage DEF WaivePenalty, TypeOK, WaiveReq, DueRow, DueStatuses
    <2>2. due' = [due EXCEPT ![u].penaltyDue = q, ![u].status = s]
      BY <1>2 DEF WaivePenalty
    <2> HIDE DEF u, q, s
    <2>3. due[u] \in DueRow
      BY <2>1 DEF TypeOK
    <2>4. [due[u] EXCEPT !.penaltyDue = q, !.status = s] \in DueRow
      BY <2>1, <2>3 DEF DueRow
    <2>5. due' = [due EXCEPT ![u] = [due[u] EXCEPT !.penaltyDue = q, !.status = s]]
      BY <2>1, <2>2 DEF TypeOK
    <2>6. due' \in [Dues -> DueRow]
      BY <2>4, <2>5 DEF TypeOK
    <2>7. req' \in [Requests -> Request]
      BY <1>2, BecomeType, IdleType DEF WaivePenalty
    <2> QED BY <1>2, <2>6, <2>7 DEF TypeOK, WaivePenalty
  <1> QED BY <1>1, <1>2

LEMMA MembershipType ==
  ASSUME TypeOK, NEW m \in Members, RemoveMember(m) \/ ReactivateMember(m)
  PROVE  TypeOK'
  BY DEF TypeOK, RemoveMember, ReactivateMember

-----------------------------------------------------------------------------
(* Reversals, promises and other debits. *)

LEMMA ReopenedType ==
  ASSUME TypeOK, NEW d \in Deposits, NEW u \in Dues,
         alloc[d][u].principal <= due[u].paid, alloc[d][u].penalty <= due[u].penaltyPaid
  PROVE  /\ Reopened(d, u) \in DueRow
         /\ Reopened(d, u).paid = due[u].paid - alloc[d][u].principal
         /\ Reopened(d, u).penaltyPaid = due[u].penaltyPaid - alloc[d][u].penalty
         /\ Reopened(d, u).amount = due[u].amount /\ Reopened(d, u).waived = due[u].waived
         /\ Reopened(d, u).penaltyDue = due[u].penaltyDue
  <1> DEFINE p == due[u].paid - alloc[d][u].principal
             q == due[u].penaltyPaid - alloc[d][u].penalty
             v == [due[u] EXCEPT !.paid = p, !.penaltyPaid = q]
             w == [v EXCEPT !.status = PaymentStatus(v)]
  <1>1. due[u] \in DueRow /\ alloc[d][u] \in AllocRow
    BY DEF TypeOK
  <1>2. p \in Nat /\ q \in Nat
    BY <1>1 DEF DueRow, AllocRow
  <1>3. Reopened(d, u) = w
    BY DEF Reopened
  <1> HIDE DEF p, q, w
  <1>4. v \in DueRow
    BY <1>1, <1>2 DEF DueRow
  <1>5. /\ v.paid = p /\ v.penaltyPaid = q /\ v.amount = due[u].amount
        /\ v.waived = due[u].waived /\ v.penaltyDue = due[u].penaltyDue
    BY <1>1 DEF DueRow
  <1>6. PaymentStatus(v) \in DueStatuses
    BY StatusType DEF DueStatuses
  <1> HIDE DEF v
  <1>7. /\ w \in DueRow
        /\ w.paid = v.paid /\ w.penaltyPaid = v.penaltyPaid /\ w.amount = v.amount
        /\ w.waived = v.waived /\ w.penaltyDue = v.penaltyDue
    BY <1>4, <1>6 DEF w, DueRow
  <1> QED BY <1>3, <1>5, <1>7 DEF p, q

LEMMA ReverseType ==
  ASSUME TypeOK, NEW d \in Deposits, ReverseDeposit(d)
  PROVE  TypeOK'
  <1>1. PICK i \in DOMAIN entries[d] :
          LET original == entries[d][i]
          IN  /\ balance[original.account] >= original.amount
              /\ balance' = [balance EXCEPT ![original.account] = @ - original.amount]
              /\ RecordEntry(d, "deposit_reversal", original.account, original.amount)
    BY DEF ReverseDeposit, EntriesOf
  <1>2. entries[d][i].account \in Accounts /\ entries[d][i].amount \in Nat
    <2>1. entries[d] \in Seq(EntryRow)
      BY DEF TypeOK
    <2>2. entries[d][i] \in EntryRow
      BY <2>1
    <2> QED BY <2>2 DEF EntryRow
  <1>3. balance' \in [Accounts -> 0 .. MaxBalance]
    <2>1. balance[entries[d][i].account] - entries[d][i].amount \in 0 .. MaxBalance
      BY <1>1, <1>2, LedgerAssumption DEF TypeOK, LedgerAssumption
    <2> QED BY <1>1, <1>2, <2>1 DEF TypeOK
  <1>4. entries' \in [Deposits -> Seq(EntryRow)]
    BY <1>1, <1>2, RecordEntryType DEF EntryTypes
  <1>5. due' \in [Dues -> DueRow]
    <2>1. \A u \in Linked(d) : Reopened(d, u) \in DueRow
      BY ReopenedType DEF ReverseDeposit, Reversible, Linked
    <2> QED BY <2>1 DEF TypeOK, ReverseDeposit
  <1>6. dep' \in [Deposits -> DepositRow]
    <2>1. dep[d] \in DepositRow
      BY DEF TypeOK
    <2>2. [dep[d] EXCEPT !.status = "reversed"] \in DepositRow
      BY <2>1 DEF DepositRow, DepositStatuses
    <2>3. dep' = [dep EXCEPT ![d] = [dep[d] EXCEPT !.status = "reversed"]]
      BY DEF ReverseDeposit
    <2> QED BY <2>2, <2>3 DEF TypeOK
  <1>7. receipt' \in [Deposits -> {"none", "issued", "voided"}]
    BY SMTT(30) DEF TypeOK, ReverseDeposit
  <1>8. promise' \in [Promises -> PromiseRow]
    <2>1. \A c \in Promises, s \in {"pending", "closed"} :
            [promise[c] EXCEPT !.status = s, !.by = 0] \in PromiseRow
      BY DEF TypeOK, PromiseRow, PromiseStatuses
    <2>2. promise' = PromiseRestored(d)
      BY DEF ReverseDeposit
    <2> QED BY <2>1, <2>2, ZenonT(30) DEF TypeOK, PromiseRestored
  <1> QED BY <1>3, <1>4, <1>5, <1>6, <1>7, <1>8 DEF TypeOK, ReverseDeposit

LEMMA StartPromiseType ==
  ASSUME TypeOK, NEW r \in Requests, StartPromise(r)
  PROVE  TypeOK'
  <1>1. PICK m \in active, n \in Amounts, overdue \in BOOLEAN :
          Become(r, [pc |-> "promise", member |-> m, amount |-> n,
                     open |-> PromisesOf(m, "pending"), overdue |-> overdue])
    BY DEF StartPromise
  <1> DEFINE q == [pc |-> "promise", member |-> m, amount |-> n,
                   open |-> PromisesOf(m, "pending"), overdue |-> overdue]
  <1>2. m \in Members /\ n \in Nat /\ PromisesOf(m, "pending") \in SUBSET Promises
    BY LedgerAssumption DEF LedgerAssumption, TypeOK, PromisesOf
  <1>3. q \in MakeReq
    BY <1>2 DEF MakeReq
  <1>4. q \in Request
    <2> HIDE DEF q
    <2> QED BY <1>3 DEF Request
  <1> QED BY <1>1, <1>4, OnlyRequestChanged DEF StartPromise

LEMMA MakePromiseType ==
  ASSUME TypeOK, NEW r \in Requests, MakePromise(r)
  PROVE  TypeOK'
  <1>1. req[r] \in MakeReq
    BY RequestByStage DEF MakePromise, TypeOK
  <1> DEFINE made == [status |-> "pending", member |-> req[r].member,
                      amount |-> req[r].amount, by |-> 0,
                      older |-> {d \in Deposits : dep[d].status # "none"}]
             superseded(e) == [promise[e] EXCEPT !.status =
                                 IF req[r].overdue THEN "broken" ELSE "closed"]
  <1>2. made \in PromiseRow
    BY <1>1 DEF MakeReq, PromiseRow, PromiseStatuses
  <1>3. \A e \in Promises : superseded(e) \in PromiseRow /\ promise[e] \in PromiseRow
    BY DEF TypeOK, PromiseRow, PromiseStatuses
  <1>4. promise' \in [Promises -> PromiseRow]
    <2>1. PICK c \in Promises :
            promise' = [e \in Promises |-> IF e = c THEN made
                                           ELSE IF e \in req[r].open THEN superseded(e)
                                           ELSE promise[e]]
      BY DEF MakePromise
    <2> HIDE DEF made, superseded
    <2> QED BY <1>2, <1>3, <2>1
  <1>5. req' \in [Requests -> Request]
    BY BecomeType, IdleType DEF MakePromise
  <1> QED BY <1>4, <1>5 DEF TypeOK, MakePromise

LEMMA PromiseEndType ==
  ASSUME TypeOK, NEW c \in Promises, ResolvePromise(c) \/ BreakPromise(c)
  PROVE  TypeOK'
  <1>1. PICK s \in {"closed", "broken"} : promise' = [promise EXCEPT ![c].status = s]
    BY DEF ResolvePromise, BreakPromise
  <1>2. [promise[c] EXCEPT !.status = s] \in PromiseRow
    BY DEF TypeOK, PromiseRow, PromiseStatuses
  <1>3. promise' \in [Promises -> PromiseRow]
    BY <1>1, <1>2 DEF TypeOK
  <1> QED BY <1>3 DEF TypeOK, ResolvePromise, BreakPromise

LEMMA SpendType ==
  ASSUME TypeOK, NEW a \in Accounts, SpendFromAccount(a)
  PROVE  TypeOK'
  <1>1. PICK n \in Amounts : /\ balance[a] >= n
                             /\ balance' = [balance EXCEPT ![a] = @ - n]
                             /\ spent' = [spent EXCEPT ![a] = @ + n]
    BY DEF SpendFromAccount
  <1>2. n \in Nat /\ MaxBalance \in Nat /\ balance[a] \in 0 .. MaxBalance /\ spent[a] \in Nat
    BY LedgerAssumption DEF LedgerAssumption, TypeOK
  <1>3. balance[a] - n \in 0 .. MaxBalance /\ spent[a] + n \in Nat
    BY <1>1, <1>2
  <1>4. balance' \in [Accounts -> 0 .. MaxBalance] /\ spent' \in [Accounts -> Nat]
    BY <1>1, <1>3 DEF TypeOK
  <1> QED BY <1>4 DEF TypeOK, SpendFromAccount

LEMMA GiveUpType ==
  ASSUME TypeOK, NEW r \in Requests, GiveUp(r)
  PROVE  TypeOK'
  BY IdleType, OnlyRequestChanged DEF GiveUp

-----------------------------------------------------------------------------
LEMMA InitType == Init => TypeOK
  <1> SUFFICES ASSUME Init PROVE TypeOK
    OBVIOUS
  <1>1. /\ dep \in [Deposits -> DepositRow] /\ due \in [Dues -> DueRow]
        /\ promise \in [Promises -> PromiseRow]
    BY OpeningAssumption DEF Init, OpeningAssumption
  <1>2. alloc \in [Deposits -> [Dues -> AllocRow]]
    BY LinkType DEF Init
  <1>3. << >> \in Seq(EntryRow) /\ 0 \in 0 .. MaxBalance
    BY LedgerAssumption DEF LedgerAssumption
  <1> QED BY <1>1, <1>2, <1>3, IdleType DEF Init, TypeOK

LEMMA NextType == TypeOK /\ [Next]_vars => TypeOK'
  <1> SUFFICES ASSUME TypeOK, [Next]_vars PROVE TypeOK'
    OBVIOUS
  <1>1. CASE ApprovalNext
    BY <1>1, StartSubmitType, SubmitType, SubmitAndFinalizeType, OpenReviewType,
       ReadDepositType, EndorseType, PlanConfirmationType, LockForPostingType, PostType,
       CloseType, ResolveAllocationType, ChangeRouteType DEF ApprovalNext
  <1>2. CASE SettlementNext
    BY <1>2, StartBillingType, ApplyStepType, BillCommitType, StartSettleType,
       SettleCommitType, WaiverType, MembershipType DEF SettlementNext
  <1>3. CASE \E d \in Deposits : ReverseDeposit(d)
    BY <1>3, ReverseType
  <1>4. CASE \E c \in Promises : ResolvePromise(c) \/ BreakPromise(c)
    BY <1>4, PromiseEndType
  <1>5. CASE \E a \in Accounts : SpendFromAccount(a)
    BY <1>5, SpendType
  <1>6. CASE \E r \in Requests : StartPromise(r) \/ MakePromise(r) \/ GiveUp(r)
    BY <1>6, StartPromiseType, MakePromiseType, GiveUpType
  <1>7. CASE UNCHANGED vars
    BY <1>7 DEF vars, TypeOK
  <1> QED BY <1>1, <1>2, <1>3, <1>4, <1>5, <1>6, <1>7 DEF Next

(***************************************************************************)
(* Every table and every handler keeps to its type.  In particular no      *)
(* account is ever overdrawn or pushed beyond the largest balance the      *)
(* database holds, by whatever handlers interleave.                        *)
(***************************************************************************)
THEOREM TypeCorrect == Spec => []TypeOK
  <1>1. Init => TypeOK
    BY InitType
  <1>2. TypeOK /\ [Next]_vars => TypeOK'
    BY NextType
  <1> QED BY <1>1, <1>2, PTL DEF Spec

-----------------------------------------------------------------------------
(* Safety. *)

\* The steps that write each table.
PostingStep == \E r \in Requests : SubmitAndFinalize(r) \/ Post(r)
SettleStep  == \E r \in Requests : SettleCommit(r)
ReverseStep == \E d \in Deposits : ReverseDeposit(d)
SubmitStep  == \E r \in Requests : Submit(r)
EndorseStep == \E r \in Requests : Endorse(r)
CloseStep   == \E d \in Deposits : Reject(d) \/ Remove(d)
RepairStep  == \E d \in Deposits : ResolveAllocation(d)
SpendStep   == \E a \in Accounts : SpendFromAccount(a)
BillStep    == \E r \in Requests : BillCommit(r)
WaiverStep  == \E r \in Requests : WaivePenalty(r)

\* Which steps write the deposits, and which the cash books and the dues.
LEMMA Writers ==
  ASSUME [Next]_vars
  PROVE  /\ \/ PostingStep \/ SettleStep \/ ReverseStep \/ SubmitStep \/ EndorseStep
            \/ CloseStep \/ RepairStep \/ UNCHANGED dep
         /\ \/ PostingStep \/ SettleStep \/ ReverseStep \/ SpendStep
            \/ UNCHANGED <<entries, receipt, balance, spent>>
         /\ \/ PostingStep \/ SettleStep \/ ReverseStep \/ BillStep \/ WaiverStep
            \/ UNCHANGED due
  <1>1. CASE ApprovalNext
    BY <1>1, ZenonT(30) DEF ApprovalNext, PostingStep, SubmitStep, EndorseStep, CloseStep, RepairStep,
       StartSubmit, StartSubmitAdvance, Submit, OpenReview, ReadDeposit, Endorse,
       PlanConfirmation, LockForPosting, Reject, Remove, ResolveAllocation, ChangeRoute
  <1>2. CASE SettlementNext
    BY <1>2 DEF SettlementNext, SettleStep, BillStep, WaiverStep, StartBilling, BillApply,
       BillCommit, StartSettle, SettleApply, StartWaive, WaivePenalty, RemoveMember,
       ReactivateMember
  <1>3. CASE ReverseStep
    BY <1>3
  <1>4. CASE \E c \in Promises : ResolvePromise(c) \/ BreakPromise(c)
    BY <1>4 DEF ResolvePromise, BreakPromise
  <1>5. CASE SpendStep
    BY <1>5 DEF SpendStep, SpendFromAccount
  <1>6. CASE \E r \in Requests : StartPromise(r) \/ MakePromise(r) \/ GiveUp(r)
    BY <1>6 DEF StartPromise, MakePromise, GiveUp
  <1>7. CASE UNCHANGED vars
    BY <1>7 DEF vars
  <1> QED BY <1>1, <1>2, <1>3, <1>4, <1>5, <1>6, <1>7, SMTT(30) DEF Next, ReverseStep, SpendStep

\* A posting step posts one deposit.
LEMMA PostingIsOnePost ==
  ASSUME TypeOK, PostingStep
  PROVE  \E d \in Deposits, row \in DepositRow, D \in SUBSET Dues :
           PostDeposit(d, row, D) /\ UNCHANGED spent
  <1>1. CASE \E r \in Requests : Post(r)
    <2>1. PICK r \in Requests : Post(r)
      BY <1>1
    <2>2. req[r] \in PostReq
      BY <2>1, RequestByStage DEF Post, Posting, TypeOK
    <2>3. req[r].dep \in Deposits /\ dep[req[r].dep] \in DepositRow
      BY <2>2 DEF PostReq, TypeOK
    <2>4. Linked(req[r].dep) \in SUBSET Dues
      BY DEF Linked
    <2> QED BY <2>1, <2>3, <2>4 DEF Post
  <1>2. CASE \E r \in Requests : SubmitAndFinalize(r)
    <2>1. PICK r \in Requests : SubmitAndFinalize(r)
      BY <1>2
    <2>2. req[r] \in SubmitReq
      BY <2>1, RequestByStage DEF SubmitAndFinalize, TypeOK
    <2>3. PICK d \in Deposits : PostDeposit(d, SubmittedRow(req[r]), req[r].dues)
      BY <2>1 DEF SubmitAndFinalize
    <2>4. SubmittedRow(req[r]) \in DepositRow /\ req[r].dues \in SUBSET Dues
      BY <2>2, SubmittedType DEF SubmitReq
    <2> QED BY <2>1, <2>3, <2>4 DEF SubmitAndFinalize
  <1> QED BY <1>1, <1>2 DEF PostingStep
\* A settlement changes only what is refunded of a deposit.
LEMMA SettlementKeepsDeposits ==
  ASSUME TypeOK, NEW r \in Requests, SettleCommit(r), NEW d \in Deposits
  PROVE  /\ dep'[d].status = dep[d].status /\ dep'[d].route = dep[d].route
         /\ dep'[d].endorsed = dep[d].endorsed /\ dep'[d].amount = dep[d].amount
         /\ dep'[d].account = dep[d].account /\ dep'[d].kind = dep[d].kind
  <1>1. \/ dep'[d] = dep[d]
        \/ dep'[d] = [dep[d] EXCEPT !.refunded = @ + RefundOf(req[r], d)]
    BY DEF SettleCommit
  <1>2. dep[d] \in DepositRow
    BY DEF TypeOK
  <1> QED BY <1>1, <1>2 DEF DepositRow

-----------------------------------------------------------------------------
(* Endorsement. *)

LEMMA EndorsedStep ==
  ASSUME TypeOK, EndorsedBeforeApproval, [Next]_vars
  PROVE  EndorsedBeforeApproval'
  <1>1. CASE PostingStep
    <2>1. PICK d \in Deposits, row \in DepositRow, D \in SUBSET Dues : PostDeposit(d, row, D)
      BY <1>1, PostingIsOnePost
    <2>2. /\ [row EXCEPT !.status = "confirmed"].status = "confirmed"
          /\ dep' = [dep EXCEPT ![d] = [row EXCEPT !.status = "confirmed"]]
      BY <2>1 DEF PostDeposit, DepositRow
    <2> QED BY <2>2 DEF EndorsedBeforeApproval, TypeOK
  <1>2. CASE SubmitStep
    <2>1. PICK r \in Requests : Submit(r)
      BY <1>2 DEF SubmitStep
    <2>2. req[r] \in SubmitReq
      BY <2>1, RequestByStage DEF Submit, TypeOK
    <2>3. LET row == SubmittedRow(req[r])
          IN  row.status = "pending_approver" /\ row.route = "accountant" => row.endorsed
      BY <2>2 DEF SubmittedRow, SubmitReq
    <2> QED BY <2>1, <2>3 DEF EndorsedBeforeApproval, TypeOK, Submit
  <1>3. CASE EndorseStep
    <2>1. PICK r \in Requests : Endorse(r)
      BY <1>3 DEF EndorseStep
    <2>2. PICK a \in Accounts :
            dep' = [dep EXCEPT ![req[r].dep].status = "pending_approver",
                               ![req[r].dep].endorsed = TRUE, ![req[r].dep].account = a]
      BY <2>1 DEF Endorse
    <2> QED BY <2>2 DEF EndorsedBeforeApproval, TypeOK, DepositRow
  <1>4. CASE CloseStep
    <2>1. PICK d \in Deposits, s \in {"rejected", "removed"} : CloseDeposit(d, s)
      BY <1>4 DEF CloseStep, Reject, Remove
    <2> QED BY <2>1 DEF CloseDeposit, EndorsedBeforeApproval, TypeOK, DepositRow
  <1>5. CASE RepairStep
    <2>1. PICK d \in Deposits, k \in Kinds : dep' = [dep EXCEPT ![d] = ResolvedRow(d, k)]
      BY <1>5 DEF RepairStep, ResolveAllocation, TypeOK, DepositRow, Kinds
    <2>2. /\ ResolvedRow(d, k).route = dep[d].route
          /\ dep[d].route = "accountant" => ResolvedRow(d, k).status = "pending_accountant"
      BY DEF ResolvedRow, TypeOK, DepositRow
    <2> QED BY <2>1, <2>2 DEF EndorsedBeforeApproval, TypeOK
  <1>6. CASE SettleStep
    BY <1>6, SettlementKeepsDeposits DEF SettleStep, EndorsedBeforeApproval
  <1>7. CASE ReverseStep
    <2>1. PICK d \in Deposits : dep' = [dep EXCEPT ![d].status = "reversed"]
      BY <1>7 DEF ReverseStep, ReverseDeposit
    <2> QED BY <2>1 DEF EndorsedBeforeApproval, TypeOK, DepositRow
  <1>8. CASE UNCHANGED dep
    BY <1>8 DEF EndorsedBeforeApproval
  <1> QED BY <1>1, <1>2, <1>3, <1>4, <1>5, <1>6, <1>7, <1>8, Writers

(***************************************************************************)
(* A payment on the accountant route is never in the approver's queue      *)
(* without an endorsement: the two-stage review of deposits.routes.ts      *)
(* cannot be bypassed by submissions, repairs or reviewers that race.      *)
(***************************************************************************)
THEOREM EndorsedAlways == Spec => []EndorsedBeforeApproval
  <1>1. Init => TypeOK /\ EndorsedBeforeApproval
    BY InitType, OpeningAssumption DEF Init, OpeningAssumption, EndorsedBeforeApproval
  <1>2. (TypeOK /\ EndorsedBeforeApproval) /\ [Next]_vars
          => (TypeOK /\ EndorsedBeforeApproval)'
    BY NextType, EndorsedStep
  <1> QED BY <1>1, <1>2, PTL DEF Spec

-----------------------------------------------------------------------------
(* The cash books. *)

LEMMA InAccountType == ASSUME NEW e \in EntryRow, NEW a PROVE InAccount(e, a) \in Int
  BY DEF InAccount, EntryRow

LEMMA EntryTotalType ==
  ASSUME NEW s \in Seq(EntryRow), NEW a
  PROVE  EntryTotal(s, a) \in Int
  <1>1. IsFiniteSet(DOMAIN s)
    BY FS_Interval
  <1>2. \A i \in DOMAIN s : [k \in DOMAIN s |-> InAccount(s[k], a)][i] \in Int
    BY InAccountType
  <1> HIDE DEF EntryTotal
  <1> QED BY <1>1, <1>2, SumIsInteger DEF EntryTotal

\* An entry appended to a deposit's transactions adds what it moves.
LEMMA EntryTotalOfAppend ==
  ASSUME NEW s \in Seq(EntryRow), NEW e \in EntryRow, NEW a
  PROVE  EntryTotal(Append(s, e), a) = EntryTotal(s, a) + InAccount(e, a)
  <1> DEFINE n == Len(s)
             t == Append(s, e)
             f == [i \in 1 .. n + 1 |-> InAccount(t[i], a)]
             g == [i \in 1 .. n |-> InAccount(s[i], a)]
  <1>1. /\ n \in Nat /\ DOMAIN s = 1 .. n /\ DOMAIN t = 1 .. n + 1
        /\ t[n + 1] = e /\ \A i \in 1 .. n : t[i] = s[i] /\ s[i] \in EntryRow
    OBVIOUS
  <1>2. EntryTotal(t, a) = SumOver(f, 1 .. n + 1) /\ EntryTotal(s, a) = SumOver(g, 1 .. n)
    BY <1>1 DEF EntryTotal
  <1> HIDE DEF t, n
  <1>3. \A i \in 1 .. n + 1 : f[i] \in Int
    <2>1. \A i \in 1 .. n + 1 : t[i] \in EntryRow
      BY <1>1
    <2> QED BY <2>1, InAccountType
  <1>4. IsFiniteSet(1 .. n + 1) /\ IsFiniteSet(1 .. n)
    BY <1>1, FS_Interval
  <1>5. n + 1 \in 1 .. n + 1 /\ (1 .. n + 1) \ {n + 1} = 1 .. n /\ 1 .. n \subseteq 1 .. n + 1
    BY <1>1
  <1>6. f[n + 1] = InAccount(e, a) /\ \A i \in 1 .. n : f[i] = g[i]
    BY <1>1, <1>5
  <1> HIDE DEF f, g
  <1>7. SumOver(f, 1 .. n + 1) = f[n + 1] + SumOver(f, (1 .. n + 1) \ {n + 1})
    BY <1>3, <1>4, <1>5, SumRemove
  <1>8. SumOver(f, 1 .. n) = SumOver(g, 1 .. n) /\ SumOver(f, 1 .. n) \in Int
    BY <1>3, <1>4, <1>5, <1>6, SumAgrees, SumIsInteger
  <1>9. f[n + 1] \in Int
    BY <1>3, <1>5
  <1>10. SumOver(f, 1 .. n + 1) = SumOver(g, 1 .. n) + InAccount(e, a)
    <2>1. SumOver(f, 1 .. n + 1) = f[n + 1] + SumOver(f, 1 .. n)
      BY <1>5, <1>7
    <2> QED BY <2>1, <1>6, <1>8, <1>9
  <1> QED BY <1>2, <1>10 DEF t

\* What the transactions of all deposits make of an account.
Booked(books, a) == SumOver([d \in Deposits |-> EntryTotal(books[d], a)], Deposits)

LEMMA BookedType ==
  ASSUME NEW books \in [Deposits -> Seq(EntryRow)], NEW a
  PROVE  Booked(books, a) \in Int
  <1>1. \A d \in Deposits : [x \in Deposits |-> EntryTotal(books[x], a)][d] \in Int
    BY EntryTotalType
  <1> QED BY <1>1, SumIsInteger, FiniteTables DEF Booked

LEMMA OneEntryBooked ==
  ASSUME TypeOK, NEW d \in Deposits, NEW type \in EntryTypes, NEW acc \in Accounts,
         NEW n \in Nat, RecordEntry(d, type, acc, n), NEW a
  PROVE  Booked(entries', a) = Booked(entries, a)
           + InAccount([type |-> type, account |-> acc, amount |-> n], a)
  <1> DEFINE e == [type |-> type, account |-> acc, amount |-> n]
             f == [x \in Deposits |-> EntryTotal(entries[x], a)]
             g == [x \in Deposits |-> EntryTotal(entries'[x], a)]
  <1>1. e \in EntryRow
    BY DEF EntryRow
  <1>2. entries \in [Deposits -> Seq(EntryRow)] /\ entries' \in [Deposits -> Seq(EntryRow)]
    BY RecordEntryType DEF TypeOK
  <1>3. entries'[d] = Append(entries[d], e) /\ \A x \in Deposits \ {d} : entries'[x] = entries[x]
    BY <1>2 DEF RecordEntry
  <1> HIDE DEF e
  <1>4. \A x \in Deposits : f[x] \in Int /\ g[x] \in Int
    BY <1>2, EntryTotalType
  <1>5. \A x \in Deposits \ {d} : g[x] = f[x]
    BY <1>3
  <1>6. g[d] = f[d] + InAccount(e, a) /\ InAccount(e, a) \in Int
    BY <1>1, <1>2, <1>3, EntryTotalOfAppend, InAccountType
  <1>7. SumOver(g, Deposits) = SumOver(f, Deposits) + g[d] - f[d]
    <2>1. IsFiniteSet(Deposits)
      BY FiniteTables
    <2> HIDE DEF f, g
    <2> QED BY <1>4, <1>5, <2>1, SumUpdate
  <1>8. SumOver(f, Deposits) \in Int
    <2> HIDE DEF f
    <2> QED BY <1>4, SumIsInteger, FiniteTables
  <1>9. SumOver(g, Deposits) = SumOver(f, Deposits) + InAccount(e, a)
    <2>1. f[d] \in Int
      BY <1>4
    <2> HIDE DEF f, g
    <2> QED BY <2>1, <1>6, <1>7, <1>8
  <1> QED BY <1>9 DEF Booked, e

\* A settlement books exactly the refunds it takes from each account.
LEMMA RefundsBooked ==
  ASSUME TypeOK, NEW r \in Requests, SettleCommit(r), NEW a \in Accounts
  PROVE  /\ Booked(entries', a) = Booked(entries, a) - RefundFrom(req[r], a)
         /\ balance'[a] = balance[a] - RefundFrom(req[r], a)
         /\ RefundFrom(req[r], a) \in Nat
  <1> DEFINE q == req[r]
             f == [d \in Deposits |-> EntryTotal(entries[d], a)]
             h == [d \in Deposits |-> EntryTotal(entries'[d], a)]
             g == [d \in Deposits |-> IF q.was.dep[d].account = a THEN RefundOf(q, d) ELSE 0]
  <1>1. q \in SettleReq
    BY RequestByStage DEF SettleCommit, TypeOK
  <1>2. (\A d \in Deposits : RefundOf(q, d) \in Nat) /\ RefundFrom(q, a) \in Nat
    BY <1>1, RefundType
  <1>3. entries \in [Deposits -> Seq(EntryRow)] /\ entries' \in [Deposits -> Seq(EntryRow)]
    BY SettleCommitType DEF TypeOK
  <1>4. ASSUME NEW d \in Deposits
        PROVE  f[d] \in Int /\ g[d] \in Int /\ h[d] \in Int /\ f[d] = h[d] + g[d]
    <2>1. f[d] \in Int /\ h[d] \in Int
      BY <1>3, EntryTotalType
    <2>2. CASE d \in Refunded(q)
      <3> DEFINE e == [type |-> "advance_refund", account |-> dep[d].account,
                       amount |-> RefundOf(q, d)]
      <3>1. entries'[d] = Append(entries[d], e)
        BY <2>2 DEF SettleCommit
      <3>2. e \in EntryRow
        BY <1>2 DEF TypeOK, DepositRow, EntryRow, EntryTypes
      <3>3. h[d] = f[d] + InAccount(e, a)
        <4> HIDE DEF e
        <4> QED BY <1>3, <3>1, <3>2, EntryTotalOfAppend
      <3>4. IsAdvanceOf(q.was.dep[d], q.member)
        BY <2>2 DEF Refunded, RefundOf
      <3>5. q.was.dep[d] = dep[d]
        BY <3>4 DEF SettleCommit, NoConflict
      <3>6. InAccount(e, a) = -g[d]
        BY <1>2, <3>5 DEF InAccount
      <3>7. g[d] \in Int
        BY <1>2
      <3> HIDE DEF f, g, h, e
      <3> QED BY <2>1, <3>3, <3>6, <3>7
    <2>3. CASE d \notin Refunded(q)
      <3>1. entries'[d] = entries[d]
        BY <2>3 DEF SettleCommit
      <3>2. RefundOf(q, d) = 0
        BY <2>3, <1>2 DEF Refunded
      <3> QED BY <2>1, <3>1, <3>2
    <2> QED BY <2>2, <2>3
  <1>5. IsFiniteSet(Deposits)
    BY FiniteTables
  <1>6. SumOver(f, Deposits) = SumOver(h, Deposits) + SumOver(g, Deposits)
    <2> HIDE DEF f, g, h
    <2> QED BY <1>4, <1>5, SumOfChanges
  <1>7. SumOver(f, Deposits) \in Int /\ SumOver(h, Deposits) \in Int
    <2> HIDE DEF f, g, h
    <2> QED BY <1>4, <1>5, SumIsInteger
  <1>8. /\ SumOver(f, Deposits) = Booked(entries, a)
        /\ SumOver(h, Deposits) = Booked(entries', a)
        /\ SumOver(g, Deposits) = RefundFrom(q, a)
    BY DEF Booked, RefundFrom
  <1>9. balance'[a] = balance[a] - RefundFrom(q, a)
    BY DEF SettleCommit
  <1> HIDE DEF f, g, h, q
  <1>10. Booked(entries', a) = Booked(entries, a) - RefundFrom(q, a)
    BY <1>2, <1>6, <1>7, <1>8
  <1> QED BY <1>2, <1>9, <1>10 DEF q

Balanced == \A a \in Accounts : balance[a] = Booked(entries, a) - spent[a]

LEMMA BalancedStep ==
  ASSUME TypeOK, Balanced, [Next]_vars, NEW a \in Accounts
  PROVE  balance'[a] = Booked(entries', a) - spent'[a]
  <1>1. /\ balance[a] \in Int /\ spent[a] \in Int /\ Booked(entries, a) \in Int
        /\ balance[a] = Booked(entries, a) - spent[a]
    BY BookedType, LedgerAssumption DEF TypeOK, Balanced, LedgerAssumption
  <1>2. CASE PostingStep
    <2>1. PICK d \in Deposits, row \in DepositRow, D \in SUBSET Dues :
            PostDeposit(d, row, D) /\ UNCHANGED spent
      BY <1>2, PostingIsOnePost
    <2>2. row.account \in Accounts /\ row.amount \in Nat
      BY DEF DepositRow
    <2>3. Booked(entries', a) = Booked(entries, a)
            + InAccount([type |-> "deposit", account |-> row.account, amount |-> row.amount], a)
      BY <2>1, <2>2, OneEntryBooked DEF PostDeposit, EntryTypes
    <2>4. balance'[a] = balance[a] + (IF row.account = a THEN row.amount ELSE 0)
      BY <2>1, <2>2, <1>1 DEF PostDeposit, Credit, TypeOK
    <2> QED BY <1>1, <2>1, <2>2, <2>3, <2>4 DEF InAccount
  <1>3. CASE SettleStep
    <2>1. PICK r \in Requests : SettleCommit(r)
      BY <1>3 DEF SettleStep
    <2>2. spent' = spent
      BY <2>1 DEF SettleCommit
    <2> QED BY <1>1, <2>1, <2>2, RefundsBooked
  <1>4. CASE ReverseStep
    <2>1. PICK d \in Deposits : ReverseDeposit(d)
      BY <1>4 DEF ReverseStep
    <2>2. PICK i \in DOMAIN entries[d] :
            /\ balance' = [balance EXCEPT ![entries[d][i].account] = @ - entries[d][i].amount]
            /\ RecordEntry(d, "deposit_reversal", entries[d][i].account, entries[d][i].amount)
      BY <2>1 DEF ReverseDeposit, EntriesOf
    <2>3. entries[d][i].account \in Accounts /\ entries[d][i].amount \in Nat
      <3>1. entries[d] \in Seq(EntryRow)
        BY DEF TypeOK
      <3>2. entries[d][i] \in EntryRow
        BY <3>1
      <3> QED BY <3>2 DEF EntryRow
    <2> DEFINE e == [type |-> "deposit_reversal", account |-> entries[d][i].account,
                     amount |-> entries[d][i].amount]
    <2>4. Booked(entries', a) = Booked(entries, a) + InAccount(e, a)
      BY <2>2, <2>3, OneEntryBooked DEF EntryTypes
    <2>5. balance'[a] = balance[a]
            - (IF entries[d][i].account = a THEN entries[d][i].amount ELSE 0)
      BY <2>2, <2>3, <1>1 DEF TypeOK
    <2>6. InAccount(e, a) = -(IF entries[d][i].account = a THEN entries[d][i].amount ELSE 0)
      BY <2>3 DEF InAccount
    <2>7. spent' = spent
      BY <2>1 DEF ReverseDeposit
    <2> HIDE DEF e
    <2> QED BY <1>1, <2>3, <2>4, <2>5, <2>6, <2>7
  <1>5. CASE SpendStep
    <2>1. PICK b \in Accounts, n \in Amounts :
            /\ balance' = [balance EXCEPT ![b] = @ - n]
            /\ spent' = [spent EXCEPT ![b] = @ + n]
            /\ entries' = entries
      BY <1>5 DEF SpendStep, SpendFromAccount
    <2>2. n \in Int
      BY LedgerAssumption DEF LedgerAssumption
    <2>3. /\ balance'[a] = IF a = b THEN balance[a] - n ELSE balance[a]
          /\ spent'[a] = IF a = b THEN spent[a] + n ELSE spent[a]
      BY <2>1 DEF TypeOK
    <2> QED BY <1>1, <2>1, <2>2, <2>3
  <1>6. CASE UNCHANGED <<entries, receipt, balance, spent>>
    BY <1>1, <1>6
  <1> QED BY <1>2, <1>3, <1>4, <1>5, <1>6, Writers

(***************************************************************************)
(* Every account's balance is the sum of its transactions, whatever        *)
(* confirmations, refunds, reversals and other debits interleave: the      *)
(* increments the handlers write never overwrite one another.              *)
(***************************************************************************)
THEOREM BooksBalance == Spec => []BalanceMatchesEntries
  <1>1. Init => Balanced
    <2> SUFFICES ASSUME Init, NEW a \in Accounts
                 PROVE  balance[a] = Booked(entries, a) - spent[a]
      BY DEF Balanced
    <2> DEFINE f == [d \in Deposits |-> EntryTotal(entries[d], a)]
               g == [d \in Deposits |-> 0]
    <2>1. \A d \in Deposits : f[d] = 0
      <3>1. \A d \in Deposits : entries[d] = << >> /\ DOMAIN entries[d] = {}
        BY DEF Init
      <3> QED BY <3>1, SumOfEmpty DEF EntryTotal
    <2>2. SumOver(f, Deposits) = 0
      <3> HIDE DEF f
      <3> QED BY <2>1, SumOfZeros, FiniteTables
    <2> QED BY <2>2 DEF Init, Booked
  <1>2. (TypeOK /\ Balanced) /\ [Next]_vars => (TypeOK /\ Balanced)'
    BY NextType, BalancedStep DEF Balanced
  <1>3. Balanced => BalanceMatchesEntries
    BY DEF Balanced, BalanceMatchesEntries, Booked
  <1> QED BY <1>1, <1>2, <1>3, InitType, PTL DEF Spec

-----------------------------------------------------------------------------
(* No due is overpaid.  Settlements and billing compute on copies of the    *)
(* dues and write them later, so the invariant covers the copies as well.   *)

Fits(row) == row.paid + row.waived <= row.amount

CopiesFit == \A r \in Requests : req[r].pc \in {"settle", "bill"} =>
               \A u \in Dues : Fits(req[r].due[u])

LEMMA PaymentFits ==
  ASSUME NEW row \in DueRow, Fits(row), NEW n \in Nat, NEW k
  PROVE  Fits(AllocatePayment(row, n, k))
  <1> DEFINE v == AllocatePayment(row, n, k)
             p == PrincipalShare(row, n, k)
  <1>1. v.paid = row.paid + p /\ v.waived = row.waived /\ v.amount = row.amount
    BY AllocateType
  <1>2. p \in 0 .. n /\ p <= PrincipalBalance(row)
    BY SharesType
  <1> HIDE DEF v, p
  <1>3. row.paid + p + row.waived <= row.amount
    BY <1>2 DEF Fits, PrincipalBalance, NonNegative, DueRow
  <1>4. row.paid \in Nat /\ row.waived \in Nat /\ p \in Nat
    BY <1>2 DEF DueRow
  <1>5. v.paid + v.waived <= v.amount
    BY <1>1, <1>3, <1>4
  <1> QED BY <1>5 DEF Fits, v

LEMMA WriteOffFits ==
  ASSUME NEW row \in DueRow, Fits(row)
  PROVE  Fits(WrittenOff(row))
  <1>1. /\ row.paid \in Nat /\ row.waived \in Nat /\ row.amount \in Nat
    BY DEF DueRow
  <1>2. PrincipalBalance(row) = row.amount - row.paid - row.waived
    BY <1>1 DEF PrincipalBalance, NonNegative, Fits
  <1> QED BY <1>1, <1>2, WrittenOffType DEF Fits

\* What a settlement or a billing request does to its own copy.
LEMMA CopyWriters ==
  ASSUME TypeOK, [Next]_vars, NEW r \in Requests, req'[r].pc \in {"settle", "bill"}
  PROVE  \/ req'[r] = req[r] \/ StartBilling(r) \/ BillApply(r)
         \/ StartSettle(r) \/ SettleApply(r)
  <1>1. ASSUME NEW s \in Requests, NEW q, Become(s, q), q.pc \notin {"settle", "bill"}
        PROVE  req'[r] = req[r]
    BY <1>1 DEF Become, TypeOK
  <1>2. ASSUME NEW s \in Requests, NEW q, Become(s, q), s # r
        PROVE  req'[r] = req[r]
    BY <1>2 DEF Become, TypeOK
  <1>3. Idle.pc = "idle"
    BY DEF Idle
  <1>4. CASE ApprovalNext
    <2>1. ASSUME NEW s \in Requests, PlanConfirmation(s) PROVE req'[r] = req[r]
      <3>1. req[s] \in ReadReq
        BY <2>1, RequestByStage DEF PlanConfirmation, TypeOK
      <3>2. PICK v : Become(s, [req[s] EXCEPT !.pc = "planned", !.seen = v])
        BY <2>1 DEF PlanConfirmation
      <3>3. [req[s] EXCEPT !.pc = "planned", !.seen = v].pc = "planned"
        BY <3>1 DEF ReadReq
      <3> QED BY <3>2, <3>3, <1>1
    <2>2. ASSUME NEW s \in Requests, StartSubmit(s) \/ StartSubmitAdvance(s)
          PROVE  req'[r] = req[r]
      BY <2>2, <1>1, ZenonT(30) DEF StartSubmit, StartSubmitAdvance
    <2>3. ASSUME NEW s \in Requests, OpenReview(s) PROVE req'[r] = req[r]
      BY <2>3, <1>1 DEF OpenReview
    <2>4. ASSUME NEW s \in Requests, ReadDeposit(s) PROVE req'[r] = req[r]
      BY <2>4, <1>1 DEF ReadDeposit
    <2>5. ASSUME NEW s \in Requests, LockForPosting(s) PROVE req'[r] = req[r]
      BY <2>5, <1>1 DEF LockForPosting
    <2>6. ASSUME NEW s \in Requests,
                 Submit(s) \/ SubmitAndFinalize(s) \/ Endorse(s) \/ Post(s)
          PROVE  req'[r] = req[r]
      BY <2>6, <1>1, <1>3 DEF Submit, SubmitAndFinalize, Endorse, Post
    <2>7. ASSUME NEW d \in Deposits, Reject(d) \/ Remove(d) \/ ResolveAllocation(d)
          PROVE  req'[r] = req[r]
      BY <2>7 DEF Reject, Remove, ResolveAllocation
    <2>8. ChangeRoute => req'[r] = req[r]
      BY DEF ChangeRoute
    <2> QED BY <1>4, <2>1, <2>2, <2>3, <2>4, <2>5, <2>6, <2>7, <2>8 DEF ApprovalNext
  <1>5. CASE SettlementNext
    <2>1. ASSUME NEW s \in Requests, StartBilling(s) \/ StartSettle(s)
          PROVE  s = r \/ req'[r] = req[r]
      BY <2>1, <1>2 DEF StartBilling, StartSettle
    <2>2. ASSUME NEW s \in Requests, BillApply(s) \/ SettleApply(s)
          PROVE  s = r \/ req'[r] = req[r]
      BY <2>2, <1>2 DEF BillApply, SettleApply
    <2>3. ASSUME NEW s \in Requests, BillCommit(s) \/ SettleCommit(s) \/ WaivePenalty(s)
          PROVE  req'[r] = req[r]
      BY <2>3, <1>1, <1>3 DEF BillCommit, SettleCommit, WaivePenalty
    <2>4. ASSUME NEW s \in Requests, StartWaive(s) PROVE req'[r] = req[r]
      BY <2>4, <1>1 DEF StartWaive
    <2>5. ASSUME NEW m \in Members, RemoveMember(m) \/ ReactivateMember(m)
          PROVE  req'[r] = req[r]
      BY <2>5 DEF RemoveMember, ReactivateMember
    <2> QED BY <1>5, <2>1, <2>2, <2>3, <2>4, <2>5 DEF SettlementNext
  <1>6. CASE \E d \in Deposits : ReverseDeposit(d)
    BY <1>6 DEF ReverseDeposit
  <1>7. CASE \E c \in Promises : ResolvePromise(c) \/ BreakPromise(c)
    BY <1>7 DEF ResolvePromise, BreakPromise
  <1>8. CASE \E a \in Accounts : SpendFromAccount(a)
    BY <1>8 DEF SpendFromAccount
  <1>9. CASE \E s \in Requests : StartPromise(s) \/ MakePromise(s) \/ GiveUp(s)
    BY <1>9, <1>1, <1>3 DEF StartPromise, MakePromise, GiveUp
  <1>10. CASE UNCHANGED vars
    BY <1>10 DEF vars
  <1> QED BY <1>4, <1>5, <1>6, <1>7, <1>8, <1>9, <1>10 DEF Next

LEMMA ApplyFits ==
  ASSUME NEW q \in Work, NEW D \in SUBSET Dues, Applicable(q, D) # {},
         \A u \in Dues : Fits(q.due[u]), NEW u \in Dues
  PROVE  Fits(ApplyAdvance(q, Earliest(Applicable(q, D))).due[u])
  <1> DEFINE t == Earliest(Applicable(q, D))
             n == Lesser(LeftOf(q, t[1]), CalculateDueBalance(q.due[t[2]]))
  <1>1. t[1] \in Deposits /\ t[2] \in Dues
    BY ApplyAdvanceType
  <1> HIDE DEF t
  <1>2. q.due \in [Dues -> DueRow]
    BY DEF Work, SettleReq, BillReq
  <1>3. n \in Nat
    <2>1. q.due[t[2]] \in Money
      BY <1>1, <1>2 DEF Money
    <2> QED BY <1>1, <2>1, BalanceType, LeftType DEF Lesser
  <1>4. ApplyAdvance(q, t).due = [q.due EXCEPT ![t[2]] = AllocatePayment(@, n, "penalty_first")]
    BY <1>1, <1>2 DEF ApplyAdvance, Work, SettleReq, BillReq
  <1> HIDE DEF n
  <1>5. ApplyAdvance(q, t).due[u] = IF u = t[2] THEN AllocatePayment(q.due[u], n, "penalty_first")
                                    ELSE q.due[u]
    BY <1>1, <1>2, <1>4
  <1>6. Fits(AllocatePayment(q.due[u], n, "penalty_first"))
    BY <1>2, <1>3, PaymentFits
  <1> QED BY <1>5, <1>6 DEF t

LEMMA CopiesStep ==
  ASSUME TypeOK, NeverOverpaid, CopiesFit, [Next]_vars
  PROVE  CopiesFit'
  <1> SUFFICES ASSUME NEW r \in Requests, req'[r].pc \in {"settle", "bill"}, NEW u \in Dues
               PROVE  Fits(req'[r].due[u])
    BY DEF CopiesFit
  <1>1. req \in [Requests -> Request] /\ \A v \in Dues : Fits(due[v])
    BY DEF TypeOK, NeverOverpaid, Fits
  <1>2. CASE req'[r] = req[r]
    BY <1>2 DEF CopiesFit
  <1>3. CASE StartSettle(r)
    <2>1. PICK q : Become(r, q) /\ q.due = due
      BY <1>3 DEF StartSettle
    <2> QED BY <1>1, <2>1 DEF Become
  <1>4. CASE StartBilling(r)
    <2>1. PICK s \in Schedules, unit \in Amounts : \E q :
            /\ Become(r, q)
            /\ q.due = [v \in Dues |-> IF v \in BilledBy(s) THEN NewDue(unit, Owner(v))
                                       ELSE due[v]]
      BY <1>4 DEF StartBilling
    <2>2. PICK q :
            /\ Become(r, q)
            /\ q.due = [v \in Dues |-> IF v \in BilledBy(s) THEN NewDue(unit, Owner(v))
                                       ELSE due[v]]
      BY <2>1
    <2>3. Fits(NewDue(unit, Owner(u)))
      <3>1. unit \in Nat /\ Shares[Owner(u)] \in Nat
        BY LedgerAssumption, FiniteTables DEF LedgerAssumption
      <3>2. unit * Shares[Owner(u)] \in Nat
        BY <3>1
      <3> QED BY <3>2 DEF NewDue, NoDue, Fits
    <2>4. req'[r] = q
      BY <1>1, <2>2 DEF Become
    <2> QED BY <1>1, <2>2, <2>3, <2>4
  <1>5. CASE BillApply(r)
    <2>1. req[r] \in Work /\ req[r].dues \in SUBSET Dues /\ Applicable(req[r], req[r].dues) # {}
          /\ req[r].pc = "bill"
      BY <1>5, RequestByStage DEF BillApply, TypeOK, Work, BillReq
    <2>2. req'[r] = ApplyAdvance(req[r], Earliest(Applicable(req[r], req[r].dues)))
      BY <1>1, <1>5 DEF BillApply, Become
    <2>3. \A v \in Dues : Fits(req[r].due[v])
      BY <2>1 DEF CopiesFit
    <2> QED BY <2>1, <2>2, <2>3, ApplyFits
  <1>6. CASE SettleApply(r)
    <2>1. req[r] \in Work /\ OwnDues(req[r]) \in SUBSET Dues /\ req[r].pc = "settle"
      BY <1>6, RequestByStage DEF SettleApply, TypeOK, Work, OwnDues
    <2>2. ToApply(req[r]) = Applicable(req[r], OwnDues(req[r])) /\ ToApply(req[r]) # {}
      BY <1>6 DEF SettleApply, ToApply
    <2>3. req'[r] = ApplyAdvance(req[r], Earliest(ToApply(req[r])))
      BY <1>1, <1>6 DEF SettleApply, Become
    <2>4. \A v \in Dues : Fits(req[r].due[v])
      BY <2>1 DEF CopiesFit
    <2> QED BY <2>1, <2>2, <2>3, <2>4, ApplyFits
  <1> QED BY <1>2, <1>3, <1>4, <1>5, <1>6, CopyWriters

LEMMA OverpaidStep ==
  ASSUME TypeOK, NeverOverpaid, CopiesFit, [Next]_vars, NEW u \in Dues
  PROVE  Fits(due'[u])
  <1>1. due[u] \in DueRow /\ Fits(due[u])
    BY DEF TypeOK, NeverOverpaid, Fits
  <1>2. CASE PostingStep
    <2>1. PICK d \in Deposits, row \in DepositRow, D \in SUBSET Dues : PostDeposit(d, row, D)
      BY <1>2, PostingIsOnePost
    <2>2. PICK p \in PlanDepositAllocation(due, D, Rank, row.amount) :
            due' = [v \in Dues |-> IF v \in D THEN AllocatePayment(due[v], p[v], row.kind)
                                  ELSE due[v]]
      BY <2>1 DEF PostDeposit
    <2>3. \A v \in D : p[v] \in Nat
      BY DEF PlanDepositAllocation, DepositRow
    <2> QED BY <1>1, <2>2, <2>3, PaymentFits
  <1>3. CASE SettleStep
    <2>1. PICK r \in Requests : SettleCommit(r)
      BY <1>3 DEF SettleStep
    <2>2. req[r] \in SettleReq /\ req[r].pc = "settle"
      BY <2>1, RequestByStage DEF SettleCommit, TypeOK
    <2>3. req[r].due[u] \in DueRow /\ Fits(req[r].due[u])
      BY <2>2 DEF SettleReq, CopiesFit
    <2>4. Fits(SettledDue(req[r], u))
      BY <2>3, WriteOffFits DEF SettledDue
    <2> QED BY <1>1, <2>1, <2>4 DEF SettleCommit
  <1>4. CASE ReverseStep
    <2>1. PICK d \in Deposits : ReverseDeposit(d)
      BY <1>4 DEF ReverseStep
    <2>2. CASE due'[u] = due[u]
      BY <1>1, <2>2
    <2>3. CASE due'[u] # due[u]
      <3>1. u \in Linked(d) /\ due'[u] = Reopened(d, u)
        BY <2>1, <2>3 DEF ReverseDeposit
      <3>2. alloc[d][u].principal <= due[u].paid /\ alloc[d][u].penalty <= due[u].penaltyPaid
        BY <2>1, <3>1 DEF ReverseDeposit, Reversible
      <3>3. /\ Reopened(d, u).paid = due[u].paid - alloc[d][u].principal
            /\ Reopened(d, u).waived = due[u].waived /\ Reopened(d, u).amount = due[u].amount
        BY <3>2, ReopenedType
      <3>4. alloc[d][u].principal \in Nat
        BY DEF TypeOK, AllocRow
      <3> QED BY <1>1, <3>1, <3>2, <3>3, <3>4 DEF Fits, DueRow
    <2> QED BY <2>2, <2>3
  <1>5. CASE BillStep
    <2>1. PICK r \in Requests : BillCommit(r)
      BY <1>5 DEF BillStep
    <2>2. Fits(req[r].due[u])
      BY <2>1 DEF BillCommit, CopiesFit
    <2> QED BY <1>1, <2>1, <2>2 DEF BillCommit
  <1>6. CASE WaiverStep
    <2>1. PICK r \in Requests : WaivePenalty(r)
      BY <1>6 DEF WaiverStep
    <2> DEFINE row == req[r].row
    <2>2. due' = [due EXCEPT ![req[r].due].penaltyDue = row.penaltyPaid,
                             ![req[r].due].status =
                               IF FullySettled(row) THEN "paid" ELSE row.status]
      BY <2>1 DEF WaivePenalty
    <2> HIDE DEF row
    <2>3. due'[u].paid = due[u].paid /\ due'[u].waived = due[u].waived
          /\ due'[u].amount = due[u].amount
      BY <2>2 DEF TypeOK, DueRow
    <2> QED BY <1>1, <2>3 DEF Fits
  <1>7. CASE UNCHANGED due
    BY <1>1, <1>7
  <1> QED BY <1>2, <1>3, <1>4, <1>5, <1>6, <1>7, Writers

(***************************************************************************)
(* A due never receives, or has written off, more principal than it        *)
(* charges: payments, settlements that compute on a copy, billing,         *)
(* waivers and reversals keep to it in every interleaving.                 *)
(***************************************************************************)
THEOREM NoDueOverpaid == Spec => []NeverOverpaid
  <1>1. Init => NeverOverpaid /\ CopiesFit
    <2> SUFFICES ASSUME Init PROVE NeverOverpaid /\ CopiesFit
      OBVIOUS
    <2>1. NeverOverpaid
      BY OpeningAssumption DEF Init, OpeningAssumption, NeverOverpaid
    <2>2. CopiesFit
      BY DEF Init, CopiesFit, Idle
    <2> QED BY <2>1, <2>2
  <1>2. (TypeOK /\ NeverOverpaid /\ CopiesFit) /\ [Next]_vars
          => (TypeOK /\ NeverOverpaid /\ CopiesFit)'
    BY NextType, CopiesStep, OverpaidStep DEF NeverOverpaid, Fits
  <1> QED BY <1>1, <1>2, InitType, PTL DEF Spec

-----------------------------------------------------------------------------
(* A deposit is posted once. *)

ReviewersSawPending ==
  \A r \in Requests : req[r].pc \in {"endorse", "confirm", "planned", "posting"} =>
    req[r].before.status \in Pending

Typed(s, type) == {i \in DOMAIN s : s[i].type = type}

OnlyOne(s, type, row) ==
  \E i \in DOMAIN s : /\ Typed(s, type) = {i}
                      /\ s[i].amount = row.amount /\ s[i].account = row.account

ReceiptOf(status) == CASE status = "confirmed" -> "issued"
                       [] status = "reversed" -> "voided"
                       [] OTHER -> "none"

\* PostedOnce of one deposit: its row, its transactions and its receipt.
PostedAs(row, s, rec) ==
  /\ row.status \in {"confirmed", "reversed"} => OnlyOne(s, "deposit", row)
  /\ IF row.status = "reversed" THEN OnlyOne(s, "deposit_reversal", row)
                                ELSE Typed(s, "deposit_reversal") = {}
  /\ row.status \notin {"confirmed", "reversed"} => s = << >>
  /\ rec = ReceiptOf(row.status)

\* What a reviewer's request goes by is what it read from a pending deposit.
LEMMA ReviewersStep ==
  ASSUME TypeOK, ReviewersSawPending, [Next]_vars
  PROVE  ReviewersSawPending'
  <1> DEFINE Stages == {"endorse", "confirm", "planned", "posting"}
  <1> SUFFICES ASSUME NEW r \in Requests, req'[r].pc \in Stages
               PROVE  req'[r].before.status \in Pending
    BY DEF ReviewersSawPending
  <1>1. ASSUME NEW s \in Requests, NEW q, Become(s, q),
               q.pc \in Stages => q.before.status \in Pending
        PROVE  req'[r].before.status \in Pending
    BY <1>1 DEF Become, TypeOK, ReviewersSawPending
  <1>2. req' = req => req'[r].before.status \in Pending
    BY DEF ReviewersSawPending
  <1>3. Idle.pc = "idle"
    BY DEF Idle
  <1>4. CASE ApprovalNext
    <2>1. ASSUME NEW s \in Requests, PlanConfirmation(s)
          PROVE  req'[r].before.status \in Pending
      <3>1. req[s] \in ReadReq /\ req[s].before.status \in Pending
        BY <2>1, RequestByStage DEF PlanConfirmation, TypeOK, ReviewersSawPending
      <3>2. PICK v : Become(s, [req[s] EXCEPT !.pc = "planned", !.seen = v])
        BY <2>1 DEF PlanConfirmation
      <3>3. [req[s] EXCEPT !.pc = "planned", !.seen = v].before = req[s].before
        BY <3>1 DEF ReadReq
      <3> QED BY <3>1, <3>2, <3>3, <1>1
    <2>2. ASSUME NEW s \in Requests, StartSubmit(s) \/ StartSubmitAdvance(s)
          PROVE  req'[r].before.status \in Pending
      BY <2>2, <1>1, ZenonT(30) DEF StartSubmit, StartSubmitAdvance
    <2>3. ASSUME NEW s \in Requests, OpenReview(s) PROVE req'[r].before.status \in Pending
      BY <2>3, <1>1 DEF OpenReview
    <2>4. ASSUME NEW s \in Requests, ReadDeposit(s) PROVE req'[r].before.status \in Pending
      <3>1. dep[req[s].dep].status \in Pending
        BY <2>4 DEF ReadDeposit
      <3>2. PICK q : Become(s, q) /\ q.before = ReviewedOf(dep[req[s].dep])
        BY <2>4 DEF ReadDeposit
      <3> QED BY <3>1, <3>2, <1>1 DEF ReviewedOf
    <2>5. ASSUME NEW s \in Requests, LockForPosting(s) PROVE req'[r].before.status \in Pending
      <3>1. req[s].before.status \in Pending
        BY <2>5 DEF LockForPosting, ReviewersSawPending
      <3>2. PICK q : Become(s, q) /\ q.before = req[s].before
        BY <2>5 DEF LockForPosting
      <3> QED BY <3>1, <3>2, <1>1
    <2>6. ASSUME NEW s \in Requests,
                 Submit(s) \/ SubmitAndFinalize(s) \/ Endorse(s) \/ Post(s)
          PROVE  req'[r].before.status \in Pending
      BY <2>6, <1>1, <1>3 DEF Submit, SubmitAndFinalize, Endorse, Post
    <2>7. ASSUME NEW d \in Deposits, Reject(d) \/ Remove(d) \/ ResolveAllocation(d)
          PROVE  req' = req
      BY <2>7 DEF Reject, Remove, ResolveAllocation
    <2>8. ChangeRoute => req' = req
      BY DEF ChangeRoute
    <2> QED BY <1>2, <1>4, <2>1, <2>2, <2>3, <2>4, <2>5, <2>6, <2>7, <2>8 DEF ApprovalNext
  <1>5. CASE SettlementNext
    <2>1. ASSUME NEW s \in Requests, StartBilling(s) \/ StartSettle(s) \/ StartWaive(s)
          PROVE  req'[r].before.status \in Pending
      BY <2>1, <1>1 DEF StartBilling, StartSettle, StartWaive
    <2>2. ASSUME NEW s \in Requests, BillApply(s) \/ SettleApply(s)
          PROVE  req'[r].before.status \in Pending
      <3>1. req[s] \in Work /\ req[s].pc \in {"settle", "bill"}
        BY <2>2, RequestByStage DEF BillApply, SettleApply, TypeOK, Work
      <3>2. PICK t : Become(s, ApplyAdvance(req[s], t))
        BY <2>2 DEF BillApply, SettleApply
      <3>3. ApplyAdvance(req[s], t).pc = req[s].pc
        BY <3>1 DEF ApplyAdvance, Work, SettleReq, BillReq
      <3> QED BY <3>1, <3>2, <3>3, <1>1
    <2>3. ASSUME NEW s \in Requests, BillCommit(s) \/ SettleCommit(s) \/ WaivePenalty(s)
          PROVE  req'[r].before.status \in Pending
      BY <2>3, <1>1, <1>3 DEF BillCommit, SettleCommit, WaivePenalty
    <2>4. ASSUME NEW m \in Members, RemoveMember(m) \/ ReactivateMember(m) PROVE req' = req
      BY <2>4 DEF RemoveMember, ReactivateMember
    <2> QED BY <1>2, <1>5, <2>1, <2>2, <2>3, <2>4 DEF SettlementNext
  <1>6. CASE \E d \in Deposits : ReverseDeposit(d)
    BY <1>2, <1>6 DEF ReverseDeposit
  <1>7. CASE \E c \in Promises : ResolvePromise(c) \/ BreakPromise(c)
    BY <1>2, <1>7 DEF ResolvePromise, BreakPromise
  <1>8. CASE \E a \in Accounts : SpendFromAccount(a)
    BY <1>2, <1>8 DEF SpendFromAccount
  <1>9. CASE \E s \in Requests : StartPromise(s) \/ MakePromise(s) \/ GiveUp(s)
    BY <1>9, <1>1, <1>3 DEF StartPromise, MakePromise, GiveUp
  <1>10. CASE UNCHANGED vars
    BY <1>2, <1>10 DEF vars
  <1> QED BY <1>4, <1>5, <1>6, <1>7, <1>8, <1>9, <1>10 DEF Next

LEMMA PostedOnceByRow ==
  PostedOnce <=> \A d \in Deposits : PostedAs(dep[d], entries[d], receipt[d])
  BY DEF PostedOnce, PostedAs, OnlyEntry, EntriesOf, Typed, OnlyOne, ReceiptOf

\* An entry appended to a deposit's transactions is one more of its type.
LEMMA TypedAppend ==
  ASSUME NEW s \in Seq(EntryRow), NEW e \in EntryRow, NEW type
  PROVE  /\ Typed(Append(s, e), type) =
              Typed(s, type) \cup (IF e.type = type THEN {Len(s) + 1} ELSE {})
         /\ DOMAIN Append(s, e) = DOMAIN s \cup {Len(s) + 1}
         /\ Append(s, e)[Len(s) + 1] = e
         /\ \A i \in DOMAIN s : Append(s, e)[i] = s[i]
         /\ Len(s) + 1 \notin DOMAIN s
  <1>1. /\ DOMAIN s = 1 .. Len(s) /\ DOMAIN Append(s, e) = 1 .. Len(s) + 1
        /\ Append(s, e)[Len(s) + 1] = e /\ Len(s) \in Nat
        /\ \A i \in DOMAIN s : Append(s, e)[i] = s[i]
    OBVIOUS
  <1>2. 1 .. Len(s) + 1 = 1 .. Len(s) \cup {Len(s) + 1} /\ Len(s) + 1 \notin 1 .. Len(s)
    BY <1>1
  <1> QED BY <1>1, <1>2 DEF Typed

LEMMA TypedKept ==
  ASSUME NEW s \in Seq(EntryRow), NEW e \in EntryRow, NEW type, e.type # type
  PROVE  Typed(Append(s, e), type) = Typed(s, type)
  <1>1. Typed(Append(s, e), type) =
          Typed(s, type) \cup (IF e.type = type THEN {Len(s) + 1} ELSE {})
    BY TypedAppend
  <1>2. (IF e.type = type THEN {Len(s) + 1} ELSE {}) = {}
    OBVIOUS
  <1> QED BY <1>1, <1>2

LEMMA OnlyOneKept ==
  ASSUME NEW s \in Seq(EntryRow), NEW e \in EntryRow, NEW type, e.type # type,
         NEW row, OnlyOne(s, type, row)
  PROVE  OnlyOne(Append(s, e), type, row)
  BY TypedAppend DEF OnlyOne

LEMMA OnlyOneAdded ==
  ASSUME NEW s \in Seq(EntryRow), NEW e \in EntryRow, Typed(s, e.type) = {},
         NEW row, e.amount = row.amount, e.account = row.account
  PROVE  OnlyOne(Append(s, e), e.type, row)
  BY TypedAppend DEF OnlyOne

LEMMA PostingPostsOnce ==
  ASSUME TypeOK, NEW d \in Deposits, NEW row \in DepositRow, NEW D \in SUBSET Dues,
         PostDeposit(d, row, D), NEW x \in Deposits, PostedAs(dep[x], entries[x], receipt[x])
  PROVE  PostedAs(dep'[x], entries'[x], receipt'[x])
  <1>1. CASE x # d
    BY <1>1 DEF PostDeposit, RecordEntry, TypeOK
  <1>2. CASE x = d
    <2> DEFINE e == [type |-> "deposit", account |-> row.account, amount |-> row.amount]
               new == [row EXCEPT !.status = "confirmed"]
    <2>1. dep'[d] = new /\ receipt'[d] = "issued" /\ entries'[d] = Append(entries[d], e)
      BY DEF PostDeposit, RecordEntry, TypeOK
    <2>2. entries[d] = << >>
      BY <1>2 DEF PostDeposit, PostedAs, ReceiptOf
    <2>3. e \in EntryRow /\ << >> \in Seq(EntryRow) /\ \A k : Typed(<< >>, k) = {}
      BY DEF DepositRow, EntryRow, EntryTypes, Typed
    <2>4. new.status = "confirmed" /\ new.amount = row.amount /\ new.account = row.account
      BY DEF DepositRow
    <2>5. e.type = "deposit" /\ e.amount = row.amount /\ e.account = row.account
      OBVIOUS
    <2> HIDE DEF e, new
    <2>6. OnlyOne(Append(<< >>, e), "deposit", new)
      BY <2>3, <2>4, <2>5, OnlyOneAdded
    <2>7. Typed(Append(<< >>, e), "deposit_reversal") = {}
      <3>1. e.type # "deposit_reversal"
        BY <2>5
      <3>2. Typed(Append(<< >>, e), "deposit_reversal") = Typed(<< >>, "deposit_reversal")
        BY <2>3, <3>1, TypedKept
      <3> QED BY <2>3, <3>2
    <2> QED BY <1>2, <2>1, <2>2, <2>4, <2>6, <2>7 DEF PostedAs, ReceiptOf
  <1> QED BY <1>1, <1>2

LEMMA SettlementPostsNothing ==
  ASSUME TypeOK, NEW r \in Requests, SettleCommit(r),
         NEW x \in Deposits, PostedAs(dep[x], entries[x], receipt[x])
  PROVE  PostedAs(dep'[x], entries'[x], receipt'[x])
  <1> DEFINE q == req[r]
             e == [type |-> "advance_refund", account |-> dep[x].account,
                   amount |-> RefundOf(q, x)]
  <1>1. dep'[x].status = dep[x].status /\ dep'[x].amount = dep[x].amount
        /\ dep'[x].account = dep[x].account /\ receipt'[x] = receipt[x]
    BY SettlementKeepsDeposits DEF SettleCommit
  <1>2. CASE x \notin Refunded(q)
    BY <1>1, <1>2 DEF SettleCommit, PostedAs, OnlyOne
  <1>3. CASE x \in Refunded(q)
    <2>1. entries'[x] = Append(entries[x], e)
      BY <1>3 DEF SettleCommit
    <2>2. dep[x].status = "confirmed"
      <3>1. IsAdvanceOf(q.was.dep[x], q.member)
        BY <1>3 DEF Refunded, RefundOf
      <3>2. q.was.dep[x] = dep[x]
        BY <3>1 DEF SettleCommit, NoConflict
      <3> QED BY <3>1, <3>2 DEF IsAdvanceOf
    <2>3. e \in EntryRow /\ entries[x] \in Seq(EntryRow) /\ e.type = "advance_refund"
      <3>1. q \in SettleReq
        BY RequestByStage DEF SettleCommit, TypeOK
      <3> QED BY <3>1, RefundType DEF TypeOK, DepositRow, EntryRow, EntryTypes
    <2> HIDE DEF e
    <2>4. OnlyOne(entries'[x], "deposit", dep[x]) /\ Typed(entries'[x], "deposit_reversal") = {}
      BY <2>1, <2>2, <2>3, OnlyOneKept, TypedAppend DEF PostedAs
    <2>5. OnlyOne(entries'[x], "deposit", dep'[x])
      BY <1>1, <2>4 DEF OnlyOne
    <2> QED BY <1>1, <2>2, <2>4, <2>5 DEF PostedAs
  <1> QED BY <1>2, <1>3

LEMMA ReversalCountersOnce ==
  ASSUME TypeOK, NEW d \in Deposits, ReverseDeposit(d),
         NEW x \in Deposits, PostedAs(dep[x], entries[x], receipt[x])
  PROVE  PostedAs(dep'[x], entries'[x], receipt'[x])
  <1>1. CASE x # d
    BY <1>1 DEF ReverseDeposit, RecordEntry, TypeOK
  <1>2. CASE x = d
    <2>1. PICK i \in Typed(entries[d], "deposit") :
            RecordEntry(d, "deposit_reversal", entries[d][i].account, entries[d][i].amount)
      BY DEF ReverseDeposit, EntriesOf, Typed
    <2>2. dep[d].status = "confirmed"
      BY DEF ReverseDeposit, Reversible
    <2>3. entries[d][i].amount = dep[d].amount /\ entries[d][i].account = dep[d].account
      BY <1>2, <2>2 DEF PostedAs, OnlyOne
    <2> DEFINE e == [type |-> "deposit_reversal", account |-> dep[d].account,
                     amount |-> dep[d].amount]
               new == [dep[d] EXCEPT !.status = "reversed"]
    <2>4. dep'[d] = new /\ receipt'[d] = "voided" /\ entries'[d] = Append(entries[d], e)
      BY <2>1, <2>3 DEF ReverseDeposit, RecordEntry, TypeOK
    <2>5. new.status = "reversed" /\ new.amount = dep[d].amount /\ new.account = dep[d].account
      BY DEF TypeOK, DepositRow
    <2>6. e \in EntryRow /\ entries[d] \in Seq(EntryRow) /\ e.type = "deposit_reversal"
          /\ e.amount = dep[d].amount /\ e.account = dep[d].account
      BY DEF TypeOK, DepositRow, EntryRow, EntryTypes
    <2> HIDE DEF e, new
    <2>7. OnlyOne(Append(entries[d], e), "deposit_reversal", new)
      BY <1>2, <2>2, <2>5, <2>6, OnlyOneAdded DEF PostedAs
    <2>8. OnlyOne(Append(entries[d], e), "deposit", dep[d])
      BY <1>2, <2>2, <2>6, OnlyOneKept DEF PostedAs
    <2>9. OnlyOne(Append(entries[d], e), "deposit", new)
      BY <2>5, <2>8 DEF OnlyOne
    <2> QED BY <1>2, <2>4, <2>5, <2>7, <2>9 DEF PostedAs, ReceiptOf
  <1> QED BY <1>1, <1>2

LEMMA PostedStep ==
  ASSUME TypeOK, ReviewersSawPending, [Next]_vars,
         \A x \in Deposits : PostedAs(dep[x], entries[x], receipt[x]), NEW d \in Deposits
  PROVE  PostedAs(dep'[d], entries'[d], receipt'[d])
  <1>1. CASE PostingStep
    BY <1>1, PostingIsOnePost, PostingPostsOnce
  <1>2. CASE SettleStep
    BY <1>2, SettlementPostsNothing DEF SettleStep
  <1>3. CASE ReverseStep
    BY <1>3, ReversalCountersOnce DEF ReverseStep
  <1>4. CASE SubmitStep
    <2>1. PICK r \in Requests, x \in Deposits :
            /\ Submit(r) /\ dep[x].status = "none"
            /\ dep' = [dep EXCEPT ![x] = SubmittedRow(req[r])]
      BY <1>4 DEF SubmitStep, Submit, NextDeposit
    <2>2. SubmittedRow(req[r]).status \in Pending
      BY <2>1, RequestByStage, SubmittedType DEF Submit, TypeOK
    <2>3. entries' = entries /\ receipt' = receipt
      BY <2>1 DEF Submit
    <2> QED BY <2>1, <2>2, <2>3 DEF PostedAs, ReceiptOf, Pending, TypeOK
  <1>5. CASE EndorseStep
    <2>1. PICK r \in Requests, a \in Accounts :
            /\ Endorse(r)
            /\ dep' = [dep EXCEPT ![req[r].dep].status = "pending_approver",
                                  ![req[r].dep].endorsed = TRUE, ![req[r].dep].account = a]
      BY <1>5, ZenonT(30) DEF EndorseStep, Endorse
    <2>2. dep[req[r].dep].status \in Pending
      BY <2>1 DEF Endorse, LockReviewedDeposit, ReviewedOf, ReviewersSawPending
    <2>3. entries' = entries /\ receipt' = receipt
      BY <2>1 DEF Endorse
    <2>4. d = req[r].dep => dep'[d].status = "pending_approver"
      BY <2>1 DEF TypeOK, DepositRow
    <2> QED BY <2>1, <2>2, <2>3, <2>4, SMTT(30) DEF PostedAs, ReceiptOf, Pending, TypeOK
  <1>6. CASE CloseStep
    <2>1. PICK x \in Deposits, s \in {"rejected", "removed"} :
            CloseDeposit(x, s) /\ entries' = entries /\ receipt' = receipt
      BY <1>6 DEF CloseStep, Reject, Remove
    <2>2. d = x => dep'[d].status = s
      BY <2>1 DEF CloseDeposit, TypeOK, DepositRow
    <2> QED BY <2>1, <2>2 DEF CloseDeposit, PostedAs, ReceiptOf, Pending, TypeOK
  <1>7. CASE RepairStep
    <2>1. PICK x \in Deposits, k \in Kinds :
            /\ dep' = [dep EXCEPT ![x] = ResolvedRow(x, k)]
            /\ dep[x].status \in Pending
            /\ entries' = entries /\ receipt' = receipt
      BY <1>7 DEF RepairStep, ResolveAllocation, TypeOK, DepositRow, Kinds
    <2>2. ResolvedRow(x, k).status \in Pending
      BY DEF ResolvedRow, TypeOK, DepositRow, Pending
    <2> QED BY <2>1, <2>2 DEF PostedAs, ReceiptOf, Pending, TypeOK
  <1>8. CASE UNCHANGED <<dep, entries, receipt>>
    BY <1>8
  <1>9. SpendStep => UNCHANGED <<entries, receipt>>
    BY DEF SpendStep, SpendFromAccount
  <1> QED BY <1>1, <1>2, <1>3, <1>4, <1>5, <1>6, <1>7, <1>8, <1>9, Writers

(***************************************************************************)
(* A deposit is posted once and reversed at most once: its transactions    *)
(* and its receipt always tell its status, and its one credit and its one  *)
(* counter-entry carry its amount and account, whatever reviewers,         *)
(* removals, repairs, refunds and reversals interleave.                    *)
(***************************************************************************)
THEOREM DepositPostedOnce == Spec => []PostedOnce
  <1>1. Init => PostedOnce /\ ReviewersSawPending
    <2> SUFFICES ASSUME Init PROVE PostedOnce /\ ReviewersSawPending
      OBVIOUS
    <2>1. ReviewersSawPending
      BY DEF Init, ReviewersSawPending, Idle
    <2>2. ASSUME NEW d \in Deposits PROVE PostedAs(dep[d], entries[d], receipt[d])
      <3>1. dep[d].status \in Pending \cup {"none"} /\ entries[d] = << >> /\ receipt[d] = "none"
        BY OpeningAssumption DEF Init, OpeningAssumption
      <3>2. Typed(<< >>, "deposit_reversal") = {}
        BY DEF Typed
      <3> QED BY <3>1, <3>2 DEF PostedAs, ReceiptOf, Pending
    <2> QED BY <2>1, <2>2, PostedOnceByRow
  <1>2. (TypeOK /\ PostedOnce /\ ReviewersSawPending) /\ [Next]_vars
          => (TypeOK /\ PostedOnce /\ ReviewersSawPending)'
    <2> SUFFICES ASSUME TypeOK, PostedOnce, ReviewersSawPending, [Next]_vars
                 PROVE  TypeOK' /\ PostedOnce' /\ ReviewersSawPending'
      OBVIOUS
    <2>1. \A d \in Deposits : PostedAs(dep'[d], entries'[d], receipt'[d])
      BY PostedOnceByRow, PostedStep
    <2>2. PostedOnce'
      BY <2>1 DEF PostedOnce, PostedAs, OnlyEntry, EntriesOf, Typed, OnlyOne, ReceiptOf
    <2> QED BY <2>2, NextType, ReviewersStep
  <1> QED BY <1>1, <1>2, InitType, PTL DEF Spec

-----------------------------------------------------------------------------
(* What the requests in progress rely on. *)

\* The steps a request takes without writing a table.
Prepares(r) ==
  \/ StartSubmit(r) \/ StartSubmitAdvance(r) \/ OpenReview(r) \/ ReadDeposit(r)
  \/ PlanConfirmation(r) \/ LockForPosting(r) \/ StartBilling(r) \/ BillApply(r)
  \/ StartSettle(r) \/ SettleApply(r) \/ StartWaive(r) \/ StartPromise(r)

LEMMA PreparingWritesNothing ==
  ASSUME TypeOK, NEW r \in Requests, Prepares(r)
  PROVE  /\ UNCHANGED <<dep, alloc, receipt, entries, due, balance, spent, active, route, promise>>
         /\ \A s \in Requests \ {r} : req'[s] = req[s]
  <1>1. ASSUME NEW q, Become(r, q) PROVE \A s \in Requests \ {r} : req'[s] = req[s]
    BY <1>1 DEF Become, TypeOK
  <1>2. UNCHANGED <<dep, alloc, receipt, entries, due, balance, spent, active, route, promise>>
    BY DEF Prepares, StartSubmit, StartSubmitAdvance, OpenReview, ReadDeposit, PlanConfirmation,
       LockForPosting, StartBilling, BillApply, StartSettle, SettleApply, StartWaive, StartPromise
  <1>3. CASE StartSubmit(r) \/ StartSubmitAdvance(r) \/ OpenReview(r)
    BY <1>1, <1>3 DEF StartSubmit, StartSubmitAdvance, OpenReview
  <1>4. CASE ReadDeposit(r) \/ PlanConfirmation(r) \/ LockForPosting(r)
    BY <1>1, <1>4 DEF ReadDeposit, PlanConfirmation, LockForPosting
  <1>5. CASE StartBilling(r) \/ BillApply(r) \/ StartSettle(r) \/ SettleApply(r)
    BY <1>1, <1>5 DEF StartBilling, BillApply, StartSettle, SettleApply
  <1>6. CASE StartWaive(r) \/ StartPromise(r)
    BY <1>1, <1>6 DEF StartWaive, StartPromise
  <1> QED BY <1>2, <1>3, <1>4, <1>5, <1>6 DEF Prepares

LEMMA RequestSteps ==
  ASSUME TypeOK, [Next]_vars, NEW r \in Requests
  PROVE  req'[r] = req[r] \/ req'[r] = Idle \/ Prepares(r)
  <1>1. ASSUME NEW s \in Requests, Become(s, Idle) PROVE req'[r] = req[r] \/ req'[r] = Idle
    BY <1>1 DEF Become, TypeOK
  <1>2. ASSUME NEW s \in Requests, Prepares(s) PROVE req'[r] = req[r] \/ Prepares(r)
    BY <1>2, PreparingWritesNothing
  <1>3. CASE ApprovalNext
    <2>1. ASSUME NEW s \in Requests,
                 Submit(s) \/ SubmitAndFinalize(s) \/ Endorse(s) \/ Post(s)
          PROVE  Become(s, Idle)
      BY <2>1 DEF Submit, SubmitAndFinalize, Endorse, Post
    <2>2. ASSUME NEW d \in Deposits, Reject(d) \/ Remove(d) \/ ResolveAllocation(d)
          PROVE  req'[r] = req[r]
      BY <2>2 DEF Reject, Remove, ResolveAllocation
    <2>3. ChangeRoute => req'[r] = req[r]
      BY DEF ChangeRoute
    <2> QED BY <1>1, <1>2, <1>3, <2>1, <2>2, <2>3 DEF ApprovalNext, Prepares
  <1>4. CASE SettlementNext
    <2>1. ASSUME NEW s \in Requests, BillCommit(s) \/ SettleCommit(s) \/ WaivePenalty(s)
          PROVE  Become(s, Idle)
      BY <2>1 DEF BillCommit, SettleCommit, WaivePenalty
    <2>2. ASSUME NEW m \in Members, RemoveMember(m) \/ ReactivateMember(m)
          PROVE  req'[r] = req[r]
      BY <2>2 DEF RemoveMember, ReactivateMember
    <2> QED BY <1>1, <1>2, <1>4, <2>1, <2>2 DEF SettlementNext, Prepares
  <1>5. CASE \E d \in Deposits : ReverseDeposit(d)
    BY <1>5 DEF ReverseDeposit
  <1>6. CASE \E c \in Promises : ResolvePromise(c) \/ BreakPromise(c)
    BY <1>6 DEF ResolvePromise, BreakPromise
  <1>7. CASE \E a \in Accounts : SpendFromAccount(a)
    BY <1>7 DEF SpendFromAccount
  <1>8. CASE \E s \in Requests : StartPromise(s) \/ MakePromise(s) \/ GiveUp(s)
    <2>1. ASSUME NEW s \in Requests, MakePromise(s) \/ GiveUp(s) PROVE Become(s, Idle)
      BY <2>1 DEF MakePromise, GiveUp
    <2> QED BY <1>1, <1>2, <1>8, <2>1 DEF Prepares
  <1>9. CASE UNCHANGED vars
    BY <1>9 DEF vars
  <1> QED BY <1>3, <1>4, <1>5, <1>6, <1>7, <1>8, <1>9 DEF Next

Posted == {"confirmed", "reversed"}

(* The dues on the books and the allocations that name them. *)
TablesAgree ==
  /\ \A u \in Dues : due[u].status = "none" => due[u].penaltyDue = 0
  /\ \A d \in Deposits, u \in Dues :
       /\ alloc[d][u].linked => due[u].status # "none"
       /\ alloc[d][u].linked /\ dep[d].status \in Pending => Owner(u) = dep[d].member
       /\ alloc[d][u].exact => dep[d].status \in Posted /\ dep[d].kind # "advance"

SubmitKnows(q) ==
  /\ \A u \in q.dues : Owner(u) = q.member /\ due[u].status # "none"
  /\ q.finalize => q.kind # "advance"

ReviewKnows(q) ==
  /\ dep[q.dep].status # "none"
  /\ dep[q.dep].route = "admin" => q.direct
  /\ q.before.status = "pending_approver" \/ q.direct

PlanCovers(q) == q.seen.dues # {} /\ q.before.amount <= TotalBalance(q.seen.rows, q.seen.dues)

CopyKnows(q) ==
  \A d \in Deposits : q.was.dep[d].status = "confirmed" =>
     dep[d].status \in Posted /\ dep[d].kind = q.was.dep[d].kind

TakesFrom(q, D) ==
  \A d \in Deposits, u \in Dues : q.take[d][u] > 0 =>
    /\ u \in D
    /\ q.was.dep[d].status = "confirmed" /\ q.was.dep[d].kind = "advance"

BillKnows(q) ==
  /\ CopyKnows(q) /\ TakesFrom(q, q.dues)
  /\ \A u \in q.dues : due[u].status = "none" /\ q.due[u].status # "none"

SettleKnows(q) ==
  /\ CopyKnows(q) /\ TakesFrom(q, OwnDues(q))
  /\ \A u \in Dues : q.was.due[u].status # "none" =>
       due[u].status # "none" /\ q.due[u].status # "none"

LockHolds(q) ==
  /\ ReviewedOf(dep[q.dep]) = q.before
  /\ dep[q.dep].kind # "advance" => Covers(Linked(q.dep), dep[q.dep].amount)
  /\ q.keeps # 0 => /\ promise[q.keeps].status # "none"
                    /\ promise[q.keeps].member = dep[q.dep].member

Knows(q) ==
  /\ q.pc = "submit" => SubmitKnows(q)
  /\ q.pc \in {"confirm", "planned", "posting"} => ReviewKnows(q)
  /\ q.pc = "planned" => PlanCovers(q)
  /\ q.pc = "posting" => LockHolds(q)
  /\ q.pc = "bill" => BillKnows(q)
  /\ q.pc = "settle" => SettleKnows(q)
  /\ q.pc = "waive" => q.row.status # "none" /\ due[q.due].status # "none"

Apart(p, q) ==
  /\ p.pc = "posting" /\ q.pc = "posting" =>
       /\ p.dep # q.dep
       /\ dep[p.dep].kind # "advance" /\ dep[q.dep].kind # "advance" =>
            Linked(p.dep) \cap Linked(q.dep) = {}
  /\ p.pc = "bill" /\ q.pc = "bill" => p.dues \cap q.dues = {}

RequestsAgree ==
  /\ \A r \in Requests : Knows(req[r])
  /\ \A r, s \in Requests : r # s => Apart(req[r], req[s])

-----------------------------------------------------------------------------
(* What steps do to a deposit and to its allocations. *)

\* The promise a posting keeps is one of the member whose deposit is posted.
KeepsOwn(d, m) ==
  \/ promise' = promise
  \/ \E c \in Promises : /\ promise' = Keep(c, d)
                         /\ promise[c].status # "none" /\ promise[c].member = m

\* A posting step in full: what is posted is new or as its reviewer left it,
\* its dues exist, belong to its member and cover it, and none is locked.
LEMMA PostingFacts ==
  ASSUME TypeOK, TablesAgree, RequestsAgree, ReviewersSawPending, PostingStep
  PROVE  \E d \in Deposits, row \in DepositRow, D \in SUBSET Dues :
           /\ PostDeposit(d, row, D)
           /\ dep[d].status \in Pending \cup {"none"}
           /\ dep[d].status # "none" => row = dep[d]
           /\ dep[d].status = "none" => row.refunded = 0
           /\ \A u \in D : due[u].status # "none" /\ Owner(u) = row.member
           /\ row.kind # "advance" => Covers(D, row.amount)
           /\ row.kind = "advance" => D = {}
           /\ \A s \in Requests : req'[s].pc = "posting" =>
                /\ req[s].pc = "posting" /\ req[s].dep # d
                /\ dep[req[s].dep].kind # "advance" => D \cap Linked(req[s].dep) = {}
           /\ KeepsOwn(d, row.member)
  <1>1. CASE \E r \in Requests : Post(r)
    <2>1. PICK r \in Requests : Post(r)
      BY <1>1
    <2>2. req[r] \in PostReq
      BY <2>1, RequestByStage DEF Post, Posting, TypeOK
    <2> DEFINE d == req[r].dep
               D == IF dep[d].kind = "advance" THEN {} ELSE Linked(d)
    <2>3. d \in Deposits /\ dep[d] \in DepositRow /\ D \in SUBSET Dues
      BY <2>2 DEF PostReq, TypeOK, Linked
    <2>4. /\ req[r].pc = "posting" /\ dep[d].status = req[r].before.status
          /\ PostDeposit(d, dep[d], D)
          /\ promise' = IF req[r].keeps = 0 THEN promise ELSE Keep(req[r].keeps, d)
          /\ Become(r, Idle)
      BY <2>1 DEF Post, Posting
    <2>5. dep[d].status \in Pending /\ dep[d].status # "none"
      BY <2>4 DEF ReviewersSawPending, Pending
    <2>6. LockHolds(req[r])
      BY <2>4 DEF RequestsAgree, Knows
    <2>7. \A u \in D : due[u].status # "none" /\ Owner(u) = dep[d].member
      BY <2>3, <2>5 DEF TablesAgree, Linked
    <2>8. dep[d].kind # "advance" => Covers(D, dep[d].amount)
      BY <2>6 DEF LockHolds
    <2>9. ASSUME NEW s \in Requests, req'[s].pc = "posting"
          PROVE  /\ req[s].pc = "posting" /\ req[s].dep # d
                 /\ dep[req[s].dep].kind # "advance" => D \cap Linked(req[s].dep) = {}
      <3>1. s # r /\ req[s] = req'[s]
        BY <2>4, <2>9 DEF Become, TypeOK, Idle
      <3>2. Apart(req[s], req[r])
        BY <3>1 DEF RequestsAgree
      <3> QED BY <2>4, <2>9, <3>1, <3>2 DEF Apart
    <2>10. KeepsOwn(d, dep[d].member)
      BY <2>2, <2>4, <2>6 DEF LockHolds, PostReq, KeepsOwn
    <2>11. dep[d].kind = "advance" => D = {}
      OBVIOUS
    <2> HIDE DEF D, d
    <2> QED BY <2>3, <2>4, <2>5, <2>7, <2>8, <2>9, <2>10, <2>11
  <1>2. CASE \E r \in Requests : SubmitAndFinalize(r)
    <2>1. PICK r \in Requests : SubmitAndFinalize(r)
      BY <1>2
    <2> DEFINE row == SubmittedRow(req[r])
               D   == req[r].dues
    <2>2. req[r] \in SubmitReq /\ req[r].pc = "submit" /\ req[r].finalize
      BY <2>1, RequestByStage DEF SubmitAndFinalize, TypeOK
    <2>3. row \in DepositRow /\ row.member = req[r].member /\ row.kind = req[r].kind
          /\ row.amount = req[r].amount /\ row.refunded = 0 /\ D \in SUBSET Dues
      BY <2>2, SubmittedType DEF SubmitReq, SubmittedRow
    <2>4. SubmitKnows(req[r])
      BY <2>2 DEF RequestsAgree, Knows
    <2>5. PICK d \in Deposits :
            /\ NextDeposit(d) /\ PostDeposit(d, row, D)
            /\ LET kept == KeptBy(dep', due', req[r].member)
               IN  promise' = IF kept = {} THEN promise ELSE Keep(Max(kept), d)
      BY <2>1 DEF SubmitAndFinalize
    <2>6. /\ \A u \in D : UnlockedDue(u)
          /\ Covers(D, row.amount) /\ Become(r, Idle)
      BY <2>1, <2>3 DEF SubmitAndFinalize
    <2>7. \A u \in D : due[u].status # "none" /\ Owner(u) = row.member
      BY <2>3, <2>4 DEF SubmitKnows
    <2>8. row.kind # "advance"
      BY <2>2, <2>3, <2>4 DEF SubmitKnows
    <2>9. dep[d].status = "none"
      BY <2>5 DEF NextDeposit
    <2>10. ASSUME NEW s \in Requests, req'[s].pc = "posting"
           PROVE  /\ req[s].pc = "posting" /\ req[s].dep # d
                  /\ dep[req[s].dep].kind # "advance" => D \cap Linked(req[s].dep) = {}
      <3>1. s # r /\ req[s] = req'[s]
        BY <2>6, <2>10 DEF Become, TypeOK, Idle
      <3>2. dep[req[s].dep].status # "none"
        BY <2>10, <3>1 DEF RequestsAgree, Knows, ReviewKnows
      <3>3. D \cap Linked(req[s].dep) = {}
        BY <2>6, <2>10, <3>1 DEF UnlockedDue, Posting
      <3> QED BY <2>9, <2>10, <3>1, <3>2, <3>3
    <2>11. KeepsOwn(d, row.member)
      <3>1. PICK kept : /\ kept = KeptBy(dep', due', req[r].member)
                        /\ promise' = IF kept = {} THEN promise ELSE Keep(Max(kept), d)
        BY <2>5
      <3>2. kept # {} => /\ Max(kept) \in Promises
                         /\ promise[Max(kept)].member = req[r].member
                         /\ promise[Max(kept)].status # "none"
        BY <3>1, KeptType
      <3> QED BY <2>3, <3>1, <3>2 DEF KeepsOwn
    <2> HIDE DEF row, D
    <2> QED BY <2>3, <2>5, <2>6, <2>7, <2>8, <2>9, <2>10, <2>11
  <1> QED BY <1>1, <1>2 DEF PostingStep

\* A deposit once created keeps its route, member and amount; once posted it
\* keeps all that was reviewed; once closed it is left alone.
LEMMA DepositSteps ==
  ASSUME TypeOK, TablesAgree, RequestsAgree, ReviewersSawPending, [Next]_vars, NEW d \in Deposits
  PROVE  /\ dep[d].status # "none" =>
              /\ dep'[d].status # "none" /\ dep'[d].route = dep[d].route
              /\ dep'[d].member = dep[d].member /\ dep'[d].amount = dep[d].amount
         /\ dep[d].status \in Posted =>
              /\ dep'[d].status \in {dep[d].status, "reversed"}
              /\ dep'[d].kind = dep[d].kind /\ dep'[d].account = dep[d].account
         /\ dep[d].status \in {"rejected", "removed"} => dep'[d] = dep[d]
         /\ dep'[d].status \in Pending => dep[d].status \in Pending \/ SubmitStep
  <1> USE DEF Posted, Pending
  <1>1. CASE PostingStep
    <2>1. PICK x \in Deposits, row \in DepositRow, D \in SUBSET Dues :
            /\ PostDeposit(x, row, D)
            /\ dep[x].status \in Pending \cup {"none"}
            /\ dep[x].status # "none" => row = dep[x]
      BY <1>1, PostingFacts
    <2>2. dep' = [dep EXCEPT ![x] = [row EXCEPT !.status = "confirmed"]]
      BY <2>1 DEF PostDeposit
    <2>3. /\ [row EXCEPT !.status = "confirmed"].status = "confirmed"
          /\ [row EXCEPT !.status = "confirmed"].route = row.route
          /\ [row EXCEPT !.status = "confirmed"].member = row.member
          /\ [row EXCEPT !.status = "confirmed"].amount = row.amount
      BY DEF DepositRow
    <2> QED BY <2>1, <2>2, <2>3 DEF TypeOK
  <1>2. CASE SettleStep
    <2>1. PICK r \in Requests : SettleCommit(r)
      BY <1>2 DEF SettleStep
    <2>2. dep'[d].member = dep[d].member
      <3>1. \/ dep'[d] = dep[d]
            \/ dep'[d] = [dep[d] EXCEPT !.refunded = @ + RefundOf(req[r], d)]
        BY <2>1 DEF SettleCommit
      <3> QED BY <3>1 DEF TypeOK, DepositRow
    <2>3. dep[d].status \in {"rejected", "removed"} => dep'[d] = dep[d]
      <3>1. CASE d \in Refunded(req[r])
        <4>1. IsAdvanceOf(req[r].was.dep[d], req[r].member)
          BY <3>1 DEF Refunded, RefundOf
        <4>2. req[r].was.dep[d] = dep[d]
          BY <2>1, <4>1 DEF SettleCommit, NoConflict
        <4> QED BY <4>1, <4>2 DEF IsAdvanceOf
      <3>2. CASE d \notin Refunded(req[r])
        BY <2>1, <3>2 DEF SettleCommit
      <3> QED BY <3>1, <3>2
    <2> QED BY <2>1, <2>2, <2>3, SettlementKeepsDeposits
  <1>3. CASE ReverseStep
    <2>1. PICK x \in Deposits :
            dep[x].status = "confirmed" /\ dep' = [dep EXCEPT ![x].status = "reversed"]
      BY <1>3 DEF ReverseStep, ReverseDeposit, Reversible
    <2> QED BY <2>1 DEF TypeOK, DepositRow
  <1>4. CASE SubmitStep
    <2>1. PICK r \in Requests, x \in Deposits :
            dep[x].status = "none" /\ dep' = [dep EXCEPT ![x] = SubmittedRow(req[r])]
      BY <1>4 DEF SubmitStep, Submit, NextDeposit
    <2>2. d # x => dep'[d] = dep[d]
      BY <2>1 DEF TypeOK
    <2> QED BY <1>4, <2>1, <2>2
  <1>5. CASE EndorseStep
    <2>1. PICK r \in Requests, a \in Accounts :
            /\ req[r].pc = "endorse" /\ LockReviewedDeposit(r)
            /\ dep' = [dep EXCEPT ![req[r].dep].status = "pending_approver",
                                  ![req[r].dep].endorsed = TRUE, ![req[r].dep].account = a]
      BY <1>5 DEF EndorseStep, Endorse
    <2>2. dep[req[r].dep].status \in Pending
      BY <2>1 DEF LockReviewedDeposit, ReviewersSawPending, ReviewedOf
    <2> QED BY <2>1, <2>2, SMTT(30) DEF TypeOK, DepositRow
  <1>6. CASE CloseStep
    <2>1. PICK x \in Deposits, s \in {"rejected", "removed"} : CloseDeposit(x, s)
      BY <1>6 DEF CloseStep, Reject, Remove
    <2> QED BY <2>1 DEF CloseDeposit, TypeOK, DepositRow
  <1>7. CASE RepairStep
    <2>1. PICK x \in Deposits, k \in Kinds :
            dep[x].status \in Pending /\ dep' = [dep EXCEPT ![x] = ResolvedRow(x, k)]
      BY <1>7 DEF RepairStep, ResolveAllocation, TypeOK, DepositRow, Kinds
    <2>2. /\ ResolvedRow(x, k).route = dep[x].route /\ ResolvedRow(x, k).member = dep[x].member
          /\ ResolvedRow(x, k).amount = dep[x].amount /\ ResolvedRow(x, k).status # "none"
      BY DEF ResolvedRow, TypeOK, DepositRow
    <2> QED BY <2>1, <2>2 DEF TypeOK
  <1>8. CASE UNCHANGED dep
    BY <1>8
  <1> QED BY <1>1, <1>2, <1>3, <1>4, <1>5, <1>6, <1>7, <1>8, Writers

\* Which steps write allocations.
LEMMA AllocWriters ==
  ASSUME [Next]_vars
  PROVE  \/ PostingStep \/ SettleStep \/ SubmitStep \/ CloseStep \/ RepairStep \/ BillStep
         \/ UNCHANGED alloc
  <1>1. CASE ApprovalNext
    BY <1>1, ZenonT(30) DEF ApprovalNext, PostingStep, SubmitStep, CloseStep, RepairStep,
       StartSubmit, StartSubmitAdvance, Submit, OpenReview, ReadDeposit, Endorse,
       PlanConfirmation, LockForPosting, ChangeRoute
  <1>2. CASE SettlementNext
    BY <1>2 DEF SettlementNext, SettleStep, BillStep, StartBilling, BillApply, StartSettle,
       SettleApply, StartWaive, WaivePenalty, RemoveMember, ReactivateMember
  <1>3. CASE ReverseStep
    BY <1>3 DEF ReverseStep, ReverseDeposit
  <1>4. CASE \E c \in Promises : ResolvePromise(c) \/ BreakPromise(c)
    BY <1>4 DEF ResolvePromise, BreakPromise
  <1>5. CASE SpendStep
    BY <1>5 DEF SpendStep, SpendFromAccount
  <1>6. CASE \E r \in Requests : StartPromise(r) \/ MakePromise(r) \/ GiveUp(r)
    BY <1>6 DEF StartPromise, MakePromise, GiveUp
  <1>7. CASE UNCHANGED vars
    BY <1>7 DEF vars
  <1> QED BY <1>1, <1>2, <1>3, <1>4, <1>5, <1>6, <1>7, SMTT(30) DEF Next, ReverseStep, SpendStep

\* A settlement or a billing adds to an allocation only where it took from a
\* confirmed advance for a due that then exists.
LEMMA CopiesAdd ==
  ASSUME TypeOK, RequestsAgree, NEW r \in Requests, BillCommit(r) \/ SettleCommit(r),
         NEW d \in Deposits, NEW u \in Dues
  PROVE  \/ alloc'[d][u] = alloc[d][u]
         \/ /\ alloc'[d][u].exact = alloc[d][u].exact
            /\ dep[d].status \in Posted /\ dep[d].kind = "advance"
            /\ due[u].status # "none" \/ (BillCommit(r) /\ u \in req[r].dues)
  <1>1. /\ req[r] \in Work /\ alloc' = AddTaken(req[r])
        /\ BillCommit(r) => req[r].pc = "bill"
        /\ SettleCommit(r) => req[r].pc = "settle"
    BY RequestByStage DEF BillCommit, SettleCommit, TypeOK, Work
  <1>2. /\ CopyKnows(req[r])
        /\ BillCommit(r) => TakesFrom(req[r], req[r].dues)
        /\ SettleCommit(r) => TakesFrom(req[r], OwnDues(req[r])) /\ SettleKnows(req[r])
    BY <1>1 DEF RequestsAgree, Knows, BillKnows, SettleKnows
  <1>3. CASE req[r].take[d][u] > 0
    <2>1. req[r].was.dep[d].status = "confirmed" /\ req[r].was.dep[d].kind = "advance"
      BY <1>2, <1>3 DEF TakesFrom
    <2>2. dep[d].status \in Posted /\ dep[d].kind = "advance"
      BY <1>2, <2>1 DEF CopyKnows
    <2>3. due[u].status # "none" \/ (BillCommit(r) /\ u \in req[r].dues)
      BY <1>2, <1>3 DEF TakesFrom, SettleKnows, OwnDues
    <2>4. alloc'[d][u] = [alloc[d][u] EXCEPT !.linked = TRUE, !.amount = @ + req[r].take[d][u]]
      BY <1>1, <1>3 DEF AddTaken
    <2>5. alloc'[d][u].exact = alloc[d][u].exact
      BY <2>4 DEF TypeOK, AllocRow
    <2> QED BY <2>2, <2>3, <2>5
  <1>4. CASE ~(req[r].take[d][u] > 0)
    BY <1>1, <1>4 DEF AddTaken
  <1> QED BY <1>3, <1>4

\* What a request that posts has locked stays as it is while it works.
LEMMA LockedUntouched ==
  ASSUME TypeOK, TablesAgree, RequestsAgree, ReviewersSawPending, [Next]_vars,
         NEW s \in Requests, req[s].pc = "posting", req'[s] = req[s]
  PROVE  /\ dep'[req[s].dep] = dep[req[s].dep]
         /\ alloc'[req[s].dep] = alloc[req[s].dep]
         /\ dep[req[s].dep].kind # "advance" =>
              \A u \in Linked(req[s].dep) : due'[u] = due[u]
  <1>1. PICK d \in Deposits : d = req[s].dep
    BY RequestByStage DEF TypeOK, PostReq
  <1>2. dep[d].status \in Pending /\ dep[d].status \notin {"none", "confirmed", "reversed"}
    <2>1. ReviewedOf(dep[d]) = req[s].before /\ req[s].before.status \in Pending
      BY <1>1 DEF RequestsAgree, Knows, LockHolds, ReviewersSawPending
    <2> QED BY <2>1 DEF ReviewedOf, Pending
  <1>3. ASSUME NEW x \in Deposits, Unlocked(x) PROVE x # d
    BY <1>1, <1>3 DEF Unlocked, Posting
  <1>4. ASSUME NEW u \in Linked(d), UnlockedDue(u) PROVE FALSE
    BY <1>1, <1>4 DEF UnlockedDue, Posting
  <1>5. ASSUME PostingStep
        PROVE  /\ dep'[d] = dep[d] /\ alloc'[d] = alloc[d]
               /\ dep[d].kind # "advance" => \A u \in Linked(d) : due'[u] = due[u]
    <2>1. PICK x \in Deposits, row \in DepositRow, D \in SUBSET Dues :
            /\ PostDeposit(x, row, D)
            /\ \A t \in Requests : req'[t].pc = "posting" =>
                 /\ req[t].pc = "posting" /\ req[t].dep # x
                 /\ dep[req[t].dep].kind # "advance" => D \cap Linked(req[t].dep) = {}
      BY <1>5, PostingFacts
    <2>2. x # d /\ (dep[d].kind # "advance" => D \cap Linked(d) = {})
      BY <1>1, <2>1
    <2>3. /\ dep' = [dep EXCEPT ![x] = [row EXCEPT !.status = "confirmed"]]
          /\ \E v : alloc' = [alloc EXCEPT ![x] = v]
          /\ \A u \in Dues \ D : due'[u] = due[u]
      BY <2>1 DEF PostDeposit
    <2> QED BY <2>2, <2>3 DEF TypeOK, Linked
  <1>6. ASSUME NEW r \in Requests, BillCommit(r) \/ SettleCommit(r)
        PROVE  alloc'[d] = alloc[d]
    <2>1. \A u \in Dues : alloc'[d][u] = alloc[d][u]
      BY <1>2, <1>6, CopiesAdd DEF Posted
    <2>2. alloc[d] \in [Dues -> AllocRow] /\ alloc'[d] \in [Dues -> AllocRow]
      BY NextType DEF TypeOK
    <2> QED BY <2>1, <2>2
  <1>7. dep'[d] = dep[d]
    <2>1. CASE SettleStep
      <3>1. PICK r \in Requests : SettleCommit(r)
        BY <2>1 DEF SettleStep
      <3>2. d \notin Refunded(req[r])
        <4>1. SUFFICES ASSUME d \in Refunded(req[r]) PROVE FALSE
          OBVIOUS
        <4>2. IsAdvanceOf(req[r].was.dep[d], req[r].member)
          BY <4>1 DEF Refunded, RefundOf
        <4>3. req[r].was.dep[d] = dep[d]
          BY <3>1, <4>2 DEF SettleCommit, NoConflict
        <4> QED BY <1>2, <4>2, <4>3 DEF IsAdvanceOf
      <3> QED BY <3>1, <3>2 DEF SettleCommit
    <2>2. CASE ReverseStep
      <3>1. PICK x \in Deposits :
              dep[x].status = "confirmed" /\ dep' = [dep EXCEPT ![x].status = "reversed"]
        BY <2>2 DEF ReverseStep, ReverseDeposit, Reversible
      <3> QED BY <1>2, <3>1 DEF TypeOK
    <2>3. CASE SubmitStep
      <3>1. PICK r \in Requests, x \in Deposits :
              dep[x].status = "none" /\ dep' = [dep EXCEPT ![x] = SubmittedRow(req[r])]
        BY <2>3 DEF SubmitStep, Submit, NextDeposit
      <3> QED BY <1>2, <3>1 DEF TypeOK
    <2>4. CASE EndorseStep
      <3>1. PICK r \in Requests : Endorse(r)
        BY <2>4 DEF EndorseStep
      <3>2. req[r].dep \in Deposits
        BY <3>1, RequestByStage DEF Endorse, TypeOK, ReadReq
      <3>3. req[r].dep # d
        BY <1>3, <3>1, <3>2 DEF Endorse, LockReviewedDeposit
      <3>4. PICK a \in Accounts :
              dep' = [dep EXCEPT ![req[r].dep].status = "pending_approver",
                                 ![req[r].dep].endorsed = TRUE, ![req[r].dep].account = a]
        BY <3>1 DEF Endorse
      <3> QED BY <3>2, <3>3, <3>4 DEF TypeOK
    <2>5. CASE CloseStep
      <3>1. PICK x \in Deposits, t \in {"rejected", "removed"} : CloseDeposit(x, t)
        BY <2>5 DEF CloseStep, Reject, Remove
      <3> QED BY <1>3, <3>1 DEF CloseDeposit, TypeOK
    <2>6. CASE RepairStep
      <3>1. PICK x \in Deposits :
              Unlocked(x) /\ \E k : dep' = [dep EXCEPT ![x] = ResolvedRow(x, k)]
        BY <2>6 DEF RepairStep, ResolveAllocation
      <3> QED BY <1>3, <3>1 DEF TypeOK
    <2> QED BY <1>5, <2>1, <2>2, <2>3, <2>4, <2>5, <2>6, Writers
  <1>8. alloc'[d] = alloc[d]
    <2>1. CASE SubmitStep
      <3>1. PICK r \in Requests, x \in Deposits :
              dep[x].status = "none" /\ \E v : alloc' = [alloc EXCEPT ![x] = v]
        BY <2>1 DEF SubmitStep, Submit, NextDeposit
      <3> QED BY <1>2, <3>1 DEF TypeOK
    <2>2. CASE CloseStep
      <3>1. PICK x \in Deposits :
              Unlocked(x) /\ (alloc' = alloc \/ \E v : alloc' = [alloc EXCEPT ![x] = v])
        BY <2>2 DEF CloseStep, Reject, Remove, CloseDeposit
      <3> QED BY <1>3, <3>1 DEF TypeOK
    <2>3. CASE RepairStep
      <3>1. PICK x \in Deposits : Unlocked(x) /\ \E v : alloc' = [alloc EXCEPT ![x] = v]
        BY <2>3 DEF RepairStep, ResolveAllocation
      <3> QED BY <1>3, <3>1 DEF TypeOK
    <2>4. CASE BillStep \/ SettleStep
      BY <1>6, <2>4 DEF BillStep, SettleStep
    <2> QED BY <1>5, <2>1, <2>2, <2>3, <2>4, AllocWriters
  <1>9. ASSUME dep[d].kind # "advance", NEW u \in Linked(d) PROVE due'[u] = due[u]
    <2>1. u \in Dues /\ due[u].status # "none"
      BY DEF Linked, TablesAgree
    <2>2. CASE SettleStep
      <3>1. PICK r \in Requests : SettleCommit(r)
        BY <2>2 DEF SettleStep
      <3> QED BY <1>4, <2>1, <3>1 DEF SettleCommit, NoConflict
    <2>3. CASE ReverseStep
      <3>1. PICK x \in Deposits : ReverseDeposit(x)
        BY <2>3 DEF ReverseStep
      <3> QED BY <1>4, <2>1, <3>1 DEF ReverseDeposit
    <2>4. CASE BillStep
      <3>1. PICK r \in Requests : BillCommit(r)
        BY <2>4 DEF BillStep
      <3>2. u \notin req[r].dues
        BY <2>1, <3>1 DEF BillCommit, RequestsAgree, Knows, BillKnows
      <3> QED BY <2>1, <3>1, <3>2 DEF BillCommit
    <2>5. CASE WaiverStep
      <3>1. PICK r \in Requests : WaivePenalty(r)
        BY <2>5 DEF WaiverStep
      <3>2. req[r].due # u
        BY <1>4, <3>1 DEF WaivePenalty
      <3>3. req[r].due \in Dues
        BY <3>1, RequestByStage DEF WaivePenalty, TypeOK, WaiveReq
      <3> QED BY <2>1, <3>1, <3>2, <3>3 DEF WaivePenalty, TypeOK
    <2> QED BY <1>5, <1>9, <2>2, <2>3, <2>4, <2>5, Writers
  <1> QED BY <1>1, <1>7, <1>8, <1>9

\* A due on the books stays there, and only the commit of its billing puts
\* one on them.
LEMMA DueSteps ==
  ASSUME TypeOK, TablesAgree, RequestsAgree, ReviewersSawPending, [Next]_vars, NEW u \in Dues
  PROVE  /\ due[u].status # "none" => due'[u].status # "none"
         /\ \/ due[u].status # "none"
            \/ due'[u] = due[u]
            \/ \E r \in Requests : /\ BillCommit(r) /\ u \in req[r].dues
                                   /\ due'[u].status # "none"
  <1>1. CASE PostingStep
    <2>1. PICK x \in Deposits, row \in DepositRow, D \in SUBSET Dues :
            /\ PostDeposit(x, row, D)
            /\ \A v \in D : due[v].status # "none"
      BY <1>1, PostingFacts
    <2>2. PICK p \in PlanDepositAllocation(due, D, Rank, row.amount) :
            due' = [v \in Dues |-> IF v \in D THEN AllocatePayment(due[v], p[v], row.kind)
                                  ELSE due[v]]
      BY <2>1 DEF PostDeposit
    <2>3. CASE u \in D
      <3>1. p[u] \in Nat
        BY <2>3 DEF PlanDepositAllocation, DepositRow
      <3>2. due'[u] = AllocatePayment(due[u], p[u], row.kind)
        BY <2>2, <2>3
      <3>3. due'[u].status = PaymentStatus(due'[u])
        BY <3>1, <3>2, AllocateType DEF TypeOK
      <3>4. due'[u].status \in {"paid", "partial", "due"}
        BY <3>3, StatusType
      <3> QED BY <2>1, <2>3, <3>4
    <2>4. CASE u \notin D
      BY <2>2, <2>4
    <2> QED BY <2>3, <2>4
  <1>2. CASE SettleStep
    <2>1. PICK r \in Requests : SettleCommit(r)
      BY <1>2 DEF SettleStep
    <2>2. req[r] \in SettleReq /\ SettleKnows(req[r])
      BY <2>1, RequestByStage DEF SettleCommit, TypeOK, RequestsAgree, Knows
    <2>3. CASE u \in OwnDues(req[r])
      <3>1. due[u].status # "none" /\ req[r].due[u].status # "none"
        BY <2>2, <2>3 DEF SettleKnows, OwnDues
      <3>2. WrittenOff(req[r].due[u]).status # "none"
        BY <2>2, <3>1 DEF WrittenOff, SettleReq, DueRow
      <3>3. SettledDue(req[r], u).status # "none"
        BY <3>1, <3>2 DEF SettledDue
      <3> QED BY <2>1, <3>1, <3>3 DEF SettleCommit
    <2>4. CASE u \notin OwnDues(req[r])
      BY <2>1, <2>4 DEF SettleCommit
    <2> QED BY <2>3, <2>4
  <1>3. CASE ReverseStep
    <2>1. PICK x \in Deposits : ReverseDeposit(x)
      BY <1>3 DEF ReverseStep
    <2>2. CASE due'[u] = due[u]
      BY <2>2
    <2>3. CASE due'[u] # due[u]
      <3>1. u \in Linked(x) /\ due'[u] = Reopened(x, u)
        BY <2>1, <2>3 DEF ReverseDeposit
      <3>2. alloc[x][u].principal <= due[u].paid /\ alloc[x][u].penalty <= due[u].penaltyPaid
        BY <2>1, <3>1 DEF ReverseDeposit, Reversible
      <3>3. Reopened(x, u).status \in {"paid", "partial", "due"}
        BY <3>2, StatusType, ReopenedType DEF Reopened, TypeOK, DueRow
      <3> QED BY <3>1, <3>3 DEF Linked, TablesAgree
    <2> QED BY <2>2, <2>3
  <1>4. CASE BillStep
    <2>1. PICK r \in Requests : BillCommit(r)
      BY <1>4 DEF BillStep
    <2>2. BillKnows(req[r])
      BY <2>1 DEF BillCommit, RequestsAgree, Knows
    <2> QED BY <2>1, <2>2 DEF BillCommit, BillKnows
  <1>5. CASE WaiverStep
    <2>1. PICK r \in Requests : WaivePenalty(r)
      BY <1>5 DEF WaiverStep
    <2>2. req[r] \in WaiveReq /\ req[r].row.status # "none" /\ due[req[r].due].status # "none"
      BY <2>1, RequestByStage DEF WaivePenalty, TypeOK, RequestsAgree, Knows
    <2>3. PICK s : /\ s # "none"
                   /\ due' = [due EXCEPT ![req[r].due].penaltyDue = req[r].row.penaltyPaid,
                                         ![req[r].due].status = s]
      BY <2>1, <2>2 DEF WaivePenalty
    <2> QED BY <2>2, <2>3 DEF TypeOK, DueRow, WaiveReq
  <1>6. CASE UNCHANGED due
    BY <1>6
  <1> QED BY <1>1, <1>2, <1>3, <1>4, <1>5, <1>6, Writers

LEMMA TablesStep ==
  ASSUME TypeOK, TablesAgree, RequestsAgree, ReviewersSawPending, [Next]_vars
  PROVE  TablesAgree'
  <1>1. \A u \in Dues : due'[u].status = "none" => due'[u].penaltyDue = 0
    BY DueSteps DEF TablesAgree
  <1> DEFINE Agrees(d, u) ==
        /\ alloc'[d][u].linked => due'[u].status # "none"
        /\ alloc'[d][u].linked /\ dep'[d].status \in Pending => Owner(u) = dep'[d].member
        /\ alloc'[d][u].exact => dep'[d].status \in Posted /\ dep'[d].kind # "advance"
  <1>2. ASSUME NEW d \in Deposits, NEW u \in Dues, ~SubmitStep, alloc'[d][u] = alloc[d][u]
        PROVE  Agrees(d, u)
    BY <1>2, DepositSteps, DueSteps DEF TablesAgree, Posted, Pending
  <1>3. NoAlloc.linked = FALSE /\ NoAlloc.exact = FALSE /\ Link.linked /\ Link.exact = FALSE
    BY DEF NoAlloc, Link
  <1>4. ASSUME NEW d \in Deposits, NEW u \in Dues PROVE Agrees(d, u)
    <2>1. CASE PostingStep
      <3>1. PICK x \in Deposits, row \in DepositRow, D \in SUBSET Dues :
              /\ PostDeposit(x, row, D)
              /\ \A v \in D : due[v].status # "none" /\ Owner(v) = row.member
              /\ row.kind = "advance" => D = {}
        BY <2>1, PostingFacts
      <3>2. PICK p \in PlanDepositAllocation(due, D, Rank, row.amount) :
              alloc' = [alloc EXCEPT ![x] =
                         [v \in Dues |-> IF v \in D THEN PostedAlloc(v, p[v], row.kind)
                                                    ELSE NoAlloc]]
        BY <3>1 DEF PostDeposit
      <3>3. CASE d = x
        <4>1. alloc'[d][u] = IF u \in D THEN PostedAlloc(u, p[u], row.kind) ELSE NoAlloc
          BY <3>2, <3>3 DEF TypeOK
        <4>2. dep'[d].status = "confirmed" /\ dep'[d].kind = row.kind
          BY <3>1, <3>3 DEF PostDeposit, TypeOK, DepositRow
        <4>3. CASE u \in D
          <5>1. due'[u].status # "none"
            BY <3>1, <4>3, DueSteps
          <5> QED BY <3>1, <4>2, <4>3, <5>1 DEF Posted, Pending
        <4>4. CASE u \notin D
          BY <1>3, <4>1, <4>4
        <4> QED BY <4>3, <4>4
      <3>4. CASE d # x
        <4>1. alloc'[d][u] = alloc[d][u] /\ dep'[d] = dep[d]
          BY <3>1, <3>2, <3>4 DEF PostDeposit, TypeOK
        <4> QED BY <4>1, DueSteps DEF TablesAgree
      <3> QED BY <3>3, <3>4
    <2>2. CASE SubmitStep
      <3>1. PICK r \in Requests, x \in Deposits :
              /\ req[r].pc = "submit" /\ due' = due
              /\ dep' = [dep EXCEPT ![x] = SubmittedRow(req[r])]
              /\ alloc' = [alloc EXCEPT ![x] =
                             [v \in Dues |-> IF v \in req[r].dues THEN Link ELSE NoAlloc]]
        BY <2>2 DEF SubmitStep, Submit
      <3>2. req[r] \in SubmitReq /\ SubmitKnows(req[r])
        BY <3>1, RequestByStage DEF RequestsAgree, Knows, TypeOK
      <3>3. CASE d = x
        <4>1. /\ alloc'[d][u] = IF u \in req[r].dues THEN Link ELSE NoAlloc
              /\ dep'[d].member = req[r].member
          BY <3>1, <3>2, <3>3, SubmittedType DEF TypeOK
        <4> QED BY <1>3, <3>1, <3>2, <4>1 DEF SubmitKnows
      <3>4. CASE d # x
        BY <3>1, <3>4 DEF TablesAgree, TypeOK
      <3> QED BY <3>3, <3>4
    <2>3. CASE CloseStep /\ ~SubmitStep
      <3>1. PICK x \in Deposits :
              alloc' = alloc \/ alloc' = [alloc EXCEPT ![x] = [v \in Dues |-> NoAlloc]]
        BY <2>3 DEF CloseStep, Reject, Remove
      <3>2. PICK w : w = [v \in Dues |-> NoAlloc]
        OBVIOUS
      <3>3. alloc'[d] = alloc[d] \/ alloc'[d] = w
        BY <3>1, <3>2 DEF TypeOK
      <3>4. alloc'[d][u] = alloc[d][u] \/ alloc'[d][u] = NoAlloc
        BY <3>2, <3>3
      <3> QED BY <1>2, <1>3, <2>3, <3>4
    <2>4. CASE RepairStep /\ ~SubmitStep
      <3>1. PICK x \in Deposits : ResolveAllocation(x)
        BY <2>4 DEF RepairStep
      <3>2. \/ alloc'[d][u] = alloc[d][u]
            \/ alloc'[d][u] = NoAlloc
            \/ (d = x /\ alloc'[d][u] = Link /\ u \in UnpaidDues(dep[x].member))
        <4>1. CASE alloc' = [alloc EXCEPT ![x] = [t \in Dues |-> NoAlloc]]
          BY <4>1 DEF TypeOK
        <4>2. CASE alloc' = [alloc EXCEPT ![x] =
                               Reassigned(UnpaidDues(dep[x].member), dep[x].amount)]
          <5>1. PICK v : /\ v = Reassigned(UnpaidDues(dep[x].member), dep[x].amount)
                         /\ alloc' = [alloc EXCEPT ![x] = v]
            BY <4>2
          <5>2. v[u] = NoAlloc \/ (v[u] = Link /\ u \in UnpaidDues(dep[x].member))
            BY <5>1 DEF Reassigned
          <5>3. alloc'[d][u] = alloc[d][u] \/ (d = x /\ alloc'[d][u] = v[u])
            BY <5>1 DEF TypeOK
          <5> QED BY <5>2, <5>3
        <4> QED BY <3>1, <4>1, <4>2 DEF ResolveAllocation
      <3>3. CASE d = x /\ alloc'[d][u] = Link /\ u \in UnpaidDues(dep[x].member)
        <4>1. due[u].status # "none" /\ Owner(u) = dep[x].member
          BY <3>3 DEF UnpaidDues, DuesOf
        <4>2. dep'[x].member = dep[x].member
          BY <3>1, DepositSteps DEF ResolveAllocation, Pending
        <4> QED BY <1>3, <3>3, <4>1, <4>2, DueSteps
      <3> QED BY <1>2, <1>3, <2>4, <3>2, <3>3
    <2>5. CASE (BillStep \/ SettleStep) /\ ~SubmitStep
      <3>1. PICK r \in Requests : BillCommit(r) \/ SettleCommit(r)
        BY <2>5 DEF BillStep, SettleStep
      <3>2. CASE alloc'[d][u] = alloc[d][u]
        BY <1>2, <2>5, <3>2
      <3>3. CASE alloc'[d][u] # alloc[d][u]
        <4>1. /\ alloc'[d][u].exact = alloc[d][u].exact
              /\ dep[d].status \in Posted /\ dep[d].kind = "advance"
              /\ due[u].status # "none" \/ (BillCommit(r) /\ u \in req[r].dues)
          BY <3>1, <3>3, CopiesAdd
        <4>2. due'[u].status # "none"
          <5>1. CASE BillCommit(r) /\ u \in req[r].dues
            <6>1. BillKnows(req[r])
              BY <5>1 DEF BillCommit, RequestsAgree, Knows
            <6> QED BY <5>1, <6>1 DEF BillCommit, BillKnows
          <5> QED BY <4>1, <5>1, DueSteps
        <4> QED BY <4>1, <4>2, DepositSteps DEF TablesAgree, Posted, Pending
      <3> QED BY <3>2, <3>3
    <2>6. CASE UNCHANGED alloc /\ ~SubmitStep
      BY <1>2, <2>6
    <2> QED BY <2>1, <2>2, <2>3, <2>4, <2>5, <2>6, AllocWriters
  <1> QED BY <1>1, <1>4 DEF TablesAgree

-----------------------------------------------------------------------------
(* What requests rely on stays true. *)

PromiseStep == \/ \E r \in Requests : MakePromise(r)
               \/ \E c \in Promises : ResolvePromise(c) \/ BreakPromise(c)

LEMMA PromiseWriters ==
  ASSUME [Next]_vars
  PROVE  PostingStep \/ ReverseStep \/ PromiseStep \/ UNCHANGED promise
  <1>1. CASE ApprovalNext
    BY <1>1, ZenonT(30) DEF ApprovalNext, PostingStep, StartSubmit, StartSubmitAdvance, Submit, OpenReview,
       ReadDeposit, Endorse, PlanConfirmation, LockForPosting, Reject, Remove,
       ResolveAllocation, ChangeRoute
  <1>2. CASE SettlementNext
    BY <1>2 DEF SettlementNext, StartBilling, BillApply, BillCommit, StartSettle, SettleApply,
       SettleCommit, StartWaive, WaivePenalty, RemoveMember, ReactivateMember
  <1>3. CASE ReverseStep
    BY <1>3
  <1>4. CASE PromiseStep
    BY <1>4
  <1>5. CASE SpendStep
    BY <1>5 DEF SpendStep, SpendFromAccount
  <1>6. CASE \E r \in Requests : StartPromise(r) \/ GiveUp(r)
    BY <1>6 DEF StartPromise, GiveUp
  <1>7. CASE UNCHANGED vars
    BY <1>7 DEF vars
  <1> QED BY <1>1, <1>2, <1>3, <1>4, <1>5, <1>6, <1>7, SMTT(30) DEF Next, ReverseStep, SpendStep, PromiseStep

\* A promise once made stays its member's.
LEMMA PromiseSteps ==
  ASSUME TypeOK, TablesAgree, RequestsAgree, ReviewersSawPending, [Next]_vars, NEW c \in Promises,
         promise[c].status # "none"
  PROVE  promise'[c].status # "none" /\ promise'[c].member = promise[c].member
  <1>1. CASE PostingStep
    <2>1. PICK d, m : d \in Deposits /\ KeepsOwn(d, m)
      BY <1>1, PostingFacts
    <2>2. CASE \E e \in Promises : promise' = Keep(e, d)
      <3>1. PICK e \in Promises :
              promise' = [promise EXCEPT ![e].status = "kept", ![e].by = d]
        BY <2>2 DEF Keep
      <3> QED BY <3>1 DEF TypeOK, PromiseRow
    <2> QED BY <2>1, <2>2 DEF KeepsOwn
  <1>2. CASE ReverseStep
    <2>1. PICK d \in Deposits : promise' = PromiseRestored(d)
      BY <1>2 DEF ReverseStep, ReverseDeposit
    <2> DEFINE reopened == IF PromisesOf(dep[d].member, "pending") = {} THEN "pending" ELSE "closed"
    <2>2. promise'[c] = IF promise[c].by = d THEN [promise[c] EXCEPT !.status = reopened, !.by = 0]
                        ELSE promise[c]
      BY <2>1 DEF PromiseRestored
    <2>3. reopened # "none"
      OBVIOUS
    <2> HIDE DEF reopened
    <2> QED BY <2>2, <2>3 DEF TypeOK, PromiseRow
  <1>3. CASE \E r \in Requests : MakePromise(r)
    <2>1. PICK r \in Requests, x \in Promises :
            /\ NextPromise(x)
            /\ promise' = [e \in Promises |->
                 IF e = x
                 THEN [status |-> "pending", member |-> req[r].member, amount |-> req[r].amount,
                       by |-> 0, older |-> {d \in Deposits : dep[d].status # "none"}]
                 ELSE IF e \in req[r].open
                 THEN [promise[e] EXCEPT !.status = IF req[r].overdue THEN "broken" ELSE "closed"]
                 ELSE promise[e]]
      BY <1>3 DEF MakePromise
    <2>2. c # x
      BY <2>1 DEF NextPromise
    <2>3. promise'[c] = IF c \in req[r].open
                        THEN [promise[c] EXCEPT !.status =
                                IF req[r].overdue THEN "broken" ELSE "closed"]
                        ELSE promise[c]
      BY <2>1, <2>2
    <2> QED BY <2>3 DEF TypeOK, PromiseRow
  <1>4. CASE \E e \in Promises : ResolvePromise(e) \/ BreakPromise(e)
    <2>1. PICK e \in Promises, s \in {"closed", "broken"} :
            promise' = [promise EXCEPT ![e].status = s]
      BY <1>4 DEF ResolvePromise, BreakPromise
    <2> QED BY <2>1 DEF TypeOK, PromiseRow
  <1>5. CASE UNCHANGED promise
    BY <1>5
  <1> QED BY <1>1, <1>2, <1>3, <1>4, <1>5, PromiseWriters DEF PromiseStep

LEMMA SameTotals ==
  ASSUME NEW f, NEW g, NEW D, \A u \in D : CalculateDueBalance(f[u]) = CalculateDueBalance(g[u])
  PROVE  TotalBalance(f, D) = TotalBalance(g, D)
  <1>1. [u \in D |-> CalculateDueBalance(f[u])] = [u \in D |-> CalculateDueBalance(g[u])]
    OBVIOUS
  <1> QED BY <1>1 DEF TotalBalance

LEMMA KnowsKept ==
  ASSUME TypeOK, TablesAgree, RequestsAgree, ReviewersSawPending, [Next]_vars,
         NEW r \in Requests, req'[r] = req[r]
  PROVE  Knows(req[r])'
  <1>1. PICK q \in Request : q = req[r] /\ q = req'[r]
    BY DEF TypeOK
  <1>2. Knows(q)
    BY <1>1 DEF RequestsAgree
  <1>3. CASE q.pc = "submit"
    <2>1. q \in SubmitReq /\ SubmitKnows(q)
      BY <1>2, <1>3, RequestByStage DEF Knows
    <2>2. \A u \in q.dues : Owner(u) = q.member /\ due'[u].status # "none"
      BY <2>1, DueSteps DEF SubmitKnows, SubmitReq
    <2> QED BY <1>1, <1>3, <2>1, <2>2 DEF Knows, SubmitKnows
  <1>4. ASSUME q.pc \in {"confirm", "planned", "posting"}
        PROVE  /\ dep'[q.dep].status # "none"
               /\ dep'[q.dep].route = "admin" => q.direct
               /\ q.before.status = "pending_approver" \/ q.direct
    <2>1. q.dep \in Deposits
      BY <1>4, RequestByStage DEF ReadReq, PostReq
    <2>2. ReviewKnows(q)
      BY <1>2, <1>4 DEF Knows
    <2> QED BY <2>1, <2>2, DepositSteps DEF ReviewKnows
  <1>5. CASE q.pc \in {"confirm", "planned"}
    BY <1>1, <1>2, <1>4, <1>5 DEF Knows, ReviewKnows, PlanCovers
  <1>6. CASE q.pc = "posting"
    <2>1. q \in PostReq /\ LockHolds(q)
      BY <1>2, <1>6, RequestByStage DEF Knows
    <2>2. PICK d \in Deposits, L \in SUBSET Dues : d = q.dep /\ L = Linked(d)
      BY <2>1 DEF PostReq, Linked
    <2>3. /\ dep'[d] = dep[d] /\ alloc'[d] = alloc[d]
          /\ dep[d].kind # "advance" => \A u \in L : due'[u] = due[u]
      BY <1>1, <1>6, <2>2, LockedUntouched
    <2>4. Linked(d)' = L
      BY <2>2, <2>3 DEF Linked
    <2>5. dep[d].kind # "advance" => TotalBalance(due', L) = TotalBalance(due, L)
      BY <2>3, SameTotals
    <2>6. dep[d].kind # "advance" => L # {} /\ dep[d].amount <= TotalBalance(due, L)
      BY <2>1, <2>2 DEF LockHolds, Covers
    <2>7. ReviewedOf(dep[d]) = q.before
      BY <2>1, <2>2 DEF LockHolds
    <2>8. q.keeps # 0 => /\ promise'[q.keeps].status # "none"
                         /\ promise'[q.keeps].member = dep[d].member
      BY <2>1, <2>2, PromiseSteps DEF LockHolds, PostReq
    <2>9. LockHolds(req[r])'
      <3>1. Linked(q.dep)' = L /\ q.dep = d
        BY <2>2, <2>4
      <3>2. Linked(req[r].dep)' = L
        BY <1>1, <3>1 DEF Linked
      <3>3. Covers(Linked(req[r].dep), dep[req[r].dep].amount)'
              <=> L # {} /\ dep'[d].amount <= TotalBalance(due', L)
        BY <1>1, <3>1, <3>2 DEF Covers
      <3> QED BY <1>1, <2>3, <2>5, <2>6, <2>7, <2>8, <3>1, <3>3 DEF LockHolds, ReviewedOf
    <2> QED BY <1>1, <1>4, <1>6, <2>9 DEF Knows, ReviewKnows
  <1>7. ASSUME q.pc \in {"bill", "settle"}
        PROVE  CopyKnows(q)'
    <2>1. CopyKnows(q)
      BY <1>2, <1>7 DEF Knows, BillKnows, SettleKnows
    <2> QED BY <2>1, DepositSteps DEF CopyKnows, Posted
  <1>8. CASE q.pc = "bill"
    <2>1. q \in BillReq /\ BillKnows(q)
      BY <1>2, <1>8, RequestByStage DEF Knows
    <2>2. ASSUME NEW u \in q.dues PROVE due'[u].status = "none"
      <3>1. u \in Dues /\ due[u].status = "none"
        BY <2>1 DEF BillReq, BillKnows
      <3>2. ASSUME NEW s \in Requests, BillCommit(s), u \in req[s].dues PROVE FALSE
        <4>1. req'[s] = Idle
          BY <3>2 DEF BillCommit, Become, TypeOK
        <4>2. s # r
          BY <1>1, <1>8, <4>1 DEF Idle
        <4> QED BY <1>1, <1>8, <3>2, <4>2 DEF BillCommit, RequestsAgree, Apart
      <3> QED BY <3>1, <3>2, DueSteps
    <2>3. BillKnows(q)'
      BY <1>7, <1>8, <2>1, <2>2 DEF BillKnows, TakesFrom
    <2> QED BY <1>1, <1>8, <2>3 DEF Knows, BillKnows, CopyKnows, TakesFrom
  <1>9. CASE q.pc = "settle"
    <2>1. q \in SettleReq /\ SettleKnows(q)
      BY <1>2, <1>9, RequestByStage DEF Knows
    <2>2. SettleKnows(q)'
      BY <1>7, <1>9, <2>1, DueSteps DEF SettleKnows, TakesFrom, OwnDues
    <2> QED BY <1>1, <1>9, <2>2 DEF Knows, SettleKnows, CopyKnows, TakesFrom, OwnDues
  <1>10. CASE q.pc = "waive"
    <2>1. q.row.status # "none" /\ due[q.due].status # "none" /\ q.due \in Dues
      BY <1>2, <1>10, RequestByStage DEF Knows, WaiveReq
    <2> QED BY <1>1, <1>10, <2>1, DueSteps DEF Knows
  <1>11. CASE q.pc \notin {"submit", "confirm", "planned", "posting", "bill", "settle", "waive"}
    BY <1>1, <1>11 DEF Knows
  <1> QED BY <1>3, <1>5, <1>6, <1>8, <1>9, <1>10, <1>11

\* One application of an advance takes from an advance the copy knows to be
\* confirmed, for one of the request's dues.
LEMMA ApplyKeeps ==
  ASSUME NEW q \in Work, NEW D \in SUBSET Dues, Applicable(q, D) # {}, TakesFrom(q, D)
  PROVE  LET a == ApplyAdvance(q, Earliest(Applicable(q, D)))
         IN  /\ a.was = q.was /\ a.pc = q.pc
             /\ q \in BillReq => a.dues = q.dues
             /\ q \in SettleReq => a.member = q.member
             /\ TakesFrom(a, D)
             /\ \A u \in Dues : q.due[u].status # "none" => a.due[u].status # "none"
  <1>1. PICK t : t = Earliest(Applicable(q, D))
    OBVIOUS
  <1>2. t \in Applicable(q, D) /\ t[1] \in Deposits /\ t[2] \in D /\ t[2] \in Dues
    BY <1>1, ApplyAdvanceType
  <1>3. PICK n : n = Lesser(LeftOf(q, t[1]), CalculateDueBalance(q.due[t[2]]))
    OBVIOUS
  <1>4. q.due \in [Dues -> DueRow] /\ q.take \in Taken
    BY DEF Work, SettleReq, BillReq
  <1>5. n \in Nat
    <2>1. q.due[t[2]] \in Money
      BY <1>2, <1>4 DEF Money
    <2> QED BY <1>2, <1>3, <2>1, BalanceType, LeftType DEF Lesser
  <1>6. PICK rows, taken : /\ rows = [q.due EXCEPT ![t[2]] = AllocatePayment(@, n, "penalty_first")]
                           /\ taken = [q.take EXCEPT ![t[1]][t[2]] = @ + n]
    OBVIOUS
  <1>7. ApplyAdvance(q, t) = [q EXCEPT !.due = rows, !.take = taken]
    BY <1>3, <1>4, <1>6 DEF ApplyAdvance, Work, SettleReq, BillReq
  <1>8. PICK a : a = ApplyAdvance(q, t)
    OBVIOUS
  <1>9. /\ a.was = q.was /\ a.pc = q.pc
        /\ q \in BillReq => a.dues = q.dues
        /\ q \in SettleReq => a.member = q.member
        /\ a.due = rows /\ a.take = taken
    BY <1>7, <1>8 DEF Work, SettleReq, BillReq
  <1>10. TakesFrom(a, D)
    <2> SUFFICES ASSUME NEW d \in Deposits, NEW u \in Dues, taken[d][u] > 0
                 PROVE  /\ u \in D
                        /\ q.was.dep[d].status = "confirmed" /\ q.was.dep[d].kind = "advance"
      BY <1>9 DEF TakesFrom
    <2>1. CASE d = t[1] /\ u = t[2]
      BY <1>2, <2>1 DEF Applicable, IsAdvanceOf
    <2>2. CASE ~(d = t[1] /\ u = t[2])
      <3>1. taken[d][u] = q.take[d][u]
        BY <1>2, <1>4, <1>6, <2>2 DEF Taken
      <3> QED BY <3>1 DEF TakesFrom
    <2> QED BY <2>1, <2>2
  <1>11. ASSUME NEW u \in Dues, q.due[u].status # "none" PROVE rows[u].status # "none"
    <2>1. AllocatePayment(q.due[u], n, "penalty_first").status \in {"paid", "partial", "due"}
      BY <1>4, <1>5, AllocateType, StatusType
    <2> QED BY <1>4, <1>6, <1>11, <2>1
  <1> QED BY <1>1, <1>8, <1>9, <1>10, <1>11

LEMMA VersionTotal ==
  ASSUME NEW rows, NEW D, D \subseteq DOMAIN rows, NEW n, NEW k
  PROVE  /\ VersionOf(rows, D, n, k).dues = D
         /\ TotalBalance(VersionOf(rows, D, n, k).rows, D) = TotalBalance(rows, D)
  <1>1. \A u \in D : VersionOf(rows, D, n, k).rows[u] = MoneyOf(rows[u])
    BY DEF VersionOf
  <1>2. \A u \in D : CalculateDueBalance(MoneyOf(rows[u])) = CalculateDueBalance(rows[u])
    BY DEF MoneyOf, CalculateDueBalance, PrincipalBalance, PenaltyBalance
  <1>3. VersionOf(rows, D, n, k).dues = D
    BY DEF VersionOf
  <1> QED BY <1>1, <1>2, <1>3, SameTotals

LEMMA KnowsPrepared ==
  ASSUME TypeOK, TablesAgree, RequestsAgree, ReviewersSawPending, NEW r \in Requests, Prepares(r)
  PROVE  Knows(req[r])'
  <1>1. ASSUME NEW q, Become(r, q), Knows(q) PROVE Knows(req[r])'
    <2>1. req'[r] = q
      BY <1>1 DEF Become, TypeOK
    <2>2. UNCHANGED <<dep, alloc, due, promise>>
      BY PreparingWritesNothing
    <2> QED BY <1>1, <2>1, <2>2 DEF Knows, SubmitKnows, ReviewKnows, PlanCovers, LockHolds,
           BillKnows, SettleKnows, CopyKnows, TakesFrom, OwnDues, Covers, Linked, ReviewedOf
  <1>2. ASSUME NEW q, q.pc \in {"review", "endorse", "promise"} PROVE Knows(q)
    BY <1>2 DEF Knows
  <1>3. Knows(req[r])
    BY DEF RequestsAgree
  <1>4. CASE StartSubmit(r)
    <2>1. PICK m, k, D, q :
            /\ m \in Members /\ k \in Priorities
            /\ D \in SUBSET DuesOf(m) /\ Become(r, q)
            /\ q.pc = "submit" /\ q.member = m /\ q.kind = k /\ q.dues = D
      BY <1>4 DEF StartSubmit
    <2>2. Knows(q)
      BY <2>1 DEF Knows, SubmitKnows, DuesOf, Priorities
    <2> QED BY <1>1, <2>1, <2>2
  <1>5. CASE StartSubmitAdvance(r)
    <2>1. PICK q : Become(r, q) /\ q.pc = "submit" /\ q.dues = {} /\ q.finalize = FALSE
      BY <1>5 DEF StartSubmitAdvance
    <2>2. Knows(q)
      BY <2>1 DEF Knows, SubmitKnows
    <2> QED BY <1>1, <2>1, <2>2
  <1>6. CASE OpenReview(r)
    <2>1. PICK q : Become(r, q) /\ q.pc = "review"
      BY <1>6 DEF OpenReview
    <2> QED BY <1>1, <1>2, <2>1
  <1>7. CASE ReadDeposit(r)
    <2>1. PICK d, row, direct, stage :
            /\ d = req[r].dep /\ row = dep[d]
            /\ direct = (row.route = "admin" \/ (row.status = "pending_accountant" /\ route = "admin"))
            /\ stage = IF row.status = "pending_accountant" /\ ~direct THEN "endorse" ELSE "confirm"
      OBVIOUS
    <2>2. PICK q : /\ Become(r, q) /\ q.pc = stage /\ q.dep = d
                   /\ q.before = ReviewedOf(row) /\ q.direct = direct
                   /\ row.status \in Pending
      BY <1>7, <2>1 DEF ReadDeposit
    <2>3. q.pc = "confirm" => ReviewKnows(q)
      <3>1. q.before.status = row.status
        BY <2>2 DEF ReviewedOf
      <3>2. row.route = "admin" => direct
        BY <2>1, Zenon
      <3>3. stage = "confirm" /\ row.status = "pending_accountant" => direct
        BY <2>1, Zenon
      <3>4. row.status \in {"pending_accountant", "pending_approver"}
        BY <2>2 DEF Pending
      <3>5. q.direct = direct /\ q.dep = d /\ row = dep[d] /\ q.pc = stage
        BY <2>1, <2>2
      <3> QED BY <3>1, <3>2, <3>3, <3>4, <3>5 DEF ReviewKnows
    <2>4. Knows(q)
      BY <2>1, <2>2, <2>3 DEF Knows
    <2> QED BY <1>1, <2>2, <2>4
  <1>8. CASE PlanConfirmation(r)
    <2>1. req[r] \in ReadReq /\ req[r].pc = "confirm"
      BY <1>8, RequestByStage DEF PlanConfirmation, TypeOK
    <2>2. PICK D, v : /\ D = Linked(req[r].dep)
                      /\ v = VersionOf(due, D, req[r].before.amount, req[r].before.kind)
      OBVIOUS
    <2>3. PICK q : q = [req[r] EXCEPT !.pc = "planned", !.seen = v]
      OBVIOUS
    <2>4. Become(r, q) /\ D # {} /\ req[r].before.amount <= TotalBalance(due, D)
      BY <1>8, <2>2, <2>3 DEF PlanConfirmation, Covers
    <2>5. /\ q.pc = "planned" /\ q.seen = v /\ q.dep = req[r].dep /\ q.before = req[r].before
          /\ q.direct = req[r].direct
      BY <2>1, <2>3 DEF ReadReq
    <2>6. v.dues = D /\ TotalBalance(v.rows, D) = TotalBalance(due, D)
      <3>1. D \subseteq DOMAIN due
        BY <2>2 DEF Linked, TypeOK
      <3> QED BY <2>2, <3>1, VersionTotal
    <2>7. ReviewKnows(q)
      BY <1>3, <2>1, <2>5 DEF Knows, ReviewKnows
    <2>8. PlanCovers(q)
      BY <2>4, <2>5, <2>6 DEF PlanCovers
    <2>9. Knows(q)
      BY <2>5, <2>7, <2>8 DEF Knows
    <2> QED BY <1>1, <2>4, <2>9
  <1>9. CASE LockForPosting(r)
    <2>1. req[r] \in ReadReq /\ req[r].pc \in {"planned", "confirm"}
      BY <1>9, RequestByStage DEF LockForPosting, TypeOK
    <2>2. PICK d, kept, q :
            /\ d = req[r].dep
            /\ kept = KeptBy(DepsIfPosted(d), DuesIfPosted(d), dep[d].member)
            /\ Become(r, q) /\ q.pc = "posting" /\ q.dep = d /\ q.before = req[r].before
            /\ q.direct = req[r].direct
            /\ q.keeps = IF kept = {} THEN 0 ELSE Max(kept)
      BY <1>9 DEF LockForPosting
    <2>3. ReviewedOf(dep[d]) = req[r].before /\ StillAsReviewed(r) /\ d \in Deposits
      BY <1>9, <2>1, <2>2 DEF LockForPosting, LockReviewedDeposit, ReadReq
    <2>4. dep[d].kind = req[r].before.kind /\ dep[d].amount = req[r].before.amount
      BY <2>3 DEF ReviewedOf
    <2>5. dep[d].kind # "advance" => Covers(Linked(d), dep[d].amount)
      <3>1. SUFFICES ASSUME dep[d].kind # "advance" PROVE Covers(Linked(d), dep[d].amount)
        OBVIOUS
      <3>2. PICK D : D = Linked(d)
        OBVIOUS
      <3>3. /\ req[r].pc = "planned"
            /\ req[r].seen = VersionOf(due, D, req[r].before.amount, req[r].before.kind)
        BY <2>2, <2>3, <2>4, <3>1, <3>2 DEF StillAsReviewed
      <3>4. PlanCovers(req[r])
        BY <1>3, <3>3 DEF Knows
      <3>5. req[r].seen.dues = D /\ TotalBalance(req[r].seen.rows, D) = TotalBalance(due, D)
        <4>1. D \subseteq DOMAIN due
          BY <3>2 DEF Linked, TypeOK
        <4> QED BY <3>3, <4>1, VersionTotal
      <3> QED BY <2>4, <3>2, <3>4, <3>5 DEF PlanCovers, Covers
    <2>6. q.keeps # 0 => /\ promise[q.keeps].status # "none"
                         /\ promise[q.keeps].member = dep[d].member
      <3>1. kept # {} => /\ promise[Max(kept)].member = dep[d].member
                         /\ promise[Max(kept)].status \in {"pending", "broken"}
        BY <2>2, KeptType
      <3> QED BY <2>2, <3>1
    <2>7. LockHolds(q)
      BY <2>2, <2>3, <2>5, <2>6 DEF LockHolds
    <2>8. ReviewKnows(q)
      BY <1>3, <2>1, <2>2 DEF Knows, ReviewKnows
    <2>9. Knows(q)
      BY <2>2, <2>7, <2>8 DEF Knows
    <2> QED BY <1>1, <2>2, <2>9
  <1>10. TheBooks.dep = dep /\ TheBooks.due = due
    BY DEF TheBooks
  <1>11. CASE StartBilling(r)
    <2>0. PICK s \in Schedules, unit \in Amounts : \E q :
            /\ Become(r, q) /\ q.pc = "bill" /\ q.dues = BilledBy(s) /\ q.was = TheBooks
            /\ q.due = [u \in Dues |-> IF u \in BilledBy(s) THEN NewDue(unit, Owner(u)) ELSE due[u]]
            /\ q.take = TakeNothing
            /\ \A u \in Dues : u[1] = s => due[u].status = "none"
      BY <1>11 DEF StartBilling
    <2>1. PICK q :
            /\ Become(r, q) /\ q.pc = "bill" /\ q.dues = BilledBy(s) /\ q.was = TheBooks
            /\ q.due = [u \in Dues |-> IF u \in BilledBy(s) THEN NewDue(unit, Owner(u)) ELSE due[u]]
            /\ q.take = TakeNothing
            /\ \A u \in Dues : u[1] = s => due[u].status = "none"
      BY <2>0
    <2>2. CopyKnows(q) /\ TakesFrom(q, q.dues)
      BY <1>10, <2>1 DEF CopyKnows, TakesFrom, TakeNothing, Posted
    <2>3. \A u \in q.dues : u \in Dues /\ due[u].status = "none"
      BY <2>1 DEF BilledBy
    <2>4. \A u \in Dues : NewDue(unit, Owner(u)).status = "due"
      BY DEF NewDue, NoDue
    <2>5. Knows(q)
      BY <2>1, <2>2, <2>3, <2>4 DEF Knows, BillKnows
    <2> QED BY <1>1, <2>1, <2>5
  <1>12. CASE StartSettle(r)
    <2>1. PICK q : /\ Become(r, q) /\ q.pc = "settle" /\ q.was = TheBooks /\ q.due = due
                   /\ q.take = TakeNothing
      BY <1>12 DEF StartSettle
    <2>2. CopyKnows(q) /\ TakesFrom(q, OwnDues(q))
      BY <1>10, <2>1 DEF CopyKnows, TakesFrom, TakeNothing, Posted
    <2>3. Knows(q)
      BY <1>10, <2>1, <2>2 DEF Knows, SettleKnows
    <2> QED BY <1>1, <2>1, <2>3
  <1>13. CASE BillApply(r)
    <2>1. req[r] \in Work /\ req[r] \in BillReq /\ req[r].dues \in SUBSET Dues
          /\ req[r].pc = "bill" /\ Applicable(req[r], req[r].dues) # {}
      BY <1>13, RequestByStage DEF BillApply, TypeOK, Work, BillReq
    <2>2. BillKnows(req[r])
      BY <1>3, <2>1 DEF Knows
    <2>3. PICK q : q = ApplyAdvance(req[r], Earliest(Applicable(req[r], req[r].dues)))
      OBVIOUS
    <2>4. /\ q.was = req[r].was /\ q.pc = "bill" /\ q.dues = req[r].dues
          /\ TakesFrom(q, req[r].dues)
          /\ \A u \in Dues : req[r].due[u].status # "none" => q.due[u].status # "none"
      BY <2>1, <2>2, <2>3, ApplyKeeps DEF BillKnows
    <2>5. Knows(q)
      BY <2>1, <2>2, <2>4 DEF Knows, BillKnows, CopyKnows
    <2> QED BY <1>1, <1>13, <2>3, <2>5 DEF BillApply
  <1>14. CASE SettleApply(r)
    <2>1. req[r] \in Work /\ req[r] \in SettleReq /\ OwnDues(req[r]) \in SUBSET Dues
          /\ req[r].pc = "settle" /\ ToApply(req[r]) # {}
          /\ ToApply(req[r]) = Applicable(req[r], OwnDues(req[r]))
      BY <1>14, RequestByStage DEF SettleApply, ToApply, TypeOK, Work, OwnDues
    <2>2. SettleKnows(req[r])
      BY <1>3, <2>1 DEF Knows
    <2>3. PICK q : q = ApplyAdvance(req[r], Earliest(ToApply(req[r])))
      OBVIOUS
    <2>4. /\ q.was = req[r].was /\ q.pc = "settle" /\ q.member = req[r].member
          /\ TakesFrom(q, OwnDues(req[r]))
          /\ \A u \in Dues : req[r].due[u].status # "none" => q.due[u].status # "none"
      BY <2>1, <2>2, <2>3, ApplyKeeps DEF SettleKnows
    <2>5. OwnDues(q) = OwnDues(req[r])
      BY <2>4 DEF OwnDues
    <2>6. Knows(q)
      BY <2>1, <2>2, <2>4, <2>5 DEF Knows, SettleKnows, CopyKnows
    <2> QED BY <1>1, <1>14, <2>3, <2>6 DEF SettleApply
  <1>15. CASE StartWaive(r)
    <2>1. PICK u, q :
            /\ u \in Dues
            /\ due[u].penaltyDue > due[u].penaltyPaid
            /\ Become(r, q) /\ q.pc = "waive" /\ q.due = u /\ q.row = due[u]
      BY <1>15 DEF StartWaive
    <2>2. due[u].status # "none"
      BY <2>1 DEF TablesAgree, TypeOK, DueRow
    <2>3. Knows(q)
      BY <2>1, <2>2 DEF Knows
    <2> QED BY <1>1, <2>1, <2>3
  <1>16. CASE StartPromise(r)
    <2>1. PICK q : Become(r, q) /\ q.pc = "promise"
      BY <1>16 DEF StartPromise
    <2> QED BY <1>1, <1>2, <2>1
  <1> QED BY <1>4, <1>5, <1>6, <1>7, <1>8, <1>9, <1>11, <1>12, <1>13, <1>14, <1>15, <1>16
       DEF Prepares

LEMMA ApartPrepared ==
  ASSUME TypeOK, RequestsAgree, NEW r \in Requests, Prepares(r), NEW s \in Requests, s # r
  PROVE  Apart(req[r], req[s])'
  <1>1. PICK p, q : p = req'[r] /\ q = req[s]
    OBVIOUS
  <1>2. q = req'[s] /\ UNCHANGED <<dep, alloc>>
    BY <1>1, PreparingWritesNothing
  <1>3. Apart(p, q)
    <2>1. CASE p.pc \notin {"posting", "bill"}
      BY <2>1 DEF Apart
    <2>2. CASE LockForPosting(r)
      <3>1. req[r] \in ReadReq
        BY <2>2, RequestByStage DEF LockForPosting, TypeOK
      <3>2. p.pc = "posting" /\ p.dep = req[r].dep
        BY <1>1, <2>2 DEF LockForPosting, Become, TypeOK
      <3>3. Unlocked(p.dep) /\ StillAsReviewed(r) /\ ReviewedOf(dep[p.dep]) = req[r].before
        BY <2>2, <3>2 DEF LockForPosting, LockReviewedDeposit
      <3>4. dep[p.dep].kind # "advance" => \A u \in Linked(p.dep) : UnlockedDue(u)
        BY <3>2, <3>3 DEF StillAsReviewed, ReviewedOf
      <3> QED BY <1>1, <3>2, <3>3, <3>4 DEF Apart, Unlocked, UnlockedDue, Posting
    <2>3. CASE StartBilling(r)
      <3>1. p.pc = "bill" /\ (q.pc = "bill" => p.dues \cap q.dues = {})
        BY <1>1, <2>3 DEF StartBilling, Become, TypeOK
      <3> QED BY <3>1 DEF Apart
    <2>4. CASE BillApply(r)
      <3>1. req[r] \in Work /\ req[r] \in BillReq /\ req[r].dues \in SUBSET Dues
            /\ req[r].pc = "bill" /\ Applicable(req[r], req[r].dues) # {}
            /\ TakesFrom(req[r], req[r].dues)
        BY <2>4, RequestByStage
           DEF BillApply, TypeOK, Work, BillReq, RequestsAgree, Knows, BillKnows
      <3>2. p = ApplyAdvance(req[r], Earliest(Applicable(req[r], req[r].dues)))
        BY <1>1, <2>4 DEF BillApply, Become, TypeOK
      <3>3. p.pc = "bill" /\ p.dues = req[r].dues
        BY <3>1, <3>2, ApplyKeeps
      <3>4. Apart(req[r], q)
        BY <1>1 DEF RequestsAgree
      <3> QED BY <3>1, <3>3, <3>4 DEF Apart
    <2>5. CASE StartSubmit(r) \/ StartSubmitAdvance(r) \/ OpenReview(r)
      <3>1. p.pc \in {"submit", "review"}
        BY <1>1, <2>5 DEF StartSubmit, StartSubmitAdvance, OpenReview, Become, TypeOK
      <3> QED BY <2>1, <3>1
    <2>6. CASE ReadDeposit(r)
      <3>1. PICK b \in {"endorse", "confirm"} : p.pc = b
        BY <1>1, <2>6 DEF ReadDeposit, Become, TypeOK
      <3> QED BY <2>1, <3>1
    <2>7. CASE PlanConfirmation(r)
      <3>1. req[r] \in ReadReq
        BY <2>7, RequestByStage DEF PlanConfirmation, TypeOK
      <3>2. PICK v : p = [req[r] EXCEPT !.pc = "planned", !.seen = v]
        BY <1>1, <2>7 DEF PlanConfirmation, Become, TypeOK
      <3>3. p.pc = "planned"
        BY <3>1, <3>2 DEF ReadReq
      <3> QED BY <2>1, <3>3
    <2>8. CASE StartSettle(r) \/ StartWaive(r) \/ StartPromise(r)
      <3>1. p.pc \in {"settle", "waive", "promise"}
        BY <1>1, <2>8 DEF StartSettle, StartWaive, StartPromise, Become, TypeOK
      <3> QED BY <2>1, <3>1
    <2>9. CASE SettleApply(r)
      <3>1. req[r] \in SettleReq
        BY <2>9, RequestByStage DEF SettleApply, TypeOK
      <3>2. PICK t : p = ApplyAdvance(req[r], t)
        BY <1>1, <2>9 DEF SettleApply, Become, TypeOK
      <3>3. p.pc = "settle"
        BY <3>1, <3>2 DEF ApplyAdvance, SettleReq
      <3> QED BY <2>1, <3>3
    <2> QED BY <2>2, <2>3, <2>4, <2>5, <2>6, <2>7, <2>8, <2>9 DEF Prepares
  <1> QED BY <1>1, <1>2, <1>3 DEF Apart, Linked

LEMMA RequestsStep ==
  ASSUME TypeOK, TablesAgree, RequestsAgree, ReviewersSawPending, [Next]_vars
  PROVE  RequestsAgree'
  <1>1. Idle.pc = "idle"
    BY DEF Idle
  <1>2. ASSUME NEW r \in Requests PROVE Knows(req[r])'
    <2>1. CASE req'[r] = Idle
      BY <1>1, <2>1 DEF Knows
    <2> QED BY <2>1, KnowsKept, KnowsPrepared, RequestSteps
  <1>3. ASSUME NEW r \in Requests, NEW s \in Requests, r # s
        PROVE  Apart(req[r], req[s])'
    <2>1. CASE req'[r] = Idle \/ req'[s] = Idle
      BY <1>1, <2>1 DEF Apart
    <2>2. CASE Prepares(r)
      BY <1>3, <2>2, ApartPrepared
    <2>3. CASE Prepares(s)
      <3>1. Apart(req[s], req[r])'
        BY <1>3, <2>3, ApartPrepared
      <3> QED BY <3>1 DEF Apart
    <2>4. CASE req'[r] = req[r] /\ req'[s] = req[s]
      <3>1. Apart(req[r], req[s])
        BY <1>3 DEF RequestsAgree
      <3>2. CASE req[r].pc = "posting" /\ req[s].pc = "posting"
        <4>1. PICK d, e : d = req[r].dep /\ e = req[s].dep
          OBVIOUS
        <4>2. /\ dep'[d] = dep[d] /\ dep'[e] = dep[e]
              /\ alloc'[d] = alloc[d] /\ alloc'[e] = alloc[e]
          BY <2>4, <3>2, <4>1, LockedUntouched
        <4> QED BY <2>4, <3>1, <3>2, <4>1, <4>2 DEF Apart, Linked
      <3>3. CASE ~(req[r].pc = "posting" /\ req[s].pc = "posting")
        BY <2>4, <3>1, <3>3 DEF Apart
      <3> QED BY <3>2, <3>3
    <2> QED BY <2>1, <2>2, <2>3, <2>4, RequestSteps
  <1> QED BY <1>2, <1>3 DEF RequestsAgree

LedgerFacts == TypeOK /\ ReviewersSawPending /\ TablesAgree /\ RequestsAgree

LEMMA FactsStep == LedgerFacts /\ [Next]_vars => LedgerFacts'
  BY NextType, ReviewersStep, TablesStep, RequestsStep DEF LedgerFacts

LEMMA FactsInit == Init => LedgerFacts
  <1> SUFFICES ASSUME Init PROVE LedgerFacts
    OBVIOUS
  <1>1. TypeOK
    BY InitType
  <1>2. \A r \in Requests : req[r].pc = "idle"
    BY DEF Init, Idle
  <1>3. ReviewersSawPending /\ RequestsAgree
    BY <1>2 DEF ReviewersSawPending, RequestsAgree, Knows, Apart
  <1>4. TablesAgree
    <2>1. NoAlloc.linked = FALSE /\ NoAlloc.exact = FALSE /\ Link.exact = FALSE
      BY DEF NoAlloc, Link
    <2>2. \A d \in Deposits, u \in Dues : alloc[d][u] = IF u \in FiledDues[d] THEN Link ELSE NoAlloc
      BY DEF Init
    <2>3. \A d \in Deposits : \A u \in FiledDues[d] :
            Owner(u) = Filed[d].member /\ Opening[u].status # "none"
      BY OpeningAssumption DEF OpeningAssumption
    <2>4. \A u \in Dues : Opening[u].status = "none" => Opening[u].penaltyDue = 0
      BY OpeningAssumption DEF OpeningAssumption, NoDue
    <2>5. dep = Filed /\ due = Opening
      BY DEF Init
    <2> QED BY <2>1, <2>2, <2>3, <2>4, <2>5 DEF TablesAgree
  <1> QED BY <1>1, <1>3, <1>4 DEF LedgerFacts

-----------------------------------------------------------------------------
(* What is confirmed is confirmed in full, as it was reviewed, and for good.*)

LEMMA ConfirmedByPosting ==
  ASSUME LedgerFacts, [Next]_vars, NEW d \in Deposits, dep'[d].status = "confirmed"
  PROVE  dep[d].status = "confirmed" \/ PostingStep
  <1> USE DEF LedgerFacts
  <1>1. CASE SettleStep
    BY <1>1, SettlementKeepsDeposits DEF SettleStep
  <1>2. CASE ReverseStep
    <2>1. PICK x \in Deposits : dep' = [dep EXCEPT ![x].status = "reversed"]
      BY <1>2 DEF ReverseStep, ReverseDeposit
    <2> QED BY <2>1 DEF TypeOK, DepositRow
  <1>3. CASE SubmitStep
    <2>1. PICK r \in Requests, x \in Deposits :
            req[r].pc = "submit" /\ dep' = [dep EXCEPT ![x] = SubmittedRow(req[r])]
      BY <1>3 DEF SubmitStep, Submit
    <2>2. SubmittedRow(req[r]).status \in Pending
      BY <2>1, RequestByStage, SubmittedType DEF TypeOK
    <2> QED BY <2>1, <2>2 DEF TypeOK, Pending
  <1>4. CASE EndorseStep
    <2>1. PICK r \in Requests, a \in Accounts :
            dep' = [dep EXCEPT ![req[r].dep].status = "pending_approver",
                               ![req[r].dep].endorsed = TRUE, ![req[r].dep].account = a]
      BY <1>4, ZenonT(30) DEF EndorseStep, Endorse
    <2> QED BY <2>1, SMTT(30) DEF TypeOK, DepositRow
  <1>5. CASE CloseStep
    <2>1. PICK x \in Deposits, s \in {"rejected", "removed"} : CloseDeposit(x, s)
      BY <1>5 DEF CloseStep, Reject, Remove
    <2> QED BY <2>1 DEF CloseDeposit, TypeOK, DepositRow
  <1>6. CASE RepairStep
    <2>1. PICK x \in Deposits, k \in Kinds : dep' = [dep EXCEPT ![x] = ResolvedRow(x, k)]
      BY <1>6 DEF RepairStep, ResolveAllocation, TypeOK, DepositRow, Kinds
    <2>2. ResolvedRow(x, k).status # "confirmed"
      BY ResolvedType
    <2> QED BY <2>1, <2>2 DEF TypeOK
  <1> QED BY <1>1, <1>2, <1>3, <1>4, <1>5, <1>6, Writers

\* The allocations of a posted payment of dues are not written again.
LEMMA PostedAllocKept ==
  ASSUME LedgerFacts, [Next]_vars, NEW d \in Deposits, dep[d].status \in Posted,
         dep[d].kind # "advance"
  PROVE  alloc'[d] = alloc[d]
  <1> USE DEF LedgerFacts, Posted, Pending
  <1>1. CASE PostingStep
    <2>1. PICK x \in Deposits, row \in DepositRow, D \in SUBSET Dues :
            PostDeposit(x, row, D) /\ dep[x].status \in Pending \cup {"none"}
      BY <1>1, PostingFacts
    <2>2. \E v : alloc' = [alloc EXCEPT ![x] = v]
      BY <2>1 DEF PostDeposit
    <2> QED BY <2>1, <2>2 DEF TypeOK
  <1>2. CASE SubmitStep
    <2>1. PICK x \in Deposits : dep[x].status = "none" /\ \E v : alloc' = [alloc EXCEPT ![x] = v]
      BY <1>2 DEF SubmitStep, Submit, NextDeposit
    <2> QED BY <2>1 DEF TypeOK
  <1>3. CASE CloseStep
    <2>1. PICK x \in Deposits :
            dep[x].status \in Pending /\ (alloc' = alloc \/ \E v : alloc' = [alloc EXCEPT ![x] = v])
      BY <1>3 DEF CloseStep, Reject, Remove, CloseDeposit
    <2> QED BY <2>1 DEF TypeOK
  <1>4. CASE RepairStep
    <2>1. PICK x \in Deposits : dep[x].status \in Pending /\ \E v : alloc' = [alloc EXCEPT ![x] = v]
      BY <1>4 DEF RepairStep, ResolveAllocation
    <2> QED BY <2>1 DEF TypeOK
  <1>5. CASE BillStep \/ SettleStep
    <2>1. PICK r \in Requests : BillCommit(r) \/ SettleCommit(r)
      BY <1>5 DEF BillStep, SettleStep
    <2>2. \A u \in Dues : alloc'[d][u] = alloc[d][u]
      BY <2>1, CopiesAdd
    <2>3. alloc[d] \in [Dues -> AllocRow] /\ alloc'[d] \in [Dues -> AllocRow]
      BY NextType DEF TypeOK
    <2> QED BY <2>2, <2>3
  <1> QED BY <1>1, <1>2, <1>3, <1>4, <1>5, AllocWriters

\* What posting allocates: each due its share of the plan, split exactly.
LEMMA PostedExactly ==
  ASSUME TypeOK, NEW d \in Deposits, NEW row \in DepositRow, NEW D \in SUBSET Dues,
         PostDeposit(d, row, D), Covers(D, row.amount),
         NEW m, \A u \in D : Owner(u) = m
  PROVE  ExactSnapshot(d)'
  <1>1. PICK p \in PlanDepositAllocation(due, D, Rank, row.amount) :
          alloc' = [alloc EXCEPT ![d] =
                     [u \in Dues |-> IF u \in D THEN PostedAlloc(u, p[u], row.kind)
                                                ELSE NoAlloc]]
    BY DEF PostDeposit
  <1>2. IsFiniteSet(Dues) /\ IsFiniteSet(D) /\ row.amount \in Nat
    BY FiniteTables, FS_Subset DEF DepositRow
  <1>3. \A u \in Dues : due[u] \in DueRow /\ due[u] \in Money
    BY DEF TypeOK, Money
  <1>4. \A u \in D : p[u] \in 0 .. CalculateDueBalance(due[u]) /\ p[u] \in Nat
    <2> TAKE u \in D
    <2>1. p \in [D -> Nat] /\ p[u] \in 0 .. CalculateDueBalance(due[u])
      BY <1>2, <1>3, PlanType
    <2> QED BY <2>1
  <1>5. SumOver(p, D) = row.amount
    <2>1. \A u \in D : Rank[u] \in Int
      BY FiniteTables
    <2>2. \A u, v \in D : Rank[u] = Rank[v] => u = v
      <3>1. \A u, v \in Dues : u[1] = v[1] /\ u[2] = v[2] => u = v
        BY DEF Dues
      <3> QED BY <3>1, FiniteTables DEF Owner
    <2>3. row.amount <= TotalBalance(due, D)
      BY DEF Covers
    <2> QED BY <1>2, <1>3, <2>1, <2>2, <2>3, PlanTakesAll
  <1>6. \A u \in Dues : alloc'[d][u] = IF u \in D THEN PostedAlloc(u, p[u], row.kind) ELSE NoAlloc
    BY <1>1 DEF TypeOK
  <1>7. ASSUME NEW u \in D
        PROVE  /\ alloc'[d][u].linked /\ alloc'[d][u].exact /\ alloc'[d][u].amount = p[u]
               /\ alloc'[d][u].principal + alloc'[d][u].penalty = p[u]
    <2>1. PrincipalShare(due[u], p[u], row.kind) + PenaltyShare(due[u], p[u], row.kind) = p[u]
      BY <1>3, <1>4, PaymentConserved
    <2>2. u \in Dues /\ alloc'[d][u] = PostedAlloc(u, p[u], row.kind)
      BY <1>6
    <2>3. PICK a, b : /\ a = PrincipalShare(due[u], p[u], row.kind)
                      /\ b = PenaltyShare(due[u], p[u], row.kind)
      OBVIOUS
    <2>4. alloc'[d][u] = [linked |-> TRUE, amount |-> p[u], exact |-> TRUE,
                          principal |-> a, penalty |-> b]
      BY <2>2, <2>3 DEF PostedAlloc
    <2> QED BY <2>1, <2>3, <2>4
  <1>8. \A u \in Dues \ D : alloc'[d][u].linked = FALSE /\ alloc'[d][u].amount = 0
    BY <1>6 DEF NoAlloc
  <1>9. Linked(d)' = D
    BY <1>7, <1>8 DEF Linked
  <1>10. PICK f : f = [u \in Dues |-> alloc'[d][u].amount]
    OBVIOUS
  <1>11. (\A u \in D : f[u] = p[u]) /\ (\A u \in Dues \ D : f[u] = 0)
    BY <1>7, <1>8, <1>10
  <1>12. SumOver(f, Dues) = SumOver(f, D) + SumOver(f, Dues \ D)
    <2>1. \A u \in Dues : f[u] \in Int
      BY <1>4, <1>11
    <2> QED BY <1>2, <2>1, SumSplit
  <1>13. SumOver(f, D) = SumOver(p, D)
    <2>1. \A u \in D : f[u] \in Int /\ f[u] = p[u]
      BY <1>4, <1>11
    <2> QED BY <1>2, <2>1, SumAgrees
  <1>14. SumOver(f, Dues \ D) = 0
    <2>1. IsFiniteSet(Dues \ D)
      BY <1>2, FS_Subset
    <2> QED BY <1>11, <2>1, SumOfZeros
  <1>15. AllocatedOf(alloc'[d]) = row.amount
    BY <1>2, <1>5, <1>10, <1>12, <1>13, <1>14 DEF AllocatedOf
  <1>16. dep'[d].amount = row.amount
    BY DEF PostDeposit, TypeOK, DepositRow
  <1> QED BY <1>7, <1>9, <1>15, <1>16 DEF ExactSnapshot, AllocatedOf

LEMMA InFullStep ==
  ASSUME LedgerFacts, ConfirmedInFull, [Next]_vars
  PROVE  ConfirmedInFull'
  <1> SUFFICES ASSUME NEW d \in Deposits, dep'[d].status = "confirmed", dep'[d].kind # "advance"
               PROVE  ExactSnapshot(d)'
    BY DEF ConfirmedInFull
  <1> USE DEF LedgerFacts
  <1>1. CASE dep[d].status = "confirmed"
    <2>1. dep'[d].kind = dep[d].kind /\ dep'[d].amount = dep[d].amount
      BY <1>1, DepositSteps DEF Posted
    <2>2. alloc'[d] = alloc[d] /\ ExactSnapshot(d)
      BY <1>1, <2>1, PostedAllocKept DEF Posted, ConfirmedInFull
    <2> QED BY <2>1, <2>2 DEF ExactSnapshot, AllocatedOf, Linked
  <1>2. CASE dep[d].status # "confirmed"
    <2>1. PICK x \in Deposits, row \in DepositRow, D \in SUBSET Dues :
            /\ PostDeposit(x, row, D)
            /\ \A u \in D : due[u].status # "none" /\ Owner(u) = row.member
            /\ row.kind # "advance" => Covers(D, row.amount)
      BY <1>2, ConfirmedByPosting, PostingFacts
    <2>2. x = d
      BY <1>2, <2>1 DEF PostDeposit, TypeOK
    <2>3. dep'[d].kind = row.kind
      BY <2>1, <2>2 DEF PostDeposit, TypeOK, DepositRow
    <2>4. Covers(D, row.amount) /\ \A u \in D : Owner(u) = row.member
      BY <2>1, <2>3
    <2> QED BY <2>1, <2>2, <2>4, PostedExactly
  <1> QED BY <1>1, <1>2

LEMMA PrefixOfAppend ==
  ASSUME NEW s \in Seq(EntryRow), NEW e \in EntryRow
  PROVE  IsPrefixOf(s, s) /\ IsPrefixOf(s, Append(s, e))
  <1>1. ASSUME NEW t \in Seq(EntryRow), Len(s) <= Len(t), \A i \in 1 .. Len(s) : t[i] = s[i]
        PROVE  IsPrefixOf(s, t)
    <2>1. SubSeq(t, 1, Len(s)) = s
      <3>1. SubSeq(t, 1, Len(s)) = [i \in 1 .. Len(s) |-> t[i]]
        BY <1>1
      <3>2. s = [i \in 1 .. Len(s) |-> s[i]]
        OBVIOUS
      <3> QED BY <1>1, <3>1, <3>2
    <2> QED BY <1>1, <2>1 DEF IsPrefixOf
  <1>2. /\ Append(s, e) \in Seq(EntryRow) /\ Len(Append(s, e)) = Len(s) + 1
        /\ \A i \in 1 .. Len(s) : Append(s, e)[i] = s[i]
        /\ Len(s) \in Nat
    OBVIOUS
  <1>3. IsPrefixOf(s, s)
    BY <1>1, <1>2
  <1>4. IsPrefixOf(s, Append(s, e))
    <2>1. /\ Append(s, e) \in Seq(EntryRow) /\ Len(s) <= Len(Append(s, e))
          /\ \A i \in 1 .. Len(s) : Append(s, e)[i] = s[i]
      BY <1>2
    <2> HIDE DEF IsPrefixOf
    <2> QED BY ONLY <1>1, <2>1, Zenon
  <1> QED BY <1>3, <1>4

LEMMA EntriesAppended ==
  ASSUME LedgerFacts, [Next]_vars, NEW d \in Deposits
  PROVE  IsPrefixOf(entries[d], entries'[d])
  <1> USE DEF LedgerFacts
  <1>1. entries[d] \in Seq(EntryRow)
    BY DEF TypeOK
  <1>2. ASSUME entries'[d] = entries[d] PROVE IsPrefixOf(entries[d], entries'[d])
    <2>1. Len(entries[d]) \in Nat /\ SubSeq(entries[d], 1, Len(entries[d])) = entries[d]
      BY <1>1
    <2> QED BY <1>2, <2>1 DEF IsPrefixOf
  <1>3. ASSUME NEW e \in EntryRow, entries'[d] = Append(entries[d], e)
        PROVE  IsPrefixOf(entries[d], entries'[d])
    BY <1>1, <1>3, PrefixOfAppend
  <1>4. ASSUME NEW x \in Deposits, NEW type \in EntryTypes, NEW a \in Accounts, NEW n \in Nat,
               RecordEntry(x, type, a, n)
        PROVE  IsPrefixOf(entries[d], entries'[d])
    <2>1. [type |-> type, account |-> a, amount |-> n] \in EntryRow
      BY DEF EntryRow
    <2>2. entries'[d] = entries[d]
          \/ entries'[d] = Append(entries[d], [type |-> type, account |-> a, amount |-> n])
      BY <1>4 DEF RecordEntry, TypeOK
    <2> QED BY <1>2, <1>3, <2>1, <2>2
  <1>5. CASE PostingStep
    <2>1. PICK x \in Deposits, row \in DepositRow, D \in SUBSET Dues : PostDeposit(x, row, D)
      BY <1>5, PostingIsOnePost
    <2>2. RecordEntry(x, "deposit", row.account, row.amount)
          /\ row.account \in Accounts /\ row.amount \in Nat
      BY <2>1 DEF PostDeposit, DepositRow
    <2> QED BY <1>4, <2>2 DEF EntryTypes
  <1>6. CASE SettleStep
    <2>1. PICK r \in Requests : SettleCommit(r)
      BY <1>6 DEF SettleStep
    <2>2. req[r] \in SettleReq
      BY <2>1, RequestByStage DEF SettleCommit, TypeOK
    <2>3. [type |-> "advance_refund", account |-> dep[d].account, amount |-> RefundOf(req[r], d)]
            \in EntryRow
      BY <2>2, RefundType DEF TypeOK, DepositRow, EntryRow, EntryTypes
    <2>4. entries'[d] = entries[d]
          \/ entries'[d] = Append(entries[d], [type |-> "advance_refund", account |-> dep[d].account,
                                               amount |-> RefundOf(req[r], d)])
      BY <2>1 DEF SettleCommit
    <2> QED BY <1>2, <1>3, <2>3, <2>4
  <1>7. CASE ReverseStep
    <2>0. PICK x \in Deposits : \E i \in DOMAIN entries[x] :
            RecordEntry(x, "deposit_reversal", entries[x][i].account, entries[x][i].amount)
      BY <1>7 DEF ReverseStep, ReverseDeposit, EntriesOf
    <2>1. PICK i \in DOMAIN entries[x] :
            RecordEntry(x, "deposit_reversal", entries[x][i].account, entries[x][i].amount)
      BY <2>0
    <2>2. entries[x][i].account \in Accounts /\ entries[x][i].amount \in Nat
      <3>1. entries[x] \in Seq(EntryRow)
        BY DEF TypeOK
      <3>2. entries[x][i] \in EntryRow
        BY <2>1, <3>1
      <3> QED BY <3>2 DEF EntryRow
    <2> QED BY <1>4, <2>1, <2>2 DEF EntryTypes
  <1>8. CASE SpendStep
    BY <1>2, <1>8 DEF SpendStep, SpendFromAccount
  <1>9. CASE UNCHANGED entries
    BY <1>2, <1>9
  <1> QED BY <1>5, <1>6, <1>7, <1>8, <1>9, Writers

LEMMA FinalStep ==
  ASSUME LedgerFacts, [Next]_vars, NEW d \in Deposits
  PROVE  /\ IsPrefixOf(entries[d], entries'[d])
         /\ dep[d].status \in {"confirmed", "reversed"} =>
              /\ dep'[d].status \in {dep[d].status, "reversed"}
              /\ ReviewedOf([dep'[d] EXCEPT !.status = dep[d].status]) = ReviewedOf(dep[d])
              /\ \A u \in Dues : alloc[d][u].exact => alloc'[d][u] = alloc[d][u]
         /\ dep[d].status \in {"rejected", "removed"} => dep'[d] = dep[d]
  <1> USE DEF LedgerFacts
  <1>1. IsPrefixOf(entries[d], entries'[d])
    BY EntriesAppended
  <1>2. dep[d].status \in {"rejected", "removed"} => dep'[d] = dep[d]
    BY DepositSteps
  <1>3. ASSUME dep[d].status \in {"confirmed", "reversed"}
        PROVE  /\ dep'[d].status \in {dep[d].status, "reversed"}
               /\ ReviewedOf([dep'[d] EXCEPT !.status = dep[d].status]) = ReviewedOf(dep[d])
               /\ \A u \in Dues : alloc[d][u].exact => alloc'[d][u] = alloc[d][u]
    <2>1. /\ dep'[d].status \in {dep[d].status, "reversed"}
          /\ dep'[d].kind = dep[d].kind /\ dep'[d].account = dep[d].account
          /\ dep'[d].member = dep[d].member /\ dep'[d].amount = dep[d].amount
      BY <1>3, DepositSteps DEF Posted
    <2>2. dep'[d] \in DepositRow /\ dep[d] \in DepositRow
      BY NextType DEF TypeOK
    <2>3. PICK row : row = [dep'[d] EXCEPT !.status = dep[d].status]
      OBVIOUS
    <2>4. /\ row.status = dep[d].status /\ row.kind = dep[d].kind /\ row.account = dep[d].account
          /\ row.member = dep[d].member /\ row.amount = dep[d].amount
      BY <2>1, <2>2, <2>3 DEF DepositRow
    <2>5. ReviewedOf(row) = ReviewedOf(dep[d])
      BY <2>4 DEF ReviewedOf
    <2>6. \A u \in Dues : alloc[d][u].exact => alloc'[d][u] = alloc[d][u]
      BY <1>3, PostedAllocKept DEF Posted, TablesAgree
    <2> QED BY <2>1, <2>3, <2>5, <2>6
  <1> QED BY <1>1, <1>2, <1>3

LEMMA ReviewedStep ==
  ASSUME LedgerFacts, EndorsedBeforeApproval, NEW r \in Requests, Posting(r)
  PROVE  /\ ReviewedOf(dep[req[r].dep]) = req[r].before
         /\ dep[req[r].dep].status = "pending_approver" \/ req[r].direct
         /\ dep[req[r].dep].kind = "advance" => dep[req[r].dep].endorsed \/ req[r].direct
  <1>1. req[r] \in PostReq
    BY RequestByStage DEF LedgerFacts, TypeOK, Posting
  <1>2. PICK d \in Deposits : d = req[r].dep
    BY <1>1 DEF PostReq
  <1>3. ReviewedOf(dep[d]) = req[r].before
    BY <1>2 DEF LedgerFacts, RequestsAgree, Knows, LockHolds, Posting
  <1>4. /\ dep[d].route = "admin" => req[r].direct
        /\ req[r].before.status = "pending_approver" \/ req[r].direct
    BY <1>2 DEF LedgerFacts, RequestsAgree, Knows, ReviewKnows, Posting
  <1>5. dep[d].status = req[r].before.status
    BY <1>3 DEF ReviewedOf
  <1>6. dep[d].route \in {"admin", "accountant"}
    BY DEF LedgerFacts, TypeOK, DepositRow, Routes
  <1>7. dep[d].status = "pending_approver" /\ dep[d].route = "accountant" => dep[d].endorsed
    BY DEF EndorsedBeforeApproval
  <1> QED BY <1>2, <1>3, <1>4, <1>5, <1>6, <1>7

(***************************************************************************)
(* A review of deposits.routes.ts holds whatever races it: a confirmed     *)
(* payment is allocated to dues in full and exactly, it is posted as its   *)
(* reviewer read it and by one who may, and what is posted is never        *)
(* rewritten, only reversed with a counter-entry.                          *)
(***************************************************************************)
THEOREM ReviewIsSound == Spec => ReviewHolds
  <1>1. Init => LedgerFacts /\ EndorsedBeforeApproval /\ ConfirmedInFull
    <2>1. Init => EndorsedBeforeApproval
      BY OpeningAssumption DEF Init, OpeningAssumption, EndorsedBeforeApproval
    <2>2. Init => ConfirmedInFull
      BY OpeningAssumption DEF Init, OpeningAssumption, ConfirmedInFull, Pending
    <2> QED BY <2>1, <2>2, FactsInit
  <1>2. (LedgerFacts /\ EndorsedBeforeApproval /\ ConfirmedInFull) /\ [Next]_vars
          => (LedgerFacts /\ EndorsedBeforeApproval /\ ConfirmedInFull)'
    <2>1. LedgerFacts => TypeOK
      BY DEF LedgerFacts
    <2> QED BY <2>1, FactsStep, EndorsedStep, InFullStep
  <1> DEFINE FinalNow ==
        \A d \in Deposits :
          /\ IsPrefixOf(entries[d], entries'[d])
          /\ dep[d].status \in {"confirmed", "reversed"} =>
               /\ dep'[d].status \in {dep[d].status, "reversed"}
               /\ ReviewedOf([dep'[d] EXCEPT !.status = dep[d].status]) = ReviewedOf(dep[d])
               /\ \A u \in Dues : alloc[d][u].exact => alloc'[d][u] = alloc[d][u]
          /\ dep[d].status \in {"rejected", "removed"} => dep'[d] = dep[d]
  <1> DEFINE ReviewedNow ==
        \A r \in Requests : Posting(r) /\ dep'[req[r].dep].status = "confirmed" =>
          LET d == req[r].dep
          IN  /\ ReviewedOf(dep[d]) = req[r].before
              /\ dep[d].status = "pending_approver" \/ req[r].direct
              /\ dep[d].kind = "advance" => dep[d].endorsed \/ req[r].direct
  <1>3. LedgerFacts /\ [Next]_vars => FinalNow
    BY FinalStep
  <1>4. LedgerFacts /\ EndorsedBeforeApproval => ReviewedNow
    BY ReviewedStep
  <1>5. ReviewHolds <=> []ConfirmedInFull /\ [][FinalNow]_vars /\ [][ReviewedNow]_vars
    BY DEF ReviewHolds, PostedIsFinal, PostedAsReviewed
  <1> HIDE DEF FinalNow, ReviewedNow
  <1> QED BY <1>1, <1>2, <1>3, <1>4, <1>5, PTL DEF Spec

-----------------------------------------------------------------------------
(* Promises. *)

PromiseFacts ==
  /\ \A c \in Promises : promise[c].by # 0 =>
       /\ dep[promise[c].by].status = "confirmed"
       /\ dep[promise[c].by].member = promise[c].member
  /\ \A c, e \in Promises : promise[c].by # 0 /\ promise[c].by = promise[e].by => c = e
  /\ \A c \in Promises : promise[c].status = "kept" => promise[c].by # 0
  /\ \A c, e \in Promises :
       /\ promise[c].status = "pending" /\ promise[e].status = "pending"
       /\ promise[c].member = promise[e].member
       => c = e

LEMMA ConfirmedUntilReversed ==
  ASSUME LedgerFacts, [Next]_vars, ~ReverseStep, NEW d \in Deposits, dep[d].status = "confirmed"
  PROVE  dep'[d].status = "confirmed" /\ dep'[d].member = dep[d].member
  <1> USE DEF LedgerFacts
  <1>1. dep'[d].status \in {"confirmed", "reversed"} /\ dep'[d].member = dep[d].member
    BY DepositSteps DEF Posted
  <1>2. dep'[d].status # "reversed"
    <2>1. CASE PostingStep
      <3>1. PICK x \in Deposits, row \in DepositRow, D \in SUBSET Dues : PostDeposit(x, row, D)
        BY <2>1, PostingFacts
      <3> QED BY <3>1 DEF PostDeposit, TypeOK, DepositRow
    <2>2. CASE SettleStep
      BY <2>2, SettlementKeepsDeposits DEF SettleStep
    <2>3. CASE SubmitStep
      <3>1. PICK r \in Requests, x \in Deposits :
              req[r].pc = "submit" /\ dep' = [dep EXCEPT ![x] = SubmittedRow(req[r])]
        BY <2>3 DEF SubmitStep, Submit
      <3>2. SubmittedRow(req[r]).status \in Pending
        BY <3>1, RequestByStage, SubmittedType DEF TypeOK
      <3> QED BY <3>1, <3>2 DEF TypeOK, Pending
    <2>4. CASE EndorseStep
      <3>1. PICK r \in Requests, a \in Accounts :
              dep' = [dep EXCEPT ![req[r].dep].status = "pending_approver",
                                 ![req[r].dep].endorsed = TRUE, ![req[r].dep].account = a]
        BY <2>4 DEF EndorseStep, Endorse
      <3> QED BY <3>1 DEF TypeOK, DepositRow
    <2>5. CASE CloseStep
      <3>1. PICK x \in Deposits, s \in {"rejected", "removed"} : CloseDeposit(x, s)
        BY <2>5 DEF CloseStep, Reject, Remove
      <3> QED BY <3>1 DEF CloseDeposit, TypeOK, DepositRow
    <2>6. CASE RepairStep
      <3>1. PICK x \in Deposits, k \in Kinds : dep' = [dep EXCEPT ![x] = ResolvedRow(x, k)]
        BY <2>6 DEF RepairStep, ResolveAllocation, TypeOK, DepositRow, Kinds
      <3>2. ResolvedRow(x, k).status # "reversed"
        BY ResolvedType
      <3> QED BY <3>1, <3>2 DEF TypeOK
    <2>7. CASE UNCHANGED dep
      BY <2>7
    <2> QED BY <2>1, <2>2, <2>3, <2>4, <2>5, <2>6, <2>7, Writers
  <1> QED BY <1>1, <1>2

\* A step that does not reverse keeps the deposits promises refer to; it is
\* enough that no promise is tied to one it was not tied to before.
LEMMA PromisesUntied ==
  ASSUME LedgerFacts, PromiseFacts, [Next]_vars, ~ReverseStep,
         \A c \in Promises : /\ promise'[c].by \in {promise[c].by, 0}
                             /\ promise'[c].by # 0 => promise'[c].member = promise[c].member
                             /\ promise'[c].status = "kept" =>
                                  promise[c].status = "kept" /\ promise'[c].by = promise[c].by,
         \A c, e \in Promises : /\ promise'[c].status = "pending" /\ promise'[e].status = "pending"
                                /\ promise'[c].member = promise'[e].member
                                => c = e
  PROVE  PromiseFacts'
  <1>1. \A c \in Promises : promise[c].by \in Deposits \cup {0}
    BY DEF LedgerFacts, TypeOK, PromiseRow
  <1>2. \A c \in Promises : promise'[c].by # 0 =>
          /\ dep'[promise'[c].by].status = "confirmed"
          /\ dep'[promise'[c].by].member = promise'[c].member
    BY <1>1, ConfirmedUntilReversed DEF PromiseFacts
  <1> QED BY <1>2 DEF PromiseFacts

LEMMA PromiseStepKeepsFacts ==
  ASSUME LedgerFacts, PromiseFacts, [Next]_vars, PromiseStep, ~ReverseStep
  PROVE  PromiseFacts'
  <1>1. promise \in [Promises -> PromiseRow] /\ promise' \in [Promises -> PromiseRow]
    BY NextType DEF LedgerFacts, TypeOK
  <1>2. CASE \E r \in Requests : MakePromise(r)
    <2>1. PICK r \in Requests, x \in Promises :
            /\ req[r].pc = "promise"
            /\ PromisesOf(req[r].member, "pending") \subseteq req[r].open
            /\ NextPromise(x)
            /\ promise' = [e \in Promises |->
                 IF e = x
                 THEN [status |-> "pending", member |-> req[r].member, amount |-> req[r].amount,
                       by |-> 0, older |-> {d \in Deposits : dep[d].status # "none"}]
                 ELSE IF e \in req[r].open
                 THEN [promise[e] EXCEPT !.status = IF req[r].overdue THEN "broken" ELSE "closed"]
                 ELSE promise[e]]
      BY <1>2 DEF MakePromise
    <2>2. promise'[x].status = "pending" /\ promise'[x].member = req[r].member /\ promise'[x].by = 0
      BY <2>1
    <2>3. \A e \in Promises \ {x} :
            /\ promise'[e].by = promise[e].by /\ promise'[e].member = promise[e].member
            /\ promise'[e].status \in {promise[e].status, "broken", "closed"}
            /\ e \in req[r].open => promise'[e].status \in {"broken", "closed"}
      BY <1>1, <2>1 DEF PromiseRow
    <2>4. \A e \in Promises \ {x} : promise'[e].status = "pending" =>
            promise[e].status = "pending" /\ promise'[e].member # req[r].member
      BY <2>1, <2>3 DEF PromisesOf
    <2> QED BY <2>2, <2>3, <2>4, PromisesUntied DEF PromiseFacts
  <1>3. CASE \E e \in Promises : ResolvePromise(e) \/ BreakPromise(e)
    <2>1. PICK e \in Promises, s \in {"closed", "broken"} :
            promise' = [promise EXCEPT ![e].status = s]
      BY <1>3 DEF ResolvePromise, BreakPromise
    <2>2. \A c \in Promises :
            /\ promise'[c].by = promise[c].by /\ promise'[c].member = promise[c].member
            /\ promise'[c].status \in {promise[c].status, "closed", "broken"}
      BY <1>1, <2>1 DEF PromiseRow
    <2> QED BY <2>2, PromisesUntied DEF PromiseFacts
  <1> QED BY <1>2, <1>3 DEF PromiseStep

LEMMA PostingKeepsFacts ==
  ASSUME LedgerFacts, PromiseFacts, [Next]_vars, PostingStep, ~ReverseStep
  PROVE  PromiseFacts'
  <1> USE DEF LedgerFacts
  <1>1. PICK d \in Deposits, row \in DepositRow, D \in SUBSET Dues :
          /\ PostDeposit(d, row, D)
          /\ dep[d].status \in Pending \cup {"none"}
          /\ KeepsOwn(d, row.member)
    BY PostingFacts
  <1>2. CASE promise' = promise
    BY <1>2, PromisesUntied DEF PromiseFacts
  <1>3. CASE promise' # promise
    <2>1. PICK c \in Promises : promise' = Keep(c, d) /\ promise[c].member = row.member
      BY <1>1, <1>3 DEF KeepsOwn
    <2>2. /\ promise'[c].status = "kept" /\ promise'[c].by = d
          /\ promise'[c].member = promise[c].member
          /\ \A e \in Promises \ {c} : promise'[e] = promise[e]
      BY <2>1 DEF Keep, TypeOK, PromiseRow
    <2>3. dep'[d].status = "confirmed" /\ dep'[d].member = row.member
      BY <1>1 DEF PostDeposit, TypeOK, DepositRow
    <2>4. \A e \in Promises : promise[e].by \in Deposits \cup {0} /\ promise[e].by # d
      BY <1>1, LedgerAssumption DEF PromiseFacts, TypeOK, PromiseRow, Pending, LedgerAssumption
    <2>5. \A e \in Promises \ {c} : promise'[e].by # 0 =>
            /\ dep'[promise'[e].by].status = "confirmed"
            /\ dep'[promise'[e].by].member = promise'[e].member
      BY <2>2, <2>4, ConfirmedUntilReversed DEF PromiseFacts
    <2>6. d # 0
      BY LedgerAssumption DEF LedgerAssumption
    <2> QED BY <2>1, <2>2, <2>3, <2>4, <2>5, <2>6 DEF PromiseFacts
  <1> QED BY <1>2, <1>3

LEMMA ReversalKeepsFacts ==
  ASSUME LedgerFacts, PromiseFacts, [Next]_vars, ReverseStep
  PROVE  PromiseFacts'
  <1> USE DEF LedgerFacts
  <1>1. PICK d \in Deposits : /\ promise' = PromiseRestored(d)
                              /\ dep' = [dep EXCEPT ![d].status = "reversed"]
    BY DEF ReverseStep, ReverseDeposit
  <1>2. PICK s \in {"pending", "closed"} :
          s = IF PromisesOf(dep[d].member, "pending") = {} THEN "pending" ELSE "closed"
    OBVIOUS
  <1>3. \A c \in Promises :
          promise'[c] = IF promise[c].by = d THEN [promise[c] EXCEPT !.status = s, !.by = 0]
                        ELSE promise[c]
    BY <1>1, <1>2 DEF PromiseRestored
  <1>4. \A c \in Promises : promise[c].by = d =>
          /\ promise'[c].status = s /\ promise'[c].by = 0
          /\ promise'[c].member = promise[c].member /\ promise[c].member = dep[d].member
    <2> SUFFICES ASSUME NEW c \in Promises, promise[c].by = d
                 PROVE  /\ promise'[c].status = s /\ promise'[c].by = 0
                        /\ promise'[c].member = promise[c].member
                        /\ promise[c].member = dep[d].member
      OBVIOUS
    <2>1. d # 0
      BY LedgerAssumption DEF LedgerAssumption
    <2>2. promise'[c] = [promise[c] EXCEPT !.status = s, !.by = 0]
      BY <1>3
    <2>3. promise[c] \in PromiseRow
      BY DEF TypeOK
    <2>4. promise[c].member = dep[d].member
      BY <2>1 DEF PromiseFacts
    <2> QED BY <2>2, <2>3, <2>4 DEF PromiseRow
  <1>5. \A c \in Promises : promise[c].by # d => promise'[c] = promise[c]
    BY <1>3
  <1>6. \A x \in Deposits : x # d => dep'[x] = dep[x]
    BY <1>1 DEF TypeOK
  <1>7. \A c \in Promises : promise[c].by \in Deposits \cup {0}
    BY DEF TypeOK, PromiseRow
  <1>8. \A c, e \in Promises :
          /\ promise'[c].status = "pending" /\ promise'[e].status = "pending"
          /\ promise'[c].member = promise'[e].member
          => c = e
    <2> SUFFICES ASSUME NEW c \in Promises, NEW e \in Promises, promise[c].by = d,
                        promise'[c].status = "pending", promise'[e].status = "pending",
                        promise'[c].member = promise'[e].member, promise[e].by # d
                 PROVE  FALSE
      BY <1>4, <1>5, LedgerAssumption DEF PromiseFacts, LedgerAssumption
    <2> QED BY <1>2, <1>4, <1>5 DEF PromisesOf
  <1>9. \A c \in Promises : promise'[c].by # 0 =>
          /\ dep'[promise'[c].by].status = "confirmed"
          /\ dep'[promise'[c].by].member = promise'[c].member
    BY <1>4, <1>5, <1>6, <1>7 DEF PromiseFacts
  <1>10. \A c, e \in Promises : promise'[c].by # 0 /\ promise'[c].by = promise'[e].by => c = e
    BY <1>4, <1>5 DEF PromiseFacts
  <1>11. \A c \in Promises : promise'[c].status = "kept" => promise'[c].by # 0
    BY <1>4, <1>5 DEF PromiseFacts
  <1> QED BY <1>8, <1>9, <1>10, <1>11 DEF PromiseFacts

LEMMA PromiseFactsStep ==
  ASSUME LedgerFacts, PromiseFacts, [Next]_vars
  PROVE  PromiseFacts'
  <1>1. CASE ReverseStep
    BY <1>1, ReversalKeepsFacts
  <1>2. CASE ~ReverseStep /\ PostingStep
    BY <1>2, PostingKeepsFacts
  <1>3. CASE ~ReverseStep /\ PromiseStep
    BY <1>3, PromiseStepKeepsFacts
  <1>4. CASE ~ReverseStep /\ UNCHANGED promise
    BY <1>4, PromisesUntied DEF PromiseFacts
  <1> QED BY <1>1, <1>2, <1>3, <1>4, PromiseWriters

LEMMA PromiseFactsInit == Init => PromiseFacts
  BY OpeningAssumption DEF Init, OpeningAssumption, PromiseFacts

(***************************************************************************)
(* Submissions and the promises of follow-ups hold whatever races them:    *)
(* besides what a review guarantees, a member has one pending promise at   *)
(* most, and a kept promise is kept by a confirmed deposit of that member, *)
(* which a reversal reopens (resolveCommitmentsForDeposit,                 *)
(* reversals.service.ts).                                                  *)
(***************************************************************************)
THEOREM SubmissionIsSound == Spec => []SubmissionHolds
  <1>1. Init => LedgerFacts /\ ConfirmedInFull /\ PromiseFacts
    <2>1. Init => ConfirmedInFull
      BY OpeningAssumption DEF Init, OpeningAssumption, ConfirmedInFull, Pending
    <2> QED BY <2>1, FactsInit, PromiseFactsInit
  <1>2. (LedgerFacts /\ ConfirmedInFull /\ PromiseFacts) /\ [Next]_vars
          => (LedgerFacts /\ ConfirmedInFull /\ PromiseFacts)'
    BY FactsStep, InFullStep, PromiseFactsStep
  <1>3. LedgerFacts /\ ConfirmedInFull /\ PromiseFacts => SubmissionHolds
    <2> SUFFICES ASSUME LedgerFacts, ConfirmedInFull, PromiseFacts PROVE PromisesConsistent
      BY DEF SubmissionHolds
    <2>1. \A c \in Promises : promise[c].by \in Deposits \cup {0}
      BY DEF LedgerFacts, TypeOK, PromiseRow
    <2> QED BY <2>1 DEF PromiseFacts, PromisesConsistent, PromisesOf
  <1> QED BY <1>1, <1>2, <1>3, PTL DEF Spec

-----------------------------------------------------------------------------
(* Whose money an allocation is.  A deposit is allocated, and refunded,     *)
(* only once it is posted, and only to dues of its own member; the copies   *)
(* settlements and billing work on keep to that, and a settlement's copy of *)
(* a due has received what was taken for it on top of the snapshot.         *)

AllocationsOwned ==
  /\ \A d \in Deposits : dep[d].status \notin Posted => dep[d].refunded = 0
  /\ \A d \in Deposits, u \in Dues :
       /\ ~alloc[d][u].linked => alloc[d][u].amount = 0
       /\ alloc[d][u].amount > 0 => dep[d].status \in Posted /\ Owner(u) = dep[d].member

TakenFor(q, u) == SumOver([d \in Deposits |-> q.take[d][u]], Deposits)

CopyOwned(q) ==
  \A d \in Deposits :
    /\ q.was.dep[d].status = "confirmed" =>
         dep[d].member = q.was.dep[d].member /\ dep[d].amount = q.was.dep[d].amount
    /\ \A u \in Dues : q.take[d][u] > 0 => q.was.dep[d].member = Owner(u)

SettleBalanced(q) ==
  \A u \in Dues :
    /\ Received(q.due[u]) = Received(q.was.due[u]) + TakenFor(q, u)
    /\ CalculateDueBalance(q.due[u]) <= CalculateDueBalance(q.was.due[u])

CopiesOwned ==
  \A r \in Requests : /\ req[r].pc \in {"settle", "bill"} => CopyOwned(req[r])
                      /\ req[r].pc = "settle" => SettleBalanced(req[r])

OwnFacts == AllocationsOwned /\ CopiesOwned

\* A posted deposit changes by its reversal or a settlement, its allocations
\* by a settlement or billing.
LEMMA PostedSteps ==
  ASSUME LedgerFacts, [Next]_vars, NEW d \in Deposits, dep[d].status \in Posted
  PROVE  /\ \/ dep'[d] = dep[d] \/ SettleStep
            \/ ReverseStep /\ dep'[d] = [dep[d] EXCEPT !.status = "reversed"]
         /\ alloc'[d] = alloc[d] \/ BillStep \/ SettleStep
  <1> USE DEF LedgerFacts, Posted, Pending
  <1>1. CASE PostingStep
    <2>1. PICK x \in Deposits, row \in DepositRow, D \in SUBSET Dues :
            PostDeposit(x, row, D) /\ dep[x].status \in Pending \cup {"none"}
      BY <1>1, PostingFacts
    <2>2. /\ \E v : alloc' = [alloc EXCEPT ![x] = v]
          /\ \E v : dep' = [dep EXCEPT ![x] = v]
      BY <2>1 DEF PostDeposit
    <2> QED BY <2>1, <2>2 DEF TypeOK
  <1>2. CASE SubmitStep
    <2>1. PICK x \in Deposits :
            /\ dep[x].status = "none"
            /\ \E v : alloc' = [alloc EXCEPT ![x] = v]
            /\ \E v : dep' = [dep EXCEPT ![x] = v]
      BY <1>2 DEF SubmitStep, Submit, NextDeposit
    <2> QED BY <2>1 DEF TypeOK
  <1>3. CASE CloseStep
    <2>1. PICK x \in Deposits :
            /\ dep[x].status \in Pending
            /\ alloc' = alloc \/ \E v : alloc' = [alloc EXCEPT ![x] = v]
            /\ \E v : dep' = [dep EXCEPT ![x].status = v]
      BY <1>3 DEF CloseStep, Reject, Remove, CloseDeposit
    <2> QED BY <2>1 DEF TypeOK
  <1>4. CASE RepairStep
    <2>1. PICK x \in Deposits :
            /\ dep[x].status \in Pending
            /\ \E v : alloc' = [alloc EXCEPT ![x] = v]
            /\ \E v : dep' = [dep EXCEPT ![x] = v]
      BY <1>4 DEF RepairStep, ResolveAllocation
    <2> QED BY <2>1 DEF TypeOK
  <1>5. CASE EndorseStep
    <2>1. PICK r \in Requests, a \in Accounts :
            /\ req[r].pc = "endorse" /\ LockReviewedDeposit(r)
            /\ dep' = [dep EXCEPT ![req[r].dep].status = "pending_approver",
                                  ![req[r].dep].endorsed = TRUE, ![req[r].dep].account = a]
            /\ alloc' = alloc
      BY <1>5, ZenonT(30) DEF EndorseStep, Endorse
    <2>2. dep[req[r].dep].status \in Pending
      BY <2>1 DEF LockReviewedDeposit, ReviewersSawPending, ReviewedOf
    <2> QED BY <2>1, <2>2 DEF TypeOK
  <1>6. CASE ReverseStep
    <2>1. PICK x \in Deposits : dep' = [dep EXCEPT ![x].status = "reversed"] /\ alloc' = alloc
      BY <1>6 DEF ReverseStep, ReverseDeposit
    <2> QED BY <1>6, <2>1 DEF TypeOK
  <1>7. CASE SettleStep
    BY <1>7
  <1>8. CASE UNCHANGED dep
    <2>1. CASE BillStep
      BY <1>8, <2>1
    <2>2. CASE UNCHANGED alloc
      BY <1>8, <2>2
    <2> QED BY <1>1, <1>2, <1>3, <1>4, <1>7, <1>8, <2>1, <2>2, AllocWriters
  <1> QED BY <1>1, <1>2, <1>3, <1>4, <1>5, <1>6, <1>7, <1>8, Writers

\* What a settlement or a billing adds to an allocation, row by row.
LEMMA TakenAdded ==
  ASSUME LedgerFacts, OwnFacts, NEW r \in Requests, BillCommit(r) \/ SettleCommit(r),
         NEW d \in Deposits, NEW u \in Dues
  PROVE  /\ alloc'[d][u].amount = alloc[d][u].amount + req[r].take[d][u]
         /\ req[r].take[d][u] \in Nat
         /\ ~(req[r].take[d][u] > 0) => alloc'[d][u] = alloc[d][u]
         /\ req[r].take[d][u] > 0 =>
              /\ alloc'[d][u].linked
              /\ req[r].was.dep[d].status = "confirmed" /\ req[r].was.dep[d].kind = "advance"
              /\ dep[d].status \in Posted /\ dep[d].kind = "advance"
              /\ req[r].was.dep[d].member = Owner(u) /\ dep[d].member = Owner(u)
              /\ BillCommit(r) => u \in req[r].dues
              /\ SettleCommit(r) => u \in OwnDues(req[r])
  <1> USE DEF LedgerFacts
  <1>1. /\ req[r] \in Work /\ alloc' = AddTaken(req[r])
        /\ BillCommit(r) => req[r].pc = "bill"
        /\ SettleCommit(r) => req[r].pc = "settle"
    BY RequestByStage DEF BillCommit, SettleCommit, TypeOK, Work
  <1>2. /\ CopyKnows(req[r]) /\ CopyOwned(req[r])
        /\ BillCommit(r) => TakesFrom(req[r], req[r].dues)
        /\ SettleCommit(r) => TakesFrom(req[r], OwnDues(req[r]))
    BY <1>1 DEF RequestsAgree, Knows, BillKnows, SettleKnows, OwnFacts, CopiesOwned
  <1>3. req[r].take[d][u] \in Nat
    BY <1>1 DEF Work, SettleReq, BillReq, Taken
  <1>4. alloc[d][u] \in AllocRow
    BY DEF TypeOK
  <1>5. CASE req[r].take[d][u] > 0
    <2>1. alloc'[d][u] = [alloc[d][u] EXCEPT !.linked = TRUE, !.amount = @ + req[r].take[d][u]]
      BY <1>1, <1>5 DEF AddTaken
    <2>2. /\ alloc'[d][u].amount = alloc[d][u].amount + req[r].take[d][u]
          /\ alloc'[d][u].linked
      BY <1>4, <2>1 DEF AllocRow
    <2>3. req[r].was.dep[d].status = "confirmed" /\ req[r].was.dep[d].kind = "advance"
      BY <1>2, <1>5 DEF TakesFrom
    <2>4. dep[d].status \in Posted /\ dep[d].kind = "advance"
      BY <1>2, <2>3 DEF CopyKnows
    <2>5. req[r].was.dep[d].member = Owner(u) /\ dep[d].member = Owner(u)
      BY <1>2, <1>5, <2>3 DEF CopyOwned
    <2>6. /\ BillCommit(r) => u \in req[r].dues
          /\ SettleCommit(r) => u \in OwnDues(req[r])
      BY <1>2, <1>5 DEF TakesFrom
    <2> QED BY <1>3, <1>5, <2>2, <2>3, <2>4, <2>5, <2>6
  <1>6. CASE ~(req[r].take[d][u] > 0)
    <2>1. alloc'[d][u] = alloc[d][u]
      BY <1>1, <1>6 DEF AddTaken
    <2> QED BY <1>3, <1>4, <1>6, <2>1 DEF AllocRow
  <1> QED BY <1>5, <1>6

LEMMA AllocationsOwnedStep ==
  ASSUME LedgerFacts, OwnFacts, [Next]_vars
  PROVE  AllocationsOwned'
  <1> USE DEF LedgerFacts
  <1>0. AllocationsOwned
    BY DEF OwnFacts
  <1>1. ASSUME NEW d \in Deposits, dep'[d].status \notin Posted
        PROVE  dep'[d].refunded = 0
    <2>1. dep[d].status \notin Posted /\ dep[d].refunded = 0 /\ dep[d] \in DepositRow
      BY <1>0, <1>1, DepositSteps DEF AllocationsOwned, Posted, TypeOK
    <2>2. CASE PostingStep
      <3>1. PICK x \in Deposits, row \in DepositRow, D \in SUBSET Dues : PostDeposit(x, row, D)
        BY <2>2, PostingFacts
      <3> QED BY <1>1, <2>1, <3>1 DEF PostDeposit, TypeOK, DepositRow, Posted
    <2>3. CASE SettleStep
      <3>1. PICK r \in Requests : SettleCommit(r)
        BY <2>3 DEF SettleStep
      <3>2. d \notin Refunded(req[r])
        <4>1. SUFFICES ASSUME d \in Refunded(req[r]) PROVE FALSE
          OBVIOUS
        <4>2. IsAdvanceOf(req[r].was.dep[d], req[r].member)
          BY <4>1 DEF Refunded, RefundOf
        <4>3. req[r].was.dep[d] = dep[d]
          BY <3>1, <4>2 DEF SettleCommit, NoConflict
        <4> QED BY <2>1, <4>2, <4>3 DEF IsAdvanceOf, Posted
      <3> QED BY <2>1, <3>1, <3>2 DEF SettleCommit
    <2>4. CASE ReverseStep
      <3>1. PICK x \in Deposits : dep' = [dep EXCEPT ![x].status = "reversed"]
        BY <2>4 DEF ReverseStep, ReverseDeposit
      <3> QED BY <2>1, <3>1 DEF TypeOK, DepositRow
    <2>5. CASE SubmitStep
      <3>1. PICK r \in Requests, x \in Deposits :
              req[r].pc = "submit" /\ dep' = [dep EXCEPT ![x] = SubmittedRow(req[r])]
        BY <2>5 DEF SubmitStep, Submit
      <3>2. SubmittedRow(req[r]).refunded = 0
        BY DEF SubmittedRow
      <3> QED BY <2>1, <3>1, <3>2 DEF TypeOK
    <2>6. CASE EndorseStep
      <3>1. PICK r \in Requests, a \in Accounts :
              dep' = [dep EXCEPT ![req[r].dep].status = "pending_approver",
                                 ![req[r].dep].endorsed = TRUE, ![req[r].dep].account = a]
        BY <2>6, ZenonT(30) DEF EndorseStep, Endorse
      <3> QED BY <2>1, <3>1, SMTT(30) DEF TypeOK, DepositRow
    <2>7. CASE CloseStep
      <3>1. PICK x \in Deposits, s \in {"rejected", "removed"} : CloseDeposit(x, s)
        BY <2>7 DEF CloseStep, Reject, Remove
      <3> QED BY <2>1, <3>1 DEF CloseDeposit, TypeOK, DepositRow
    <2>8. CASE RepairStep
      <3>1. PICK x \in Deposits, k \in Kinds : dep' = [dep EXCEPT ![x] = ResolvedRow(x, k)]
        BY <2>8 DEF RepairStep, ResolveAllocation, TypeOK, DepositRow, Kinds
      <3>2. ResolvedRow(x, k).refunded = dep[x].refunded
        BY ResolvedType
      <3> QED BY <2>1, <3>1, <3>2 DEF TypeOK
    <2>9. CASE UNCHANGED dep
      BY <2>1, <2>9
    <2> QED BY <2>2, <2>3, <2>4, <2>5, <2>6, <2>7, <2>8, <2>9, Writers
  <1> DEFINE Owned(d, u) ==
        /\ ~alloc'[d][u].linked => alloc'[d][u].amount = 0
        /\ alloc'[d][u].amount > 0 => dep'[d].status \in Posted /\ Owner(u) = dep'[d].member
  <1>2. NoAlloc.amount = 0 /\ Link.amount = 0 /\ Link.linked
    BY DEF NoAlloc, Link
  <1>3. ASSUME NEW d \in Deposits, NEW u \in Dues,
               alloc'[d][u] = alloc[d][u] \/ alloc'[d][u] \in {NoAlloc, Link}
        PROVE  Owned(d, u)
    <2>1. dep[d].status \in Posted => dep'[d].status \in Posted /\ dep'[d].member = dep[d].member
      BY DepositSteps DEF Posted
    <2> QED BY <1>0, <1>2, <1>3, <2>1 DEF AllocationsOwned
  <1>4. ASSUME NEW d \in Deposits, NEW u \in Dues PROVE Owned(d, u)
    <2>1. CASE PostingStep
      <3>1. PICK x \in Deposits, row \in DepositRow, D \in SUBSET Dues :
              /\ PostDeposit(x, row, D)
              /\ \A v \in D : Owner(v) = row.member
        BY <2>1, PostingFacts
      <3>2. CASE d = x /\ u \in D
        <4>1. PICK n : alloc'[d][u] = PostedAlloc(u, n, row.kind)
          BY <3>1, <3>2 DEF PostDeposit, TypeOK
        <4>2. alloc'[d][u].linked
          BY <4>1 DEF PostedAlloc
        <4>3. dep'[d].status = "confirmed" /\ dep'[d].member = row.member
          BY <3>1, <3>2 DEF PostDeposit, TypeOK, DepositRow
        <4> QED BY <3>1, <3>2, <4>2, <4>3 DEF Posted
      <3>3. CASE ~(d = x /\ u \in D)
        <4>1. alloc'[d][u] = alloc[d][u] \/ alloc'[d][u] = NoAlloc
          BY <3>1, <3>3 DEF PostDeposit, TypeOK
        <4> QED BY <1>3, <4>1
      <3> QED BY <3>2, <3>3
    <2>2. CASE BillStep \/ SettleStep
      <3>1. PICK r \in Requests : BillCommit(r) \/ SettleCommit(r)
        BY <2>2 DEF BillStep, SettleStep
      <3>2. CASE req[r].take[d][u] > 0
        <4>1. alloc'[d][u].linked /\ dep[d].status \in Posted /\ dep[d].member = Owner(u)
          BY <3>1, <3>2, TakenAdded
        <4>2. dep'[d].status \in Posted /\ dep'[d].member = dep[d].member
          BY <4>1, DepositSteps DEF Posted
        <4> QED BY <4>1, <4>2
      <3>3. CASE ~(req[r].take[d][u] > 0)
        BY <1>3, <3>1, <3>3, TakenAdded
      <3> QED BY <3>2, <3>3
    <2>3. CASE SubmitStep
      <3>1. PICK r \in Requests, x \in Deposits :
              alloc' = [alloc EXCEPT ![x] = [v \in Dues |-> IF v \in req[r].dues THEN Link ELSE NoAlloc]]
        BY <2>3 DEF SubmitStep, Submit
      <3> QED BY <1>3, <3>1 DEF TypeOK
    <2>4. CASE CloseStep
      <3>1. PICK x \in Deposits : \/ alloc' = alloc
                                  \/ alloc' = [alloc EXCEPT ![x] = [v \in Dues |-> NoAlloc]]
        BY <2>4 DEF CloseStep, Reject, Remove
      <3>2. PICK w : w = [v \in Dues |-> NoAlloc]
        OBVIOUS
      <3>3. \/ alloc' = alloc
            \/ alloc'[d] = w \/ alloc'[d] = alloc[d]
        BY <3>1, <3>2 DEF TypeOK
      <3>4. w[u] = NoAlloc
        BY <3>2
      <3>5. alloc'[d][u] = alloc[d][u] \/ alloc'[d][u] = NoAlloc
        BY <3>3, <3>4
      <3> HIDE DEF Owned
      <3> QED BY <1>3, <3>5
    <2>5. CASE RepairStep
      <3>1. PICK x \in Deposits : ResolveAllocation(x)
        BY <2>5 DEF RepairStep
      <3>2. PICK w : /\ alloc' = [alloc EXCEPT ![x] = w]
                     /\ \/ w = Reassigned(UnpaidDues(dep[x].member), dep[x].amount)
                        \/ w = [v \in Dues |-> NoAlloc]
        BY <3>1 DEF ResolveAllocation
      <3>3. w[u] \in {Link, NoAlloc}
        BY <3>2 DEF Reassigned
      <3>4. alloc'[d][u] \in {alloc[d][u], w[u]}
        BY <3>2 DEF TypeOK
      <3>5. alloc'[d][u] = alloc[d][u] \/ alloc'[d][u] \in {NoAlloc, Link}
        BY <3>3, <3>4
      <3> HIDE DEF Owned
      <3> QED BY <1>3, <3>5
    <2>6. CASE UNCHANGED alloc
      BY <1>3, <2>6
    <2> QED BY <2>1, <2>2, <2>3, <2>4, <2>5, <2>6, AllocWriters
  <1> QED BY <1>1, <1>4 DEF AllocationsOwned

\* One application of an advance, in numbers.
Applied(a, q, d, u, n) ==
  /\ IsAdvanceOf(q.was.dep[d], Owner(u))
  /\ n <= LeftOf(q, d) /\ n <= CalculateDueBalance(q.due[u])
  /\ a.was = q.was /\ a.pc = q.pc
  /\ a.due = [q.due EXCEPT ![u] = AllocatePayment(@, n, "penalty_first")]
  /\ a.take = [q.take EXCEPT ![d][u] = @ + n]

LEMMA ApplyEffect ==
  ASSUME NEW q \in Work, NEW D \in SUBSET Dues, Applicable(q, D) # {}
  PROVE  \E d \in Deposits, u \in D, n \in Nat :
           Applied(ApplyAdvance(q, Earliest(Applicable(q, D))), q, d, u, n)
  <1>1. PICK t : t = Earliest(Applicable(q, D))
    OBVIOUS
  <1>2. t \in Applicable(q, D) /\ t[1] \in Deposits /\ t[2] \in D
    BY <1>1, ApplyAdvanceType
  <1>3. PICK d \in Deposits, u \in D : d = t[1] /\ u = t[2]
    BY <1>2
  <1>4. PICK n : n = Lesser(LeftOf(q, d), CalculateDueBalance(q.due[u]))
    OBVIOUS
  <1>5. q.due \in [Dues -> DueRow] /\ q.take \in Taken
    BY DEF Work, SettleReq, BillReq
  <1>6. n \in Nat /\ n <= LeftOf(q, d) /\ n <= CalculateDueBalance(q.due[u])
    <2>1. q.due[u] \in Money
      BY <1>5 DEF Money
    <2> QED BY <1>4, <2>1, BalanceType, LeftType DEF Lesser
  <1>7. PICK rows, taken : /\ rows = [q.due EXCEPT ![u] = AllocatePayment(@, n, "penalty_first")]
                           /\ taken = [q.take EXCEPT ![d][u] = @ + n]
    OBVIOUS
  <1>8. PICK a : a = ApplyAdvance(q, Earliest(Applicable(q, D)))
    OBVIOUS
  <1>9. a = [q EXCEPT !.due = rows, !.take = taken]
    BY <1>1, <1>3, <1>4, <1>5, <1>7, <1>8 DEF ApplyAdvance, Work, SettleReq, BillReq
  <1>10. a.was = q.was /\ a.pc = q.pc /\ a.due = rows /\ a.take = taken
    BY <1>9 DEF Work, SettleReq, BillReq
  <1>11. IsAdvanceOf(q.was.dep[d], Owner(u))
    BY <1>2, <1>3 DEF Applicable
  <1>12. Applied(a, q, d, u, n)
    BY <1>6, <1>7, <1>10, <1>11 DEF Applied
  <1> QED BY <1>6, <1>8, <1>12

LEMMA TakenForType ==
  ASSUME NEW q \in Work, NEW u \in Dues
  PROVE  TakenFor(q, u) \in Nat
  <1>1. \A d \in Deposits : [x \in Deposits |-> q.take[x][u]][d] \in Nat
    BY DEF Work, SettleReq, BillReq, Taken
  <1> QED BY <1>1, FiniteTables, SumIsNatural DEF TakenFor

LEMMA ApplyOwned ==
  ASSUME NEW q \in Work, NEW D \in SUBSET Dues, Applicable(q, D) # {}, CopyOwned(q)
  PROVE  LET a == ApplyAdvance(q, Earliest(Applicable(q, D)))
         IN  CopyOwned(a) /\ (SettleBalanced(q) => SettleBalanced(a))
  <1>1. PICK a : a = ApplyAdvance(q, Earliest(Applicable(q, D)))
    OBVIOUS
  <1>2. PICK d \in Deposits, u \in D, n \in Nat : Applied(a, q, d, u, n)
    BY <1>1, ApplyEffect
  <1> USE DEF Applied
  <1>3. q.due \in [Dues -> DueRow] /\ q.take \in Taken /\ u \in Dues
    BY DEF Work, SettleReq, BillReq
  <1>4. CopyOwned(a)
    <2>1. ASSUME NEW x \in Deposits, NEW v \in Dues, a.take[x][v] > 0
          PROVE  q.was.dep[x].member = Owner(v)
      <3>1. CASE x = d /\ v = u
        BY <1>2, <3>1 DEF IsAdvanceOf
      <3>2. CASE ~(x = d /\ v = u)
        <4>1. a.take[x][v] = q.take[x][v]
          BY <1>2, <1>3, <3>2 DEF Taken
        <4> QED BY <2>1, <4>1 DEF CopyOwned
      <3> QED BY <3>1, <3>2
    <2> QED BY <1>2, <2>1 DEF CopyOwned
  <1>5. ASSUME SettleBalanced(q), NEW v \in Dues
        PROVE  /\ Received(a.due[v]) = Received(a.was.due[v]) + TakenFor(a, v)
               /\ CalculateDueBalance(a.due[v]) <= CalculateDueBalance(a.was.due[v])
    <2>1. /\ Received(q.due[v]) = Received(q.was.due[v]) + TakenFor(q, v)
          /\ CalculateDueBalance(q.due[v]) <= CalculateDueBalance(q.was.due[v])
      BY <1>5 DEF SettleBalanced
    <2>2. PICK f, g : f = [x \in Deposits |-> q.take[x][v]] /\ g = [x \in Deposits |-> a.take[x][v]]
      OBVIOUS
    <2>3. TakenFor(q, v) = SumOver(f, Deposits) /\ TakenFor(a, v) = SumOver(g, Deposits)
      BY <2>2 DEF TakenFor
    <2>4. CASE v = u
      <3>1. a.due[u] = AllocatePayment(q.due[u], n, "penalty_first")
        BY <1>2, <1>3
      <3>2. /\ PrincipalShare(q.due[u], n, "penalty_first")
                 + PenaltyShare(q.due[u], n, "penalty_first") = n
            /\ CalculateDueBalance(a.due[u]) = CalculateDueBalance(q.due[u]) - n
        <4>1. n \in 0 .. CalculateDueBalance(q.due[u]) /\ q.due[u] \in DueRow
          <5>1. CalculateDueBalance(q.due[u]) \in Nat
            BY <1>3, BalanceType DEF Money
          <5> QED BY <1>2, <1>3, <5>1
        <4> QED BY <3>1, <4>1, PaymentConserved
      <3>3. /\ a.due[u].paid = q.due[u].paid + PrincipalShare(q.due[u], n, "penalty_first")
            /\ a.due[u].penaltyPaid = q.due[u].penaltyPaid
                                        + PenaltyShare(q.due[u], n, "penalty_first")
        BY <1>3, <3>1, AllocateType
      <3>4. Received(a.due[u]) = Received(q.due[u]) + n
        <4>1. q.due[u].paid \in Int /\ q.due[u].penaltyPaid \in Int
          BY <1>3 DEF DueRow
        <4>2. /\ PrincipalShare(q.due[u], n, "penalty_first") \in 0 .. n
              /\ PenaltyShare(q.due[u], n, "penalty_first") \in 0 .. n
          BY <1>3, SharesType
        <4> QED BY <3>2, <3>3, <4>1, <4>2 DEF Received
      <3>5. TakenFor(a, u) = TakenFor(q, u) + n
        <4>1. /\ \A x \in Deposits : f[x] \in Nat
              /\ g[d] = f[d] + n
              /\ \A x \in Deposits \ {d} : g[x] = f[x]
          BY <1>2, <1>3, <2>2, <2>4 DEF Taken
        <4>2. \A x \in Deposits : f[x] \in Int /\ g[x] \in Int
          BY <4>1
        <4>3. SumOver(g, Deposits) = SumOver(f, Deposits) + g[d] - f[d]
          <5>1. IsFiniteSet(Deposits) /\ \A x \in Deposits \ {d} : g[x] = f[x]
            BY <4>1, FiniteTables
          <5> QED BY <4>2, <5>1, SumUpdate
        <4>4. f[d] \in Int /\ SumOver(f, Deposits) \in Int
          BY <4>2, FiniteTables, SumIsInteger
        <4> QED BY <2>3, <2>4, <4>1, <4>3, <4>4
      <3>6. /\ CalculateDueBalance(q.due[u]) \in Int /\ CalculateDueBalance(q.was.due[u]) \in Int
            /\ Received(q.was.due[u]) \in Int /\ TakenFor(q, u) \in Int
        <4>1. q.was.due[u] \in DueRow
          BY <1>3 DEF Work, SettleReq, BillReq, Snapshot
        <4>2. Received(q.was.due[u]) \in Int
          BY <4>1 DEF Received, DueRow
        <4> QED BY <1>3, <4>1, <4>2, BalanceType, TakenForType DEF Money
      <3> QED BY <1>2, <2>1, <2>4, <3>2, <3>4, <3>5, <3>6
    <2>5. CASE v # u
      <3>1. a.due[v] = q.due[v]
        BY <1>2, <1>3, <2>5
      <3>2. \A x \in Deposits : g[x] = f[x]
        BY <1>2, <1>3, <2>2, <2>5 DEF Taken
      <3>3. TakenFor(a, v) = TakenFor(q, v)
        BY <2>3, <3>2, FiniteTables, SumAgrees
      <3> QED BY <1>2, <2>1, <3>1, <3>3
    <2> QED BY <2>4, <2>5
  <1> QED BY <1>1, <1>4, <1>5 DEF SettleBalanced

LEMMA NothingTaken ==
  ASSUME NEW q, q.take = TakeNothing
  PROVE  /\ \A u \in Dues : TakenFor(q, u) = 0
         /\ \A d \in Deposits : SumTaken(q.take[d]) = 0
         /\ \A d \in Deposits, u \in Dues : q.take[d][u] = 0
  <1>1. \A d \in Deposits, u \in Dues : q.take[d][u] = 0
    BY DEF TakeNothing
  <1>2. ASSUME NEW u \in Dues PROVE TakenFor(q, u) = 0
    <2>1. \A d \in Deposits : [x \in Deposits |-> q.take[x][u]][d] = 0
      BY <1>1
    <2> QED BY <2>1, FiniteTables, SumOfZeros DEF TakenFor
  <1>3. ASSUME NEW d \in Deposits PROVE SumTaken(q.take[d]) = 0
    BY <1>1, FiniteTables, SumOfZeros DEF SumTaken
  <1> QED BY <1>1, <1>2, <1>3

\* A copy is as it was, or new, or has applied an advance.
LEMMA CopySteps ==
  ASSUME LedgerFacts, [Next]_vars, NEW r \in Requests, req'[r].pc \in {"settle", "bill"}
  PROVE  \/ req'[r] = req[r]
         \/ /\ req'[r].was = TheBooks /\ req'[r].take = TakeNothing
            /\ UNCHANGED <<dep, alloc, receipt, entries, due, balance, spent, active, route, promise>>
            /\ \/ req'[r].pc = "settle" /\ req'[r].due = due
               \/ /\ "bill" \in Ops /\ req'[r].pc = "bill"
                  /\ \E s \in Schedules, unit \in Amounts :
                       req'[r].due = [u \in Dues |-> IF u \in BilledBy(s) THEN NewDue(unit, Owner(u))
                                                     ELSE due[u]]
         \/ \E D \in SUBSET Dues :
              /\ req[r] \in Work /\ Applicable(req[r], D) # {}
              /\ req'[r] = ApplyAdvance(req[r], Earliest(Applicable(req[r], D)))
              /\ req'[r].pc = req[r].pc
              /\ UNCHANGED <<dep, alloc, receipt, entries, due, balance, spent, active, route, promise>>
  <1> USE DEF LedgerFacts
  <1>1. ASSUME NEW q, Become(r, q) PROVE req'[r] = q
    BY <1>1 DEF Become, TypeOK
  <1>2. CASE StartBilling(r)
    <2>1. PICK s \in Schedules, unit \in Amounts :
            Become(r, [pc |-> "bill", dues |-> BilledBy(s), was |-> TheBooks,
                       due  |-> [u \in Dues |-> IF u \in BilledBy(s)
                                                THEN NewDue(unit, Owner(u)) ELSE due[u]],
                       take |-> TakeNothing])
      BY <1>2 DEF StartBilling
    <2>2. PICK rows : rows = [u \in Dues |-> IF u \in BilledBy(s) THEN NewDue(unit, Owner(u))
                                             ELSE due[u]]
      OBVIOUS
    <2>3. /\ req'[r].was = TheBooks /\ req'[r].take = TakeNothing /\ req'[r].pc = "bill"
          /\ req'[r].due = rows
      <3>1. req'[r] = [pc |-> "bill", dues |-> BilledBy(s), was |-> TheBooks, due |-> rows,
                       take |-> TakeNothing]
        BY <1>1, <2>1, <2>2
      <3> QED BY <3>1
    <2> QED BY <1>2, <2>2, <2>3 DEF StartBilling
  <1>3. CASE StartSettle(r)
    <2>1. \E q : /\ Become(r, q) /\ q.pc = "settle" /\ q.was = TheBooks /\ q.take = TakeNothing
                 /\ q.due = due
      BY <1>3 DEF StartSettle
    <2> QED BY <1>1, <1>3, <2>1 DEF StartSettle
  <1>4. CASE BillApply(r)
    <2>1. req[r] \in Work /\ req[r].dues \in SUBSET Dues
      BY <1>4, RequestByStage DEF BillApply, TypeOK, Work, BillReq
    <2>2. /\ Applicable(req[r], req[r].dues) # {}
          /\ req'[r] = ApplyAdvance(req[r], Earliest(Applicable(req[r], req[r].dues)))
      BY <1>1, <1>4 DEF BillApply
    <2>3. req'[r].pc = req[r].pc
      <3>1. PICK a : a = ApplyAdvance(req[r], Earliest(Applicable(req[r], req[r].dues)))
        OBVIOUS
      <3>2. a.pc = req[r].pc
        BY <2>1, <2>2, <3>1, ApplyEffect DEF Applied
      <3> QED BY <2>2, <3>1, <3>2
    <2> QED BY <1>4, <2>1, <2>2, <2>3 DEF BillApply
  <1>5. CASE SettleApply(r)
    <2>1. req[r] \in Work /\ OwnDues(req[r]) \in SUBSET Dues
      BY <1>5, RequestByStage DEF SettleApply, TypeOK, Work, OwnDues
    <2>2. /\ Applicable(req[r], OwnDues(req[r])) # {}
          /\ req'[r] = ApplyAdvance(req[r], Earliest(Applicable(req[r], OwnDues(req[r]))))
      BY <1>1, <1>5 DEF SettleApply, ToApply
    <2>3. req'[r].pc = req[r].pc
      <3>1. PICK a : a = ApplyAdvance(req[r], Earliest(Applicable(req[r], OwnDues(req[r]))))
        OBVIOUS
      <3>2. a.pc = req[r].pc
        BY <2>1, <2>2, <3>1, ApplyEffect DEF Applied
      <3> QED BY <2>2, <3>1, <3>2
    <2> QED BY <1>5, <2>1, <2>2, <2>3 DEF SettleApply
  <1> QED BY <1>2, <1>3, <1>4, <1>5, CopyWriters

LEMMA CopiesOwnedStep ==
  ASSUME LedgerFacts, OwnFacts, [Next]_vars
  PROVE  CopiesOwned'
  <1> USE DEF LedgerFacts
  <1> SUFFICES ASSUME NEW r \in Requests, req'[r].pc \in {"settle", "bill"}
               PROVE  CopyOwned(req[r])' /\ (req'[r].pc = "settle" => SettleBalanced(req[r])')
    BY DEF CopiesOwned
  <1>1. CASE req'[r] = req[r]
    <2>1. CopyOwned(req[r]) /\ CopyKnows(req[r]) /\ (req[r].pc = "settle" => SettleBalanced(req[r]))
      BY <1>1 DEF OwnFacts, CopiesOwned, RequestsAgree, Knows, BillKnows, SettleKnows
    <2>2. \A d \in Deposits : dep[d].status \in Posted =>
            dep'[d].member = dep[d].member /\ dep'[d].amount = dep[d].amount
      BY DepositSteps DEF Posted
    <2> QED BY <1>1, <2>1, <2>2 DEF CopyOwned, CopyKnows, SettleBalanced, TakenFor
  <1>2. CASE req'[r].was = TheBooks /\ req'[r].take = TakeNothing /\ UNCHANGED <<dep, due>>
             /\ (req'[r].pc = "bill" \/ req'[r].due = due)
    <2>1. /\ \A u \in Dues : TakenFor(req'[r], u) = 0
          /\ \A d \in Deposits, u \in Dues : req'[r].take[d][u] = 0
      BY <1>2, NothingTaken
    <2>2. req'[r].was.dep = dep /\ req'[r].was.due = due
      BY <1>2 DEF TheBooks
    <2>3. \A u \in Dues : Received(due[u]) \in Nat /\ CalculateDueBalance(due[u]) \in Nat
      BY BalanceType DEF TypeOK, Money, Received, DueRow
    <2>4. CopyOwned(req[r])'
      BY <1>2, <2>1, <2>2 DEF CopyOwned
    <2>5. req'[r].pc = "settle" => SettleBalanced(req[r])'
      BY <1>2, <2>1, <2>2, <2>3 DEF SettleBalanced, TakenFor
    <2> QED BY <2>4, <2>5
  <1>3. ASSUME NEW D \in SUBSET Dues, req[r] \in Work, Applicable(req[r], D) # {},
               req'[r] = ApplyAdvance(req[r], Earliest(Applicable(req[r], D))),
               req'[r].pc = req[r].pc, UNCHANGED dep
        PROVE  CopyOwned(req[r])' /\ (req'[r].pc = "settle" => SettleBalanced(req[r])')
    <2>1. CopyOwned(req[r]) /\ (req[r].pc = "settle" => SettleBalanced(req[r]))
      BY <1>3 DEF OwnFacts, CopiesOwned
    <2>2. CopyOwned(req'[r]) /\ (req[r].pc = "settle" => SettleBalanced(req'[r]))
      BY <1>3, <2>1, ApplyOwned
    <2> QED BY <1>3, <2>2 DEF CopyOwned, SettleBalanced, TakenFor
  <1> QED BY <1>1, <1>2, <1>3, CopySteps

LEMMA OwnFactsStep ==
  ASSUME LedgerFacts, OwnFacts, [Next]_vars
  PROVE  OwnFacts'
  BY AllocationsOwnedStep, CopiesOwnedStep DEF OwnFacts

LEMMA OwnFactsInit == Init => OwnFacts
  <1> SUFFICES ASSUME Init PROVE OwnFacts
    OBVIOUS
  <1>1. \A r \in Requests : req[r].pc = "idle"
    BY DEF Init, Idle
  <1>2. \A d \in Deposits, u \in Dues : alloc[d][u] \in {Link, NoAlloc}
    BY DEF Init
  <1>3. NoAlloc.amount = 0 /\ Link.amount = 0
    BY DEF NoAlloc, Link
  <1>4. \A d \in Deposits : dep[d].refunded = 0
    BY OpeningAssumption DEF Init, OpeningAssumption
  <1> QED BY <1>1, <1>2, <1>3, <1>4 DEF OwnFacts, AllocationsOwned, CopiesOwned

-----------------------------------------------------------------------------
(* What each step does to the money of a due and to what backs it.          *)

LEMMA WriteOffKeeps ==
  ASSUME NEW u \in DueRow
  PROVE  /\ Received(WrittenOff(u)) = Received(u)
         /\ CalculateDueBalance(WrittenOff(u)) <= CalculateDueBalance(u)
         /\ CalculateDueBalance(WrittenOff(u)) = 0
  <1>1. Received(WrittenOff(u)) = Received(u)
    BY WrittenOffType DEF Received
  <1>2. CASE CalculateDueBalance(u) = 0
    BY <1>1, <1>2 DEF WrittenOff
  <1>3. CASE CalculateDueBalance(u) # 0
    <2>1. PICK n \in Nat : n = PrincipalBalance(u)
      BY BalanceType DEF Money
    <2>2. /\ WrittenOff(u).paid = u.paid /\ WrittenOff(u).amount = u.amount
          /\ WrittenOff(u).waived = u.waived + n
          /\ WrittenOff(u).penaltyDue = u.penaltyPaid /\ WrittenOff(u).penaltyPaid = u.penaltyPaid
      BY <1>3, <2>1, WrittenOffType
    <2>3. u.amount \in Int /\ u.paid \in Int /\ u.waived \in Int /\ u.penaltyPaid \in Int
      BY DEF DueRow
    <2>4. PrincipalBalance(WrittenOff(u)) = 0
      BY <2>1, <2>2, <2>3 DEF PrincipalBalance, NonNegative
    <2>5. PenaltyBalance(WrittenOff(u)) = 0
      BY <2>2, <2>3 DEF PenaltyBalance, NonNegative
    <2>6. CalculateDueBalance(WrittenOff(u)) = 0
      BY <2>4, <2>5 DEF CalculateDueBalance
    <2> QED BY <1>1, <2>6, BalanceType DEF Money
  <1> QED BY <1>2, <1>3

LEMMA ReceivedType == ASSUME NEW u \in DueRow PROVE Received(u) \in Nat
  BY DEF DueRow, Received

\* A settlement adds to a due what it took for it, and leaves no more owed.
LEMMA SettledRows ==
  ASSUME LedgerFacts, OwnFacts, NEW r \in Requests, SettleCommit(r), NEW u \in Dues
  PROVE  /\ Received(due'[u]) = Received(due[u]) + TakenFor(req[r], u)
         /\ TakenFor(req[r], u) \in Nat
         /\ CalculateDueBalance(due'[u]) <= CalculateDueBalance(due[u])
  <1> USE DEF LedgerFacts
  <1>1. PICK q \in SettleReq : q = req[r] /\ q.pc = "settle"
    BY RequestByStage DEF SettleCommit, TypeOK
  <1>2. /\ q \in Work /\ q.due[u] \in DueRow /\ q.was.due[u] \in DueRow /\ due[u] \in DueRow
    BY <1>1 DEF Work, SettleReq, Snapshot, TypeOK
  <1>3. /\ Received(q.due[u]) = Received(q.was.due[u]) + TakenFor(q, u)
        /\ CalculateDueBalance(q.due[u]) <= CalculateDueBalance(q.was.due[u])
    BY <1>1 DEF OwnFacts, CopiesOwned, SettleBalanced
  <1>4. /\ NoConflict(q)
        /\ due' = [v \in Dues |-> IF v \in OwnDues(q) /\ SettledDue(q, v) # q.was.due[v]
                                 THEN SettledDue(q, v) ELSE due[v]]
    BY <1>1 DEF SettleCommit
  <1>5. TakenFor(q, u) \in Nat
    BY <1>2, TakenForType
  <1>6. /\ Received(q.due[u]) \in Nat /\ Received(q.was.due[u]) \in Nat /\ Received(due[u]) \in Nat
        /\ CalculateDueBalance(q.due[u]) \in Nat /\ CalculateDueBalance(q.was.due[u]) \in Nat
        /\ CalculateDueBalance(due[u]) \in Nat
    BY <1>2, ReceivedType, BalanceType DEF Money
  <1>7. /\ Received(SettledDue(q, u)) = Received(q.due[u])
        /\ CalculateDueBalance(SettledDue(q, u)) <= CalculateDueBalance(q.due[u])
        /\ CalculateDueBalance(SettledDue(q, u)) \in Nat
    <2>1. CASE q.writeOff /\ u \in OwnDues(q)
      <3>1. SettledDue(q, u) = WrittenOff(q.due[u])
        BY <2>1 DEF SettledDue
      <3> QED BY <1>2, <3>1, WriteOffKeeps
    <2>2. CASE ~(q.writeOff /\ u \in OwnDues(q))
      <3>1. SettledDue(q, u) = q.due[u]
        BY <2>2 DEF SettledDue
      <3> QED BY <1>6, <3>1
    <2> QED BY <2>1, <2>2
  <1>8. CASE u \in OwnDues(q) /\ SettledDue(q, u) # q.was.due[u]
    <2>1. due[u] = q.was.due[u] /\ due'[u] = SettledDue(q, u)
      BY <1>4, <1>8 DEF NoConflict
    <2> QED BY <1>1, <1>3, <1>5, <1>6, <1>7, <2>1
  <1>9. CASE u \in OwnDues(q) /\ SettledDue(q, u) = q.was.due[u]
    <2>1. due'[u] = due[u]
      BY <1>4, <1>9
    <2>2. TakenFor(q, u) = 0
      BY <1>3, <1>5, <1>6, <1>7, <1>9
    <2> QED BY <1>1, <1>6, <2>1, <2>2
  <1>10. CASE u \notin OwnDues(q)
    <2>1. due'[u] = due[u]
      BY <1>4, <1>10
    <2>2. \A d \in Deposits : q.take[d][u] = 0
      BY <1>1, <1>10, TakenAdded
    <2>3. TakenFor(q, u) = 0
      <3>1. \A d \in Deposits : [x \in Deposits |-> q.take[x][u]][d] = 0
        BY <2>2
      <3> QED BY <3>1, FiniteTables, SumOfZeros DEF TakenFor
    <2> QED BY <1>1, <1>6, <2>1, <2>3
  <1> QED BY <1>8, <1>9, <1>10

\* A reversal takes back what the deposit had given, from its member's dues.
LEMMA ReversedRows ==
  ASSUME LedgerFacts, OwnFacts, ConfirmedInFull, NEW d \in Deposits, ReverseDeposit(d),
         NEW u \in Dues
  PROVE  /\ Received(due'[u]) = Received(due[u]) - alloc[d][u].amount
         /\ alloc[d][u].amount = 0 => due'[u] = due[u]
         /\ alloc[d][u].amount > 0 => Owner(u) \in active
         /\ dep[d].status = "confirmed" /\ dep' = [dep EXCEPT ![d].status = "reversed"]
  <1> USE DEF LedgerFacts
  <1>1. /\ dep[d].status = "confirmed" /\ dep' = [dep EXCEPT ![d].status = "reversed"]
        /\ dep[d].member \in active
        /\ dep[d].kind = "advance" => \A v \in Linked(d) : alloc[d][v].amount = 0
        /\ \A v \in Linked(d) : /\ alloc[d][v].principal <= due[v].paid
                                /\ alloc[d][v].penalty <= due[v].penaltyPaid
        /\ due' = [v \in Dues |-> IF v \in Linked(d) /\ alloc[d][v].amount > 0
                                  THEN Reopened(d, v) ELSE due[v]]
    BY DEF ReverseDeposit, Reversible
  <1>2. due[u] \in DueRow /\ alloc[d][u] \in AllocRow
    BY DEF TypeOK
  <1>3. ~alloc[d][u].linked => alloc[d][u].amount = 0
    BY DEF OwnFacts, AllocationsOwned
  <1>4. CASE u \in Linked(d) /\ alloc[d][u].amount > 0
    <2>1. due'[u] = Reopened(d, u)
      BY <1>1, <1>4
    <2>2. dep[d].kind # "advance"
      BY <1>1, <1>4
    <2>3. alloc[d][u].principal + alloc[d][u].penalty = alloc[d][u].amount
      BY <1>1, <1>4, <2>2 DEF ConfirmedInFull, ExactSnapshot
    <2>4. /\ Reopened(d, u).paid = due[u].paid - alloc[d][u].principal
          /\ Reopened(d, u).penaltyPaid = due[u].penaltyPaid - alloc[d][u].penalty
      BY <1>1, <1>4, ReopenedType
    <2>5. Received(due'[u]) = Received(due[u]) - alloc[d][u].amount
      BY <1>2, <2>1, <2>3, <2>4 DEF Received, DueRow, AllocRow
    <2>6. Owner(u) = dep[d].member
      BY <1>4 DEF OwnFacts, AllocationsOwned
    <2> QED BY <1>1, <1>4, <2>5, <2>6
  <1>5. CASE ~(u \in Linked(d) /\ alloc[d][u].amount > 0)
    <2>1. alloc[d][u].amount = 0 /\ due'[u] = due[u]
      BY <1>1, <1>2, <1>3, <1>5 DEF Linked, AllocRow
    <2> QED BY <1>1, <1>2, <2>1, ReceivedType
  <1> QED BY <1>4, <1>5

\* A posting gives each due what it allocates to it.
LEMMA PostedRows ==
  ASSUME LedgerFacts, NEW x \in Deposits, NEW row \in DepositRow, NEW D \in SUBSET Dues,
         PostDeposit(x, row, D), NEW u \in Dues
  PROVE  /\ Received(due'[u]) = Received(due[u]) + alloc'[x][u].amount
         /\ u \notin D => due'[u] = due[u]
         /\ dep'[x].status = "confirmed" /\ dep'[x].member = row.member
         /\ \A d \in Deposits \ {x} : dep'[d] = dep[d] /\ alloc'[d] = alloc[d]
  <1> USE DEF LedgerFacts
  <1>1. PICK p \in PlanDepositAllocation(due, D, Rank, row.amount) :
          /\ due' = [v \in Dues |-> IF v \in D THEN AllocatePayment(due[v], p[v], row.kind)
                                               ELSE due[v]]
          /\ alloc' = [alloc EXCEPT ![x] =
                        [v \in Dues |-> IF v \in D THEN PostedAlloc(v, p[v], row.kind)
                                                   ELSE NoAlloc]]
    BY DEF PostDeposit
  <1>2. dep' = [dep EXCEPT ![x] = [row EXCEPT !.status = "confirmed"]]
    BY DEF PostDeposit
  <1>3. /\ dep'[x].status = "confirmed" /\ dep'[x].member = row.member
        /\ \A d \in Deposits \ {x} : dep'[d] = dep[d] /\ alloc'[d] = alloc[d]
    BY <1>1, <1>2 DEF TypeOK, DepositRow
  <1>4. alloc'[x][u] = IF u \in D THEN PostedAlloc(u, p[u], row.kind) ELSE NoAlloc
    BY <1>1 DEF TypeOK
  <1>5. due[u] \in DueRow
    BY DEF TypeOK
  <1>6. CASE u \in D
    <2>1. p[u] \in 0 .. CalculateDueBalance(due[u]) /\ p[u] \in Nat
      <3>1. row.amount \in Nat /\ \A v \in D : due[v] \in Money
        BY DEF DepositRow, TypeOK, Money
      <3>2. p \in [D -> Nat] /\ p[u] \in 0 .. CalculateDueBalance(due[u])
        BY <1>6, <3>1, PlanType
      <3> QED BY <1>6, <3>2
    <2>2. due'[u] = AllocatePayment(due[u], p[u], row.kind)
      BY <1>1, <1>6
    <2>3. PrincipalShare(due[u], p[u], row.kind) + PenaltyShare(due[u], p[u], row.kind) = p[u]
      BY <1>5, <2>1, PaymentConserved
    <2>4. /\ due'[u].paid = due[u].paid + PrincipalShare(due[u], p[u], row.kind)
          /\ due'[u].penaltyPaid = due[u].penaltyPaid + PenaltyShare(due[u], p[u], row.kind)
      BY <1>5, <2>1, <2>2, AllocateType
    <2>5. /\ PrincipalShare(due[u], p[u], row.kind) \in 0 .. p[u]
          /\ PenaltyShare(due[u], p[u], row.kind) \in 0 .. p[u]
      BY <1>5, <2>1, SharesType
    <2>6. due[u].paid \in Int /\ due[u].penaltyPaid \in Int
      BY <1>5 DEF DueRow
    <2>7. Received(due'[u]) = Received(due[u]) + p[u]
      BY <2>1, <2>3, <2>4, <2>5, <2>6 DEF Received
    <2>8. alloc'[x][u].amount = p[u]
      BY <1>4, <1>6 DEF PostedAlloc
    <2> QED BY <1>3, <1>6, <2>7, <2>8
  <1>7. CASE u \notin D
    <2>1. due'[u] = due[u] /\ alloc'[x][u].amount = 0
      BY <1>1, <1>4, <1>7 DEF NoAlloc
    <2> QED BY <1>3, <1>5, <2>1, ReceivedType
  <1> QED BY <1>6, <1>7

\* Every other step but billing leaves the money of dues alone.
LEMMA OtherRows ==
  ASSUME LedgerFacts, [Next]_vars, ~PostingStep, ~SettleStep, ~ReverseStep, ~BillStep,
         NEW u \in Dues
  PROVE  due'[u].paid = due[u].paid /\ due'[u].penaltyPaid = due[u].penaltyPaid
         /\ due'[u].waived = due[u].waived /\ due'[u].amount = due[u].amount
         /\ (due'[u] = due[u] \/ WaiverStep)
  <1>1. CASE WaiverStep
    <2>1. PICK r \in Requests : WaivePenalty(r)
      BY <1>1 DEF WaiverStep
    <2>2. PICK x, n, s : due' = [due EXCEPT ![x].penaltyDue = n, ![x].status = s]
      BY <2>1 DEF WaivePenalty
    <2>3. due[u] \in DueRow
      BY DEF LedgerFacts, TypeOK
    <2> QED BY <1>1, <2>2, <2>3 DEF LedgerFacts, TypeOK, DueRow
  <1>2. CASE UNCHANGED due
    BY <1>2
  <1> QED BY <1>1, <1>2, Writers

LEMMA BackingType ==
  ASSUME TypeOK, NEW d \in Deposits, NEW u \in Dues
  PROVE  Backing(d, u) \in Nat
  BY DEF TypeOK, AllocRow, Backing

NoneBilled == \A r \in Requests : req[r].pc # "bill"

LEMMA NoneBilledStep ==
  ASSUME "bill" \notin Ops, LedgerFacts, NoneBilled, [Next]_vars
  PROVE  NoneBilled'
  <1>1. ASSUME NEW r \in Requests, req'[r].pc = "bill" PROVE FALSE
    <2>1. req[r].pc # "bill"
      BY DEF NoneBilled
    <2> QED BY <1>1, <2>1, CopySteps
  <1> QED BY <1>1 DEF NoneBilled

LEMMA NoBilling ==
  ASSUME NoneBilled PROVE ~BillStep
  BY DEF NoneBilled, BillStep, BillCommit

LEMMA BackedStep ==
  ASSUME LedgerFacts, OwnFacts, ConfirmedInFull, NoneBilled, DuesAreBacked, [Next]_vars
  PROVE  DuesAreBacked'
  <1> SUFFICES ASSUME NEW u \in Dues
               PROVE  Received(due'[u]) = Received(Opening[u])
                        + SumOver([d \in Deposits |-> Backing(d, u)'], Deposits)
    BY DEF DuesAreBacked
  <1>1. PICK f : f = [d \in Deposits |-> Backing(d, u)]
    OBVIOUS
  <1>2. PICK g : g = [d \in Deposits |-> Backing(d, u)']
    OBVIOUS
  <1>3. Received(due[u]) = Received(Opening[u]) + SumOver(f, Deposits)
    BY <1>1 DEF DuesAreBacked
  <1>4. \A d \in Deposits : f[d] \in Nat /\ g[d] \in Nat
    <2>1. TypeOK /\ TypeOK'
      BY FactsStep DEF LedgerFacts
    <2>2. \A d \in Deposits : Backing(d, u) \in Nat
      BY <2>1, BackingType
    <2>3. \A d \in Deposits : Backing(d, u)' \in Nat
      BY <2>1 DEF TypeOK, AllocRow, Backing
    <2> QED BY <1>1, <1>2, <2>2, <2>3
  <1>5. IsFiniteSet(Deposits) /\ \A d \in Deposits : f[d] \in Int /\ g[d] \in Int
    BY <1>4, FiniteTables
  <1>6. /\ SumOver(f, Deposits) \in Int /\ Received(Opening[u]) \in Int
        /\ Received(due[u]) \in Int
    BY <1>5, SumIsInteger, ReceivedType, OpeningAssumption DEF OpeningAssumption, LedgerFacts, TypeOK
  <1>7. SUFFICES Received(due'[u]) = Received(due[u]) + SumOver(g, Deposits) - SumOver(f, Deposits)
    <2>1. SumOver(g, Deposits) \in Int
      BY <1>5, SumIsInteger
    <2> QED BY <1>2, <1>3, <1>6, <1>7, <2>1
  <1>8. CASE PostingStep
    <2>1. PICK x \in Deposits, row \in DepositRow, D \in SUBSET Dues :
            PostDeposit(x, row, D) /\ dep[x].status \in Pending \cup {"none"}
      BY <1>8, PostingFacts DEF LedgerFacts
    <2>2. /\ Received(due'[u]) = Received(due[u]) + alloc'[x][u].amount
          /\ dep'[x].status = "confirmed"
          /\ \A d \in Deposits \ {x} : dep'[d] = dep[d] /\ alloc'[d] = alloc[d]
      BY <2>1, PostedRows
    <2>3. f[x] = 0 /\ g[x] = alloc'[x][u].amount
      BY <1>1, <1>2, <2>1, <2>2 DEF Backing, Pending
    <2>4. \A d \in Deposits \ {x} : g[d] = f[d]
      BY <1>1, <1>2, <2>2 DEF Backing
    <2>5. SumOver(g, Deposits) = SumOver(f, Deposits) + g[x] - f[x]
      BY <1>5, <2>4, SumUpdate
    <2> QED BY <1>5, <1>6, <2>2, <2>3, <2>5
  <1>9. CASE SettleStep
    <2>1. PICK r \in Requests : SettleCommit(r)
      BY <1>9 DEF SettleStep
    <2>2. Received(due'[u]) = Received(due[u]) + TakenFor(req[r], u)
      BY <2>1, SettledRows
    <2>3. PICK h : h = [d \in Deposits |-> req[r].take[d][u]]
      OBVIOUS
    <2>4. TakenFor(req[r], u) = SumOver(h, Deposits)
      BY <2>3 DEF TakenFor
    <2>5. ASSUME NEW d \in Deposits PROVE h[d] \in Int /\ g[d] = f[d] + h[d]
      <3>1. dep'[d].status = dep[d].status
        BY <2>1, SettlementKeepsDeposits DEF LedgerFacts
      <3>2. /\ alloc'[d][u].amount = alloc[d][u].amount + h[d] /\ h[d] \in Nat
            /\ ~(h[d] > 0) => alloc'[d][u] = alloc[d][u]
        BY <2>1, <2>3, TakenAdded
      <3>3. h[d] > 0 => dep[d].status = "confirmed"
        <4>1. SUFFICES ASSUME h[d] > 0 PROVE dep[d].status = "confirmed"
          OBVIOUS
        <4>2. /\ req[r].was.dep[d].status = "confirmed" /\ req[r].was.dep[d].kind = "advance"
              /\ req[r].was.dep[d].member = Owner(u) /\ u \in OwnDues(req[r])
          BY <2>1, <2>3, <4>1, TakenAdded
        <4>3. IsAdvanceOf(req[r].was.dep[d], req[r].member)
          BY <4>2 DEF IsAdvanceOf, OwnDues
        <4> QED BY <2>1, <4>2, <4>3 DEF SettleCommit, NoConflict
      <3>4. alloc[d][u].amount \in Nat
        BY DEF LedgerFacts, TypeOK, AllocRow
      <3> QED BY <1>1, <1>2, <3>1, <3>2, <3>3, <3>4 DEF Backing
    <2>6. SumOver(g, Deposits) = SumOver(f, Deposits) + SumOver(h, Deposits)
      BY <1>5, <2>5, SumOfChanges
    <2>7. SumOver(h, Deposits) \in Int
      BY <1>5, <2>5, SumIsInteger
    <2> QED BY <1>6, <2>2, <2>4, <2>6, <2>7
  <1>10. CASE ReverseStep
    <2>1. PICK x \in Deposits : ReverseDeposit(x)
      BY <1>10 DEF ReverseStep
    <2>2. /\ Received(due'[u]) = Received(due[u]) - alloc[x][u].amount
          /\ dep[x].status = "confirmed" /\ dep' = [dep EXCEPT ![x].status = "reversed"]
      BY <2>1, ReversedRows
    <2>3. alloc' = alloc
      BY <2>1 DEF ReverseDeposit
    <2>4. /\ dep'[x].status = "reversed"
          /\ \A d \in Deposits \ {x} : dep'[d] = dep[d]
      BY <2>2 DEF LedgerFacts, TypeOK, DepositRow
    <2>5. f[x] = alloc[x][u].amount /\ g[x] = 0
      BY <1>1, <1>2, <2>2, <2>4 DEF Backing
    <2>6. \A d \in Deposits \ {x} : g[d] = f[d]
      BY <1>1, <1>2, <2>3, <2>4 DEF Backing
    <2>7. SumOver(g, Deposits) = SumOver(f, Deposits) + g[x] - f[x]
      BY <1>5, <2>6, SumUpdate
    <2> QED BY <1>5, <1>6, <2>2, <2>5, <2>7
  <1>11. CASE ~PostingStep /\ ~SettleStep /\ ~ReverseStep
    <2>1. Received(due'[u]) = Received(due[u])
      BY <1>11, NoBilling, OtherRows DEF Received
    <2>2. ASSUME NEW d \in Deposits PROVE g[d] = f[d]
      <3>1. CASE dep[d].status = "confirmed"
        <4>1. dep'[d].status = "confirmed"
          BY <1>11, <3>1, ConfirmedUntilReversed
        <4>2. alloc'[d] = alloc[d]
          BY <1>11, <3>1, NoBilling, PostedSteps DEF Posted
        <4> QED BY <1>1, <1>2, <3>1, <4>1, <4>2 DEF Backing
      <3>2. CASE dep[d].status # "confirmed"
        <4>1. dep'[d].status # "confirmed"
          BY <1>11, <3>2, ConfirmedByPosting
        <4> QED BY <1>1, <1>2, <3>2, <4>1 DEF Backing
      <3> QED BY <3>1, <3>2
    <2>3. SumOver(g, Deposits) = SumOver(f, Deposits)
      BY <1>5, <2>2, SumAgrees
    <2> QED BY <1>6, <2>1, <2>3
  <1> QED BY <1>8, <1>9, <1>10, <1>11

\* A due that is not on the books yet has received nothing.
NoneEmpty == \A u \in Dues : due[u].status = "none" => due[u] = NoDue

LEMMA NoneEmptyStep ==
  ASSUME LedgerFacts, NoneEmpty, [Next]_vars
  PROVE  NoneEmpty'
  BY DueSteps DEF LedgerFacts, NoneEmpty

CreditKept(u) ==
  Received(due'[u]) < Received(due[u]) =>
    \E d \in Deposits : /\ dep[d].status = "confirmed" /\ dep'[d].status = "reversed"
                        /\ Received(due'[u]) = Received(due[u]) - alloc[d][u].amount

LEMMA CreditStep ==
  ASSUME LedgerFacts, OwnFacts, ConfirmedInFull, NoneEmpty, [Next]_vars, NEW u \in Dues
  PROVE  CreditKept(u)
  <1>1. due[u] \in DueRow /\ due'[u] \in DueRow
    BY FactsStep DEF LedgerFacts, TypeOK
  <1>2. Received(due[u]) \in Nat /\ Received(due'[u]) \in Nat
    BY <1>1, ReceivedType
  <1>3. CASE PostingStep
    <2>1. PICK x \in Deposits, row \in DepositRow, D \in SUBSET Dues : PostDeposit(x, row, D)
      BY <1>3, PostingFacts DEF LedgerFacts
    <2>2. Received(due'[u]) = Received(due[u]) + alloc'[x][u].amount
      BY <2>1, PostedRows
    <2>3. alloc'[x][u].amount \in Nat
      BY FactsStep DEF LedgerFacts, TypeOK, AllocRow
    <2> QED BY <1>2, <2>2, <2>3 DEF CreditKept
  <1>4. CASE SettleStep
    <2>1. PICK r \in Requests : SettleCommit(r)
      BY <1>4 DEF SettleStep
    <2> QED BY <1>2, <2>1, SettledRows DEF CreditKept
  <1>5. CASE ReverseStep
    <2>1. PICK x \in Deposits : ReverseDeposit(x)
      BY <1>5 DEF ReverseStep
    <2>2. /\ Received(due'[u]) = Received(due[u]) - alloc[x][u].amount
          /\ dep[x].status = "confirmed" /\ dep' = [dep EXCEPT ![x].status = "reversed"]
      BY <2>1, ReversedRows
    <2>3. dep'[x].status = "reversed"
      BY <2>2 DEF LedgerFacts, TypeOK, DepositRow
    <2> QED BY <2>2, <2>3 DEF CreditKept
  <1>6. CASE BillStep
    <2>1. PICK r \in Requests : BillCommit(r)
      BY <1>6 DEF BillStep
    <2>2. CASE u \in req[r].dues
      <3>1. due[u].status = "none"
        BY <2>1, <2>2 DEF LedgerFacts, RequestsAgree, Knows, BillKnows, BillCommit
      <3>2. Received(due[u]) = 0
        BY <3>1 DEF NoneEmpty, NoDue, Received
      <3> QED BY <1>2, <3>2 DEF CreditKept
    <2>3. CASE u \notin req[r].dues
      BY <1>2, <2>1, <2>3 DEF BillCommit, CreditKept
    <2> QED BY <2>2, <2>3
  <1>7. CASE ~PostingStep /\ ~SettleStep /\ ~ReverseStep /\ ~BillStep
    <2>1. Received(due'[u]) = Received(due[u])
      BY <1>7, OtherRows DEF Received
    <2> QED BY <1>2, <2>1 DEF CreditKept
  <1> QED BY <1>3, <1>4, <1>5, <1>6, <1>7

-----------------------------------------------------------------------------
(* Advances are spent once.                                                 *)

TakesFit(q) ==
  \A d \in Deposits : q.was.dep[d].status = "confirmed" =>
    AllocatedOf(q.was.alloc[d]) + q.was.dep[d].refunded + SumTaken(q.take[d])
      <= q.was.dep[d].amount

AdvanceFacts ==
  AdvanceNotOverspent /\ \A r \in Requests : req[r].pc \in {"settle", "bill"} => TakesFit(req[r])

\* What a commit relies on: the advances it takes from, where they have not
\* been reversed meanwhile, are as it read them.
CopyCurrent(q) ==
  \A d \in Deposits :
    /\ dep[d].status = "confirmed"
    /\ (\E u \in Dues : q.take[d][u] > 0) \/ (q.pc = "settle" /\ RefundOf(q, d) > 0)
    => /\ dep[d] = q.was.dep[d]
       /\ AllocatedOf(alloc[d]) <= AllocatedOf(q.was.alloc[d])

LEMMA SumMonotone ==
  ASSUME NEW S, IsFiniteSet(S), NEW f, NEW g,
         \A x \in S : f[x] \in Int /\ g[x] \in Int /\ f[x] <= g[x]
  PROVE  SumOver(f, S) <= SumOver(g, S)
  <1>1. PICK h : h = [x \in S |-> g[x] - f[x]]
    OBVIOUS
  <1>2. \A x \in S : h[x] \in Nat /\ h[x] \in Int /\ g[x] = f[x] + h[x]
    BY <1>1
  <1>3. SumOver(g, S) = SumOver(f, S) + SumOver(h, S)
    BY <1>2, SumOfChanges
  <1>4. SumOver(h, S) \in Nat /\ SumOver(f, S) \in Int
    BY <1>2, SumIsNatural, SumIsInteger
  <1> QED BY <1>3, <1>4

LEMMA SumTakenType ==
  ASSUME NEW q \in Work, NEW d \in Deposits
  PROVE  SumTaken(q.take[d]) \in Nat /\ AllocatedOf(q.was.alloc[d]) \in Nat
         /\ q.was.dep[d] \in DepositRow
  <1>1. \A u \in Dues : q.take[d][u] \in Nat
    BY DEF Work, SettleReq, BillReq, Taken
  <1>2. q.was.alloc[d] \in [Dues -> AllocRow] /\ q.was.dep[d] \in DepositRow
    BY DEF Work, SettleReq, BillReq, Snapshot
  <1> QED BY <1>1, <1>2, FiniteTables, SumIsNatural, UnusedType DEF SumTaken

\* What is left of an advance that has not been overspent.
LEMMA LeftExactly ==
  ASSUME NEW q \in Work, NEW d \in Deposits, q.was.dep[d].status = "confirmed", TakesFit(q)
  PROVE  AllocatedOf(q.was.alloc[d]) + q.was.dep[d].refunded + SumTaken(q.take[d]) + LeftOf(q, d)
           = q.was.dep[d].amount
  <1>1. PICK A, R, T, N : /\ A = AllocatedOf(q.was.alloc[d]) /\ R = q.was.dep[d].refunded
                          /\ T = SumTaken(q.take[d]) /\ N = q.was.dep[d].amount
    OBVIOUS
  <1>2. A \in Nat /\ R \in Nat /\ T \in Nat /\ N \in Nat
    BY <1>1, SumTakenType DEF DepositRow
  <1>3. A + R + T <= N
    BY <1>1 DEF TakesFit
  <1>4. LeftOf(q, d) = NonNegative(NonNegative(N - A - R) - T)
    BY <1>1 DEF LeftOf, UnusedAdvance
  <1>5. LeftOf(q, d) = N - A - R - T
    BY <1>2, <1>3, <1>4 DEF NonNegative
  <1> QED BY <1>1, <1>2, <1>5

LEMMA ApplyFitsAdvance ==
  ASSUME NEW q \in Work, NEW D \in SUBSET Dues, Applicable(q, D) # {}, TakesFit(q)
  PROVE  TakesFit(ApplyAdvance(q, Earliest(Applicable(q, D))))
  <1>1. PICK a : a = ApplyAdvance(q, Earliest(Applicable(q, D)))
    OBVIOUS
  <1>2. PICK d \in Deposits, u \in D, n \in Nat : Applied(a, q, d, u, n)
    BY <1>1, ApplyEffect
  <1> USE DEF Applied
  <1>3. q.take \in Taken /\ u \in Dues
    BY DEF Work, SettleReq, BillReq
  <1>4. ASSUME NEW x \in Deposits, q.was.dep[x].status = "confirmed"
        PROVE  AllocatedOf(q.was.alloc[x]) + q.was.dep[x].refunded + SumTaken(a.take[x])
                 <= q.was.dep[x].amount
    <2>1. CASE x # d
      <3>1. a.take[x] = q.take[x]
        BY <1>2, <1>3, <2>1 DEF Taken
      <3> QED BY <1>4, <3>1 DEF TakesFit
    <2>2. CASE x = d
      <3>1. PICK f, g : f = q.take[d] /\ g = a.take[d]
        OBVIOUS
      <3>2. /\ \A v \in Dues : f[v] \in Int /\ g[v] \in Int
            /\ \A v \in Dues \ {u} : g[v] = f[v]
            /\ g[u] = f[u] + n
        BY <1>2, <1>3, <3>1 DEF Taken
      <3>3. SumOver(g, Dues) = SumOver(f, Dues) + g[u] - f[u]
        <4>1. \A v \in Dues : f[v] \in Int /\ g[v] \in Int
          BY <3>2
        <4>2. \A v \in Dues \ {u} : g[v] = f[v]
          BY <3>2
        <4>3. IsFiniteSet(Dues) /\ u \in Dues
          BY <1>3, FiniteTables
        <4> QED BY <4>1, <4>2, <4>3, SumUpdate
      <3>4. SumOver(f, Dues) \in Nat /\ f[u] \in Int
        BY <1>3, <3>1, <3>2, SumTakenType DEF SumTaken
      <3>5. SumTaken(g) = SumTaken(f) + n
        BY <3>2, <3>3, <3>4 DEF SumTaken
      <3>6. AllocatedOf(q.was.alloc[d]) + q.was.dep[d].refunded + SumTaken(f) + LeftOf(q, d)
              = q.was.dep[d].amount
        BY <1>4, <2>2, <3>1, LeftExactly
      <3>7. /\ AllocatedOf(q.was.alloc[d]) \in Nat /\ q.was.dep[d].refunded \in Nat
            /\ SumTaken(f) \in Nat /\ LeftOf(q, d) \in Nat /\ q.was.dep[d].amount \in Nat
        BY <3>1, SumTakenType, LeftType DEF DepositRow
      <3> QED BY <1>2, <2>2, <3>1, <3>5, <3>6, <3>7
    <2> QED BY <2>1, <2>2
  <1> QED BY <1>1, <1>2, <1>4 DEF TakesFit

LEMMA TakesFitStep ==
  ASSUME LedgerFacts, AdvanceFacts, [Next]_vars, NEW r \in Requests,
         req'[r].pc \in {"settle", "bill"}
  PROVE  TakesFit(req[r])'
  <1>1. CASE req'[r] = req[r]
    BY <1>1 DEF AdvanceFacts, TakesFit
  <1>2. CASE req'[r].was = TheBooks /\ req'[r].take = TakeNothing
    <2>1. \A d \in Deposits : SumTaken(req'[r].take[d]) = 0
      BY <1>2, NothingTaken
    <2>2. req'[r].was.dep = dep /\ req'[r].was.alloc = alloc
      BY <1>2 DEF TheBooks
    <2>3. ASSUME NEW d \in Deposits, dep[d].status = "confirmed"
          PROVE  /\ AllocatedOf(alloc[d]) + dep[d].refunded <= dep[d].amount
                 /\ AllocatedOf(alloc[d]) \in Nat /\ dep[d].refunded \in Nat
      BY <2>3, UnusedType DEF AdvanceFacts, AdvanceNotOverspent, LedgerFacts, TypeOK, DepositRow
    <2> QED BY <2>1, <2>2, <2>3 DEF TakesFit
  <1>3. ASSUME NEW D \in SUBSET Dues, req[r] \in Work, Applicable(req[r], D) # {},
               req'[r] = ApplyAdvance(req[r], Earliest(Applicable(req[r], D))),
               req'[r].pc = req[r].pc
        PROVE  TakesFit(req[r])'
    <2>1. TakesFit(req[r])
      BY <1>3 DEF AdvanceFacts
    <2>2. TakesFit(req'[r])
      BY <1>3, <2>1, ApplyFitsAdvance
    <2> QED BY <2>2 DEF TakesFit
  <1> QED BY <1>1, <1>2, <1>3, CopySteps

LEMMA CommitFits ==
  ASSUME LedgerFacts, OwnFacts, AdvanceFacts, NEW r \in Requests, BillCommit(r) \/ SettleCommit(r),
         CopyCurrent(req[r]), NEW d \in Deposits, dep[d].status = "confirmed"
  PROVE  AllocatedOf(alloc'[d]) + dep'[d].refunded <= dep'[d].amount
  <1> USE DEF LedgerFacts
  <1>1. PICK q \in Work : /\ q = req[r] /\ q.pc \in {"settle", "bill"}
                          /\ BillCommit(r) => q.pc = "bill"
                          /\ SettleCommit(r) => q.pc = "settle" /\ q \in SettleReq
    BY RequestByStage DEF BillCommit, SettleCommit, TypeOK, Work
  <1>2. PICK f, g, h : /\ f = [u \in Dues |-> alloc[d][u].amount]
                       /\ g = [u \in Dues |-> alloc'[d][u].amount]
                       /\ h = q.take[d]
    OBVIOUS
  <1>3. \A u \in Dues : f[u] \in Int /\ h[u] \in Int /\ g[u] = f[u] + h[u]
    <2> TAKE u \in Dues
    <2>1. alloc'[d][u].amount = alloc[d][u].amount + q.take[d][u] /\ q.take[d][u] \in Nat
      BY <1>1, TakenAdded
    <2>2. alloc[d][u].amount \in Nat
      BY DEF TypeOK, AllocRow
    <2> QED BY <1>2, <2>1, <2>2
  <1>4. AllocatedOf(alloc'[d]) = AllocatedOf(alloc[d]) + SumTaken(q.take[d])
    <2>1. SumOver(g, Dues) = SumOver(f, Dues) + SumOver(h, Dues)
      BY <1>3, FiniteTables, SumOfChanges
    <2> QED BY <1>2, <2>1 DEF AllocatedOf, SumTaken
  <1>5. PICK k \in Nat : /\ dep'[d].refunded = dep[d].refunded + k /\ dep'[d].amount = dep[d].amount
                         /\ k > 0 => q.pc = "settle" /\ k = RefundOf(q, d)
    <2>1. CASE BillCommit(r)
      <3>1. dep' = dep /\ dep[d].refunded \in Nat
        BY <2>1 DEF BillCommit, TypeOK, DepositRow
      <3>2. dep'[d].refunded = dep[d].refunded + 0
        BY <3>1
      <3> QED BY <3>1, <3>2
    <2>2. CASE SettleCommit(r)
      <3>1. RefundOf(q, d) \in Nat
        BY <1>1, <2>2, RefundType
      <3>2. CASE d \in Refunded(q)
        <4>1. dep'[d] = [dep[d] EXCEPT !.refunded = @ + RefundOf(q, d)]
          BY <1>1, <2>2, <3>2 DEF SettleCommit
        <4> QED BY <1>1, <2>2, <3>1, <4>1 DEF TypeOK, DepositRow
      <3>3. CASE d \notin Refunded(q)
        <4>1. dep'[d] = dep[d] /\ dep[d].refunded \in Nat
          BY <1>1, <2>2, <3>3 DEF SettleCommit, TypeOK, DepositRow
        <4>2. dep'[d].refunded = dep[d].refunded + 0
          BY <4>1
        <4> QED BY <4>1, <4>2
      <3> QED BY <3>2, <3>3
    <2> QED BY <2>1, <2>2
  <1>6. AllocatedOf(alloc[d]) + dep[d].refunded <= dep[d].amount
    BY DEF AdvanceFacts, AdvanceNotOverspent
  <1>7. /\ AllocatedOf(alloc[d]) \in Nat /\ dep[d].refunded \in Nat /\ dep[d].amount \in Nat
        /\ SumTaken(q.take[d]) \in Nat /\ LeftOf(q, d) \in Nat
        /\ AllocatedOf(q.was.alloc[d]) \in Nat
    BY UnusedType, SumTakenType, LeftType DEF TypeOK, DepositRow
  <1>8. CASE k = 0 /\ \A u \in Dues : ~(q.take[d][u] > 0)
    <2>1. \A u \in Dues : h[u] = 0
      BY <1>1, <1>2, <1>8, TakenAdded
    <2>2. SumTaken(q.take[d]) = 0
      BY <1>2, <2>1, FiniteTables, SumOfZeros DEF SumTaken
    <2> QED BY <1>4, <1>5, <1>6, <1>7, <1>8, <2>2
  <1>9. CASE k > 0 \/ \E u \in Dues : q.take[d][u] > 0
    <2>1. dep[d] = q.was.dep[d] /\ AllocatedOf(alloc[d]) <= AllocatedOf(q.was.alloc[d])
      BY <1>1, <1>5, <1>9 DEF CopyCurrent
    <2>2. TakesFit(q)
      BY <1>1 DEF AdvanceFacts
    <2>3. AllocatedOf(q.was.alloc[d]) + dep[d].refunded + SumTaken(q.take[d]) + LeftOf(q, d)
            = dep[d].amount
      BY <2>1, <2>2, LeftExactly
    <2>4. k <= LeftOf(q, d)
      <3>1. RefundOf(q, d) \in {0, LeftOf(q, d)}
        BY DEF RefundOf
      <3> QED BY <1>5, <1>7, <3>1
    <2> QED BY <1>4, <1>5, <1>7, <2>1, <2>3, <2>4
  <1> QED BY <1>5, <1>8, <1>9

LEMMA OverspentStep ==
  ASSUME LedgerFacts, OwnFacts, AdvanceFacts, [Next]_vars,
         \A r \in Requests : BillCommit(r) \/ SettleCommit(r) => CopyCurrent(req[r])
  PROVE  AdvanceNotOverspent'
  <1> USE DEF LedgerFacts
  <1> SUFFICES ASSUME NEW d \in Deposits, dep'[d].status = "confirmed"
               PROVE  AllocatedOf(alloc'[d]) + dep'[d].refunded <= dep'[d].amount
    BY DEF AdvanceNotOverspent
  <1>1. CASE dep[d].status # "confirmed"
    <2>1. PICK x \in Deposits, row \in DepositRow, D \in SUBSET Dues :
            /\ PostDeposit(x, row, D)
            /\ dep[x].status \in Pending \cup {"none"}
            /\ dep[x].status # "none" => row = dep[x]
            /\ dep[x].status = "none" => row.refunded = 0
            /\ \A u \in D : Owner(u) = row.member
            /\ row.kind # "advance" => Covers(D, row.amount)
            /\ row.kind = "advance" => D = {}
      BY <1>1, ConfirmedByPosting, PostingFacts
    <2>2. x = d
      <3>1. SUFFICES ASSUME d # x PROVE FALSE
        OBVIOUS
      <3>2. dep' = [dep EXCEPT ![x] = [row EXCEPT !.status = "confirmed"]]
        BY <2>1 DEF PostDeposit
      <3>3. dep'[d] = dep[d]
        BY <3>1, <3>2 DEF TypeOK
      <3> QED BY <1>1, <3>3
    <2>3. row.refunded = 0
      BY <2>1 DEF OwnFacts, AllocationsOwned, Posted, Pending
    <2>4. dep'[d].refunded = 0 /\ dep'[d].amount = row.amount /\ row.amount \in Nat
      BY <2>1, <2>2, <2>3 DEF PostDeposit, TypeOK, DepositRow
    <2>5. CASE row.kind # "advance"
      <3>1. ExactSnapshot(d)'
        BY <2>1, <2>2, <2>5, PostedExactly
      <3>2. AllocatedOf(alloc'[d]) = dep'[d].amount
        BY <3>1 DEF ExactSnapshot, AllocatedOf
      <3> QED BY <2>4, <3>2
    <2>6. CASE row.kind = "advance"
      <3>1. \A u \in Dues : alloc'[d][u] = NoAlloc
        BY <2>1, <2>2, <2>6 DEF PostDeposit, TypeOK
      <3>2. \A u \in Dues : [v \in Dues |-> alloc'[d][v].amount][u] = 0
        BY <3>1 DEF NoAlloc
      <3>3. AllocatedOf(alloc'[d]) = 0
        BY <3>2, FiniteTables, SumOfZeros DEF AllocatedOf
      <3> QED BY <2>4, <3>3
    <2> QED BY <2>5, <2>6
  <1>2. CASE dep[d].status = "confirmed" /\ (BillStep \/ SettleStep)
    <2>1. PICK r \in Requests : BillCommit(r) \/ SettleCommit(r)
      BY <1>2 DEF BillStep, SettleStep
    <2> QED BY <1>2, <2>1, CommitFits
  <1>3. CASE dep[d].status = "confirmed" /\ ~(BillStep \/ SettleStep)
    <2>1. alloc'[d] = alloc[d]
      BY <1>3, PostedSteps DEF Posted
    <2>2. dep'[d] = dep[d]
      <3>1. SUFFICES ASSUME dep'[d] = [dep[d] EXCEPT !.status = "reversed"] PROVE FALSE
        BY <1>3, PostedSteps DEF Posted
      <3> QED BY <3>1 DEF TypeOK, DepositRow
    <2> QED BY <1>3, <2>1, <2>2 DEF AdvanceFacts, AdvanceNotOverspent
  <1> QED BY <1>1, <1>2, <1>3

\* Without billing, a settlement's commit sees every allocation of the
\* advances it takes from.
NewDuesSeen ==
  \A r \in Requests : req[r].pc = "settle" =>
    \A u \in Dues : req[r].was.due[u].status = "none" => due[u].status = "none"

LEMMA NewDuesSeenStep ==
  ASSUME LedgerFacts, NoneBilled, NewDuesSeen, [Next]_vars
  PROVE  NewDuesSeen'
  <1> SUFFICES ASSUME NEW r \in Requests, req'[r].pc = "settle", NEW u \in Dues,
                      req'[r].was.due[u].status = "none"
               PROVE  due'[u].status = "none"
    BY DEF NewDuesSeen
  <1>1. due[u].status = "none" => due'[u].status = "none"
    BY NoBilling, DueSteps DEF LedgerFacts, BillStep
  <1>2. CASE req'[r] = req[r]
    BY <1>1, <1>2 DEF NewDuesSeen
  <1>3. CASE req'[r].was = TheBooks
    BY <1>1, <1>3 DEF TheBooks
  <1>4. ASSUME NEW D \in SUBSET Dues, req[r] \in Work, Applicable(req[r], D) # {},
               req'[r] = ApplyAdvance(req[r], Earliest(Applicable(req[r], D))),
               req'[r].pc = req[r].pc
        PROVE  due[u].status = "none"
    <2>1. req'[r].was = req[r].was
      <3>1. PICK a : a = ApplyAdvance(req[r], Earliest(Applicable(req[r], D)))
        OBVIOUS
      <3>2. a.was = req[r].was
        BY <1>4, <3>1, ApplyEffect DEF Applied
      <3> QED BY <1>4, <3>1, <3>2
    <2> QED BY <1>4, <2>1 DEF NewDuesSeen
  <1> QED BY <1>1, <1>2, <1>3, <1>4, CopySteps

LEMMA SettlementCurrent ==
  ASSUME LedgerFacts, OwnFacts, NoneBilled, NewDuesSeen, NEW r \in Requests, SettleCommit(r)
  PROVE  CopyCurrent(req[r])
  <1> USE DEF LedgerFacts
  <1>1. PICK q \in SettleReq : q = req[r] /\ q.pc = "settle"
    BY RequestByStage DEF SettleCommit, TypeOK
  <1> SUFFICES ASSUME NEW d \in Deposits,
                      (\E u \in Dues : q.take[d][u] > 0) \/ RefundOf(q, d) > 0
               PROVE  /\ dep[d] = q.was.dep[d]
                      /\ AllocatedOf(alloc[d]) <= AllocatedOf(q.was.alloc[d])
    BY <1>1 DEF CopyCurrent
  <1>2. IsAdvanceOf(q.was.dep[d], q.member)
    <2>1. CASE \E u \in Dues : q.take[d][u] > 0
      <3>1. PICK u \in Dues : q.take[d][u] > 0
        BY <2>1
      <3>2. /\ q.was.dep[d].status = "confirmed" /\ q.was.dep[d].kind = "advance"
            /\ q.was.dep[d].member = Owner(u) /\ u \in OwnDues(q)
        BY <1>1, <3>1, TakenAdded
      <3> QED BY <3>2 DEF IsAdvanceOf, OwnDues
    <2>2. CASE RefundOf(q, d) > 0
      BY <2>2 DEF RefundOf
    <2> QED BY <2>1, <2>2
  <1>3. dep[d] = q.was.dep[d] /\ \A u \in OwnDues(q) : alloc[d][u] = q.was.alloc[d][u]
    BY <1>1, <1>2 DEF SettleCommit, NoConflict
  <1>4. PICK f, g : /\ f = [u \in Dues |-> alloc[d][u].amount]
                    /\ g = [u \in Dues |-> q.was.alloc[d][u].amount]
    OBVIOUS
  <1>5. \A u \in Dues : f[u] \in Nat /\ g[u] \in Nat
    BY <1>4 DEF TypeOK, AllocRow, SettleReq, Snapshot
  <1>6. ASSUME NEW u \in Dues PROVE f[u] <= g[u]
    <2>1. CASE u \in OwnDues(q)
      BY <1>3, <1>4, <1>5, <2>1
    <2>2. CASE u \notin OwnDues(q)
      <3>1. alloc[d][u].amount = 0
        <4>1. SUFFICES ASSUME alloc[d][u].amount > 0 PROVE FALSE
          BY <1>4, <1>5
        <4>2. Owner(u) = q.member /\ alloc[d][u].linked
          BY <1>2, <1>3, <4>1 DEF OwnFacts, AllocationsOwned, IsAdvanceOf
        <4>3. due[u].status = "none"
          BY <1>1, <2>2, <4>2 DEF OwnDues, NewDuesSeen
        <4> QED BY <4>2, <4>3 DEF TablesAgree
      <3> QED BY <1>4, <1>5, <3>1
    <2> QED BY <2>1, <2>2
  <1>7. SumOver(f, Dues) <= SumOver(g, Dues)
    <2>1. \A u \in Dues : f[u] \in Int /\ g[u] \in Int /\ f[u] <= g[u]
      BY <1>5, <1>6
    <2> QED BY <2>1, FiniteTables, SumMonotone
  <1> QED BY <1>3, <1>4, <1>7 DEF AllocatedOf

LEMMA AdvancesStep ==
  ASSUME LedgerFacts, OwnFacts, NoneBilled, NewDuesSeen, AdvanceFacts, [Next]_vars
  PROVE  AdvanceFacts'
  <1>1. \A r \in Requests : BillCommit(r) \/ SettleCommit(r) => CopyCurrent(req[r])
    BY SettlementCurrent DEF NoneBilled, BillCommit
  <1> QED BY <1>1, OverspentStep, TakesFitStep DEF AdvanceFacts

LEMMA AdvanceFactsInit == Init => AdvanceFacts
  <1> SUFFICES ASSUME Init PROVE AdvanceFacts
    OBVIOUS
  <1>1. \A r \in Requests : req[r].pc = "idle"
    BY DEF Init, Idle
  <1>2. \A d \in Deposits : dep[d].status # "confirmed"
    BY OpeningAssumption DEF Init, OpeningAssumption, Pending
  <1> QED BY <1>1, <1>2 DEF AdvanceFacts, AdvanceNotOverspent

\* The stage a handler has just entered tells how.
LEMMA StageEntered ==
  ASSUME LedgerFacts, NEW r \in Requests, Prepares(r)
  PROVE  /\ req'[r].pc = "waive" => StartWaive(r)
         /\ req'[r].pc = "posting" => LockForPosting(r)
         /\ req'[r].pc = "promise" => StartPromise(r)
         /\ req'[r].pc = "submit" => StartSubmit(r) \/ StartSubmitAdvance(r)
         /\ req'[r].pc = "bill" => StartBilling(r) \/ BillApply(r)
  <1>1. ASSUME NEW q, Become(r, q) PROVE req'[r] = q
    BY <1>1 DEF Become, LedgerFacts, TypeOK
  <1>2. CASE OpenReview(r) \/ ReadDeposit(r) \/ PlanConfirmation(r)
    <2>1. \E q : Become(r, q) /\ q.pc \in {"review", "endorse", "confirm", "planned"}
      <3>1. CASE OpenReview(r)
        BY <3>1 DEF OpenReview
      <3>2. CASE ReadDeposit(r)
        BY <3>2 DEF ReadDeposit
      <3>3. CASE PlanConfirmation(r)
        <4>1. req[r] \in ReadReq
          BY <3>3, RequestByStage DEF PlanConfirmation, LedgerFacts, TypeOK
        <4>2. PICK v : Become(r, [req[r] EXCEPT !.pc = "planned", !.seen = v])
          BY <3>3 DEF PlanConfirmation
        <4>3. PICK q : q = [req[r] EXCEPT !.pc = "planned", !.seen = v]
          OBVIOUS
        <4>4. q.pc = "planned"
          BY <4>1, <4>3 DEF ReadReq
        <4> QED BY <4>2, <4>3, <4>4
      <3> QED BY <1>2, <3>1, <3>2, <3>3
    <2> QED BY <1>1, <2>1
  <1>3. CASE StartPromise(r)
    <2>1. \E q : Become(r, q) /\ q.pc = "promise"
      BY <1>3 DEF StartPromise
    <2> QED BY <1>1, <1>3, <2>1
  <1>4. CASE StartSettle(r)
    <2>1. \E q : Become(r, q) /\ q.pc = "settle"
      BY <1>4 DEF StartSettle
    <2> QED BY <1>1, <2>1
  <1>5. CASE SettleApply(r)
    <2>1. /\ req[r] \in Work /\ OwnDues(req[r]) \in SUBSET Dues /\ req[r].pc = "settle"
          /\ Applicable(req[r], OwnDues(req[r])) # {}
          /\ req'[r] = ApplyAdvance(req[r], Earliest(Applicable(req[r], OwnDues(req[r]))))
      BY <1>1, <1>5, RequestByStage DEF SettleApply, ToApply, LedgerFacts, TypeOK, Work, OwnDues
    <2>2. PICK a : a = ApplyAdvance(req[r], Earliest(Applicable(req[r], OwnDues(req[r]))))
      OBVIOUS
    <2>3. a.pc = "settle"
      BY <2>1, <2>2, ApplyEffect DEF Applied
    <2> QED BY <2>1, <2>2, <2>3
  <1>6. CASE BillApply(r)
    <2>1. /\ req[r] \in Work /\ req[r].dues \in SUBSET Dues /\ req[r].pc = "bill"
          /\ Applicable(req[r], req[r].dues) # {}
          /\ req'[r] = ApplyAdvance(req[r], Earliest(Applicable(req[r], req[r].dues)))
      BY <1>1, <1>6, RequestByStage DEF BillApply, LedgerFacts, TypeOK, Work, BillReq
    <2>2. PICK a : a = ApplyAdvance(req[r], Earliest(Applicable(req[r], req[r].dues)))
      OBVIOUS
    <2>3. a.pc = "bill"
      BY <2>1, <2>2, ApplyEffect DEF Applied
    <2> QED BY <1>6, <2>1, <2>2, <2>3
  <1>7. CASE StartSubmit(r) \/ StartSubmitAdvance(r)
    <2>1. \E q : Become(r, q) /\ q.pc = "submit"
      <3>1. CASE StartSubmit(r)
        BY <3>1 DEF StartSubmit
      <3>2. CASE StartSubmitAdvance(r)
        BY <3>2 DEF StartSubmitAdvance
      <3> QED BY <1>7, <3>1, <3>2
    <2> QED BY <1>1, <1>7, <2>1
  <1>8. CASE StartWaive(r)
    <2>1. \E q : Become(r, q) /\ q.pc = "waive"
      BY <1>8 DEF StartWaive
    <2> QED BY <1>1, <1>8, <2>1
  <1>9. CASE StartBilling(r)
    <2>1. \E q : Become(r, q) /\ q.pc = "bill"
      BY <1>9 DEF StartBilling
    <2> QED BY <1>1, <1>9, <2>1
  <1>10. CASE LockForPosting(r)
    <2>1. \E q : Become(r, q) /\ q.pc = "posting"
      BY <1>10 DEF LockForPosting
    <2> QED BY <1>1, <1>10, <2>1
  <1> QED BY <1>2, <1>3, <1>4, <1>5, <1>6, <1>7, <1>8, <1>9, <1>10 DEF Prepares

-----------------------------------------------------------------------------
(* Who has left owes nothing.  Where nothing is billed, submitted or        *)
(* waived, no step opens anything for a member who has left.                *)

QuietOps == Ops \cap {"bill", "submit", "advance", "waive"} = {}

NothingNew == \A r \in Requests : req[r].pc \notin {"bill", "submit", "waive"}

LEMMA NothingNewStep ==
  ASSUME QuietOps, LedgerFacts, NothingNew, [Next]_vars
  PROVE  NothingNew'
  <1> SUFFICES ASSUME NEW r \in Requests PROVE req'[r].pc \notin {"bill", "submit", "waive"}
    BY DEF NothingNew
  <1>1. "bill" \notin Ops /\ "submit" \notin Ops /\ "advance" \notin Ops /\ "waive" \notin Ops
    BY DEF QuietOps
  <1>2. req[r].pc \notin {"bill", "submit", "waive"}
    BY DEF NothingNew
  <1>3. ~StartBilling(r) /\ ~StartSubmit(r) /\ ~StartSubmitAdvance(r) /\ ~StartWaive(r)
        /\ ~BillApply(r)
    BY <1>1, <1>2 DEF StartBilling, StartSubmit, StartSubmitAdvance, StartWaive, BillApply
  <1>4. CASE Prepares(r)
    BY <1>3, <1>4, StageEntered
  <1>5. CASE req'[r] = req[r] \/ req'[r] = Idle
    BY <1>2, <1>5 DEF Idle
  <1> QED BY <1>4, <1>5, RequestSteps DEF LedgerFacts

\* Only leaving and returning change who is a member.
LEMMA MembershipSteps ==
  ASSUME [Next]_vars
  PROVE  UNCHANGED active \/ \E m \in Members : RemoveMember(m) \/ ReactivateMember(m)
  <1>1. CASE UNCHANGED vars
    BY <1>1, SMTT(30) DEF vars
  <1>2. CASE ApprovalNext
    BY <1>2, ZenonT(30) DEF ApprovalNext, StartSubmit, StartSubmitAdvance, Submit, SubmitAndFinalize, OpenReview,
       ReadDeposit, Endorse, PlanConfirmation, LockForPosting, Post, Reject, Remove,
       ResolveAllocation, ChangeRoute
  <1>3. CASE SettlementNext
    BY <1>3 DEF SettlementNext, StartBilling, BillApply, BillCommit, StartSettle, SettleApply,
       SettleCommit, StartWaive, WaivePenalty
  <1>4. CASE \E d \in Deposits : ReverseDeposit(d)
    BY <1>4 DEF ReverseDeposit
  <1>5. CASE \E c \in Promises : ResolvePromise(c) \/ BreakPromise(c)
    BY <1>5 DEF ResolvePromise, BreakPromise
  <1>6. CASE \E a \in Accounts : SpendFromAccount(a)
    BY <1>6 DEF SpendFromAccount
  <1>7. CASE \E r \in Requests : StartPromise(r) \/ MakePromise(r) \/ GiveUp(r)
    BY <1>7 DEF StartPromise, MakePromise, GiveUp
  <1> QED BY <1>1, <1>2, <1>3, <1>4, <1>5, <1>6, <1>7 DEF Next

\* What a review posts was awaited.
LEMMA ReviewPosts ==
  ASSUME LedgerFacts, NothingNew, PostingStep
  PROVE  \E d \in Deposits, D \in SUBSET Dues :
           /\ PostDeposit(d, dep[d], D) /\ dep[d] \in DepositRow
           /\ d \in Awaiting(dep[d].member)
           /\ \A u \in D : Owner(u) = dep[d].member
  <1>1. PICK r \in Requests : Post(r)
    BY DEF PostingStep, SubmitAndFinalize, NothingNew
  <1>2. req[r] \in PostReq
    BY <1>1, RequestByStage DEF Post, Posting, LedgerFacts, TypeOK
  <1>3. PICK d \in Deposits : d = req[r].dep
    BY <1>2 DEF PostReq
  <1>4. PICK D \in SUBSET Dues : D = IF dep[d].kind = "advance" THEN {} ELSE Linked(d)
    BY DEF Linked
  <1>5. /\ req[r].pc = "posting" /\ dep[d].status = req[r].before.status
        /\ PostDeposit(d, dep[d], D)
    BY <1>1, <1>3, <1>4 DEF Post, Posting
  <1>6. dep[d].status \in Pending /\ dep[d] \in DepositRow
    BY <1>5 DEF LedgerFacts, ReviewersSawPending, TypeOK
  <1>7. d \in Awaiting(dep[d].member)
    BY <1>6 DEF Awaiting
  <1>8. \A u \in D : Owner(u) = dep[d].member
    BY <1>4, <1>6 DEF LedgerFacts, TablesAgree, Linked
  <1> QED BY <1>5, <1>6, <1>7, <1>8

LeftClean(m) ==
  /\ UnpaidDues(m) = {} /\ Awaiting(m) = {}
  /\ \A d \in Deposits : IsAdvanceOf(dep[d], m) => UnusedAdvance(dep[d], alloc[d]) = 0

\* Neither a posting of the others nor a settlement leaves more of an advance.
LEMMA UnusedShrinks ==
  ASSUME LedgerFacts, OwnFacts, NothingNew, [Next]_vars, NEW d \in Deposits,
         dep[d].status = "confirmed", dep'[d].status = "confirmed",
         UnusedAdvance(dep[d], alloc[d]) = 0
  PROVE  UnusedAdvance(dep'[d], alloc'[d]) = 0
  <1>1. /\ dep'[d] \in DepositRow /\ dep[d] \in DepositRow
        /\ alloc'[d] \in [Dues -> AllocRow] /\ alloc[d] \in [Dues -> AllocRow]
    BY FactsStep DEF LedgerFacts, TypeOK
  <1>2. CASE SettleStep
    <2>1. PICK r \in Requests : SettleCommit(r)
      BY <1>2 DEF SettleStep
    <2>2. PICK f, g : /\ f = [u \in Dues |-> alloc[d][u].amount]
                      /\ g = [u \in Dues |-> alloc'[d][u].amount]
      OBVIOUS
    <2>3. ASSUME NEW u \in Dues PROVE f[u] \in Int /\ g[u] \in Int /\ f[u] <= g[u]
      <3>1. alloc'[d][u].amount = alloc[d][u].amount + req[r].take[d][u] /\ req[r].take[d][u] \in Nat
        BY <2>1, TakenAdded
      <3>2. alloc[d][u].amount \in Nat
        BY <1>1 DEF AllocRow
      <3> QED BY <2>2, <3>1, <3>2
    <2>4. SumOver(f, Dues) <= SumOver(g, Dues)
      BY <2>3, FiniteTables, SumMonotone
    <2>5. AllocatedOf(alloc[d]) <= AllocatedOf(alloc'[d])
      BY <2>2, <2>4 DEF AllocatedOf
    <2>6. dep'[d].amount = dep[d].amount
      BY <2>1, SettlementKeepsDeposits DEF LedgerFacts
    <2>7. dep[d].refunded <= dep'[d].refunded
      <3>1. req[r] \in SettleReq
        BY <2>1, RequestByStage DEF SettleCommit, LedgerFacts, TypeOK
      <3>2. RefundOf(req[r], d) \in Nat
        BY <3>1, RefundType
      <3>3. CASE d \in Refunded(req[r])
        <4>1. dep'[d] = [dep[d] EXCEPT !.refunded = @ + RefundOf(req[r], d)]
          BY <2>1, <3>3 DEF SettleCommit
        <4> QED BY <1>1, <3>2, <4>1 DEF DepositRow
      <3>4. CASE d \notin Refunded(req[r])
        <4>1. dep'[d] = dep[d]
          BY <2>1, <3>4 DEF SettleCommit
        <4> QED BY <1>1, <4>1 DEF DepositRow
      <3> QED BY <3>3, <3>4
    <2>8. AllocatedOf(alloc[d]) \in Nat /\ AllocatedOf(alloc'[d]) \in Nat
      BY <1>1, UnusedType
    <2> QED BY <1>1, <2>5, <2>6, <2>7, <2>8 DEF UnusedAdvance, NonNegative, DepositRow
  <1>3. CASE ~SettleStep
    <2>1. alloc'[d] = alloc[d]
      BY <1>3, PostedSteps DEF Posted, NothingNew, BillStep, BillCommit
    <2>2. dep'[d] = dep[d]
      <3>1. dep'[d] = dep[d] \/ dep'[d] = [dep[d] EXCEPT !.status = "reversed"]
        BY <1>3, PostedSteps DEF Posted
      <3>2. [dep[d] EXCEPT !.status = "reversed"].status = "reversed"
        BY <1>1 DEF DepositRow
      <3> QED BY <3>1, <3>2
    <2> QED BY <2>1, <2>2
  <1> QED BY <1>2, <1>3

LEMMA LeftStep ==
  ASSUME LedgerFacts, OwnFacts, ConfirmedInFull, NothingNew, LeftWithNothingOpen, [Next]_vars
  PROVE  LeftWithNothingOpen'
  <1> SUFFICES ASSUME NEW m \in Members, m \notin active' PROVE LeftClean(m)'
    BY DEF LeftWithNothingOpen, LeftClean
  <1>1. CASE \E x \in Members : RemoveMember(x) \/ ReactivateMember(x)
    <2>1. PICK x \in Members : RemoveMember(x) \/ ReactivateMember(x)
      BY <1>1
    <2>2. LeftClean(m)
      <3>1. CASE m \notin active
        BY <3>1 DEF LeftWithNothingOpen, LeftClean
      <3>2. CASE m \in active
        <4>1. m = x /\ RemoveMember(x)
          BY <2>1, <3>2 DEF RemoveMember, ReactivateMember
        <4> QED BY <4>1 DEF RemoveMember, CanExit, LeftClean
      <3> QED BY <3>1, <3>2
    <2>3. UNCHANGED <<dep, alloc, due>>
      BY <2>1 DEF RemoveMember, ReactivateMember
    <2> QED BY <2>2, <2>3 DEF LeftClean, UnpaidDues, DuesOf, Awaiting
  <1>2. CASE UNCHANGED active
    <2>1. LeftClean(m) /\ m \notin active
      BY <1>2 DEF LeftWithNothingOpen, LeftClean
    <2>2. ~SubmitStep /\ ~BillStep /\ ~WaiverStep
      BY DEF NothingNew, SubmitStep, Submit, BillStep, BillCommit, WaiverStep, WaivePenalty
    <2>3. Awaiting(m)' = {}
      <3>1. ASSUME NEW d \in Deposits, dep'[d].member = m, dep'[d].status \in Pending PROVE FALSE
        <4>1. dep[d].status \in Pending
          BY <2>2, <3>1, DepositSteps DEF LedgerFacts
        <4>2. dep[d].member = m
          BY <3>1, <4>1, DepositSteps DEF LedgerFacts, Pending
        <4> QED BY <2>1, <4>1, <4>2 DEF LeftClean, Awaiting
      <3> QED BY <3>1 DEF Awaiting
    <2>4. ASSUME PostingStep
          PROVE  \E d \in Deposits, D \in SUBSET Dues :
                   /\ PostDeposit(d, dep[d], D) /\ dep[d] \in DepositRow
                   /\ dep[d].member # m /\ \A u \in D : Owner(u) # m
      BY <2>1, <2>4, ReviewPosts DEF LeftClean
    <2>5. UnpaidDues(m)' = {}
      <3>1. SUFFICES ASSUME NEW u \in Dues, Owner(u) = m, due'[u].status # "none",
                            CalculateDueBalance(due'[u]) > 0
                     PROVE  FALSE
        BY DEF UnpaidDues, DuesOf
      <3>2. due[u].status # "none"
        <4>1. SUFFICES ASSUME due[u].status = "none" PROVE FALSE
          OBVIOUS
        <4>2. due'[u] = due[u]
          BY <2>2, <4>1, DueSteps DEF LedgerFacts, BillStep
        <4> QED BY <3>1, <4>1, <4>2
      <3>3. CalculateDueBalance(due[u]) \in Nat /\ CalculateDueBalance(due'[u]) \in Nat
        <4>1. due[u] \in DueRow /\ due'[u] \in DueRow
          BY FactsStep DEF LedgerFacts, TypeOK
        <4> QED BY <4>1, BalanceType DEF Money
      <3>4. CalculateDueBalance(due'[u]) <= CalculateDueBalance(due[u])
        <4>1. CASE PostingStep
          <5>1. PICK d \in Deposits, D \in SUBSET Dues :
                  /\ PostDeposit(d, dep[d], D) /\ dep[d] \in DepositRow
                  /\ dep[d].member # m /\ \A v \in D : Owner(v) # m
            BY <2>4, <4>1
          <5>2. due'[u] = due[u]
            BY <3>1, <5>1, PostedRows
          <5> QED BY <3>3, <5>2
        <4>2. CASE SettleStep
          BY <4>2, SettledRows DEF SettleStep
        <4>3. CASE ReverseStep
          <5>1. PICK x \in Deposits : ReverseDeposit(x)
            BY <4>3 DEF ReverseStep
          <5>2. /\ alloc[x][u].amount = 0 => due'[u] = due[u]
                /\ alloc[x][u].amount > 0 => Owner(u) \in active
            BY <5>1, ReversedRows
          <5>3. alloc[x][u].amount \in Nat
            BY DEF LedgerFacts, TypeOK, AllocRow
          <5>4. due'[u] = due[u]
            BY <2>1, <3>1, <5>2, <5>3
          <5> QED BY <3>3, <5>4
        <4>4. CASE ~PostingStep /\ ~SettleStep /\ ~ReverseStep
          <5>1. due'[u] = due[u]
            BY <2>2, <4>4, OtherRows
          <5> QED BY <3>3, <5>1
        <4> QED BY <4>1, <4>2, <4>3, <4>4
      <3>5. u \in UnpaidDues(m)
        BY <3>1, <3>2, <3>3, <3>4 DEF UnpaidDues, DuesOf
      <3> QED BY <2>1, <3>5 DEF LeftClean
    <2>6. ASSUME NEW d \in Deposits, IsAdvanceOf(dep'[d], m)
          PROVE  UnusedAdvance(dep'[d], alloc'[d]) = 0
      <3>1. dep'[d].status = "confirmed" /\ dep'[d].kind = "advance" /\ dep'[d].member = m
        BY <2>6 DEF IsAdvanceOf
      <3>2. dep[d].status = "confirmed"
        <4>1. SUFFICES ASSUME dep[d].status # "confirmed" PROVE FALSE
          OBVIOUS
        <4>2. PostingStep
          BY <3>1, <4>1, ConfirmedByPosting
        <4>3. PICK x \in Deposits, D \in SUBSET Dues :
                PostDeposit(x, dep[x], D) /\ dep[x] \in DepositRow /\ dep[x].member # m
          BY <2>4, <4>2
        <4>4. dep' = [dep EXCEPT ![x] = [dep[x] EXCEPT !.status = "confirmed"]]
          BY <4>3 DEF PostDeposit
        <4>5. CASE x = d
          BY <3>1, <4>3, <4>4, <4>5 DEF LedgerFacts, TypeOK, DepositRow
        <4>6. CASE x # d
          BY <3>1, <4>1, <4>4, <4>6 DEF LedgerFacts, TypeOK
        <4> QED BY <4>5, <4>6
      <3>3. dep[d].kind = "advance" /\ dep[d].member = m
        BY <3>1, <3>2, DepositSteps DEF LedgerFacts, Posted
      <3>4. UnusedAdvance(dep[d], alloc[d]) = 0
        BY <2>1, <3>2, <3>3 DEF LeftClean, IsAdvanceOf
      <3> QED BY <3>1, <3>2, <3>4, UnusedShrinks
    <2> QED BY <2>3, <2>5, <2>6 DEF LeftClean
  <1> QED BY <1>1, <1>2, MembershipSteps

-----------------------------------------------------------------------------
(* Together. *)

CreditFacts == LedgerFacts /\ OwnFacts /\ ConfirmedInFull /\ NoneEmpty

MoneyFacts == CreditFacts /\ NoneBilled /\ NewDuesSeen /\ DuesAreBacked /\ AdvanceFacts

SettlementFacts == MoneyFacts /\ NothingNew /\ LeftWithNothingOpen

LEMMA CreditFactsStep ==
  ASSUME CreditFacts, [Next]_vars
  PROVE  CreditFacts' /\ \A u \in Dues : CreditKept(u)
  BY FactsStep, OwnFactsStep, InFullStep, NoneEmptyStep, CreditStep DEF CreditFacts

LEMMA MoneyFactsStep ==
  ASSUME "bill" \notin Ops, MoneyFacts, [Next]_vars
  PROVE  MoneyFacts'
  BY CreditFactsStep, NoneBilledStep, NewDuesSeenStep, BackedStep, AdvancesStep
     DEF MoneyFacts, CreditFacts

LEMMA SettlementStep ==
  ASSUME QuietOps, SettlementFacts, [Next]_vars
  PROVE  SettlementFacts'
  <1>1. "bill" \notin Ops
    BY DEF QuietOps
  <1> QED BY <1>1, MoneyFactsStep, NothingNewStep, LeftStep
          DEF SettlementFacts, MoneyFacts, CreditFacts

LEMMA NothingBackedYet == Init => DuesAreBacked
  <1> SUFFICES ASSUME Init, NEW u \in Dues
               PROVE  Received(due[u]) = Received(Opening[u])
                        + SumOver([d \in Deposits |-> Backing(d, u)], Deposits)
    BY DEF DuesAreBacked
  <1>1. \A d \in Deposits : dep[d].status # "confirmed"
    BY OpeningAssumption DEF Init, OpeningAssumption, Pending
  <1>2. \A d \in Deposits : [x \in Deposits |-> Backing(x, u)][d] = 0
    BY <1>1 DEF Backing
  <1>3. SumOver([d \in Deposits |-> Backing(d, u)], Deposits) = 0
    BY <1>2, FiniteTables, SumOfZeros
  <1>4. due[u] = Opening[u] /\ Received(Opening[u]) \in Nat
    BY OpeningAssumption, ReceivedType DEF Init, OpeningAssumption
  <1> QED BY <1>3, <1>4

LEMMA SettlementInit == Init => SettlementFacts
  <1> SUFFICES ASSUME Init PROVE SettlementFacts
    OBVIOUS
  <1>1. \A r \in Requests : req[r].pc = "idle"
    BY DEF Init, Idle
  <1>2. NothingNew /\ NewDuesSeen /\ NoneBilled
    BY <1>1 DEF NothingNew, NewDuesSeen, NoneBilled
  <1>3. \A d \in Deposits : dep[d].status # "confirmed"
    BY OpeningAssumption DEF Init, OpeningAssumption, Pending
  <1>4. ConfirmedInFull /\ LeftWithNothingOpen
    BY <1>3 DEF ConfirmedInFull, LeftWithNothingOpen, Init
  <1>5. NoneEmpty
    BY OpeningAssumption DEF Init, OpeningAssumption, NoneEmpty
  <1> QED BY <1>2, <1>4, <1>5, FactsInit, OwnFactsInit, AdvanceFactsInit, NothingBackedYet
          DEF SettlementFacts, MoneyFacts, CreditFacts

(***************************************************************************)
(* Whatever handlers run and however they interleave, what a due has       *)
(* received is taken back only by the reversal of a deposit that gave it,  *)
(* and only as much as that deposit gave (reverseTransaction).             *)
(***************************************************************************)
THEOREM CreditsStay == Spec => CreditsAreKept
  <1>1. Init => CreditFacts
    BY SettlementInit DEF SettlementFacts, MoneyFacts
  <1>2. CreditFacts /\ [Next]_vars => CreditFacts'
    BY CreditFactsStep
  <1>3. CreditFacts /\ [Next]_vars =>
          [\A u \in Dues : Received(due'[u]) < Received(due[u]) =>
             \E d \in Deposits : /\ dep[d].status = "confirmed" /\ dep'[d].status = "reversed"
                                 /\ Received(due'[u]) = Received(due[u]) - alloc[d][u].amount]_vars
    BY CreditFactsStep DEF CreditKept
  <1> QED BY <1>1, <1>2, <1>3, PTL DEF Spec, CreditsAreKept

(***************************************************************************)
(* Where no schedule is billed meanwhile, each due has received what the   *)
(* confirmed deposits gave it and no advance is spent twice                *)
(* (settleMemberBalance, finalizeDepositConfirmation, reverseTransaction). *)
(***************************************************************************)
THEOREM MoneyIsBacked ==
  ASSUME "bill" \notin Ops
  PROVE  Spec => [](DuesAreBacked /\ AdvanceNotOverspent)
  <1>1. Init => MoneyFacts
    BY SettlementInit DEF SettlementFacts
  <1>2. MoneyFacts /\ [Next]_vars => MoneyFacts'
    BY MoneyFactsStep
  <1>3. MoneyFacts => DuesAreBacked /\ AdvanceNotOverspent
    BY DEF MoneyFacts, AdvanceFacts
  <1> QED BY <1>1, <1>2, <1>3, PTL DEF Spec

(***************************************************************************)
(* Where nothing is billed, submitted or waived either, settlements,       *)
(* reviews, reversals and exits keep the money straight, however they      *)
(* interleave: dues are backed, advances spent once and credits kept, and  *)
(* nobody who has left is owed or owes anything (assertMemberCanExit).     *)
(***************************************************************************)
THEOREM SettlementIsSound ==
  ASSUME QuietOps
  PROVE  Spec => SettlementHolds
  <1>1. Init => SettlementFacts
    BY SettlementInit
  <1>2. SettlementFacts /\ [Next]_vars => SettlementFacts'
    BY SettlementStep
  <1>3. SettlementFacts => DuesAreBacked /\ AdvanceNotOverspent /\ LeftWithNothingOpen
    BY DEF SettlementFacts, MoneyFacts, AdvanceFacts
  <1> QED BY <1>1, <1>2, <1>3, CreditsStay, PTL DEF Spec, SettlementHolds

-----------------------------------------------------------------------------
(* Statuses tell balances.                                                  *)

Matches(row) ==
  row.status # "none" => (row.status \in {"paid", "waived"} <=> CalculateDueBalance(row) = 0)

CopiesMatch == \A r \in Requests : req[r].pc \in {"settle", "bill"} =>
                 \A u \in Dues : Matches(req[r].due[u])

StatusFacts == StatusMatchesBalance /\ CopiesMatch

\* What a waiver of a penalty relies on: the row is still as it was read.
WaiverCurrent(q) == /\ q.row = due[q.due]
                    /\ q.row.penaltyDue > q.row.penaltyPaid

LEMMA BalanceOfStatus ==
  ASSUME NEW v \in DueRow, NEW s \in DueStatuses
  PROVE  LET w == [v EXCEPT !.status = s]
         IN  w.status = s /\ CalculateDueBalance(w) = CalculateDueBalance(v)
  BY DEF DueRow, CalculateDueBalance, PrincipalBalance, PenaltyBalance

LEMMA StatusGiven ==
  ASSUME NEW v \in DueRow
  PROVE  Matches([v EXCEPT !.status = PaymentStatus(v)])
  <1>1. PaymentStatus(v) = "paid" <=> CalculateDueBalance(v) = 0
    BY DEF DueRow, PaymentStatus, CalculateDueBalance, PrincipalBalance, PenaltyBalance, NonNegative
  <1>2. PaymentStatus(v) \in {"paid", "partial", "due"}
    BY StatusType
  <1>3. PICK s \in DueStatuses : s = PaymentStatus(v)
    BY <1>2 DEF DueStatuses
  <1>4. PICK w : w = [v EXCEPT !.status = s]
    OBVIOUS
  <1>5. w.status = s /\ CalculateDueBalance(w) = CalculateDueBalance(v)
    BY <1>4, BalanceOfStatus
  <1>6. Matches(w)
    BY <1>1, <1>2, <1>3, <1>5 DEF Matches
  <1> QED BY <1>3, <1>4, <1>6

LEMMA AllocatedMatches ==
  ASSUME NEW row \in DueRow, NEW n \in Nat, NEW k
  PROVE  Matches(AllocatePayment(row, n, k))
  <1>1. PICK p, q : p = row.paid + PrincipalShare(row, n, k) /\ q = row.penaltyPaid + PenaltyShare(row, n, k)
    OBVIOUS
  <1>2. p \in Nat /\ q \in Nat
    <2>1. row.paid \in Nat /\ row.penaltyPaid \in Nat
      BY DEF DueRow
    <2>2. PrincipalShare(row, n, k) \in 0 .. n /\ PenaltyShare(row, n, k) \in 0 .. n
      BY SharesType
    <2> QED BY <1>1, <2>1, <2>2
  <1>3. PICK v : v = [row EXCEPT !.paid = p, !.penaltyPaid = q]
    OBVIOUS
  <1>4. v \in DueRow
    BY <1>2, <1>3 DEF DueRow
  <1>5. AllocatePayment(row, n, k) = [v EXCEPT !.status = PaymentStatus(v)]
    BY <1>1, <1>3 DEF AllocatePayment, DueRow
  <1> QED BY <1>4, <1>5, StatusGiven

LEMMA WrittenOffMatches ==
  ASSUME NEW row \in DueRow, Matches(row)
  PROVE  Matches(WrittenOff(row))
  <1>1. CASE CalculateDueBalance(row) = 0
    BY <1>1 DEF WrittenOff
  <1>2. CASE CalculateDueBalance(row) # 0
    <2>1. WrittenOff(row).status = "waived"
      <3>1. PICK m, n : m = row.waived + PrincipalBalance(row) /\ n = row.penaltyPaid
        OBVIOUS
      <3>2. WrittenOff(row) = [row EXCEPT !.waived = m, !.penaltyDue = n, !.status = "waived"]
        BY <1>2, <3>1 DEF WrittenOff, DueRow
      <3> QED BY <3>2 DEF DueRow
    <2>2. CalculateDueBalance(WrittenOff(row)) = 0
      BY WriteOffKeeps
    <2> QED BY <2>1, <2>2 DEF Matches
  <1> QED BY <1>1, <1>2

LEMMA ReopenedMatches ==
  ASSUME TypeOK, NEW d \in Deposits, NEW u \in Dues,
         alloc[d][u].principal <= due[u].paid, alloc[d][u].penalty <= due[u].penaltyPaid
  PROVE  Matches(Reopened(d, u))
  <1>1. PICK p, q : p = due[u].paid - alloc[d][u].principal
                    /\ q = due[u].penaltyPaid - alloc[d][u].penalty
    OBVIOUS
  <1>2. due[u] \in DueRow /\ alloc[d][u] \in AllocRow
    BY DEF TypeOK
  <1>3. p \in Nat /\ q \in Nat
    BY <1>1, <1>2 DEF DueRow, AllocRow
  <1>4. PICK v : v = [due[u] EXCEPT !.paid = p, !.penaltyPaid = q]
    OBVIOUS
  <1>5. v \in DueRow
    BY <1>2, <1>3, <1>4 DEF DueRow
  <1>6. Reopened(d, u) = [v EXCEPT !.status = PaymentStatus(v)]
    BY <1>1, <1>4 DEF Reopened
  <1> QED BY <1>5, <1>6, StatusGiven

LEMMA NewDueMatches ==
  ASSUME NEW unit \in Amounts, NEW m \in Members
  PROVE  Matches(NewDue(unit, m))
  <1>1. unit \in Nat /\ unit > 0 /\ Shares[m] \in Nat /\ Shares[m] > 0
    BY LedgerAssumption DEF LedgerAssumption
  <1>2. PICK n : n = unit * Shares[m]
    OBVIOUS
  <1>3. n \in Nat /\ n > 0
    BY <1>1, <1>2
  <1>4. NewDue(unit, m) = [NoDue EXCEPT !.amount = n, !.status = "due"]
    BY <1>2 DEF NewDue
  <1>5. CalculateDueBalance(NewDue(unit, m)) = n /\ NewDue(unit, m).status = "due"
    BY <1>3, <1>4 DEF NoDue, CalculateDueBalance, PrincipalBalance, PenaltyBalance, NonNegative
  <1> QED BY <1>3, <1>5 DEF Matches

LEMMA CopiesMatchStep ==
  ASSUME LedgerFacts, StatusFacts, [Next]_vars
  PROVE  CopiesMatch'
  <1> SUFFICES ASSUME NEW r \in Requests, req'[r].pc \in {"settle", "bill"}, NEW u \in Dues
               PROVE  Matches(req'[r].due[u])
    BY DEF CopiesMatch, Matches
  <1>0. Matches(due[u])
    BY DEF StatusFacts, StatusMatchesBalance, Matches
  <1>1. CASE req'[r] = req[r]
    BY <1>1 DEF StatusFacts, CopiesMatch
  <1>2. CASE req'[r].due = due
    BY <1>0, <1>2
  <1>3. ASSUME NEW s \in Schedules, NEW unit \in Amounts,
               req'[r].due = [v \in Dues |-> IF v \in BilledBy(s) THEN NewDue(unit, Owner(v))
                                             ELSE due[v]]
        PROVE  Matches(req'[r].due[u])
    <2>1. req'[r].due[u] \in {NewDue(unit, Owner(u)), due[u]}
      BY <1>3
    <2> QED BY <1>0, <2>1, FiniteTables, NewDueMatches
  <1>4. ASSUME NEW D \in SUBSET Dues, req[r] \in Work, Applicable(req[r], D) # {},
               req'[r] = ApplyAdvance(req[r], Earliest(Applicable(req[r], D))),
               req'[r].pc = req[r].pc
        PROVE  Matches(req'[r].due[u])
    <2>1. PICK a : a = ApplyAdvance(req[r], Earliest(Applicable(req[r], D)))
      OBVIOUS
    <2>2. PICK d \in Deposits, x \in D, n \in Nat : Applied(a, req[r], d, x, n)
      BY <1>4, <2>1, ApplyEffect
    <2>3. PICK row : row = AllocatePayment(req[r].due[x], n, "penalty_first")
      OBVIOUS
    <2>4. a.due = [req[r].due EXCEPT ![x] = row]
      BY <2>2, <2>3 DEF Applied
    <2>5. req[r].due \in [Dues -> DueRow]
      BY <1>4 DEF Work, SettleReq, BillReq
    <2>6. a.due[u] = row \/ a.due[u] = req[r].due[u]
      BY <2>4, <2>5
    <2>7. Matches(row) /\ Matches(req[r].due[u])
      BY <1>4, <2>3, <2>5, AllocatedMatches DEF StatusFacts, CopiesMatch
    <2> QED BY <1>4, <2>1, <2>6, <2>7
  <1> QED BY <1>1, <1>2, <1>3, <1>4, CopySteps

LEMMA WaivedMatches ==
  ASSUME LedgerFacts, StatusMatchesBalance, NEW r \in Requests, WaivePenalty(r),
         WaiverCurrent(req[r]), NEW u \in Dues
  PROVE  Matches(due'[u])
  <1>0. Matches(due[u])
    BY DEF StatusMatchesBalance, Matches
  <1>1. req[r] \in WaiveReq /\ req[r].pc = "waive"
    BY RequestByStage DEF WaivePenalty, LedgerFacts, TypeOK
  <1>2. PICK x \in Dues, row \in DueRow : x = req[r].due /\ row = req[r].row
    BY <1>1 DEF WaiveReq
  <1>3. row = due[x] /\ row.penaltyDue > row.penaltyPaid /\ row.status # "none"
    BY <1>1, <1>2 DEF WaiverCurrent, LedgerFacts, RequestsAgree, Knows
  <1>4. PICK s : s = IF FullySettled(row) THEN "paid" ELSE row.status
    OBVIOUS
  <1>5. due' = [due EXCEPT ![x].penaltyDue = row.penaltyPaid, ![x].status = s]
    BY <1>2, <1>4 DEF WaivePenalty
  <1>6. CASE u # x
    <2>1. due'[u] = due[u]
      BY <1>5, <1>6 DEF LedgerFacts, TypeOK
    <2> QED BY <1>0, <2>1
  <1>7. CASE u = x
    <2>1. due'[x] = [row EXCEPT !.penaltyDue = row.penaltyPaid, !.status = s]
      BY <1>3, <1>5 DEF LedgerFacts, TypeOK, DueRow
    <2>2. /\ due'[x].amount = row.amount /\ due'[x].paid = row.paid /\ due'[x].waived = row.waived
          /\ due'[x].penaltyDue = row.penaltyPaid /\ due'[x].penaltyPaid = row.penaltyPaid
          /\ due'[x].status = s
      BY <2>1 DEF DueRow
    <2>3. /\ row.amount \in Nat /\ row.paid \in Nat /\ row.waived \in Nat
          /\ row.penaltyDue \in Nat /\ row.penaltyPaid \in Nat
      BY DEF DueRow
    <2>4. CalculateDueBalance(due'[x]) = 0 <=> FullySettled(row)
      BY <2>2, <2>3 DEF CalculateDueBalance, PrincipalBalance, PenaltyBalance, NonNegative, FullySettled
    <2>5. row.status \notin {"paid", "waived"}
      <3>1. CalculateDueBalance(row) # 0
        BY <1>3, <2>3 DEF CalculateDueBalance, PrincipalBalance, PenaltyBalance, NonNegative
      <3>2. Matches(row)
        BY <1>3 DEF StatusMatchesBalance, Matches
      <3> QED BY <1>3, <3>1, <3>2 DEF Matches
    <2> QED BY <1>4, <1>7, <2>2, <2>4, <2>5 DEF Matches
  <1> QED BY <1>6, <1>7

LEMMA StatusStep ==
  ASSUME LedgerFacts, StatusFacts, [Next]_vars,
         \A r \in Requests : WaivePenalty(r) => WaiverCurrent(req[r])
  PROVE  StatusMatchesBalance'
  <1> USE DEF LedgerFacts
  <1> SUFFICES ASSUME NEW u \in Dues PROVE Matches(due'[u])
    BY DEF StatusMatchesBalance, Matches
  <1>0. Matches(due[u]) /\ due[u] \in DueRow
    BY DEF StatusFacts, StatusMatchesBalance, Matches, TypeOK
  <1>1. CASE PostingStep
    <2>1. PICK x \in Deposits, row \in DepositRow, D \in SUBSET Dues : PostDeposit(x, row, D)
      BY <1>1, PostingFacts
    <2>2. PICK p \in PlanDepositAllocation(due, D, Rank, row.amount) :
            due' = [v \in Dues |-> IF v \in D THEN AllocatePayment(due[v], p[v], row.kind) ELSE due[v]]
      BY <2>1 DEF PostDeposit
    <2>3. CASE u \in D
      <3>1. p[u] \in Nat
        <4>1. row.amount \in Nat /\ \A v \in D : due[v] \in Money
          BY DEF DepositRow, TypeOK, Money
        <4>2. p \in [D -> Nat]
          BY <2>3, <4>1, PlanType
        <4> QED BY <2>3, <4>2
      <3>2. due'[u] = AllocatePayment(due[u], p[u], row.kind)
        BY <2>2, <2>3
      <3> QED BY <1>0, <3>1, <3>2, AllocatedMatches
    <2>4. CASE u \notin D
      <3>1. due'[u] = due[u]
        BY <2>2, <2>4
      <3> QED BY <1>0, <3>1
    <2> QED BY <2>3, <2>4
  <1>2. CASE SettleStep
    <2>1. PICK r \in Requests : SettleCommit(r)
      BY <1>2 DEF SettleStep
    <2>2. PICK q \in SettleReq : q = req[r] /\ q.pc = "settle"
      BY <2>1, RequestByStage DEF SettleCommit, TypeOK
    <2>3. due'[u] \in {SettledDue(q, u), due[u]}
      BY <2>1, <2>2 DEF SettleCommit
    <2>4. Matches(q.due[u]) /\ q.due[u] \in DueRow
      BY <2>2 DEF StatusFacts, CopiesMatch, SettleReq
    <2>5. Matches(SettledDue(q, u))
      <3>1. SettledDue(q, u) \in {WrittenOff(q.due[u]), q.due[u]}
        BY DEF SettledDue
      <3> QED BY <2>4, <3>1, WrittenOffMatches
    <2> QED BY <1>0, <2>3, <2>5
  <1>3. CASE ReverseStep
    <2>1. PICK x \in Deposits : ReverseDeposit(x)
      BY <1>3 DEF ReverseStep
    <2>2. /\ \A v \in Linked(x) : /\ alloc[x][v].principal <= due[v].paid
                                  /\ alloc[x][v].penalty <= due[v].penaltyPaid
          /\ due' = [v \in Dues |-> IF v \in Linked(x) /\ alloc[x][v].amount > 0
                                    THEN Reopened(x, v) ELSE due[v]]
      BY <2>1 DEF ReverseDeposit, Reversible
    <2>3. CASE u \in Linked(x) /\ alloc[x][u].amount > 0
      <3>1. due'[u] = Reopened(x, u)
        BY <2>2, <2>3
      <3> QED BY <2>2, <2>3, <3>1, ReopenedMatches
    <2>4. CASE ~(u \in Linked(x) /\ alloc[x][u].amount > 0)
      <3>1. due'[u] = due[u]
        BY <2>2, <2>4
      <3> QED BY <1>0, <3>1
    <2> QED BY <2>3, <2>4
  <1>4. CASE BillStep
    <2>1. PICK r \in Requests : BillCommit(r)
      BY <1>4 DEF BillStep
    <2>2. due'[u] \in {req[r].due[u], due[u]}
      BY <2>1 DEF BillCommit
    <2>3. Matches(req[r].due[u])
      BY <2>1 DEF BillCommit, StatusFacts, CopiesMatch
    <2> QED BY <1>0, <2>2, <2>3
  <1>5. CASE WaiverStep
    <2>1. PICK r \in Requests : WaivePenalty(r)
      BY <1>5 DEF WaiverStep
    <2> QED BY <2>1, WaivedMatches DEF StatusFacts
  <1>6. CASE ~PostingStep /\ ~SettleStep /\ ~ReverseStep /\ ~BillStep /\ ~WaiverStep
    <2>1. due'[u] = due[u]
      BY <1>6, OtherRows
    <2> QED BY <1>0, <2>1
  <1> QED BY <1>1, <1>2, <1>3, <1>4, <1>5, <1>6

LEMMA StatusInit == Init => StatusFacts
  <1> SUFFICES ASSUME Init PROVE StatusFacts
    OBVIOUS
  <1>1. \A r \in Requests : req[r].pc = "idle"
    BY DEF Init, Idle
  <1>2. \A u \in Dues : Matches(due[u])
    BY BooksAssumption DEF Init, BooksAssumption, Matches
  <1> QED BY <1>1, <1>2 DEF StatusFacts, StatusMatchesBalance, CopiesMatch, Matches

-----------------------------------------------------------------------------
\* No penalty is waived.
NoWaivers == \A r \in Requests : req[r].pc # "waive"

LEMMA NoWaiversStep ==
  ASSUME "waive" \notin Ops, LedgerFacts, NoWaivers, [Next]_vars
  PROVE  NoWaivers'
  <1> SUFFICES ASSUME NEW r \in Requests PROVE req'[r].pc # "waive"
    BY DEF NoWaivers
  <1>1. ~StartWaive(r)
    BY DEF StartWaive
  <1>2. CASE Prepares(r)
    BY <1>1, <1>2, StageEntered
  <1>3. CASE req'[r] = req[r] \/ req'[r] = Idle
    BY <1>3 DEF NoWaivers, Idle
  <1> QED BY <1>2, <1>3, RequestSteps DEF LedgerFacts

(***************************************************************************)
(* Where no penalty is waived, a due reads as settled exactly when nothing *)
(* is owed on it, whatever handlers run and however they interleave        *)
(* (paymentStatus as confirmations, settlements, billing and reversals     *)
(* call it).                                                               *)
(***************************************************************************)
THEOREM StatusesTell ==
  ASSUME "waive" \notin Ops
  PROVE  Spec => []StatusMatchesBalance
  <1>1. Init => LedgerFacts /\ StatusFacts /\ NoWaivers
    <2>1. Init => NoWaivers
      BY DEF Init, Idle, NoWaivers
    <2> QED BY <2>1, FactsInit, StatusInit
  <1>2. LedgerFacts /\ StatusFacts /\ NoWaivers /\ [Next]_vars
          => (LedgerFacts /\ StatusFacts /\ NoWaivers)'
    <2> SUFFICES ASSUME LedgerFacts, StatusFacts, NoWaivers, [Next]_vars
                 PROVE  LedgerFacts' /\ StatusFacts' /\ NoWaivers'
      OBVIOUS
    <2>1. \A r \in Requests : ~WaivePenalty(r)
      BY DEF NoWaivers, WaivePenalty
    <2> QED BY <2>1, FactsStep, StatusStep, CopiesMatchStep, NoWaiversStep DEF StatusFacts
  <1>3. StatusFacts => StatusMatchesBalance
    BY DEF StatusFacts
  <1> QED BY <1>1, <1>2, <1>3, PTL DEF Spec
=============================================================================
