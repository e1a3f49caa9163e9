--------------------------- MODULE MCMemberLedger ---------------------------
(***************************************************************************)
(* Small instances of MemberLedger.  Each configuration starts from the    *)
(* deposits on file and the dues on the books that its question needs, and *)
(* allows the operations that bear on it (Ops).  What is asked of the      *)
(* settlement of members takes two parts: settlements of one member race   *)
(* each other and whatever else moves the member's money; or both members  *)
(* are billed, settled, promised and waived for by one handler at a time,  *)
(* without reversals and exits.                                            *)
(***************************************************************************)
EXTENDS MemberLedger, TLC

CONSTANTS m1, m2, a1, a2,
          Parts  \* what the instance is about

Sym == Permutations(Requests)

OneMember  == {m1}
TwoMembers == {m1, m2}
OneShare   == [m \in Members |-> 1]
\* m2 holds two shares.
MoreShares == [m \in Members |-> IF m = m2 THEN 2 ELSE 1]

-----------------------------------------------------------------------------
(* Dues on the books. *)
Charge(n, q) == [NoDue EXCEPT !.amount = n, !.penaltyDue = q, !.status = "due"]

OldestWithPenalty == [u \in Dues |-> IF u[1] = 1 THEN Charge(1, 1) ELSE Charge(1, 0)]
OneDueOpen        == [u \in Dues |-> IF u[1] = 1 THEN Charge(2, 1) ELSE NoDue]
OnePlainDue       == [u \in Dues |-> IF u[1] = 1 THEN Charge(2, 0) ELSE NoDue]
FirstCharged      == [u \in Dues |-> IF u[1] = 1 THEN Charge(1, 1) ELSE NoDue]

-----------------------------------------------------------------------------
(* Deposits on file. *)
Awaits(rt) == IF rt = "admin" THEN "pending_approver" ELSE "pending_accountant"

File(m, n, k, a, rt) ==
  [status |-> Awaits(rt), member |-> m, amount |-> n, kind |-> k, account |-> a,
   route |-> rt, endorsed |-> FALSE, refunded |-> 0]
NotFiled == [File(m1, 0, "advance", a1, "admin") EXCEPT !.status = "none"]

\* Two payments of the same dues, in different priorities.
TwoPayments ==
  [d \in Deposits |->
     IF d = 1 THEN File(m1, 2, "penalty_first", a1, "accountant")
              ELSE File(m1, 2, "principal_first", a1, "accountant")]

\* An advance larger than the dues, and a payment of them.
AdvanceAndPayment ==
  [d \in Deposits |->
     CASE d = 1 -> File(m1, 2, "advance", a1, "admin")
       [] d = 2 -> File(m1, 1, "principal_first", a1, "admin")
       [] OTHER -> NotFiled]

OneAdvance ==
  [d \in Deposits |-> IF d = 1 THEN File(m1, 2, "advance", a1, "admin") ELSE NotFiled]

\* A payment that leaves too little of the due for a second one.
LargePayment == [d \in Deposits |-> IF d = 1 THEN File(m1, 2, "principal_first", a2, "admin")
                                              ELSE NotFiled]

DuesNamed ==
  [d \in Deposits |->
     IF Filed[d].status = "none" \/ Filed[d].kind = "advance" THEN {}
     ELSE {u \in Dues : u[2] = Filed[d].member /\ Opening[u].status # "none"}]

(* Payment commitments made before. *)
NoPromise == [status |-> "none", member |-> m1, amount |-> 0, by |-> 0, older |-> {}]
NonePromised == [c \in Promises |-> NoPromise]
\* m1 has promised 2.
TwoPromised  == [c \in Promises |-> IF c = 1 THEN [NoPromise EXCEPT !.status = "pending",
                                                                   !.amount = 2]
                                              ELSE NoPromise]

-----------------------------------------------------------------------------
VARIABLE part

Busy == {r \in Requests : req[r] # Idle}

\* The second member stands aside, and nobody but a payment ends a promise.
OfFirstMember ==
  /\ \A r \in Busy : /\ req[r].pc \notin {"bill", "waive", "promise"}
                     /\ req[r].pc = "settle" => req[r].member = m1
  /\ \A c \in Promises : promise[c].status \in {"none", "pending", "kept"}
OneByOne ==
  /\ \A r, s \in Busy : r = s
  /\ \A c \in Promises : promise[c].amount \in {0, 2}
  /\ active = Members /\ \A a \in Accounts : spent[a] = 0
  /\ \A d \in Deposits : dep[d].status \notin {"rejected", "reversed"}

LedgerInit == Init /\ part \in Parts
LedgerNext ==
  /\ Next /\ part' = part
  /\ part = "settlement" => OfFirstMember'
  /\ part = "billing" => OneByOne'
LedgerSpec == LedgerInit /\ [][LedgerNext]_<<vars, part>>
=============================================================================
