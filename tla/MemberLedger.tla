---------------------------- MODULE MemberLedger ----------------------------
(***************************************************************************)
(* The member ledger as a whole: payments (DepositApproval), settlements,  *)
(* billing and waivers (MemberSettlement), the reversal of posted          *)
(* deposits (reversals.service.ts), the payment commitments (follow-ups)   *)
(* and the other debits of the accounts, run by handlers that interleave.  *)
(***************************************************************************)
EXTENDS MemberSettlement

-----------------------------------------------------------------------------
(* reverseTransaction for a deposit.  It is Serializable and repeated on a  *)
(* conflict (financialTransaction), and every row it depends on it writes   *)
(* or only Serializable transactions write, except the allocations billing  *)
(* inserts: it is one step, and the interleaving is billing's.              *)

EntriesOf(d, type) == {i \in DOMAIN entries[d] : entries[d][i].type = type}

CashPostedOnce(d) ==
  \E i \in EntriesOf(d, "deposit") :
    EntriesOf(d, "deposit") = {i} /\ entries[d][i].amount = dep[d].amount

ExactSnapshot(d) ==
  /\ \A u \in Linked(d) :
       /\ alloc[d][u].exact
       /\ alloc[d][u].principal + alloc[d][u].penalty = alloc[d][u].amount
  /\ AllocatedOf(alloc[d]) = dep[d].amount

\* Fault: what was reversed may be reversed again.
ReversibleTwice(d) ==
  /\ dep[d].status \in {"confirmed", "reversed"}
  /\ CashPostedOnce(d)
  /\ \A u \in Linked(d) : /\ alloc[d][u].principal <= due[u].paid
                          /\ alloc[d][u].penalty <= due[u].penaltyPaid

Reversible(d) ==
  /\ dep[d].status = "confirmed"
  /\ dep[d].refunded = 0
  /\ dep[d].member \in active
  /\ IF dep[d].kind = "advance" THEN \A u \in Linked(d) : alloc[d][u].amount = 0
                                ELSE ExactSnapshot(d)
  /\ CashPostedOnce(d)
  /\ \A u \in Linked(d) : /\ alloc[d][u].principal <= due[u].paid
                          /\ alloc[d][u].penalty <= due[u].penaltyPaid

\* Fault: all of the due's money is taken back.
AllReopened(d, u) ==
  [due[u] EXCEPT !.paid = 0, !.penaltyPaid = 0, !.status = "due"]

Reopened(d, u) ==
  LET back == [due[u] EXCEPT !.paid = @ - alloc[d][u].principal,
                             !.penaltyPaid = @ - alloc[d][u].penalty]
  IN  [back EXCEPT !.status = PaymentStatus(back)]

\* A promise this deposit kept is open again, unless the member has made a
\* new one: only one may be pending.
PromiseRestored(d) ==
  LET reopened == IF PromisesOf(dep[d].member, "pending") = {} THEN "pending" ELSE "closed"
  IN  [c \in Promises |->
         IF promise[c].by = d THEN [promise[c] EXCEPT !.status = reopened, !.by = 0]
         ELSE promise[c]]

ReverseDeposit(d) ==
  /\ "reverse" \in Ops
  /\ Reversible(d)
  /\ \A u \in Linked(d) : alloc[d][u].amount > 0 => UnlockedDue(u)
  /\ \E i \in EntriesOf(d, "deposit") :
       LET original == entries[d][i]
       IN  /\ UnlockedAccount(original.account)
           /\ balance[original.account] >= original.amount
           /\ balance' = [balance EXCEPT ![original.account] = @ - original.amount]
           /\ RecordEntry(d, "deposit_reversal", original.account, original.amount)
  /\ due' = [u \in Dues |-> IF u \in Linked(d) /\ alloc[d][u].amount > 0
                            THEN Reopened(d, u) ELSE due[u]]
  /\ dep' = [dep EXCEPT ![d].status = "reversed"]
  /\ receipt' = [receipt EXCEPT ![d] = "voided"]
  /\ promise' = PromiseRestored(d)
  /\ UNCHANGED <<alloc, spent, active, route, req>>

-----------------------------------------------------------------------------
(* Payment commitments: POST /members/:id/call-logs and POST               *)
(* /me/payment-commitment make one and supersede the pending one, POST     *)
(* /commitments/:id/resolve closes one, breakOverdueCommitments and the    *)
(* next call break one whose day has passed.                               *)

NextPromise(c) == /\ promise[c].status = "none"
                  /\ \A e \in Promises : promise[e].status = "none" => c <= e

\* Both hold the member's row while they work, so that two cannot read the
\* same pending promise; a confirmation or a reversal may still write it.
StartPromise(r) ==
  /\ "promise" \in Ops
  /\ req[r].pc = "idle"
  /\ \E m \in active, n \in Amounts, overdue \in BOOLEAN :
       /\ \A q \in Requests : req[q].pc = "promise" => req[q].member # m
       /\ n <= Outstanding(due, m)
       /\ Become(r, [pc |-> "promise", member |-> m, amount |-> n,
                     open |-> PromisesOf(m, "pending"), overdue |-> overdue])
  /\ UNCHANGED <<dep, alloc, receipt, entries, due, balance, spent, active, route, promise>>

\* The promises read are closed whatever they have become; a unique index
\* refuses the new one if yet another is pending.
MakePromise(r) ==
  /\ req[r].pc = "promise"
  /\ LET q == req[r]
     IN  /\ PromisesOf(q.member, "pending") \subseteq q.open
         /\ \E c \in Promises :
              /\ NextPromise(c)
              /\ promise' = [e \in Promises |->
                   IF e = c
                   THEN [status |-> "pending", member |-> q.member, amount |-> q.amount, by |-> 0,
                         older |-> {d \in Deposits : dep[d].status # "none"}]
                   ELSE IF e \in q.open
                   THEN [promise[e] EXCEPT !.status = IF q.overdue THEN "broken" ELSE "closed"]
                   ELSE promise[e]]
  /\ Become(r, Idle)
  /\ UNCHANGED <<dep, alloc, receipt, entries, due, balance, spent, active, route>>

ResolvePromise(c) ==
  /\ "promise" \in Ops
  /\ promise[c].status \in {"pending", "broken"}
  /\ promise' = [promise EXCEPT ![c].status = "closed"]
  /\ UNCHANGED <<dep, alloc, receipt, entries, due, balance, spent, active, route, req>>

BreakPromise(c) ==
  /\ "promise" \in Ops
  /\ promise[c].status = "pending"
  /\ promise' = [promise EXCEPT ![c].status = "broken"]
  /\ UNCHANGED <<dep, alloc, receipt, entries, due, balance, spent, active, route, req>>

-----------------------------------------------------------------------------
\* Expenses and transfers debit an account only while it holds the amount
\* (updateMany with balance >= amount).
SpendFromAccount(a) ==
  /\ "spend" \in Ops
  /\ UnlockedAccount(a)
  /\ \E n \in Amounts :
       /\ balance[a] >= n
       /\ balance' = [balance EXCEPT ![a] = @ - n]
       /\ spent' = [spent EXCEPT ![a] = @ + n]
  /\ UNCHANGED <<dep, alloc, receipt, entries, due, active, route, promise, req>>

\* A handler ends without effect: a check fails, the database aborts its
\* transaction, or the process dies; what it has written is rolled back.
GiveUp(r) ==
  /\ req[r].pc # "idle"
  /\ Become(r, Idle)
  /\ UNCHANGED <<dep, alloc, receipt, entries, due, balance, spent, active, route, promise>>

-----------------------------------------------------------------------------
Init ==
  /\ dep = Filed
  /\ alloc = [d \in Deposits |-> [u \in Dues |-> IF u \in FiledDues[d] THEN Link ELSE NoAlloc]]
  /\ receipt = [d \in Deposits |-> "none"]
  /\ entries = [d \in Deposits |-> << >>]
  /\ due = Opening
  /\ balance = [a \in Accounts |-> 0]
  /\ spent = [a \in Accounts |-> 0]
  /\ active = Members
  /\ route \in Routes
  /\ promise = Promised
  /\ req = [r \in Requests |-> Idle]

Next ==
  \/ ApprovalNext
  \/ SettlementNext
  \/ \E d \in Deposits : ReverseDeposit(d)
  \/ \E c \in Promises : ResolvePromise(c) \/ BreakPromise(c)
  \/ \E a \in Accounts : SpendFromAccount(a)
  \/ \E r \in Requests : StartPromise(r) \/ MakePromise(r) \/ GiveUp(r)

Spec == Init /\ [][Next]_vars

-----------------------------------------------------------------------------
(***************************************************************************)
(* Every table and every handler keeps to its type; in particular an       *)
(* account's balance stays between zero and the largest the database       *)
(* holds, although handlers only test it in part.                          *)
(***************************************************************************)
TypeOK ==
  /\ dep \in [Deposits -> DepositRow]
  /\ alloc \in [Deposits -> [Dues -> AllocRow]]
  /\ receipt \in [Deposits -> {"none", "issued", "voided"}]
  /\ entries \in [Deposits -> Seq(EntryRow)]
  /\ due \in [Dues -> DueRow]
  /\ balance \in [Accounts -> 0 .. MaxBalance]
  /\ spent \in [Accounts -> Nat]
  /\ active \subseteq Members
  /\ route \in Routes
  /\ promise \in [Promises -> PromiseRow]
  /\ req \in [Requests -> Request]

-----------------------------------------------------------------------------
(* Safety. *)

InAccount(e, a) ==
  IF e.account # a THEN 0 ELSE IF e.type = "deposit" THEN e.amount ELSE -e.amount
EntryTotal(s, a) == SumOver([i \in DOMAIN s |-> InAccount(s[i], a)], DOMAIN s)

(***************************************************************************)
(* An account's balance is the sum of its transactions: increments and     *)
(* decrements made by handlers that raced never lose one another.          *)
(***************************************************************************)
BalanceMatchesEntries ==
  \A a \in Accounts :
    balance[a] = SumOver([d \in Deposits |-> EntryTotal(entries[d], a)], Deposits) - spent[a]

(***************************************************************************)
(* A deposit is posted once: whatever reviewers, removals and reversals    *)
(* race, a deposit that was confirmed has exactly one receipt and one      *)
(* money_in of its amount on one account, a reversed one has in addition   *)
(* one counter-entry on that account, and every other deposit has nothing. *)
(***************************************************************************)
OnlyEntry(d, type) ==
  \E i \in DOMAIN entries[d] :
    /\ EntriesOf(d, type) = {i}
    /\ entries[d][i].amount = dep[d].amount /\ entries[d][i].account = dep[d].account

PostedOnce ==
  \A d \in Deposits :
    /\ dep[d].status \in {"confirmed", "reversed"} => OnlyEntry(d, "deposit")
    /\ IF dep[d].status = "reversed" THEN OnlyEntry(d, "deposit_reversal")
                                     ELSE EntriesOf(d, "deposit_reversal") = {}
    /\ dep[d].status \notin {"confirmed", "reversed"} => entries[d] = << >>
    /\ receipt[d] = CASE dep[d].status = "confirmed" -> "issued"
                       [] dep[d].status = "reversed" -> "voided"
                       [] OTHER -> "none"

(***************************************************************************)
(* The money a due says it received is the money of the confirmed deposits *)
(* allocated to it, and of no other: the two tables, written by different  *)
(* transactions, never drift apart.                                        *)
(***************************************************************************)
Received(u) == u.paid + u.penaltyPaid
Backing(d, u) == IF dep[d].status = "confirmed" THEN alloc[d][u].amount ELSE 0

DuesAreBacked ==
  \A u \in Dues :
    Received(due[u]) = Received(Opening[u])
      + SumOver([d \in Deposits |-> Backing(d, u)], Deposits)

(***************************************************************************)
(* A due never receives, or has written off, more than it charges.         *)
(***************************************************************************)
NeverOverpaid ==
  \A u \in Dues : due[u].paid + due[u].waived <= due[u].amount

(***************************************************************************)
(* A due reads "paid" or "waived" exactly when nothing is owed on it.      *)
(* Reminders, campaigns and commitments skip dues by that status, while    *)
(* the ledger goes by the amounts.                                         *)
(***************************************************************************)
StatusMatchesBalance ==
  \A u \in Dues : due[u].status # "none" =>
    (due[u].status \in {"paid", "waived"} <=> CalculateDueBalance(due[u]) = 0)

\* The half of it the ledger's readers rely on.  A waiver of a penalty breaks
\* it, with the row it read before a reversal was committed.
NothingOwedWhenPaid ==
  \A u \in Dues : due[u].status \in {"paid", "waived"} => CalculateDueBalance(due[u]) = 0

(***************************************************************************)
(* A confirmed payment of dues is allocated in full, and each allocation   *)
(* remembers its principal and penalty, so that it can be reversed.        *)
(***************************************************************************)
ConfirmedInFull ==
  \A d \in Deposits :
    dep[d].status = "confirmed" /\ dep[d].kind # "advance" => ExactSnapshot(d)

(***************************************************************************)
(* A payment on the accountant route reaches the approver's queue only     *)
(* with an accountant's endorsement, also after its allocation has been    *)
(* changed and reviewers acted on what they had read before.               *)
(***************************************************************************)
EndorsedBeforeApproval ==
  \A d \in Deposits :
    dep[d].status = "pending_approver" /\ dep[d].route = "accountant" => dep[d].endorsed

(***************************************************************************)
(* An advance is spent once: what was allocated to dues and what was       *)
(* refunded together never exceed it.                                      *)
(***************************************************************************)
AdvanceNotOverspent ==
  \A d \in Deposits :
    dep[d].status = "confirmed" => AllocatedOf(alloc[d]) + dep[d].refunded <= dep[d].amount

(***************************************************************************)
(* A member who has left owes nothing, awaits no review and has no unused  *)
(* advance: what assertMemberCanExit saw stays true afterwards.            *)
(***************************************************************************)
LeftWithNothingOpen ==
  \A m \in Members \ active :
    /\ UnpaidDues(m) = {} /\ Awaiting(m) = {}
    /\ \A d \in Deposits :
         IsAdvanceOf(dep[d], m) => UnusedAdvance(dep[d], alloc[d]) = 0

(***************************************************************************)
(* At most one promise of a member is pending, whoever makes, keeps and    *)
(* reopens promises at the same time; and a promise kept by a deposit is   *)
(* kept by a confirmed deposit of that member: a reversal reopens it.      *)
(***************************************************************************)
PromisesConsistent ==
  /\ \A m \in Members : \A c, e \in PromisesOf(m, "pending") : c = e
  /\ \A c \in Promises :
       promise[c].status = "kept" => \E d \in Deposits :
         /\ promise[c].by = d
         /\ dep[d].status = "confirmed" /\ dep[d].member = promise[c].member

(***************************************************************************)
(* When no deposit is being posted, a pending promise is one that the      *)
(* confirmed deposits made since do not yet reach.                         *)
(***************************************************************************)
PromiseNoticed ==
  (\A r \in Requests : ~Posting(r)) =>
    \A c \in Promises : promise[c].status = "pending" =>
      PaidSince(dep, c) < promise[c].amount

-----------------------------------------------------------------------------
(* What a step may never do. *)

(***************************************************************************)
(* The books are append-only: a posted deposit keeps its amount, member,   *)
(* account and principal/penalty split for good, leaves "confirmed" only   *)
(* for "reversed", never to be posted again, and no entry is changed.      *)
(***************************************************************************)
IsPrefixOf(s, t) == Len(s) <= Len(t) /\ SubSeq(t, 1, Len(s)) = s

PostedIsFinal ==
  [][\A d \in Deposits :
       /\ IsPrefixOf(entries[d], entries'[d])
       /\ dep[d].status \in {"confirmed", "reversed"} =>
            /\ dep'[d].status \in {dep[d].status, "reversed"}
            /\ ReviewedOf([dep'[d] EXCEPT !.status = dep[d].status]) = ReviewedOf(dep[d])
            /\ \A u \in Dues : alloc[d][u].exact => alloc'[d][u] = alloc[d][u]
       /\ dep[d].status \in {"rejected", "removed"} => dep'[d] = dep[d]]_vars

(***************************************************************************)
(* Money credited to a due is taken back only by reversing a deposit that  *)
(* was allocated to it, and only as much as that deposit had given.        *)
(***************************************************************************)
CreditsAreKept ==
  [][\A u \in Dues : Received(due'[u]) < Received(due[u]) =>
       \E d \in Deposits : /\ dep[d].status = "confirmed" /\ dep'[d].status = "reversed"
                           /\ Received(due'[u]) = Received(due[u]) - alloc[d][u].amount]_vars

(***************************************************************************)
(* What is posted is what its reviewer read: between reading and posting   *)
(* nobody has changed the payment's stage, amount, kind, member or account,*)
(* and a payment that still awaits the accountant is posted only for an    *)
(* administrator who may review it alone.                                  *)
(***************************************************************************)
PostedAsReviewed ==
  [][\A r \in Requests : Posting(r) /\ dep'[req[r].dep].status = "confirmed" =>
       LET d == req[r].dep
       IN  /\ ReviewedOf(dep[d]) = req[r].before
           /\ dep[d].status = "pending_approver" \/ req[r].direct
           /\ dep[d].kind = "advance" => dep[d].endorsed \/ req[r].direct]_vars

\* Of a review: what is confirmed is confirmed in full, as it was read, and
\* for good.
ReviewHolds == []ConfirmedInFull /\ PostedIsFinal /\ PostedAsReviewed

\* Of submissions and promises at the same time.
SubmissionHolds == ConfirmedInFull /\ PromisesConsistent

\* Of settlements beside confirmations, reversals and exits: dues and
\* advances are backed by money, and credits are kept.
SettlementHolds == 
  /\ [](DuesAreBacked /\ AdvanceNotOverspent /\ LeftWithNothingOpen)
  /\ CreditsAreKept

\* Of billing: statuses tell balances, advances suffice, kept promises show.
BillingHolds == StatusMatchesBalance /\ AdvanceNotOverspent /\ PromiseNoticed
==============================================================================
