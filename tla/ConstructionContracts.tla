------------------------ MODULE ConstructionContracts ------------------------
(***************************************************************************)
(* Contracts of a construction project: agreements, running bills, change  *)
(* orders, chargeable waste, and what is paid to the contractor            *)
(* (construction.routes.ts, construction.service.ts, construction-         *)
(* contractor.service.ts).  Each handler is one Serializable transaction   *)
(* and one step; the hazards are the sequences: a bill is certified after  *)
(* the contract it was computed from has moved on, and advances, retention *)
(* and waste come back out of later bills.                                 *)
(*                                                                         *)
(* A lump-sum contract is certified by amount.  An item-rate contract is   *)
(* certified by the quantity of its one work item, at a rate in halves of  *)
(* a unit of money.  Retention is a share in ten-thousandths.              *)
(***************************************************************************)
EXTENDS Integers, FiniteSets, FiniteSetsExt

CONSTANTS
  Contracts, Engineers,          \* Engineers request and review
  RunningBills, WasteEntries, ChangeOrders, NoBill,
  LumpSum,                       \* the price of a lump-sum contract
  Quantity, HalfRate,            \* of an item-rate contract
  RetentionBps,
  ContractSums,                  \* advances, payments, waste, changes
  MaxContract,                   \* bound: the largest revised amount
  SiteCash                       \* what the paying account holds at first

VARIABLES
  contract,   \* contracts, by id
  certificate,\* running bills, by id
  waste,      \* chargeable waste, by id
  change,     \* change orders, by id
  siteCash    \* balance of the paying account

contractVars == <<contract, certificate, waste, change, siteCash>>

ASSUME ContractAssumption ==
  /\ {LumpSum, Quantity, HalfRate} \subseteq Nat \ {0}
  /\ ContractSums \subseteq Nat \ {0}
  /\ RetentionBps \in 0 .. 10000 /\ MaxContract \in Nat /\ SiteCash \in Nat
  /\ IsFiniteSet(Contracts) /\ IsFiniteSet(RunningBills) /\ IsFiniteSet(WasteEntries)
  /\ NoBill \notin RunningBills

NoAgreement == [status |-> "none"]

\* Values are rounded once, half up.
WorkValue(q) == (q * HalfRate + 1) \div 2
Retained(n) == (n * RetentionBps + 5000) \div 10000

ContractRows == {NoAgreement} \cup
  [mode : {"lump_sum", "item_rate"}, by : Engineers,
   status : {"pending", "active", "rejected", "suspended", "closed"},
   revised : Nat, certified : Nat, done : 0 .. Quantity, held : Int, released : Nat,
   advance : Nat, recovered : Nat]
CertificateRows == {NoAgreement} \cup
  [contract : Contracts, by : Engineers, status : {"pending", "approved", "rejected"},
   previous : Nat, cumulative : Nat, before : 0 .. Quantity, done : 0 .. Quantity,
   retention : Int, recovery : Nat, deducted : Nat, net : Nat, paid : Nat]
WasteRows == {NoAgreement} \cup
  [status : {"charged"}, contract : Contracts, value : ContractSums, bill : RunningBills \cup {NoBill}]
ChangeRows == {NoAgreement} \cup
  [contract : Contracts, by : Engineers, amount : Int, status : {"pending", "approved", "rejected"}]

ContractsTypeOK ==
  /\ contract \in [Contracts -> ContractRows]
  /\ certificate \in [RunningBills -> CertificateRows]
  /\ waste \in [WasteEntries -> WasteRows]
  /\ change \in [ChangeOrders -> ChangeRows]
  /\ siteCash \in Nat

ContractsInit ==
  /\ contract = [c \in Contracts |-> NoAgreement]
  /\ certificate = [b \in RunningBills |-> NoAgreement]
  /\ waste = [e \in WasteEntries |-> NoAgreement]
  /\ change = [o \in ChangeOrders |-> NoAgreement]
  /\ siteCash = SiteCash

InForce(c) == contract[c].status = "active"
Unwritten(f, k) == f[k] = NoAgreement

-----------------------------------------------------------------------------
(* Agreements. *)

Agreed(u, kind, amount, state) ==
  [mode |-> kind, by |-> u, status |-> state, revised |-> amount, certified |-> 0, done |-> 0,
   held |-> 0, released |-> 0, advance |-> 0, recovered |-> 0]

\* A lump-sum contract is active at once, an item-rate one awaits review.
SignContract(c, u) ==
  /\ Unwritten(contract, c)
  /\ \/ contract' = [contract EXCEPT ![c] = Agreed(u, "lump_sum", LumpSum, "active")]
     \/ contract' = [contract EXCEPT ![c] = Agreed(u, "item_rate", WorkValue(Quantity), "pending")]
  /\ UNCHANGED <<certificate, waste, change, siteCash>>

DecideContract(c, u, approved) ==
  /\ contract[c].status = "pending" /\ contract[c].by # u
  /\ contract' = [contract EXCEPT ![c].status = IF approved THEN "active" ELSE "rejected"]
  /\ UNCHANGED <<certificate, waste, change, siteCash>>

\* A contract is closed when all work is certified and all advances are back.
Closable(c) ==
  /\ contract[c].mode = "item_rate" => contract[c].done = Quantity
  /\ contract[c].certified = contract[c].revised
  /\ contract[c].advance = contract[c].recovered

\* A lump-sum contract may be opened again.
ChangeContractStatus(c, to) ==
  /\ contract[c] # NoAgreement /\ contract[c].status # to
  /\ contract[c].mode = "item_rate" => contract[c].status \notin {"pending", "rejected", "closed"}
  /\ to = "closed" => Closable(c)
  /\ contract' = [contract EXCEPT ![c].status = to]
  /\ UNCHANGED <<certificate, waste, change, siteCash>>

-----------------------------------------------------------------------------
(* Running bills.  A bill is computed from the contract when it is         *)
(* requested, and again when it is approved.                               *)

Outstanding(c) == contract[c].advance - contract[c].recovered

\* Lump sum: each bill's retention is rounded.  Item rate: the retention of
\* all work done is rounded, and what is held already taken off.
Retention(c, cumulative) ==
  IF contract[c].mode = "lump_sum"
    THEN Retained(cumulative - contract[c].certified)
    ELSE Retained(cumulative) - contract[c].held
\* What checkedMoney refuses is a retention or a payable below zero.
Payable(c, cumulative, recovery) ==
  cumulative - contract[c].certified - Retention(c, cumulative) - recovery
Computable(c, cumulative, done, recovery) ==
  /\ recovery <= Outstanding(c) /\ cumulative <= contract[c].revised
  /\ IF contract[c].mode = "lump_sum" THEN cumulative > contract[c].certified
     ELSE done > contract[c].done /\ (cumulative = contract[c].certified => recovery = 0)
  /\ Retention(c, cumulative) >= 0 /\ Payable(c, cumulative, recovery) >= 0

Free(W, c) == \A e \in W : waste[e] # NoAgreement /\ waste[e].contract = c /\ waste[e].bill = NoBill
SumOf(f, S) == MapThenSumSet(LAMBDA x : f[x], S)
WasteValue(W) == SumOf([e \in W |-> waste[e].value], W)

\* Work done is q of a measured contract, the amount itself of a lump sum.
SubmitBill(b, c, u, q, recovery, W) ==
  LET measured == contract[c].mode = "item_rate"
      cumulative == IF measured THEN WorkValue(q) ELSE q
      done == IF measured THEN q ELSE 0
      deducted == WasteValue(W)
  IN /\ Unwritten(certificate, b) /\ InForce(c) /\ (measured => q <= Quantity)
     /\ measured => \A x \in RunningBills : certificate[x] # NoAgreement =>
                      ~(certificate[x].contract = c /\ certificate[x].status = "pending")
     /\ Computable(c, cumulative, done, recovery) /\ Free(W, c)
     /\ deducted <= Payable(c, cumulative, recovery)
     /\ certificate' = [certificate EXCEPT ![b] =
          [contract |-> c, by |-> u, status |-> "pending",
           previous |-> contract[c].certified, cumulative |-> cumulative,
           before |-> contract[c].done, done |-> done,
           retention |-> Retention(c, cumulative), recovery |-> recovery,
           deducted |-> deducted, net |-> Payable(c, cumulative, recovery) - deducted, paid |-> 0]]
     /\ waste' = [e \in WasteEntries |-> IF e \in W THEN [waste[e] EXCEPT !.bill = b] ELSE waste[e]]
     /\ UNCHANGED <<contract, change, siteCash>>

\* Fault: a bill is taken as it was computed when it was requested.
AsRequested(b) == TRUE
\* Another bill certified meanwhile, other quantities, or an advance or a
\* change that alters the totals make the approval fail.
StillRight(b) ==
  LET row == certificate[b] c == certificate[b].contract
  IN /\ contract[c].certified = row.previous
     /\ contract[c].mode = "item_rate" => contract[c].done = row.before
     /\ Computable(c, row.cumulative, row.done, row.recovery)
     /\ Retention(c, row.cumulative) = row.retention
     /\ Payable(c, row.cumulative, row.recovery) - row.deducted = row.net
ApproveBill(b, u) ==
  LET row == certificate[b] c == certificate[b].contract
  IN /\ row.status = "pending" /\ row.by # u /\ InForce(c) /\ StillRight(b)
     /\ contract' = [contract EXCEPT
          ![c].certified = row.cumulative,
          ![c].done = IF contract[c].mode = "item_rate" THEN row.done ELSE @,
          ![c].held = @ + row.retention, ![c].recovered = @ + row.recovery]
     /\ certificate' = [certificate EXCEPT ![b].status = "approved"]
     /\ UNCHANGED <<waste, change, siteCash>>

RejectBill(b, u) ==
  /\ certificate[b].status = "pending" /\ certificate[b].by # u
  /\ certificate' = [certificate EXCEPT ![b].status = "rejected"]
  /\ waste' = [e \in WasteEntries |->
       IF waste[e] # NoAgreement /\ waste[e].bill = b THEN [waste[e] EXCEPT !.bill = NoBill]
       ELSE waste[e]]
  /\ UNCHANGED <<contract, change, siteCash>>

RecordWaste(e, c, n) ==
  /\ Unwritten(waste, e) /\ InForce(c)
  /\ waste' = [waste EXCEPT ![e] =
       [status |-> "charged", contract |-> c, value |-> n, bill |-> NoBill]]
  /\ UNCHANGED <<contract, certificate, change, siteCash>>

-----------------------------------------------------------------------------
(* Change orders: of lump-sum contracts only. *)

RequestChange(o, c, u, n) ==
  /\ Unwritten(change, o) /\ InForce(c) /\ contract[c].mode = "lump_sum"
  /\ change' = [change EXCEPT ![o] = [contract |-> c, by |-> u, amount |-> n, status |-> "pending"]]
  /\ UNCHANGED <<contract, certificate, waste, siteCash>>

ApproveChange(o, u) ==
  LET c == change[o].contract amount == contract[c].revised + change[o].amount
  IN /\ change[o].status = "pending" /\ change[o].by # u /\ InForce(c)
     /\ amount >= Max({contract[c].certified, contract[c].advance}) /\ amount <= MaxContract
     /\ contract' = [contract EXCEPT ![c].revised = amount]
     /\ change' = [change EXCEPT ![o].status = "approved"]
     /\ UNCHANGED <<certificate, waste, siteCash>>

RejectChange(o, u) ==
  /\ change[o].status = "pending" /\ change[o].by # u
  /\ change' = [change EXCEPT ![o].status = "rejected"]
  /\ UNCHANGED <<contract, certificate, waste, siteCash>>

-----------------------------------------------------------------------------
(* Payments; each is one entry of the account. *)

Spent(n) == siteCash >= n /\ siteCash' = siteCash - n

\* The retention still to come out of an item-rate contract is kept free.
PayAdvance(c, n) ==
  LET later == IF contract[c].mode = "item_rate" THEN Retained(contract[c].revised) - contract[c].held
               ELSE 0
  IN /\ InForce(c) /\ n <= contract[c].revised - contract[c].certified - later - Outstanding(c)
     /\ Spent(n)
     /\ contract' = [contract EXCEPT ![c].advance = @ + n]
     /\ UNCHANGED <<certificate, waste, change>>

PayRetention(c, n) ==
  /\ contract[c].status = "closed" /\ n <= contract[c].held - contract[c].released /\ Spent(n)
  /\ contract' = [contract EXCEPT ![c].released = @ + n]
  /\ UNCHANGED <<certificate, waste, change>>

PayBill(b, n) ==
  /\ certificate[b].status = "approved" /\ n <= certificate[b].net - certificate[b].paid /\ Spent(n)
  /\ certificate' = [certificate EXCEPT ![b].paid = @ + n]
  /\ UNCHANGED <<contract, waste, change>>

ContractsNext ==
  \/ \E c \in Contracts, u \in Engineers :
       SignContract(c, u) \/ \E yes \in BOOLEAN : DecideContract(c, u, yes)
  \/ \E c \in Contracts, to \in {"active", "suspended", "closed"} : ChangeContractStatus(c, to)
  \/ \E b \in RunningBills, u \in Engineers :
       \/ \E c \in Contracts, q \in 1 .. MaxContract, r \in {0} \cup ContractSums,
             W \in SUBSET WasteEntries : SubmitBill(b, c, u, q, r, W)
       \/ ApproveBill(b, u) \/ RejectBill(b, u)
  \/ \E e \in WasteEntries, c \in Contracts, n \in ContractSums : RecordWaste(e, c, n)
  \/ \E o \in ChangeOrders, u \in Engineers :
       \/ \E c \in Contracts, n \in ContractSums : RequestChange(o, c, u, n) \/ RequestChange(o, c, u, -n)
       \/ ApproveChange(o, u) \/ RejectChange(o, u)
  \/ \E c \in Contracts, n \in ContractSums : PayAdvance(c, n) \/ PayRetention(c, n)
  \/ \E b \in RunningBills, n \in ContractSums : PayBill(b, n)

ContractsSpec == ContractsInit /\ [][ContractsNext]_contractVars

-----------------------------------------------------------------------------

Standing(S) == {b \in RunningBills : certificate[b].status \in S}
BillsOf(c, S) == {b \in Standing(S) : certificate[b].contract = c}
SignedContracts == {c \in Contracts : contract[c] # NoAgreement}

\* The approved bills of a contract are a chain without gap or overlap: they
\* add up to what is certified, held and recovered, and no more is certified
\* than agreed or recovered than advanced.
CertifiedByBills ==
  \A c \in SignedContracts :
    LET chain == BillsOf(c, {"approved"})
    IN /\ contract[c].certified
            = SumOf([b \in chain |-> certificate[b].cumulative - certificate[b].previous], chain)
       /\ \A a, b \in chain : a # b =>
            certificate[a].cumulative <= certificate[b].previous
              \/ certificate[b].cumulative <= certificate[a].previous
       /\ contract[c].held = SumOf([b \in chain |-> certificate[b].retention], chain)
       /\ contract[c].recovered = SumOf([b \in chain |-> certificate[b].recovery], chain)
       /\ contract[c].certified <= contract[c].revised
       /\ contract[c].recovered <= contract[c].advance
       /\ contract[c].released <= contract[c].held

\* However an item-rate contract was billed, its certified amount and its
\* retention are those of the work done: roundings do not add up.
RoundedOnce ==
  \A c \in SignedContracts : contract[c].mode = "item_rate" =>
    contract[c].certified = WorkValue(contract[c].done) /\ contract[c].held = Retained(contract[c].certified)

\* A waste entry is deducted by one bill that stands, or by none.
WasteChargedOnce ==
  \A b \in Standing({"pending", "approved"}) :
    certificate[b].deducted
      = WasteValue({e \in WasteEntries : waste[e] # NoAgreement /\ waste[e].bill = b})

\* A closed contract owes nothing but retention: all work is certified and no
\* advance is left to recover.
ClosedIsSettled ==
  \A c \in SignedContracts : contract[c].status = "closed" =>
    contract[c].certified = contract[c].revised /\ Outstanding(c) = 0

\* What left the account is what the contracts' rows say was paid.
PaymentsAccounted ==
  SiteCash - siteCash
    = SumOf([c \in SignedContracts |-> contract[c].advance + contract[c].released], SignedContracts)
      + SumOf([b \in Standing({"approved"}) |-> certificate[b].paid], Standing({"approved"}))

ContractsHold ==
  CertifiedByBills /\ RoundedOnce /\ WasteChargedOnce /\ ClosedIsSettled /\ PaymentsAccounted

\* Advances outstanding never exceed the work still to be certified, so that
\* later bills can recover them (docs/CONSTRUCTION_FINANCIAL_MANAGEMENT.md:76).
\* Not kept: the limit is tested when an advance is paid, and a bill that
\* recovers nothing may be approved after it, or a change order reduce the
\* amount, which is compared with the certified work and with the advances
\* paid each alone.  The contract can then not be closed.
AdvanceRecoverable ==
  \A c \in SignedContracts : Outstanding(c) <= contract[c].revised - contract[c].certified
=============================================================================
