# Fund ledger: TLA+ models, checks and proofs

This directory specifies the fund-ledger API (`src/`): how members' payments
are submitted, reviewed, posted, reversed and settled; how expenses, sales,
purchases, incomes and transfers move the cash of a project's accounts; how
organizations are set up, staffed, charged, renewed and deleted; the back
office around the ledger (recurring work, customer billing, payroll, assets,
sales documents, fees and results, contracts); and the workers that deliver and
delete, while many HTTP handlers and processes use the same PostgreSQL tables.
The models are checked with TLC on small instances; the theorems are proved
with TLAPS for every value of the constants. `PROJECT.json` maps every
definition to the lines it models and lists runs, mutants, findings, hazards
and theorems.

Contents: [1 The system](#1-the-system), [2 How the code is modelled](#2-how-the-code-is-modelled),
[3 Modules](#3-modules), [4 Runs](#4-runs), [5 Findings](#5-findings),
[6 Proofs](#6-proofs), [7 What is not modelled](#7-what-is-not-modelled), [8 Plan](#8-plan).

## 1 The system

One Express server (`src/src/app.ts`) over one PostgreSQL database through
Prisma. A tenant has projects; a *fund* project collects instalments from its
members. Everything durable is a row; handlers keep nothing between requests.
Concurrency is therefore between database transactions, and between a
transaction and what its handler read before it. Several server processes may
run; a few workers and cron jobs run beside the handlers.

### Inventory of the fund ledger

| Component (code) | State | Operations |
|---|---|---|
| Deposit allocation (`modules/deposits/deposit-allocation.ts`, `-review.ts`) | none: pure | divide a payment among dues, version of what a reviewer sees |
| Deposits (`modules/deposits/deposits.routes.ts`) | `deposits`, `deposit_allocations`, `receipts`, `account_transactions`, `accounts.balance`, `dues` | submit, submit advance, submit and finalize, preview, approve (accountant, then approver, or administrator alone), confirm, resolve allocation, reject, delete |
| Dues (`modules/dues`) | `dues` | outstanding total, waive penalty |
| Schedules (`modules/schedules`) | `installment_schedules`, `dues`, allocations of advances | create a schedule: one due per active member, paid from advances at once |
| Members (`modules/members`) | `members.status`, and the tables above | settle (apply advance, write off, refund), remove, transfer, reactivate |
| Reversals (`modules/reversals`) | all of the above | reverse a posted deposit (or expense, income, transfer, asset) |
| Follow-ups (`modules/follow-ups`) | `payment_commitments`, call logs | make, supersede, keep, break, resolve a payment commitment |
| Accounts (`modules/accounts`) | `accounts.balance`, `account_transactions` | open with a balance, adjust |
| Expenses (`modules/expenses`, drafts also in `modules/ai-service`) | `expenses`, and the two above | record, draft, submit, approve, disburse, reject |
| Sales, purchases, incomes, transfers | own tables, accounts, stock | sell, cancel; order, receive, cancel; record; transfer |
| Project settings (`core/projects`) | the deposit review route | read, change |
| Broadcasts (`modules/internal/platform-broadcasts.service.ts`) | delivery rows with leases and attempts | queue, claim, push, finish, retry, give up |
| Campaigns, support outbox | delivery rows with claims | claim, send, finish, expire (not modelled) |

### Inventory of the organization around it

| Component (code) | State | Operations |
|---|---|---|
| Share records and roles (`modules/members`, `modules/memberships`) | `members` with their shares, seats of people in projects | add, import, edit, transfer, remove; invite, grant, change, end roles |
| Fund import (`members/fund-import.service.ts`) | opening rows, the request under its key | review, commit, replay |
| Tenant settings (`deposit-delegates`, document titles, contact data, AI credits) | one JSON column `tenants.contact`, its stamp | each handler rewrites its section |
| Onboarding (`modules/onboarding`) | four steps and an overall status in one row | organization, accounting, accounts, shareholders, skip, complete |
| Projects and quotas (`modules/projects`, `uploads`, `core/subscription`) | projects, people, documents and files; database triggers | create, upload, resize, change package |
| Subscription (`modules/subscription`) | invoices, payments, receipts in storage | choose, pay, review, pay by hand, renew, purge |
| One-time codes, choice of account (`modules/auth`) | codes, daily allowance, selections | ask, redeem, choose, expire |
| Sign-up (`modules/tenants`, `auth/google-oauth.service.ts`) | logins, organizations, short names, tickets | prove, provision, retry a name, fail |
| Support sessions (`modules/auth/impersonation.service.ts`) | sessions of the master account and their children | start, switch, stop, sign out |
| Deletion of projects and organizations (`projects/project-deletion.service.ts`) | jobs with leases, manifests, stored objects | freeze, claim, list, purge, delete records, retry |
| Erasure of an account (`internal/account-deletion.service.ts`) | requests with leases, files, the identity at the provider | request, review, claim, purge, delete |
| Recurring schedules and bills (`recurring-schedules`, `expenses/recurring-*`) | rules, bills with handled periods | run, record, skip, announce, edit, pause |
| Payment reminders, community (`payment-reminders`, `community`) | rules and claims; polls, events, reminders sent | claim, send, edit, vote, replan |
| Customer billing (`modules/billing`) | invoices, payments and their shares, advances, adjustments; runs | issue, collect, apply, request and decide adjustments, late fees; queue and step a run |
| Payroll (`modules/payroll`) | employees, leave, attendance, bills, salary runs | change, prepare, check, approve, disburse, import |
| Fixed assets (`modules/fixed-assets`) | assets, charges, journal | buy, post, service, move, dispose, reverse |
| Sales documents, stock (`modules/accounting`, `modules/inventory`) | quotations, orders, invoices; items, movements | create, edit, accept, convert, issue, cancel, pay |
| Institute (`modules/institute`) | fees and their payments; mark sheets, examinations, report cards | generate, pay, verify; save, hand in, return, publish |
| Contracts (`modules/construction`) | contracts, running bills, waste, change orders | sign, bill, approve, change, close, pay |

`PROJECT.json` lists every component with its status, also those not modelled
(assistants, integrations, notifications and audit, reports, plumbing).

### How the components interact

* A **deposit** names **dues** by allocation rows with amount 0. Posting it
  (`finalizeDepositConfirmation`) writes six tables in one transaction: the
  deposit, its receipt, the account's balance, the account transaction, the
  dues and the allocations with their principal and penalty; then it looks for
  a **commitment** the payment keeps.
* A **schedule** creates dues and pays them from the members' confirmed
  advances. A **settlement** applies the same advances to old dues, writes off
  the rest and refunds what is left.
* A **reversal** undoes a posting from the principal and penalty that the
  allocations recorded, and reopens the commitment.
* An **expense**, **sale**, **purchase** or **transfer** changes an account's
  balance and writes an account transaction with the balance it led to, in the
  transaction that changes its own status. A **reversal** finds that entry again.
* A **member** may leave only with nothing owed, nothing pending, no unused advance.
* A **broadcast** is queued as one delivery per device; the workers of all
  server processes share the deliveries through leases. It touches no money.
* The **roster** decides who has shares; whether a record may leave is the
  ledger's answer (`assertMemberCanExit`), which the roster takes as given.
* An **onboarding** ends with accounts and shareholders that other components
  wrote; a **package** limits what any handler may insert, by a trigger.
* **Recurring rules** create schedules in the ledger, recurring bills pending
  expenses in the cash book; both are idempotent per period.
* Customer billing, payroll, assets, fees and contracts post to accounts of
  their project with the same debit and credit as the cash book, inside their
  own Serializable transaction; they read nothing of one another.

### What is hard

* Handlers read before their transaction and use it inside: the deposit, the
  review route, the dues, the row of a waiver, the active members.
* Transactions of different isolation meet: posting and billing run at Read
  Committed with some explicit row locks; settlement, removal and reversal run
  at Serializable. Serializable isolation protects a transaction only against
  others that are Serializable too, and against row-level write conflicts.
* Two reviewers, a submitter who deletes, an administrator who repairs an
  allocation, and a reversal may all act on one payment.
* Arithmetic: three amounts of principal, two of penalty, two orders of
  payment, write-offs, a 32-bit account balance.
* Processes die and transactions abort between any two steps.
* A delivery worker goes through a page it read before; leases and waiting
  times run out, operators retry, and the provider may have taken a message
  that no row tells of.
* The database, object storage and the sign-in provider cannot commit together:
  a receipt, a file or an identity is written or dropped beside the transaction
  that decides about it.
* Every process runs every worker; two of them hold what they read of one row.
* People decide in a second request on what they saw in a first: an adjustment,
  a salary run, a running bill, an examination, a step of the set-up.

### What makes each component correct

| Component | Properties (definitions in the modules) |
|---|---|
| Deposit allocation | `LoopSolvesPlan`, `MoneyIsConserved`, `FullyAssignedIffOutstanding`, `OldestFirst`, `PriorityRespected`; theorems `PaymentConserved`, `PaidMeansSettled`, `PlanTakesAll` |
| Deposits | `PostedOnce`, `ConfirmedInFull`, `EndorsedBeforeApproval`, `PostedAsReviewed`, `PostedIsFinal` |
| Accounts | `BalanceMatchesEntries`, `TypeOK` (range of the balance) |
| Dues, settlement, billing, reversal | `DuesAreBacked`, `NeverOverpaid`, `AdvanceNotOverspent`, `StatusMatchesBalance`, `CreditsAreKept` |
| Members | `LeftWithNothingOpen` |
| Expenses | `DocumentCash`, `PaidWithAuthority`; `RejectedCostsNothing` (broken, section 5) |
| Sales, purchases, incomes | `DocumentCash` |
| Accounts, transfers | `StatementAgrees`, `NeverOverdrawn`, `TransfersCancelOut`, `KeepsBook` |
| Follow-ups | `PromisesConsistent`, `PromiseNoticed` |
| Broadcasts | `AttemptsAsRead`, `Reachable`, `PushedOnce`, `FinalStays`, `EveryDeliveryEnds` |
| Roles | `OwnerRemains` (broken, section 5) |
| Fund import | `OpeningImportedOnce` |
| Tenant settings | `NoSectionLost` |
| Onboarding | `LeavesSetUpReady` |
| Projects and quotas | `WithinPackage` |
| Subscription | `TermPerPayment`, `ReceiptOnFile`, `PaidDocumentsStay` |
| Codes, support sessions | `OneSessionPerCode`, `TextsWithinAllowance`, `OneSupportSession`, `GuessesLimited` |
| Sign-up | `OneOrganizationPerPerson`, `TicketsAccounted` |
| Deletion, erasure | `NothingLeftBehind`, `DeletionEnds`, `ErasureIsClean` |
| Recurring schedules, bills | `NoPeriodLost`, `DueAfterHandled`, `AnnouncedOnce`; `RunsOnIntendedDays` (broken, section 5) |
| Reminders, community | `PlanKeepsDeadline`, `RemindedOnceADay`, `RemindersNotRepeated` |
| Customer billing, runs | `CreditTraced`, `LedgerAgrees`, `RunAccountsForAll` |
| Payroll | `BillsInOneRun`, `UnpaidRunsCurrent`, `ReviewCoversRows` |
| Fixed assets | `BooksFollowTheAsset`, `ChargedToHolder` |
| Sales documents, stock | `StockFollowsInvoices`, `AcceptedAsItStands`, `FollowsItsWorkflow`, `PaymentsStandAgainstInvoices` |
| Institute | `FeesAgree`, `MarksNotLost`, `PublishedAsSeen`, `CardsCurrent` |
| Contracts | `CertifiedByBills`, `RoundedOnce`, `WasteChargedOnce`, `ClosedIsSettled`, `PaymentsAccounted` |

## 2 How the code is modelled

**Steps.** A database transaction is one step, at its commit, except where it
matters what it sees before: reads a handler makes *before* its transaction, the
snapshot of a Serializable transaction, and the reads of rows it does not lock
are steps of their own. Each request in progress (`req[r]`) is a record with a
stage `pc` and exactly what the handler has read and not yet used.

| Handler | Steps |
|---|---|
| submit | `StartSubmit` reads dues and route; `Submit` creates the deposit |
| submit and finalize | `StartSubmit`; `SubmitAndFinalize` re-reads the dues and posts |
| review | `OpenReview` (with or without the version of a preview); `ReadDeposit`; then `Endorse`, or `PlanConfirmation`; `LockForPosting`; `Post` |
| schedule | `StartBilling` reads members and advances; `BillApply` per due and advance; `BillCommit` |
| settlement | `StartSettle` takes the snapshot; `SettleApply` per due and advance; `SettleCommit` writes off, refunds and commits |
| penalty waiver | `StartWaive` reads the row; `WaivePenalty` writes it |
| commitment | `StartPromise`; `MakePromise` |
| one step each | `Reject`, `Remove`, `ResolveAllocation`, `ReverseDeposit`, `RemoveMember`, `ReactivateMember`, `ResolvePromise`, `BreakPromise`, `SpendFromAccount`, `ChangeRoute` |

`GiveUp` ends any request in any stage without effect: a failed check, an abort
by the database (serialization failure, deadlock victim) or the death of the
process; the transaction's writes are rolled back with it.

**Serializable handlers with a receipt.** The back office wraps each operation
in one Serializable transaction that first looks up the key of its request
(`financialTransaction`, `mutate`). A repeated request changes nothing, and
PostgreSQL makes transactions that all are Serializable behave as if one
followed the other; such an operation is one action, and what remains hard is
what people read before it, and sequences of operations. Handlers that work at
Read Committed are split into their reads and their commit as above.

**Locks.** While a request is `"posting"` it has locked its deposit
(`SELECT ... FOR UPDATE`), its dues (the same) and the account it credits (the
`UPDATE` of the balance), so steps that write them wait (`Unlocked`,
`UnlockedDue`, `UnlockedAccount`). Between taking the locks and the commit it
has only its unlocked reads, made when it looks for a commitment. Two posts into
the same account therefore follow one another, and two into different accounts overlap.

**Serializable transactions.** `SettleCommit` is enabled only if the rows it
writes are unchanged since its snapshot (`NoConflict`: first updater wins), and
if the advances and allocations it read, which only Serializable transactions
change, are unchanged. It does *not* demand that rows written by Read Committed
transactions and only read by the settlement are unchanged, because PostgreSQL
does not detect that. `ReverseDeposit` is Serializable and repeated on a
conflict (`financialTransaction`); every row it reads is a row it writes, or one
that only Serializable transactions write, except the allocations billing
inserts; so it is one step, and the race with billing is billing's.

**Data.** Money is a natural number, in units. A due is its five amounts and a
status; a deposit its status, member, amount, kind, account, route, endorsement
and refund. `"none"` is the row that does not exist yet. Ids follow creation order, which
the code sorts by. The hash of `depositAllocationVersion` is the record it
hashes. Statuses `upcoming` and `overdue` of a due count as `due`: the code
treats them alike in every place modelled. Proof files, reasons, dates, names
and roles are left out: roles only decide who may send a request, and every
request is possible.

**Constants.** `Ops` names the operations a configuration allows. A name in
`Ops` guards the first step of its handler and nothing else; the proofs hold for
every `Ops`.

**Bounds.** The bounds are the constants: the finite sets `Deposits`,
`Schedules`, `Promises`, `Requests`, `Amounts` and so on, and the numbers whose
names begin with `Max`, `Most` or `Last` (`MaxEntries`, the transactions of an
account; `MaxRetries`, retries by hand; `MaxDay`, `LastMonth`, the time that
passes; `LastDay`, the last day of a calendar; `MaxEdits`, `MaxSaves`,
`MaxRevision`, `MaxTroubles`, `MaxUploads`, and others), each described where it
is declared. One edit of a recurring rule is under way at a time, and an employee
is promoted once. Ids are not reused, so each run creates at most as many rows as it has
ids. `MaxBalance` is not a bound of the
model but the code's: the largest value of the PostgreSQL integer column, made
small so that it is reached.

**Faults.** An operator whose comment begins with "Fault" is not part of the
specification. It is a plausible bug (a dropped comparison, a swapped order, a
forgotten term) that can be put in the place of the definition that follows it;
`PROJECT.json` lists under `mutants` which property each one violates, to show
that the property can fail.

## 3 Modules

| Module | Models | Notes |
|---|---|---|
| `DueAllocation` | `deposit-allocation.ts`, `calculateDueBalance` | pure; `SumOver(f, S)` sums over rows; `PlanDepositAllocation` is the set of solutions of the equation the loop solves |
| `AllocationLoop` | the loop of `planDepositAllocation` | shown to compute the only solution |
| `LedgerState` | the tables (`schema.prisma`), requests, locks, derived quantities | all VARIABLES, CONSTANTS and their assumptions |
| `DepositApproval` | `deposits.routes.ts`, `resolveCommitmentsForDeposit` | extends `LedgerState` |
| `MemberSettlement` | `schedule-creation.service.ts`, `member-settlement.service.ts`, `dues.routes.ts`, removal of members | extends `DepositApproval` |
| `MemberLedger` | `reversals.service.ts`, `follow-ups`, debits; `Init`, `Next`, `Spec`, the properties | composes everything |
| `ProjectCash` | accounts with their statements; `expenses.routes.ts`, `expense-submit.service.ts`, `business-expense.ts`, reversals; `sales.routes.ts`, `purchases.routes.ts`, `incomes.routes.ts`, `transfer.service.ts`, adjustments | the cash book, with its `CashAssumption`, `Next`, `Spec` and properties |
| `AccountBook` | what the accounts promise, abstractly | `ProjectCash` implements it (`KeepsBook`) |
| `DeliveryOutbox` | `platform-broadcasts.service.ts`: queueing, retry, the worker | leases, attempts, crashes |
| `DeletionJobs` | `project-deletion.service.ts`, `cleanup.service.ts` | leases, portions, writers that store meanwhile, some of which ask for no lock |
| `Roster` | `members.routes.ts`, `memberships.routes.ts`, `member-link.service.ts`, `member-invitation.routes.ts` | share cap, seats, owners |
| `OpeningImport` | `fund-import.service.ts` | a Serializable snapshot that may miss another commit |
| `TenantSettings` | `deposit-delegates.routes.ts`, titles, contact, credits | compare the stamp, rewrite the document |
| `Onboarding` | `onboarding.routes.ts`, `onboarding.service.ts` | each window keeps what it read of the other steps |
| `ProjectSetup` | `projects.routes.ts`, `uploads.routes.ts`, `quota.service.ts`, quota triggers | look, lock, insert, count again |
| `Institute` | `institute.routes.ts` | fees; marks from device to report card |
| `ConstructionContracts` | `construction.routes.ts`, `construction.service.ts`, `construction-contractor.service.ts` | half-unit rates and retention round |
| `OneTimeCodes` | `otp-delivery.service.ts`, `auth.service.ts`, `account-selection.service.ts` | advisory locks, the provider's answer lost |
| `SignUp` | `onboarding.routes.ts` (sign-up), `google-oauth.service.ts`, `tenants.service.ts` | contacts, tickets used up and put back, short names |
| `SupportSessions` | `impersonation.service.ts`, `impersonation-policy.ts` | one advisory lock, sign-out outside it |
| `AccountErasure` | `account-deletion.routes.ts`, `account-deletion.service.ts` | repeatable, portioned, leased; files and their records come in two statements |
| `Subscription` | `modules/subscription`, manual payments of `internal` | receipts beside transactions |
| `PaymentReminders` | `modules/payment-reminders`, `followups.routes.ts` | planned days, one claim a day |
| `Community` | `community.routes.ts`, `community-reminders.service.ts` | conditional claims |
| `RecurringSchedules` | `recurring-schedules.service.ts`, editing of rules and schedules | one round per process; frequencies and first days; an edit reads and writes apart |
| `RecurringBills` | `recurring-expenses.service.ts` and its worker | transactions under the bill's lock, in two steps |
| `CustomerBilling` | `billing.service.ts`; `processRun`, `billing.worker.ts` | allocation of money to invoices, released and refunded; runs with a cursor shared by workers |
| `Payroll` | `payroll.service.ts`, its imports and policy, `portal.service.ts` | `rebuild` of every unpaid run; profiles, promotions |
| `FixedAssets` | `fixed-assets.service.ts`, its worker, asset reversal | journal per account and project |
| `SalesDocuments` | `accounting.routes.ts`, `inventory` | stock and workflow |
| `MCMemberLedger`, `MCProjectCash` | the instances of the ledger and the cash book | several `.cfg`, or two parts in one (section 4) |
| `MCWorkers`, `MCOrganization`, `MCAccess`, `MCOperations` | instances of the other components, several to a run | `focus`, section 4 |
| `DueAllocationProofs`, `MemberLedgerProofs`, `ProjectCashProofs`, `WorkersProofs`, `OrganizationProofs`, `BillingProofs`, `OperationsProofs`, `AccessProofs` | proofs | section 6 |

The abstract specification of the allocation is `PlanDepositAllocation`: what a
plan must satisfy, without saying how it is found. `AllocationLoop` shows the
code's loop to implement it, and `MemberLedger` uses the equation, which can be
reasoned about without induction on the loop.

**The cash book.** Approving, disbursing, receiving, cancelling, transferring
and adjusting are two steps: `Start...` is what the handler reads and tests
before its transaction (status, roles, balance), `Commit...` its transaction.
Recording, submitting a draft and reversing read nothing before it that matters
and are one step. A commit repeats exactly the tests that the code repeats: the
status in the `updateMany` that claims the document (`Pay`), the balance in the
`updateMany` that debits the account (`Affords`), and none in a rejection or an
adjustment. The account's row is locked from its update to the commit, so the
balance written into the entry (`balanceAfter`) is the one the entry led to.

In the member ledger, money also leaves an account by `SpendFromAccount`; in the
cash book the member ledger is not modelled. They share the accounts, and every
step of either keeps balance and entries together (`BalanceMatchesEntries`,
`StatementAgrees`).

**The delivery outbox.** A round of a worker (`deliver`) is a sequence of steps,
one per statement that other processes can see:

| Step | Code |
|---|---|
| `Start` | the time is read and used-up deliveries without a live lease are given up |
| `ReadPage` | the oldest ripe deliveries are read, with their attempts |
| `Claim` | one `updateMany` that repeats the conditions of the page, with the time of `Start` |
| `Push` | the recipients are read, the provider is called, an invalid token is cleared |
| `Finish` | the outcome is written under the lease's token |
| `Abort` | the process dies, or a statement outside the `try` fails |

Time has no unit. `LeaseElapses` and `WaitElapses` say that `leaseUntil` or
`nextAttemptAt` has been passed; a round remembers in `ripe` which deliveries
were ripe at its `now`, and a timer set later (a lease, a waiting time, a retry)
takes its delivery out of every running round's `ripe`. The processes' clocks are
assumed to agree. A failing push, a failing record of a push, and a token that
could not be cleared all end in the same `catch`. `accepted` counts what the provider
took, up to 2; it is no data of the program, only what `PushedOnce` speaks of. A
delivery whose outcome was lost, or whose lease ran out while its holder was
still at it, is *excused* from `PushedOnce`: the code knows no more about it, and
sends again.

**Components with hazards of reading.** Where a handler of another component
reads before it writes, the reading is kept in a variable of the component and
named for the thing that holds it: the desk of a clerk (`Roster`), the windows
of the set-up, the sendings of an import, a teacher's device and an office
(`Institute`), the hand of a billing worker (`CustomerBilling`), the round of a
process (`RecurringSchedules`, `PaymentReminders`, `Community`). A commit repeats
exactly the conditions the code repeats, and no others: `Unmoved` (the stamp of
the settings row), `StillRight` (a running bill computed again at its approval),
`SameCursor`, `Unclaimed`, `Affordable` (the trigger's second count). Those
operators are where most of the mutants of these modules are.

**Keeping track.** Some variables exist for the properties only and say so where
they are declared: what was once accepted, announced, wronged, excused or
handled. They are written beside the action they record and guard nothing.

Choices a reader may wonder about:

* `SubmitAndFinalize` is one step although its transaction reads unlocked rows
  like `LockForPosting`; the race this could add (two posts that each miss the
  other when they look for a commitment) is present through `Post`.
* `StartPromise` reads the member's dues and pending commitments in one step.
  The code reads the total before the transaction and the commitments in it,
  under a lock of the member's row; no property depends on the total.
* `ResolveAllocation` sends the version it read in the same step, so the
  version check adds nothing; a stale version only makes the handler fail.
* The principal and penalty of an allocation stay null (`exact = FALSE`) until
  the posting writes them, and for every allocation of an advance.
* `Reject` and `Remove` test the status again in their `updateMany`, so the
  earlier read is not a step.
* No code in `src/src` raises `penaltyDue` of a due; penalties are opening data.
* `RecurringSchedules`: the days of a frequency are given by the constant
  `Following`, the run day that follows one for a frequency and a first day; the
  assumption made of it is that it leads forward and keeps the order of days.
  A PATCH that names neither date nor frequency (a new name, say) writes the next
  run day as well, worked out from today: the run days that were overdue are
  skipped. `NoPeriodLost` therefore speaks of the days since the last edit.
* `SignUp`: a look-up for the address of a ticket that fails uses the ticket up
  (`google-oauth.service.ts:388`), while an error of the session that is issued
  after the organization was founded puts it back. Tickets are kept in the memory
  of a process; their loss with it is not modelled.
  `docs/GOOGLE_ONBOARDING.md:5,7` says that the contact mobile of a Google sign-up
  may occur in another organization. The code refuses it
  (`assertSignupMobileAvailable`) and has no separate verified address of Google's;
  the code is what is modelled, and `OneOrganizationPerPerson` is true of it.
* `AccountErasure`: a file that is put on record after the last transaction has
  looked, or never is because the upload's process died, stays in storage.
  `ErasureIsClean` says that nothing else does (`late`, `unrecorded`).
* `DeletionJobs`: bills, support and assistant files of an organization are stored
  without looking at the freeze, and may stay behind (`late`); `NothingLeftBehind` is
  about what was stored while the scope was open.
* `Payroll`: `UnpaidRunsCurrent` compares a run with the records and with the
  profiles of the last `rebuild`. Creating a profile (the first edit of an employee,
  an invitation) changes the pay of the month of joining and rebuilds no run, so
  an unpaid run, also one that is approved, may show a whole month until another
  operation rebuilds it.
* `SalesDocuments`: a line of a service moves no stock and is left out.
* `Onboarding`: what was once settled or created is remembered as such, so that
  `LeavesSetUpReady` does not see an overall status that is out of date; that is
  `CompletedMeansSettled`, which the code breaks (section 5).

## 4 Runs

Every run starts from a situation the program can be in: dues on the books,
deposits that await review, commitments made before. Each passing run finishes
within five minutes. Deadlock is not checked (`CHECK_DEADLOCK FALSE`): a ledger in
which everything is settled and every id is used may stop, and so may an outbox
that is empty or an organization at the bound of its edits. Symmetry is used over
interchangeable requests, windows and workers where only safety is checked.

| Run | Instance | What it shows |
|---|---|---|
| `review` | 2 payments of the same two dues in opposite priorities, 2 accounts, 2 reviewers, balance limit 3; preview, approve, repair, reject, delete, reverse, route changes | each payment is posted once, in full, as it was read and only after its endorsement; a posted payment is final; the balance limit is never passed |
| `submission` | a payment of 2 on file and a second one submitted (payment, advance, finalizing), two accounts, a commitment, 2 requests, approvals, new commitments and reversals | a payment enters the right stage; it is confirmed only if the dues still cover it; at most one commitment is pending, none is kept by a reversed deposit |
| `settlement` | 2 members with 1 and 2 shares, an advance and a payment of the first, a commitment. Part `settlement`: 2 requests among confirmations and settlements of the first member, rejections, reversals, exits, other debits. Part `billing`: new schedules, settlements of both, waivers, confirmations and commitments of 2, one request at a time | balances equal entries, dues equal allocations, nothing overpaid, no advance spent twice, nobody leaves with something open, credits vanish only by reversal; statuses agree with amounts after billing, settlement, waiver and reversal; a commitment that is reached is noticed |
| `payments` | an expense, a sale, a purchase, an income of 2, transfers, a funded and an empty account, three users; 2 requests, or 1 with rejections and adjustments, overtaken by the one-step operations | each document is paid once, reversed once, from one account, by someone who may; no account is overdrawn; statements carry the running balance; the handlers implement the abstract account book |
| `workers` | 2 broadcasts to one device, 2 workers of which one is mortal, 2 attempts, pages of 1, one retry by hand; a project and an organization with two objects, a writer, 2 deletion workers, rounds of 1, 2 troubles | no message is pushed twice without an excuse, and every delivery ends; nothing that was stored before the freeze is left in storage when records go, and every deletion of a project ends or says that it failed |
| `organization` | 2 people and 2 share records with a cap of 1; an import sent three times and another; 2 editors of the settings; 2 windows of the set-up; 2 organizations with 2 projects and documents; 2 pupils with 2 terms of fees; the results of one, 2 devices of a teacher and 2 offices; a contract, of either kind, with 2 running bills, waste and a change order | types; the opening is imported once; no section is lost; an organization leaves the set-up ready; nobody owns more than the package; fees, marks and report cards agree; what is certified, deducted and paid agrees |
| `access` | 2 contacts, codes and logins with an allowance of 1 text; 2 names and 2 tickets for one address; 2 sign-ins of the master account; 2 accounts to be erased, one upload at a time; 2 invoices, three submissions of which two have one key; 2 reminder rules, 2 processes; a poll and an event | types; a code opens one session, support works in one session, guesses are limited; one organization per person; an erased account leaves no file that was on record in time and the project an owner; a payment renews once and keeps its receipt; nobody is reminded twice |
| `operations` | 3 dues and payments of 1 to 7; a rule over 3 days, in two frequencies, with one edit; a bill over 3 days; a customer with one invoice, payment and 2 adjustments; a run of 2 assignments with 2 workers; an employee, a bill, a leave, and a profile with a promotion over 2 months; an asset and 2 projects over 4 months; 2 documents and one item in 2 stores | types; the loop computes the only plan; no run day is lost unless a round writes over an edit; no bill is handled twice; customers' money is traced; runs account for all; a bill is in one salary run, and a run is paid as it was approved; books follow assets, stock follows invoices |
| `billing_races_settlement`, `owners_demote_each_other`, `rejection_races_approval` | two requests each | findings 1 to 3 of section 5 |
| `scheduler_undoes_edit` | the instance of `operations`, one property | finding 4 |

*Composite runs.* `workers`, `organization`, `access` and `operations` each check
several components that share no modelled state. A variable `focus`, chosen in the
initial state and never changed, names the part that moves; the others stay at
their initial state. Since no action of one reads or writes a variable of
another, every behaviour of a component appears in such a run exactly as it
would in a run of its own, and an invariant of one cannot be broken by another.
Where one focus would be too large, a component is at work more than once, under
restrictions named in the MC module: people with shares and roles, projects and
storage, fees and results, bills of employees, leave and profiles, stock and workflow.

*Conjunctions.* A property of a run may be the conjunction of several statements
about one component, each a definition with its own comment:

| Property | Parts |
|---|---|
| `ReviewHolds` | `[]ConfirmedInFull`, `PostedIsFinal`, `PostedAsReviewed` |
| `SubmissionHolds` | `ConfirmedInFull`, `PromisesConsistent` |
| `SettlementHolds` | `[]DuesAreBacked`, `[]AdvanceNotOverspent`, `[]LeftWithNothingOpen`, `CreditsAreKept` |
| `BillingHolds` | `StatusMatchesBalance`, `AdvanceNotOverspent`, `PromiseNoticed` |
| `PaidRight` | `DocumentCash`, `TransfersCancelOut`, `PaidWithAuthority` |
| `AllocationHolds` | `LoopSolvesPlan`, `MoneyIsConserved`, `FullyAssignedIffOutstanding`, `OldestFirst`, `PriorityRespected` |
| `InstituteHolds` | `FeesAgree`, `MarksNotLost`, `PublishedAsSeen`, `CardsCurrent` |
| `ContractsHold` | `CertifiedByBills`, `RoundedOnce`, `WasteChargedOnce`, `ClosedIsSettled`, `PaymentsAccounted` |
| `EntryGuarded` | `CodesHold` (`OneSessionPerCode`, `TextsWithinAllowance`), `SupportGuarded` (`OneSupportSession`, `GuessesLimited`) |
| `SignUpHolds` | `OneOrganizationPerPerson`, `TicketsAccounted` |
| `PaymentsHonoured` | `TermPerPayment`, `ReceiptOnFile`, `PaidDocumentsStay` |
| `RemindersHold` | `PlanKeepsDeadline`, `RemindedOnceADay` |
| `BillHandledOnce` | `DueAfterHandled`, `AnnouncedOnce` |
| `CustomersBilled` | `MoneyTraced` (`CreditTraced`, `LedgerAgrees`), `RunAccountsForAll` |
| `PayrollHolds` | `[]BillsInOneRun`, `[]UnpaidRunsCurrent`, `ReviewCoversRows` |
| `AssetBooksRight` | `BooksFollowTheAsset`, `ChargedToHolder` |
| `DocumentsHold` | `StockFollowsInvoices`, `AcceptedAsItStands`, `FollowsItsWorkflow`, `PaymentsStandAgainstInvoices` |

*Why the bounds suffice.* The hazards are races of two handlers and the third
party that changes a row between them; two requests beside the one-step
operations give every such pair. Two deposits on the same dues give a
posting that invalidates another; two dues give an order and a boundary inside
a due; amounts 1 and 2 against dues of 1 to 3 give payments that end before, at
and beyond a due. Two accounts are needed for postings that do not wait for one
another. Operations that have no effect on a run's question are left out of its
`Ops`.
In the other components, likewise, two actors (windows, editors, workers,
devices, offices) meet one row, and each bound lets its boundary be reached and
crossed: a cap of one share, a package of one or two, an allowance of one text, a
limit of one failure, a sheet returned and handed in again, an instalment that
ends inside an invoice, a month before and after a transfer, a second adjustment
decided after the first, two running bills of one contract whose amounts round.

*What one request at a time leaves out.* `settlement`, too, is two instances in one
(`part` in `MCMemberLedger`). The part `billing` runs one handler at a time because the code fails its properties otherwise.
`AdvanceNotOverspent` then fails as finding 1 shows; for the same reason the part
has no reversal, which is one step and could fall between the reads and the commit of billing. `PromiseNoticed` fails when two
confirmations of one member, of different dues and into different accounts, each
sum the confirmed deposits before the other commits; and a reversal may reopen
a promise that other deposits already reach, which the code does not look at
again until the next confirmation. `LeftWithNothingOpen` fails when billing
overlaps a removal: a schedule selects the active members, one is removed, and
the schedule commits a due for a member who has left. That is the missing lock
of finding 1 again, and no run of its own. The other part has two handlers and
reversals, and keeps to what the code does withstand: no schedule, waiver or new
commitment, and one account.

*The cash book.* Two accounts give a transfer and a payment from another account
than the document names; payments of 2 from an account of 2 fit alone and not
together. `MaxEntries` bounds the statements, and with them transfers and
adjustments. `payments` is two instances in one (`part` in `MCProjectCash`). Two
handlers at a time are at work without rejections, because a rejection that races
an approval breaks `DocumentCash` (finding 3, whose run has the race), and without
adjustments, because a withdrawal by hand that is overtaken breaks `NeverOverdrawn`
(section 5). With rejections and adjustments there is one handler at a time, and
the one-step operations fall between its read and its commit, except of a
withdrawal. What stays true of overtaken withdrawals is proved: `StatementsAgree`
holds of every interleaving.

*The outbox.* Two workers are the two parties of every race for a lease, and
each retry, lost device or timer may come between any two of their steps. Two
attempts give a first and a last one. A page of one makes the second broadcast
wait behind the first; a round with more rows treats them one after the other
and is covered by the proofs, for every page size.

*Liveness.* None is stated for the ledger: each handler is driven by a person's
request and may fail, and nothing retries it. The outbox does promise that a
delivery ends: `EveryDeliveryEnds`. The fairness assumed is that the timer starts
rounds (`setInterval`, every 15 seconds) and that the calls of a round return,
`WF(Deliver(w))` for every worker, and that time passes, `WF(LeaseElapses(d))` and
`WF(WaitElapses(d))`. Nothing is assumed of operators and owners of devices. One
worker is immortal: processes that always die before they claim deliver
nothing, and no code could change that. Retries by hand are bounded; without a
bound an older broadcast that keeps failing and is retried for ever could fill
every page, and the younger one would wait for ever.

A deletion of a project that was begun ends (`DeletionEnds`): it is completed, or
has failed and says so. The fairness (`DeletionFairness`) is that the worker of
every process looks for jobs and carries on with its round, `WF(RoundStep(w))`;
that a round which has lost its lease stops, `WF` of `FailRound` there; that a
lease that is not given back runs out, `WF(LeaseRunsOut(s))`; and that a write to
storage ends, `WF(FinishStoring(w))`. Workers that die, and rounds that outlast
their lease, are bounded by `MaxTroubles`: the code keeps rounds short for that
reason, and rounds that never end within their lease would never finish a job.
Nothing is assumed of people: a failed job, and a job of an organization, waits
for one. `MCWorkers` states both fairness conditions under the focus they are about.

## 5 Findings

Each finding is a run that must end in a violation, with the trace as evidence;
`PROJECT.json` quotes the sentence of the documentation or code that it contradicts.

1. `billing_races_settlement`: a schedule reads the advances without lock; a
   settlement refunds one of them and commits; the schedule then allocates it.
   The advance is spent twice.
2. `owners_demote_each_other`: `memberships.routes.ts` refuses to take the last
   active owner of a project, and counts the others before its transaction
   (line 286). Two demotions, each of the other's owner, both pass and leave none.
3. `rejection_races_approval`: `expenses.routes.ts` tests that an expense is pending
   and then rejects it by id alone (line 453). An approval between the two has paid
   it: the expense reads as rejected, the account was debited, and no reversal will
   take it.
4. `scheduler_undoes_edit`: a round of `recurring-schedules.service.ts` writes the
   next run day it worked out from what it read (line 210) over the one that a PATCH
   has set meanwhile. A rule whose first day was postponed runs before that day.

Further statements that the code's texts suggest and the model refutes are kept
as definitions beside the properties, with a comment that says what breaks them.
No run checks them:

| Statement | What breaks it |
|---|---|
| `MemberLedger!NothingOwedWhenPaid` | a penalty waiver writes back a status computed from a row read before a reversal reopened the due |
| `Onboarding!CompletedMeansSettled` | each window writes its own step and the status computed from what it once read of the others |
| `ProjectSetup!SharesNotCutBelowAssigned` | shares are assigned between the look at the members and the update of the project |
| `AccountErasure!SharedLoginKept` | the login gets an account elsewhere between the last look and the removal at the provider |
| `RecurringSchedules!ChargedOncePerRun` | the due date of a created schedule is edited: the date of its run day is free again for a process that read the rule earlier |
| `Community!ReminderTellsTheTime` | the event is moved after a round has read it; the claim does not compare the start |
| `PaymentReminders!SendLimitKept` | two administrators each count the rules before the other's is written |
| `Payroll!AdvanceNotOverRecovered` | two imported runs that are open at the same time each recover what is outstanding |
| `ConstructionContracts!AdvanceRecoverable` | the limit of advances is tested when one is paid; a bill that recovers nothing, or a reducing change order, comes after it (`docs/CONSTRUCTION_FINANCIAL_MANAGEMENT.md:76`) |

Two more races are in the models and limit what runs may claim: two manual
withdrawals, each compared with a balance read before, overdraw an account; and two
confirmations of one member into different accounts may both miss that together
they keep a promise.

## 6 Proofs

All theorems are checked by TLAPS to the last leaf. Those of the member ledger
assume `LedgerAssumption` and `OpeningAssumption` of `LedgerState`: the id sets
are finite sets of numbers, shares and amounts are positive, and the opening
rows are well-formed (no overpaid due, a due not yet charged is empty, no endorsed advance with
dues, at most one pending promise per member, and every due that an opening deposit names is on
the books and of the deposit's member, which foreign keys and the check at submission ensure).
`StatusesTell` needs `BooksAssumption` besides: an opening due reads as settled exactly
when nothing is owed on it. TLC
evaluates the assumptions in every run. Unless the table below says otherwise, nothing
is assumed of `Ops`, of the number of requests or of the sizes of the sets: the
theorems cover the interleavings of the violation runs as well.

**Sums and payments** (`DueAllocationProofs`). `SumOver` unfolds to a `CHOOSE` of a recursive
function on subsets. That exactly one such function exists, and the algebra of
sums (an element may be taken out, a summand changed, sums added, a part bounded),
is proved by considering a smallest subset that would be a counterexample, since
strict inclusion is well-founded on a finite set.

`PaymentConserved`: a payment within what a
due owes is divided without remainder and lowers the balance by exactly its
amount. `PaidMeansSettled`: the status written is "paid" exactly when nothing is
owed. `PlanTakesAll`: a payment up to the total owed is assigned in full, for
any number of dues: consider the last due, by rank, that the plan reaches.

**Types** (`MemberLedgerProofs`). `TypeCorrect`, with one lemma per action. The
part that is not bookkeeping is the range of the balances: a refund is taken
from the balance of a snapshot, and stays in range because the commit requires
the account unchanged.

**Safety** (`MemberLedgerProofs`). `Writers` says which steps write which tables;
each theorem then looks at those.

| Theorem | Property | Strengthening |
|---|---|---|
| `EndorsedAlways` | `EndorsedBeforeApproval` | with `TypeOK` it is inductive |
| `BooksBalance` | `BalanceMatchesEntries` | inductive with `TypeOK`; each step adds to one account's sum what it adds to the balance; a settlement adds several entries, and the sum of the changes is the refund by account, because a refunded advance is unchanged since the snapshot |
| `NoDueOverpaid` | `NeverOverpaid` | `CopiesFit`: the dues a settlement or schedule computes on in memory fit as well, because they are written later |
| `DepositPostedOnce` | `PostedOnce` | `ReviewersSawPending`: what a reviewer's request goes by was read from a pending deposit, so an endorsement that compares equal cannot touch a posted one |
| `ReviewIsSound` | `ReviewHolds`: `ConfirmedInFull`, `PostedIsFinal`, `PostedAsReviewed` | `LedgerFacts`: `TablesAgree` (the dues a deposit names exist, are its member's while it is pending, and carry exact parts only once it was posted as a payment) and `RequestsAgree` (what each handler under way still knows: the plan of a review covers its payment, whoever has the locks sees its rows unchanged, and two such requests name different deposits and dues). `PlanTakesAll` gives that such a plan assigns the whole payment |
| `SubmissionIsSound` | `SubmissionHolds`: `ConfirmedInFull`, `PromisesConsistent` | `PromiseFacts`: the deposit that keeps a promise is confirmed, of the same member, and keeps no other; a member has one pending promise |
| `CreditsStay` | `CreditsAreKept` | `OwnFacts`: a deposit is allocated to dues of its own member only and only once posted (`AllocationsOwned`), the copies of settlements and billing keep to that, and a settlement's copy of a due received what was taken for it (`CopiesOwned`) |
| `MoneyIsBacked` | `DuesAreBacked`, `AdvanceNotOverspent`, without billing | `AdvanceFacts`: what a settlement has taken fits into the advance as it read it (`TakesFit`). At its commit the rows it writes are as it read them (`SettlementCurrent`), and so nothing was spent twice |
| `SettlementIsSound` | `SettlementHolds` (with `LeftWithNothingOpen`), under `QuietOps` | `NothingNew`: nobody is billing, submitting or waiving, so a step leaves a member who has left nothing unpaid, awaited or unused that was not there before |
| `StatusesTell` | `StatusMatchesBalance`, without waivers | `StatusFacts`: the dues in the copies of settlements and billing read as settled when they are, as well |

*Why some theorems restrict the operations.* Without the restriction the property is
false of the code. Billing beside a settlement spends an advance twice (finding 1), and
beside the reversal of an advance credits a due with money that went back; a due billed, a payment submitted or a waiver committed
while a member leaves is open afterwards, hence `QuietOps`, to which the part
`settlement` of the run keeps; and a waiver writes back a status that a reversal has changed. How many
deposits, dues, members and operations there are is free in all of them.

**Cash** (`ProjectCashProofs`). `StepsMove` classifies the steps: each leaves
the accounts alone, posts one line that the account can bear, or posts the two
lines of a transfer. The theorems about accounts then look at these three cases only.

| Theorem | Property | Strengthening |
|---|---|---|
| `CashTypeCorrect` | `TypeOK` | `CashInv`: a request that will pay, and a sale that may be cancelled, name a real account |
| `StatementsAgree` | `StatementAgrees` | inductive with `CashInv`, adjustments included |
| `NoneOverdrawn` | `NeverOverdrawn` | assumes that no adjustments are made: with them it fails (section 5) |
| `CashKeepsBook` | `KeepsBook`, the refinement of `AccountBook` | the same assumption; appending an entry appends its amount to the book (`AmountsAppend`) |
| `PaidOnlyWithAuthority` | `PaidWithAuthority` | `Authority`: whoever is about to approve may review; an approved expense was approved by its recorder, so whoever is about to disburse it is an administrator |
| `MoneyFollowsDocuments` | `PaidRight`: `DocumentCash`, `TransfersCancelOut`, `PaidWithAuthority` | `DocumentsInv`: each document has a status of its kind (`DocsSound`) and a request under way remembers the amount, and of a sale the account, that its document still has (`ReqsSound`); every step leaves a document's entries alone, pays it once or returns it once (`LinesFollow`) |

They assume `CashAssumption` alone (finitely many accounts, kinds of documents apart,
openings within the balance limit, positive amounts, names apart) and, where said, that `"adjust"` is not in `Ops`.
`MoneyFollowsDocuments` holds under `RejectsAlone`: nobody rejects, or there is one
request at a time. The race this excludes breaks `DocumentCash` and is finding 3; the
other theorems hold in its presence.

**Outbox** (`WorkersProofs`), from `OutboxAssumption` alone, for any
number of workers, all of which may die, of broadcasts, devices, attempts and
retries, and any page size. `OutboxInv` is one inductive invariant with a
lemma per action:

| Part | Why it is needed |
|---|---|
| `LeasedIsPending` | a row with a token is pending, so whoever still holds its token may finish it |
| `RipeIsFree` | a delivery that is ripe for a round has no live lease: nobody can be at it and still hold it |
| `ReadIsFresh` | while a delivery stays ripe for a round its attempts are those of the page; a claim therefore counts from what was read (`AttemptsAsRead`, and with it `Reachable`) |
| `ClaimHolds` | whoever is at an unexcused delivery holds its live lease, so two workers never are at one, and its outcome is recorded (`PushedOnce`) |

| Theorem | Property |
|---|---|
| `OutboxTypeCorrect` | `TypeOK`: in particular the limit of attempts |
| `AttemptsCounted` | `AttemptsAsRead` |
| `PendingReachable` | `Reachable` |
| `PushedOnceUnlessExcused` | `PushedOnce` |
| `FinalNeverChanges` | `FinalStays` |

**Deletion jobs** (`WorkersProofs`), from `DeletionAssumption`. `DeletionLeavesNothing`
(`NothingLeftBehind`) is inductive with four further parts: what has a job is
frozen (`JobsAreFrozen`); what a round works on has no writer and gets none
(`RoundsAreQuiet`); a round that listed no object found
none that was stored before the freeze, and none of those came since (`EmptyRoundsFoundNothing`); and the objects are finitely
many, so that an empty portion of them means that there are none.

**The organization** (`OrganizationProofs`), theorems for its seven components,
each from the assumption its module declares and for any number of editors,
clients, requests, people or offices. A step of the composed specification is a step of
the component at work and a stutter of the others; so what is proved of a component
holds of the organization.

| Theorem | Property | Strengthening |
|---|---|---|
| `SettingsNotLost` | `NoSectionLost` | `SettingsInv`: an editor whose stamp is the row's has read the document as it is, so writing all of it changes one section |
| `ImportedOnce` | `OpeningImportedOnce` | `ImportInv`: a transaction that began while nothing was written and would be the second import has missed the first one's commit, and then it cannot serialize |
| `PackageKept` | `WithinPackage` | `PackageInv`: whoever has inserted a row was counted and holds the organization's row until it ends (`Reserved`), so its count is what the commit leaves |
| `SetUpIsReady` | `LeavesSetUpReady` | `OnboardingInv`: every step a window once read as settled has been settled, and a step that was ever settled left what it stands for (an account, an accountant), which nothing takes back |
| `ResultsAsSeen` | `MarksNotLost` and `PublishedAsSeen`, of `InstituteHolds` | `ResultInv`: a copy at the sheet's revision has its marks; while the examination keeps the revision of a review, a sheet it opened has its revision, or is not handed in and so stops the publication |
| `InstituteIsSound` | `InstituteHolds` | `FeesInv`: what the invoices of a pupil were paid is the sum of what verified payments left beyond their advances, status by status; `CardsInv`: a card shows the latest publication that has its pupil, publications being only appended |
| `ContractsAreSound` | `ContractsHold` | `ContractsInv`: the totals of a contract are those of its approved bills (`SharesAgree`), approved bills of a contract follow one another (`BillsChain`), and a bill's deduction is the waste charged to it, which a rejection gives back (`WasteAgrees`); the sum of what was paid out of contracts and bills is what left the account |
| `OrganizationTypes` | `OrganizationTypeOK` | of the import `ImportTyped`: only an import takes the members' version past its bound, and there is one; of settings `SettingsTyped`: what an editor computed is of its section's kind; of quotas `SetupTyped` and of the roster `RosterTyped`: a request under way names what its kind of operation needs. Seats, shares and roles stay in range because every handler checks the sum it read against the row it locked or bounded |
| `OrganizationIsSound` | the properties of the components, of `OrganizationSpec` | composition |

**What falls due** (`BillingProofs`): recurring schedules and bills, customer billing
and payroll.

| Theorem | Property | Strengthening |
|---|---|---|
| `NoPeriodMissed` | `NoPeriodLost` | `RuleInv`: unless a round has written over an edit, the next run day is a day of the rule's calendar with every earlier one since the edit dealt with (`InTurn`); a round that read the rule after the last edit holds such a day and what follows it, by the frequency and first day the rule still has (`ReadInTurn`). For any calendar that leads forward and keeps the order of days; that it has no day between a run day and the next is proved from its being the least such set |
| `BillsHandledOnce` | `BillHandledOnce` | `BillInv`: whoever has the bill's lock is alone and has read it as it is; a period is announced only while it is due |
| `RunsAreSound` | `RunAccountsForAll`, `RunsTypeOK` | `RunsInv`: a worker's cursor is at most its run's, and while it is the run's, what the worker holds as refused is the next assignment; so a late worker writes nothing twice |
| `CustomersMoneyTraced` | `MoneyTraced` (`CreditTraced`, `LedgerAgrees`), `BillingTypeOK` | `BillingInv`: an invoice holds money only of its own customer's payments (`OwnShare`), rows and columns of the table of shares are what payments gave and invoices got (`Parts1`, `Parts2`), and what the entries of a customer's invoices and corrections came to beyond what the rows say is what its payments spent (`Agreed`) |
| `PayrollIsSound` | `PayrollHolds` (`BillsInOneRun`, `UnpaidRunsCurrent`, `ReviewCoversRows`), `PayrollTypeOK` | `PayrollInv`: unpaid rows and places of bills are those that the facts and the profiles of the last rebuild give; runs that are paid or came from a spreadsheet keep the bills they hold, each in one (`Placed`), and a bill that may be paid waits in the first run it fits (`ClaimsCurrent`); a rebuild keeps the first whatever changed, and establishes the second |

`applyAdvance` is a fold over the pairs of payments and invoices. The library's
induction theorems cannot be used here, so the fold is first shown to satisfy its equation and
then to keep the books, each by the smallest set of pairs for which it would not. The sums over
shares, rows and corrections are sums of functions over finite sets, changed at
one or two points by each step.

These theorems rest on the assumptions of the four modules: rows, workers' assignments and
corrections are finite in number, sums positive and bounded, a bill may be edited
at least once. The numbers themselves are free.

**The back office** (`OperationsProofs`).

| Theorem | Property | Strengthening |
|---|---|---|
| `LoopComputesPlan` | `AllocationHolds` | `LoopInv`: what was assigned and what remains make the payment; each due passed got the lesser of what was left and what it owes; while anything remains, every due passed is settled |
| `DocumentsAreSound` | `DocumentsHold` | `DocumentsInv`: what each row says by itself (`RowsSound`), and that nothing was moved of an item not yet on file (`UnlistedEmpty`); a step changes the stock of one item at one place by what it changes there in the sum over invoices |
| `AssetsAreSound` | `AssetBooksRight`, the type | `AssetsInv`: what the journal brings of an asset to each project's books is cost and wear of its row (`BooksOf`, telescoping over the months posted); the row knows who first sent it on in the month of its last transfer, and every earlier month is posted, not in use yet or past its life (`MovesRight`); what has nothing done to it was never moved or undone, so that a reversal writes every entry of it once more with the opposite sign (`StillUntouched`, `MirrorBrings`) |
| `BackOfficeTypes` | `OperationsTypeOK` | composition: a step of the back office is a step of the component at work |
| `CustomersAreBilled` | `CustomersBilled` | `CustomersMoneyTraced` and `RunsAreSound`, composed |
| `BackOfficeIsSound` | `AllocationHolds`, `NoPeriodLost`, `BillHandledOnce`, `AssetBooksRight`, `DocumentsHold` and `PayrollHolds`, of `OperationsSpec` | composition |

`AssetsAreSound` assumes `AssetsAssumption`: finitely many assets and projects, a residual
value below the cost, a life of at least a month. Cost, life, the number of assets,
transfers and months are otherwise free. It rests on the refusal of a second entry of the same
asset, kind, period and project: what is written was not in the journal before.

**Access** (`AccessProofs`), for any number of people, requests and processes. Each theorem
is about one component; a step of the composed specification is a step or a
stutter of every component, so that `AccessTypes`, `EntriesAreGuarded` and the theorems below them
state the properties of the run.

| Theorem | Property | Strengthening |
|---|---|---|
| `EntriesAreGuarded` | `EntryGuarded` | `CodesInv`: every text on its way is counted beforehand (`Reserved`), a contact has one open code, and who has its lock knows it (`OneOpen`), and a code is claimed by one login (`OneClaim`); `SupportInv`: a sign-in has one live child, one start or switch is under way and has read every session it must revoke, and a start in progress has a guess left |
| `SignUpIsSafe` | `SignUpHolds` | `SignUpInv`: a sign-up that holds the locks founds the first organization of its mobile (`FirstOfItsMobile`); a held ticket has one window with its address, a spent one left a login or was dropped by a failing look-up (`OneHolder`); a sign-up that has founded leaves a login of its address, whatever becomes of its session (`FounderKnown`) |
| `ErasureIsSafe` | `ErasureIsClean` | `ErasureInv`: a stored file is on record or its upload is under way, and the run with the lease drops only records of files it took from storage (`RecordsLast`); from the look of the last transaction on, what is on record came after the look (`LooksLast`, `GoneForGood`); somebody can act (`SomeoneActs`) |
| `SubscriptionIsSafe` | `PaymentsHonoured` | `SubscriptionInv`: the paid term counts the approved and manual payments (`Terms`); a call has its receipt in storage until it ends, and the call whose payment an invoice holds never drops it (`ReceiptsKept`) |
| `RemindersAreSafe` | `RemindersHold` | `RemindersInv`: whoever is told on a day was claimed first, by one round, which delivers once (`DaysClaimed`); a planned day keeps its side because the search never passes the deadline (`PlanOnTime`) |
| `CommunityIsSafe` | `RemindersNotRepeated` | `CommunityInv`: the poll's row has the time of its last reminder (`PollRemindersApart`), the event's row a mark for each notice of its present start (`NoticesMarked`) |

**Model-checked only.**

* `BillingHolds`, in the two parts of the run `settlement`: beyond them the code
  breaks it (section 4). `SettlementHolds` where `QuietOps` does not hold, for
  the same reason.
* `EveryDeliveryEnds` and `DeletionEnds`: liveness under fairness, which TLAPS cannot prove.
* `OwnerRemains`, `RejectedCostsNothing`, `RunsOnIntendedDays` and, for overlapping
  requests, `AdvanceNotOverspent` are broken (section 5).

## 7 What is not modelled

*Of the components that are modelled:*

* Purchases managed by construction, tax, and the stock that the cash book's
  sales and purchases move; stock is modelled for sales documents.
* Bulk entry of expenses and incomes: several documents in one transaction; the
  model records them one at a time.
* `ensureOpeningBalanceIncomeBackfill`: entries for accounts older than the
  opening entries; here every account has one if it was opened with money.
* Categories and customers of an income entry, which may change after posting.
* In the ledger, deposits without an account (older data) and the confirmed
  advances a fund import creates; the import's own model has them as one unit.
* Closing and removing schedules; edits of their amounts and penalties.
* Call logs and scores of follow-ups; profile data and the delivery of
  invitations; the first set-up and texts of reminders; notices of a community.
* Passwords, refresh of tokens, validation of every session; prices and
  reminders of a subscription's end.
* Provident fund, tax and pay by the hour; customers, services and imports of
  customer billing; purchase documents, numbering and templates.
* Of an institute, the advance of a fee payment is kept and, as in the code,
  never applied to later invoices. Routines, attendance, leave, posts,
  documents, imports and the notification worker are left out; of construction,
  budgets, suppliers, procurement, labour, site logs, materials and valuation.
* Of broadcasts: the inbox notifications that queueing writes in the same
  transaction, accounts without a device, the provider, and the check of a
  reviewed preview against the recipients, which either fails the request or has
  no effect; tests sent to one account are broadcasts with one device. A push
  that never returns keeps its process's round open (`platform-broadcasts.service.ts:170`);
  the fairness assumed excludes it.

*Everything else:*

* What is sent after a commit (notifications, mail, audit entries, for example
  `deposits.routes.ts:837`): it is lost if the process dies in between, and the
  ledger is unaffected.
* Deadlocks inside PostgreSQL (a reversal and a confirmation lock accounts and
  dues in opposite orders, and so do opposite transfers): the database aborts one
  transaction, which is `GiveUp`.
* Support replies and notification campaigns: claims like those of broadcasts.
* Assistants and integrations: language models, Telegram and WhatsApp.
* Everything that only reads: reports, dashboards, exports; roles and menus,
  which are a table; routing and validation; single-table records.

## 8 Plan

Done: the ledger, the cash book, the two workers, and the components of the
organization, of access and of operations, with their runs, findings and the
theorems above. Left, in this order; a new module's questions are merged into the
runs of its neighbours, so that the project stays quick to check:

1. Notification campaigns and the support outbox, whose interrupted deliveries
   are marked failed instead of being claimed again.
2. Construction: procurement, stock and the valuation of materials; budgets.
3. Institute: attendance and leave, and the documents sent for them.
4. `MemberLedger` as an implementation of an account book of its own (its
   entries are a set, not a sequence).
