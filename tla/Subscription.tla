---------------------------- MODULE Subscription ----------------------------
(***************************************************************************)
(* An organization's subscription to the platform: invoices, payments with *)
(* their receipts in object storage, manual payments, and the clean-up of  *)
(* documents after an unpaid trial (modules/subscription, payments of      *)
(* modules/internal, core/subscription).                                   *)
(*                                                                         *)
(* Every decision is one transaction under the lock of the organization's  *)
(* row.  Time is a number of terms; a receipt is stored before, and        *)
(* dropped after, the transaction that refers to it.  A connection that    *)
(* fails after a commit is not modelled.                                   *)
(***************************************************************************)
EXTENDS Naturals, FiniteSets

CONSTANTS
  Invoices, Calls,  \* a call carries a request key and the receipt it uploads
  KeyOf,            \* the request key of a call
  Manual,           \* request keys of manual payments
  StoredFiles,
  PlanSize, \* documents of the package that is asked for
  MaxClock, \* bound: terms that pass
  NoCall, NoKey

ASSUME SubscriptionAssumption ==
  /\ NoCall \notin Calls /\ MaxClock \in Nat /\ PlanSize \in Nat
  /\ \A c \in Calls : KeyOf[c] # NoKey

VARIABLES
  invoice,  \* status, and the call whose payment it holds
  call,     \* progress of each submission
  objects,  \* receipts in storage
  paidTill, \* end of the current term; 0 before the first payment
  calendar,
  manual,   \* manual payments recorded
  cleaner,  \* whether the clean-up has this organization among its candidates
  uploads,  \* documents on file
  wronged   \* history: documents purged while the organization was paid up
subscriptionVars == <<invoice, call, objects, paidTill, calendar, manual, cleaner, uploads, wronged>>

Invoice == [status : {"none", "open", "submitted", "rejected", "approved"}, by : Calls \cup {NoCall}]
Free == paidTill = 0
\* renewTenantSubscription: a term is added to what is left of the last one.
Renewed == (IF paidTill > calendar THEN paidTill ELSE calendar) + 1

SubscriptionInit ==
  /\ invoice = [i \in Invoices |-> [status |-> "none", by |-> NoCall]]
  /\ call = [c \in Calls |-> "new"]
  /\ objects = {} /\ manual = {} /\ wronged = {}
  /\ paidTill = 0 /\ calendar = 0
  /\ cleaner = FALSE /\ uploads = StoredFiles

Unpaid == {i \in Invoices : invoice[i].status \notin {"none", "approved"}}

NoneUnpaid == Unpaid = {}

\* issueInvoice
IssueInvoice(i) ==
  /\ invoice[i].status = "none" /\ NoneUnpaid
  /\ invoice' = [invoice EXCEPT ![i].status = "open"]
  /\ UNCHANGED <<call, objects, paidTill, calendar, manual, cleaner, uploads, wronged>>

\* selectPackage: the owner asks for a package that the usage fits.
SelectPackage(i) == Cardinality(uploads) <= PlanSize /\ IssueInvoice(i)

\* submitInvoicePayment: the receipt is stored under a name of its own.
StoreReceipt(c) ==
  /\ call[c] = "new"
  /\ call' = [call EXCEPT ![c] = "stored"] /\ objects' = objects \cup {c}
  /\ UNCHANGED <<invoice, paidTill, calendar, manual, cleaner, uploads, wronged>>

KeyOn(i) == IF invoice[i].by = NoCall THEN NoKey ELSE KeyOf[invoice[i].by]

\* The payment is recorded; a repeated key changes nothing.
SubmitPayment(c, i) ==
  /\ call[c] = "stored" /\ invoice[i].status # "none"
  /\ IF KeyOn(i) # KeyOf[c] /\ invoice[i].status \in {"open", "rejected"}
     THEN /\ invoice' = [invoice EXCEPT ![i] = [status |-> "submitted", by |-> c]]
          /\ call' = [call EXCEPT ![c] = "kept"]
     ELSE UNCHANGED invoice /\ call' = [call EXCEPT ![c] = "dropped"]
  /\ UNCHANGED <<objects, paidTill, calendar, manual, cleaner, uploads, wronged>>

\* Fault: a receipt is dropped when the call did not end well.
DropsOnReplay(c) == call[c] \in {"dropped", "kept"} /\ \E i \in Invoices : KeyOn(i) = KeyOf[c]
Unkept(c) == call[c] = "dropped"

\* finally: the receipt of a call that is not the invoice's is deleted.
DropReceipt(c) ==
  /\ Unkept(c)
  /\ objects' = objects \ {c} /\ call' = [call EXCEPT ![c] = "ended"]
  /\ UNCHANGED <<invoice, paidTill, calendar, manual, cleaner, uploads, wronged>>

\* The process dies; nobody deletes the receipt of the call.
DieSubmitting(c) ==
  /\ call[c] \in {"stored", "dropped"} /\ call' = [call EXCEPT ![c] = "ended"]
  /\ UNCHANGED <<invoice, objects, paidTill, calendar, manual, cleaner, uploads, wronged>>

Reviewable(i) == invoice[i].status = "submitted"

\* reviewInvoicePayment: the reviewer may name the key that was opened.
Approve(i, key) ==
  /\ Reviewable(i) /\ key \in {NoKey, KeyOn(i)}
  /\ invoice' = [invoice EXCEPT ![i].status = "approved"]
  /\ paidTill' = Renewed
  /\ UNCHANGED <<call, objects, calendar, manual, cleaner, uploads, wronged>>
Reject(i, key) ==
  /\ invoice[i].status = "submitted" /\ key \in {NoKey, KeyOn(i)}
  /\ invoice' = [invoice EXCEPT ![i].status = "rejected"]
  /\ UNCHANGED <<call, objects, paidTill, calendar, manual, cleaner, uploads, wronged>>

\* recordManualPayment: once per request key.
RecordManualPayment(k) ==
  /\ k \notin manual
  /\ manual' = manual \cup {k} /\ paidTill' = Renewed
  /\ UNCHANGED <<invoice, call, objects, calendar, cleaner, uploads, wronged>>

-----------------------------------------------------------------------------
\* cleanupRetainedDocuments: candidates are organizations whose free trial
\* ended, read before their rows are locked.
FindCandidate ==
  /\ ~cleaner /\ Free /\ calendar > 0
  /\ cleaner' = TRUE
  /\ UNCHANGED <<invoice, call, objects, paidTill, calendar, manual, uploads, wronged>>

StillFree == Free /\ calendar > 0

\* Under the lock the plan is read again; a failed deletion keeps the row.
PurgeDocuments ==
  /\ cleaner /\ cleaner' = FALSE
  /\ IF StillFree
     THEN \E D \in SUBSET uploads :
            /\ uploads' = uploads \ D
            /\ wronged' = IF paidTill > calendar THEN wronged \cup D ELSE wronged
     ELSE UNCHANGED <<uploads, wronged>>
  /\ UNCHANGED <<invoice, call, objects, paidTill, calendar, manual>>

TermPasses ==
  /\ calendar < MaxClock /\ calendar' = calendar + 1
  /\ UNCHANGED <<invoice, call, objects, paidTill, manual, cleaner, uploads, wronged>>

SubscriptionNext ==
  \/ \E i \in Invoices : IssueInvoice(i) \/ SelectPackage(i)
  \/ \E i \in Invoices, key \in {NoKey} \cup {KeyOf[c] : c \in Calls} : Approve(i, key) \/ Reject(i, key)
  \/ \E c \in Calls, i \in Invoices : SubmitPayment(c, i)
  \/ \E c \in Calls : StoreReceipt(c) \/ DropReceipt(c) \/ DieSubmitting(c)
  \/ \E k \in Manual : RecordManualPayment(k)
  \/ FindCandidate \/ PurgeDocuments \/ TermPasses

SubscriptionSpec == SubscriptionInit /\ [][SubscriptionNext]_subscriptionVars

-----------------------------------------------------------------------------
SubscriptionTypeOK ==
  /\ invoice \in [Invoices -> Invoice]
  /\ call \in [Calls -> {"new", "stored", "kept", "dropped", "ended"}]
  /\ objects \subseteq Calls /\ manual \subseteq Manual
  /\ uploads \subseteq StoredFiles /\ wronged \subseteq StoredFiles
  /\ calendar \in 0..MaxClock /\ cleaner \in BOOLEAN /\ paidTill \in Nat

\* Every payment that was approved or recorded by hand, and nothing else, gave
\* one term: the terms granted never exceed the payments, and with no time
\* passed they are equal.
TermPerPayment ==
  LET payments == Cardinality({i \in Invoices : invoice[i].status = "approved"}) + Cardinality(manual)
  IN  /\ paidTill <= payments + calendar
      /\ calendar = 0 => paidTill = payments
      /\ payments > 0 => paidTill >= payments

\* The receipt of a payment that is awaiting review or approved is in storage,
\* although its call was repeated or its process died.
ReceiptOnFile ==
  \A i \in Invoices : invoice[i].status \in {"submitted", "approved"} => invoice[i].by \in objects

\* Whoever pays while the clean-up is about to run keeps the documents.
PaidDocumentsStay == wronged = {}

\* What a tenant who pays can rely on: terms, receipts and documents.
PaymentsHonoured == TermPerPayment /\ ReceiptOnFile /\ PaidDocumentsStay
=============================================================================
