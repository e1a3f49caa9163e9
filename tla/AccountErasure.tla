--------------------------- MODULE AccountErasure ---------------------------
(***************************************************************************)
(* Erasing a person's account on request (account-deletion.routes.ts,      *)
(* account-deletion.service.ts): staff review the request; a run claims it *)
(* with a lease and suspends the account, purges personal files in bounded *)
(* portions, removes the identity at the sign-in provider and finally      *)
(* deletes the account in one transaction, which looks at the files again  *)
(* first.  A run that fails is repeated.                                   *)
(*                                                                         *)
(* A file is stored first and put on record by a statement of its own,     *)
(* which nothing orders against a run: it may come while the last          *)
(* transaction is open, after it, or, when the process dies, never.        *)
(*                                                                         *)
(* The accounts are the owners of one project; a login may have an account *)
(* in another organization.                                                *)
(***************************************************************************)
EXTENDS Naturals, FiniteSets

CONSTANTS
  Accounts,
  Papers,    \* personal files that may be on record
  Runs,      \* executions in progress
  Portion,   \* files of one execution
  MaxUploads,\* bound: uploads in progress at the same time
  NoRun

ASSUME ErasureAssumption == Accounts # {} /\ Portion \in Nat \ {0} /\ NoRun \notin Runs

VARIABLES
  erasure,  \* status and lease of each account's request
  account,  \* "active", "suspended", "gone"
  papers,   \* files on record
  kept,     \* files in storage
  elsewhere,\* logins with an account in another organization
  provider, \* identities at the sign-in provider
  run,      \* progress of each execution
  unrecorded, \* files in storage that are not on record yet
  late      \* history: files put on record since the last transaction looked
erasureVars == <<erasure, account, papers, kept, elsewhere, provider, run, unrecorded, late>>

NotRunning == [at |-> "idle"]

ErasureInit ==
  /\ erasure = [a \in Accounts |-> [status |-> "none", lease |-> NoRun, expired |-> FALSE]]
  /\ account = [a \in Accounts |-> "active"]
  /\ papers = [a \in Accounts |-> {}] /\ kept = papers /\ unrecorded = papers /\ late = papers
  /\ elsewhere \in SUBSET Accounts /\ provider = Accounts
  /\ run = [r \in Runs |-> NotRunning]

-----------------------------------------------------------------------------
\* POST /account-deletion-requests: once per account.
RequestErasure(a) ==
  /\ account[a] = "active" /\ erasure[a].status = "none"
  /\ erasure' = [erasure EXCEPT ![a].status = "pending"]
  /\ UNCHANGED <<account, papers, kept, elsewhere, provider, run, unrecorded, late>>

\* reviewDeletionRequest, from the status that the reviewer saw.
ReviewErasure(a, to) ==
  /\ erasure[a].status \in {"pending", "in_review", "needs_information"}
  /\ erasure' = [erasure EXCEPT ![a].status = to]
  /\ UNCHANGED <<account, papers, kept, elsewhere, provider, run, unrecorded, late>>

\* The last transaction of a run is open: it has the request locked.
Locked(a) == \E r \in Runs : run[r].at = "looked" /\ run[r].account = a

\* A file of the person is stored, also by staff, and also of a member whose
\* account is gone; its record follows, or the upload fails.
StorePaper(a, p) ==
  /\ \A b \in Accounts : p \notin papers[b] \cup kept[b]
  /\ Cardinality(UNION {unrecorded[b] : b \in Accounts}) < MaxUploads
  /\ kept' = [kept EXCEPT ![a] = @ \cup {p}] /\ unrecorded' = [unrecorded EXCEPT ![a] = @ \cup {p}]
  /\ UNCHANGED <<erasure, account, papers, elsewhere, provider, run, late>>
RecordPaper(a, p) ==
  /\ p \in unrecorded[a] /\ unrecorded' = [unrecorded EXCEPT ![a] = @ \ {p}]
  /\ papers' = [papers EXCEPT ![a] = @ \cup {p}]
  /\ late' = IF Locked(a) \/ account[a] = "gone" THEN [late EXCEPT ![a] = @ \cup {p}] ELSE late
  /\ UNCHANGED <<erasure, account, kept, elsewhere, provider, run>>
FailUpload(a, p) ==
  /\ p \in unrecorded[a] /\ unrecorded' = [unrecorded EXCEPT ![a] = @ \ {p}]
  /\ kept' = [kept EXCEPT ![a] = @ \ {p}]
  /\ UNCHANGED <<erasure, account, papers, elsewhere, provider, run, late>>

\* The login gets an account in another organization.
JoinElsewhere(a) ==
  /\ a \notin elsewhere /\ account[a] # "gone" /\ elsewhere' = elsewhere \cup {a}
  /\ UNCHANGED <<erasure, account, papers, kept, provider, run, unrecorded, late>>

-----------------------------------------------------------------------------
OtherOwnerActive(a) == \E b \in Accounts \ {a} : account[b] = "active"
Holds(r) == erasure[run[r].account].lease = r

\* executeAccountDeletion claims the request: in a serializable transaction
\* the account is suspended and its sessions end.
ClaimErasure(r, a) ==
  /\ run[r] = NotRunning
  /\ erasure[a].status \in {"in_review", "processing", "processing_failed"}
  /\ erasure[a].lease = NoRun \/ erasure[a].expired
  /\ OtherOwnerActive(a) /\ ~Locked(a)
  /\ account' = [account EXCEPT ![a] = "suspended"]
  /\ erasure' = [erasure EXCEPT ![a] = [status |-> "processing", lease |-> r, expired |-> FALSE]]
  /\ \E P \in SUBSET papers[a] :
       /\ Cardinality(P) = IF Cardinality(papers[a]) < Portion THEN Cardinality(papers[a]) ELSE Portion
       /\ run' = [run EXCEPT ![r] = [at |-> "files", account |-> a, todo |-> P, purged |-> {}]]
  /\ UNCHANGED <<papers, kept, elsewhere, provider, unrecorded, late>>

\* A file leaves storage, and then, under the lease, its record goes.
PurgePaper(r, p) ==
  /\ run[r].at = "files" /\ p \in run[r].todo \ run[r].purged
  /\ kept' = [kept EXCEPT ![run[r].account] = @ \ {p}]
  /\ run' = [run EXCEPT ![r].purged = @ \cup {p}]
  /\ UNCHANGED <<erasure, account, papers, elsewhere, provider, unrecorded, late>>
DropRecord(r, p) ==
  /\ run[r].at = "files" /\ p \in run[r].purged /\ Holds(r)
  /\ papers' = [papers EXCEPT ![run[r].account] = @ \ {p}]
  /\ run' = [run EXCEPT ![r] = [run[r] EXCEPT !.todo = @ \ {p}, !.purged = @ \ {p}]]
  /\ UNCHANGED <<erasure, account, kept, elsewhere, provider, unrecorded, late>>

\* More files: the lease is given up, whosever it is, and a new run asked for.
LeaveRest(r) ==
  /\ run[r].at = "files" /\ run[r].todo = {} /\ papers[run[r].account] # {}
  /\ account[run[r].account] # "gone" /\ ~Locked(run[r].account)
  /\ erasure' = [erasure EXCEPT ![run[r].account].lease = NoRun]
  /\ run' = [run EXCEPT ![r] = NotRunning]
  /\ UNCHANGED <<account, papers, kept, elsewhere, provider, unrecorded, late>>

\* No files: what is known of the login decides about its identity.
FilesDone(r) ==
  /\ run[r].at = "files" /\ run[r].todo = {} /\ papers[run[r].account] = {}
  /\ account[run[r].account] # "gone" /\ OtherOwnerActive(run[r].account)
  /\ run' = [run EXCEPT ![r] = [at |-> IF run[r].account \in elsewhere THEN "delete" ELSE "identity",
                                account |-> run[r].account]]
  /\ UNCHANGED <<erasure, account, papers, kept, elsewhere, provider, unrecorded, late>>
DropIdentity(r) ==
  /\ run[r].at = "identity"
  /\ provider' = provider \ {run[r].account} /\ run' = [run EXCEPT ![r].at = "delete"]
  /\ UNCHANGED <<erasure, account, papers, kept, elsewhere, unrecorded, late>>

\* Fault: the files found before are taken for all.
FilesWereGone(a) == TRUE
NoFiles(a) == papers[a] = {}

\* The last transaction looks at the lease, the files and the owners again;
\* then the account goes, and the login with its last account.
LookAgain(r) ==
  /\ run[r].at = "delete" /\ Holds(r)
  /\ LET a == run[r].account IN
     /\ erasure[a].status = "processing" /\ NoFiles(a) /\ OtherOwnerActive(a)
     /\ run' = [run EXCEPT ![r].at = "looked"] /\ late' = [late EXCEPT ![a] = {}]
  /\ UNCHANGED <<erasure, account, papers, kept, elsewhere, provider, unrecorded>>
DeleteAccount(r) ==
  /\ run[r].at = "looked"
  /\ account' = [account EXCEPT ![run[r].account] = "gone"]
  /\ erasure' = [erasure EXCEPT ![run[r].account] = [status |-> "completed", lease |-> NoRun, expired |-> FALSE]]
  /\ run' = [run EXCEPT ![r] = NotRunning]
  /\ UNCHANGED <<papers, kept, elsewhere, provider, unrecorded, late>>

\* Anything that fails: the request stays open, if the lease is still held.
FailErasure(r) ==
  /\ run[r] # NotRunning
  /\ erasure' = IF Holds(r)
                THEN [erasure EXCEPT ![run[r].account] = [@ EXCEPT !.status = "processing_failed", !.lease = NoRun]]
                ELSE erasure
  /\ run' = [run EXCEPT ![r] = NotRunning]
  /\ UNCHANGED <<account, papers, kept, elsewhere, provider, unrecorded, late>>
DieErasing(r) ==
  /\ run[r] # NotRunning /\ run' = [run EXCEPT ![r] = NotRunning]
  /\ UNCHANGED <<erasure, account, papers, kept, elsewhere, provider, unrecorded, late>>
ErasureLeaseEnds(a) ==
  /\ erasure[a].lease # NoRun /\ ~erasure[a].expired
  /\ erasure' = [erasure EXCEPT ![a].expired = TRUE]
  /\ UNCHANGED <<account, papers, kept, elsewhere, provider, run, unrecorded, late>>

ErasureNext ==
  \/ \E a \in Accounts : RequestErasure(a) \/ JoinElsewhere(a) \/ ErasureLeaseEnds(a)
  \/ \E a \in Accounts, to \in {"in_review", "needs_information"} : ReviewErasure(a, to)
  \/ \E a \in Accounts, p \in Papers : StorePaper(a, p) \/ RecordPaper(a, p) \/ FailUpload(a, p)
  \/ \E r \in Runs, a \in Accounts : ClaimErasure(r, a)
  \/ \E r \in Runs, p \in Papers : PurgePaper(r, p) \/ DropRecord(r, p)
  \/ \E r \in Runs : \/ LeaveRest(r) \/ FilesDone(r) \/ DropIdentity(r) \/ LookAgain(r)
                     \/ DeleteAccount(r) \/ FailErasure(r) \/ DieErasing(r)

ErasureSpec == ErasureInit /\ [][ErasureNext]_erasureVars

-----------------------------------------------------------------------------
ErasureTypeOK ==
  /\ \A a \in Accounts : /\ erasure[a].status \in {"none", "pending", "in_review", "needs_information",
                                                  "processing", "processing_failed", "completed"}
                         /\ erasure[a].lease \in Runs \cup {NoRun}
  /\ account \in [Accounts -> {"active", "suspended", "gone"}]
  /\ \A files \in {papers, kept, unrecorded, late} : files \in [Accounts -> SUBSET Papers]
  /\ elsewhere \subseteq Accounts /\ provider \subseteq Accounts
  /\ \A r \in Runs : run[r].at \in {"idle", "files", "identity", "delete", "looked"}

\* However many owners ask to be erased at the same time, the project keeps
\* one who can act; and an account that is gone has left no file that was on
\* record when its last transaction looked (executeAccountDeletion), although
\* files were added meanwhile and a run had lost its lease.  What is put on
\* record afterwards, or never, stays.
ErasureIsClean ==
  /\ \E a \in Accounts : account[a] = "active"
  /\ \A a \in Accounts : account[a] = "gone" =>
        erasure[a].status = "completed" /\ papers[a] \subseteq late[a] /\ kept[a] \subseteq late[a] \cup unrecorded[a]

\* As the preview says, the other organization accounts of the login remain:
\* a login that stays in use keeps its identity at the provider.  This fails
\* if one is added between the last look and the removal at the provider.
SharedLoginKept == \A a \in elsewhere : a \in provider
=============================================================================
