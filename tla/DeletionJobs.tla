---------------------------- MODULE DeletionJobs ----------------------------
(***************************************************************************)
(* Deleting a project (project-deletion.service.ts) or an organization     *)
(* (cleanup.service.ts): the scope is frozen and a job created in one      *)
(* transaction; leased rounds of work purge its objects from storage, a    *)
(* bounded number at a time, and only a round that finds none left deletes *)
(* the records.  A worker of the process runs the jobs of projects; those  *)
(* of organizations, and failed ones, wait for a person.                   *)
(***************************************************************************)
EXTENDS Naturals, FiniteSets

CONSTANTS
  Projects, Groups, \* the scopes: projects, and whole organizations
  Objects,
  Writers,   \* requests that store an object
  DeletionWorkers,
  Batch,     \* objects of one round
  MaxTroubles, \* bound: workers that die, or outlast their lease
  NoWorker

Scopes == Projects \cup Groups
ASSUME DeletionAssumption == Batch \in Nat \ {0} /\ MaxTroubles \in Nat /\ NoWorker \notin DeletionWorkers

VARIABLES
  scope,    \* "open", "frozen", "gone"
  stored,   \* objects under the scope's prefix, stored while it was open
  recorded, \* objects that the scope's records name
  renewed,  \* organizations that have paid again
  storing,  \* scope and object of each writer
  job,      \* status, lease holder, and what is left of the manifest
  worker,
  troubles,
  late      \* objects of an organization stored after it was frozen
deletionVars == <<scope, stored, recorded, renewed, storing, job, worker, troubles, late>>

NotStoring == [at |-> "none"]
Resting == [at |-> "idle"]
NoJob == [status |-> "none", holder |-> NoWorker, expired |-> FALSE, left |-> {}]

DeletionInit ==
  /\ scope = [s \in Scopes |-> "open"]
  /\ stored = [s \in Scopes |-> {}] /\ recorded = stored /\ late = stored
  /\ renewed = {}
  /\ storing = [w \in Writers |-> NotStoring]
  /\ job = [s \in Scopes |-> NoJob]
  /\ worker = [w \in DeletionWorkers |-> Resting] /\ troubles = 0

WritersOf(s) == {w \in Writers : storing[w].at = "writing" /\ storing[w].scope = s}

-----------------------------------------------------------------------------
\* storeObject: under the shared lock of a project that is open.
StartStoring(w, s, o) ==
  /\ storing[w] = NotStoring /\ scope[s] = "open" /\ o \notin stored[s]
  /\ storing' = [storing EXCEPT ![w] = [at |-> "writing", scope |-> s, object |-> o]]
  /\ UNCHANGED <<scope, stored, recorded, renewed, job, worker, troubles, late>>
FinishStoring(w) ==
  /\ storing[w].at = "writing"
  /\ stored' = [stored EXCEPT ![storing[w].scope] = @ \cup {storing[w].object}]
  /\ storing' = [storing EXCEPT ![w].at = "written"]
  /\ UNCHANGED <<scope, recorded, renewed, job, worker, troubles, late>>

\* The record of the upload follows; without it the object is an orphan.
RecordUpload(w) ==
  /\ storing[w].at = "written"
  /\ \/ UNCHANGED recorded
     \/ /\ scope[storing[w].scope] = "open"
        /\ recorded' = [recorded EXCEPT ![storing[w].scope] = @ \cup {storing[w].object}]
  /\ storing' = [storing EXCEPT ![w] = NotStoring]
  /\ UNCHANGED <<scope, stored, renewed, job, worker, troubles, late>>

\* storeObject asks no project for the bills, the support and the assistant
\* files of an organization: they are stored although it is frozen or gone.
StoreLate(s, o) ==
  /\ scope[s] # "open" /\ o \notin stored[s] \cup late[s]
  /\ late' = [late EXCEPT ![s] = @ \cup {o}]
  /\ UNCHANGED <<scope, stored, recorded, renewed, storing, job, worker, troubles>>

WritesDone(s) == s \in Projects => WritersOf(s) = {}

\* beginProjectDeletion takes the exclusive lock; beginCleanup needs an
\* organization whose subscription ended.
BeginDeletion(s) ==
  /\ scope[s] = "open" /\ WritesDone(s) /\ s \notin renewed
  /\ scope' = [scope EXCEPT ![s] = "frozen"]
  /\ job' = [job EXCEPT ![s] = [NoJob EXCEPT !.status = "pending",
                                             !.left = IF s \in Projects THEN recorded[s] ELSE {}]]
  /\ UNCHANGED <<stored, recorded, renewed, storing, worker, troubles, late>>

Renew(s) ==
  /\ s \in Groups \ renewed /\ scope[s] # "gone" /\ renewed' = renewed \cup {s}
  /\ UNCHANGED <<scope, stored, recorded, storing, job, worker, troubles, late>>

-----------------------------------------------------------------------------
\* Fault: a lease that has run out is waited for.
LeaseGone(s) == job[s].holder = NoWorker
LeaseFree(s) == job[s].holder = NoWorker \/ job[s].expired
Owns(w) == job[worker[w].scope].holder = w

\* The lease is claimed.  An organization's job starts when five minutes have
\* passed, by when no object is being stored.
ClaimJob(w, s) ==
  /\ worker[w] = Resting /\ LeaseFree(s)
  /\ job[s].status \in {"pending", "running"} \cup (IF s \in Groups THEN {"failed"} ELSE {})
  /\ WritersOf(s) = {}
  /\ job' = [job EXCEPT ![s] = [@ EXCEPT !.status = "running", !.holder = w, !.expired = FALSE]]
  /\ worker' = [worker EXCEPT ![w] = [at |-> "claimed", scope |-> s, left |-> job[s].left]]
  /\ UNCHANGED <<scope, stored, recorded, renewed, storing, troubles, late>>

Portion(S) == {K \in SUBSET S : Cardinality(K) = IF Cardinality(S) < Batch THEN Cardinality(S) ELSE Batch}

\* Fault: what the manifest does not name is not looked for.
ManifestOnly(s, left) == Portion(left)
KeysOfRound(s, left) == IF left # {} THEN Portion(left) ELSE Portion(stored[s] \cup late[s])

\* The round's objects: from the manifest that was read, else from storage.
ListKeys(w) ==
  /\ worker[w].at = "claimed"
  /\ \E K \in KeysOfRound(worker[w].scope, worker[w].left) :
       worker' = [worker EXCEPT ![w] = [at |-> "purging", scope |-> @.scope, keys |-> K, todo |-> K]]
  /\ UNCHANGED <<scope, stored, recorded, renewed, storing, job, troubles, late>>
Purge(w, o) ==
  /\ worker[w].at = "purging" /\ o \in worker[w].todo
  /\ stored' = [stored EXCEPT ![worker[w].scope] = @ \ {o}]
  /\ late' = [late EXCEPT ![worker[w].scope] = @ \ {o}]
  /\ worker' = [worker EXCEPT ![w].todo = @ \ {o}]
  /\ UNCHANGED <<scope, recorded, renewed, storing, job, troubles>>

\* The round ends; the next one is free to anybody.
EndRound(w) ==
  /\ worker[w].at = "purging" /\ worker[w].todo = {} /\ worker[w].keys # {}
  /\ job' = IF Owns(w)
            THEN [job EXCEPT ![worker[w].scope] =
                    [job[worker[w].scope] EXCEPT !.status = "pending", !.holder = NoWorker,
                                                  !.left = @ \ worker[w].keys]]
            ELSE job
  /\ worker' = [worker EXCEPT ![w] = Resting]
  /\ UNCHANGED <<scope, stored, recorded, renewed, storing, troubles, late>>

\* Nothing was found: the records are deleted by whoever still has the lease.
DeleteRecords(w) ==
  /\ worker[w].at = "purging" /\ worker[w].keys = {} /\ Owns(w)
  /\ LET s == worker[w].scope IN
     /\ s \notin renewed
     /\ scope' = [scope EXCEPT ![s] = "gone"] /\ recorded' = [recorded EXCEPT ![s] = {}]
     /\ job' = [job EXCEPT ![s] = [@ EXCEPT !.status = "completed", !.holder = NoWorker, !.left = {}]]
  /\ worker' = [worker EXCEPT ![w] = Resting]
  /\ UNCHANGED <<stored, renewed, storing, troubles, late>>

\* Storage or the database fails, the lease is another's, the organization
\* has paid.
FailRound(w) ==
  /\ worker[w] # Resting
  /\ job' = IF Owns(w) THEN [job EXCEPT ![worker[w].scope] = [@ EXCEPT !.status = "failed", !.holder = NoWorker]]
            ELSE job
  /\ worker' = [worker EXCEPT ![w] = Resting]
  /\ UNCHANGED <<scope, stored, recorded, renewed, storing, troubles, late>>
DieInRound(w) ==
  /\ worker[w] # Resting /\ troubles < MaxTroubles /\ troubles' = troubles + 1
  /\ worker' = [worker EXCEPT ![w] = Resting]
  /\ UNCHANGED <<scope, stored, recorded, renewed, storing, job, late>>
LeaseRunsOut(s) ==
  /\ job[s].holder # NoWorker /\ ~job[s].expired
  /\ job' = [job EXCEPT ![s].expired = TRUE]
  /\ IF \E w \in DeletionWorkers : worker[w] # Resting /\ worker[w].scope = s /\ Owns(w)
     THEN troubles < MaxTroubles /\ troubles' = troubles + 1
     ELSE UNCHANGED troubles
  /\ UNCHANGED <<scope, stored, recorded, renewed, storing, worker, late>>

\* retryProjectDeletion
RetryDeletion(s) ==
  /\ s \in Projects /\ job[s].status = "failed" /\ job' = [job EXCEPT ![s].status = "pending"]
  /\ UNCHANGED <<scope, stored, recorded, renewed, storing, worker, troubles, late>>

RoundStep(w) ==
  \/ \E s \in Projects : ClaimJob(w, s)
  \/ ListKeys(w) \/ EndRound(w) \/ DeleteRecords(w) \/ \E o \in Objects : Purge(w, o)

DeletionNext ==
  \/ \E w \in Writers, s \in Scopes, o \in Objects : StartStoring(w, s, o)
  \/ \E w \in Writers : FinishStoring(w) \/ RecordUpload(w)
  \/ \E s \in Groups, o \in Objects : StoreLate(s, o)
  \/ \E s \in Scopes : BeginDeletion(s) \/ Renew(s) \/ LeaseRunsOut(s) \/ RetryDeletion(s)
  \/ \E w \in DeletionWorkers, s \in Groups : ClaimJob(w, s)
  \/ \E w \in DeletionWorkers : RoundStep(w) \/ FailRound(w) \/ DieInRound(w)

\* The worker of every process looks for jobs again and again and carries on
\* with the one it has; a lease that is not given back runs out; a write ends.
\* A round is kept short enough to end within its lease (but for the bound).
DeletionFairness ==
  /\ \A w \in DeletionWorkers : WF_deletionVars(RoundStep(w)) /\ WF_deletionVars(worker[w] # Resting /\ ~Owns(w) /\ FailRound(w))
  /\ \A s \in Scopes : WF_deletionVars(LeaseRunsOut(s))
  /\ \A w \in Writers : WF_deletionVars(FinishStoring(w))

DeletionSpec == DeletionInit /\ [][DeletionNext]_deletionVars /\ DeletionFairness

-----------------------------------------------------------------------------

\* When the records of a scope are gone no object that was stored before it
\* was frozen is in storage, those without a record included, although
\* writers, dead workers and workers that have lost their lease went on
\* meanwhile.  What is stored in an organization after that may stay.
NothingLeftBehind ==
  \A s \in Scopes : scope[s] = "gone" => stored[s] = {} /\ WritersOf(s) = {}

\* A project's deletion that was begun or asked for again ends, or has failed
\* and says so, also when the worker dies with the lease.
DeletionEnds == \A s \in Projects : job[s].status \in {"pending", "running"} ~> job[s].status \in {"completed", "failed"}
=============================================================================
