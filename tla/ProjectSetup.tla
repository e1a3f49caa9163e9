---------------------------- MODULE ProjectSetup ----------------------------
(***************************************************************************)
(* What an organization may own under its package: projects, people and    *)
(* documents (projects.routes.ts, uploads.routes.ts, quota.service.ts, and *)
(* the quota triggers of the database).                                    *)
(*                                                                         *)
(* A handler looks at the usage first; the trigger then locks the row of   *)
(* the organization, before a row is inserted, and counts again after it.  *)
(* The lock is kept until the transaction ends.  A document is stored      *)
(* between the two looks, and dropped when its row is refused.             *)
(***************************************************************************)
EXTENDS Naturals, FiniteSets

CONSTANTS
  Organizations, Projects, Users, Documents, SetupCalls,
  Limits,    \* what a package allows of each kind
  MaxTotal,  \* bound: shares of a project
  NoSetup

ASSUME SetupAssumption == Limits \subseteq Nat \ {0} /\ MaxTotal \in Nat \ {0} /\ NoSetup \notin SetupCalls

VARIABLES
  allowed,  \* limit of each organization; 0 before it exists
  highest,  \* history: the highest limit it has had
  owned,    \* projects, people and documents of each organization
  bucket,   \* documents in storage
  total,    \* total shares of each project
  holders,  \* members of each project: each holds one share
  rowLock,  \* the call that holds the organization's row
  request
setupVars == <<allowed, highest, owned, bucket, total, holders, rowLock, request>>

Kinds == {"project", "person", "document"}
Things == [project |-> Projects, person |-> Users, document |-> Documents]
Asleep == [at |-> "asleep"]
Existing(kind) == UNION {owned[o][kind] : o \in Organizations}
Founded == {o \in Organizations : allowed[o] > 0}
Count(o, kind) == Cardinality(owned[o][kind])

SetupInit ==
  /\ \E o \in Organizations, n \in Limits :
       allowed = [x \in Organizations |-> IF x = o THEN n ELSE 0]
  /\ highest = allowed
  /\ owned = [o \in Organizations |-> [kind \in Kinds |-> {}]]
  /\ bucket = {}
  /\ total = [p \in Projects |-> 1] /\ holders = [p \in Projects |-> {}]
  /\ rowLock = [o \in Organizations |-> NoSetup]
  /\ request = [c \in SetupCalls |-> Asleep]

-----------------------------------------------------------------------------
\* POST /owned-organization: a new organization on trial, its first project,
\* and an account of its own for the person who asks.
FoundOrganization(o, n, p, u, joins) ==
  /\ allowed[o] = 0 /\ Founded # {} /\ p \notin Existing("project")
  /\ allowed' = [allowed EXCEPT ![o] = n] /\ highest' = [highest EXCEPT ![o] = n]
  /\ owned' = [owned EXCEPT ![o] = [project |-> {p}, person |-> {u}, document |-> {}]]
  /\ holders' = [holders EXCEPT ![p] = IF joins THEN {u} ELSE {}]
  /\ UNCHANGED <<bucket, total, rowLock, request>>

\* assertProjectCapacity, assertDocumentCapacity: the look before the work.
\* An invitation takes no such look.
Look(c, o, kind, x) ==
  /\ request[c] = Asleep /\ o \in Founded
  /\ x \notin (IF kind = "person" THEN owned[o][kind] ELSE Existing(kind))
  /\ kind # "person" => Count(o, kind) < allowed[o]
  /\ request' = [request EXCEPT ![c] = [at |-> "checked", org |-> o, kind |-> kind, what |-> x]]
  /\ UNCHANGED <<allowed, highest, owned, total, holders, rowLock>>
AskProject(c, o, p) == Look(c, o, "project", p) /\ UNCHANGED bucket
AskInvitation(c, o, u) == Look(c, o, "person", u) /\ UNCHANGED bucket
\* POST /uploads stores the object as soon as the look has passed.
StoreUpload(c, o, d) == d \notin bucket /\ Look(c, o, "document", d) /\ bucket' = bucket \cup {d}

\* Fault: the trigger counts without waiting for other transactions.
RowAtHand(c) == TRUE
\* lock_organization_quota
RowFree(c) == rowLock[request[c].org] = NoSetup
\* enforce_organization_quota: the rows that are committed, and the new one.
Affordable(c) == LET r == request[c] IN Cardinality(owned[r.org][r.kind] \cup {r.what}) <= allowed[r.org]

InsertRow(c) ==
  /\ request[c].at = "checked" /\ RowFree(c) /\ Affordable(c)
  /\ rowLock' = [rowLock EXCEPT ![request[c].org] = c]
  /\ request' = [request EXCEPT ![c].at = "inserted"]
  /\ UNCHANGED <<allowed, highest, owned, bucket, total, holders>>
RefuseRow(c) ==
  /\ request[c].at = "checked" /\ RowFree(c) /\ ~Affordable(c)
  /\ bucket' = IF request[c].kind = "document" THEN bucket \ {request[c].what} ELSE bucket
  /\ request' = [request EXCEPT ![c] = Asleep]
  /\ UNCHANGED <<allowed, highest, owned, total, holders, rowLock>>

\* The rest of the transaction: a project has the share of its founder (when
\* one is asked for), an invited person may become a member without shares.
CommitRow(c, u) ==
  /\ request[c].at = "inserted"
  /\ LET r == request[c]
     IN  /\ owned' = [owned EXCEPT ![r.org][r.kind] = @ \cup {r.what}]
         /\ rowLock' = [rowLock EXCEPT ![r.org] = NoSetup]
         /\ u \subseteq owned[r.org]["person"] /\ Cardinality(u) <= 1
         /\ holders' = IF r.kind = "project" THEN [holders EXCEPT ![r.what] = u] ELSE holders
  /\ request' = [request EXCEPT ![c] = Asleep]
  /\ UNCHANGED <<allowed, highest, bucket, total>>

\* saveSubscription, under the same row.
ChangePackage(o, n) ==
  /\ o \in Founded /\ rowLock[o] = NoSetup
  /\ allowed' = [allowed EXCEPT ![o] = n]
  /\ highest' = [highest EXCEPT ![o] = IF n > @ THEN n ELSE @]
  /\ UNCHANGED <<owned, bucket, total, holders, rowLock, request>>

-----------------------------------------------------------------------------
\* resolveSeedShares: a share for a person when the total has room for it.
TakeShare(o, p, u) ==
  /\ p \in owned[o]["project"] /\ u \in owned[o]["person"] \ holders[p]
  /\ Cardinality(holders[p]) + 1 <= total[p]
  /\ holders' = [holders EXCEPT ![p] = @ \cup {u}]
  /\ UNCHANGED <<allowed, highest, owned, bucket, total, rowLock, request>>

\* PATCH /:id: the shares of active members are added up, then the row is saved.
StartResize(c, p, n) ==
  /\ request[c] = Asleep /\ p \in Existing("project") /\ n # total[p]
  /\ Cardinality(holders[p]) <= n
  /\ request' = [request EXCEPT ![c] = [at |-> "resizing", what |-> p, to |-> n]]
  /\ UNCHANGED <<allowed, highest, owned, bucket, total, holders, rowLock>>
CommitResize(c) ==
  /\ request[c].at = "resizing"
  /\ total' = [total EXCEPT ![request[c].what] = request[c].to]
  /\ request' = [request EXCEPT ![c] = Asleep]
  /\ UNCHANGED <<allowed, highest, owned, bucket, holders, rowLock>>

SetupNext ==
  \/ \E o \in Organizations, n \in Limits, p \in Projects, u \in Users, joins \in BOOLEAN :
       FoundOrganization(o, n, p, u, joins)
  \/ \E c \in SetupCalls, o \in Organizations :
       \/ \E p \in Projects : AskProject(c, o, p)
       \/ \E u \in Users : AskInvitation(c, o, u)
       \/ \E d \in Documents : StoreUpload(c, o, d)
  \/ \E c \in SetupCalls : InsertRow(c) \/ RefuseRow(c) \/ CommitResize(c)
  \/ \E c \in SetupCalls, u \in SUBSET Users : CommitRow(c, u)
  \/ \E o \in Organizations, n \in Limits : ChangePackage(o, n)
  \/ \E o \in Organizations, p \in Projects, u \in Users : TakeShare(o, p, u)
  \/ \E c \in SetupCalls, p \in Projects, n \in 1..MaxTotal : StartResize(c, p, n)

SetupSpec == SetupInit /\ [][SetupNext]_setupVars

-----------------------------------------------------------------------------
SetupTypeOK ==
  /\ allowed \in [Organizations -> Limits \cup {0}] /\ highest \in [Organizations -> Limits \cup {0}]
  /\ \A o \in Organizations, kind \in Kinds : owned[o][kind] \subseteq Things[kind]
  /\ bucket \subseteq Documents
  /\ total \in [Projects -> 1..MaxTotal] /\ holders \in [Projects -> SUBSET Users]
  /\ rowLock \in [Organizations -> SetupCalls \cup {NoSetup}]
  /\ \A c \in SetupCalls : request[c].at = "inserted" => rowLock[request[c].org] = c
  /\ \A c \in SetupCalls : request[c].at \in {"asleep", "checked", "inserted", "resizing"}

\* However the requests overlap, an organization never owns more of a kind
\* than a package it has had allows.
WithinPackage == \A o \in Organizations, kind \in Kinds : Count(o, kind) <= highest[o]

\* A change that lowers the total shares of a project leaves room for the
\* shares its active members hold.  This fails if shares are assigned between
\* the look at the members and the update of the project.
SharesNotCutBelowAssigned ==
  [][\A p \in Projects : total'[p] < total[p] => Cardinality(holders[p]) <= total'[p]]_setupVars
=============================================================================
