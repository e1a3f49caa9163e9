-------------------------- MODULE SupportSessions --------------------------
(***************************************************************************)
(* View-only support sessions (impersonation.service.ts, impersonation-    *)
(* policy.ts, the log-out of auth.routes.ts): the master account, signed   *)
(* in several times, opens sessions as a customer.  Starting, switching    *)
(* and stopping are transactions under one advisory lock; signing out is   *)
(* not.  Every request with such a session is validated against its parent.*)
(*                                                                         *)
(* Time is in units of 15 minutes.                                         *)
(***************************************************************************)
EXTENDS Naturals, FiniteSets

CONSTANTS
  Masters,  \* sign-ins of the master account
  Sessions, \* support sessions that may be opened
  Callers,  \* requests in progress at the same time
  Attempts, \* wrong codes that may be entered
  FailureLimit,
  MaxElapsed \* bound: units of time

ASSUME SupportAssumption == FailureLimit \in Nat \ {0} /\ MaxElapsed \in Nat

VARIABLES
  master,  \* state of each sign-in, and when it was made
  support, \* support sessions: parent, state, until when, the policy they carry
  caller,  \* progress of each request
  failed,  \* when wrong codes were entered
  config,  \* the configuration of the process
  elapsed
supportVars == <<master, support, caller, failed, config, elapsed>>

NoCaller == [op |-> "none"]
Unopened == [state |-> "none"]

SupportInit ==
  /\ master = [m \in Masters |-> [state |-> "none", since |-> 0]]
  /\ support = [s \in Sessions |-> Unopened]
  /\ caller = [c \in Callers |-> NoCaller]
  /\ failed = {} /\ config = 1 /\ elapsed = 0

\* requireMasterSession: signed in, and not longer ago than 30 minutes.
Entitled(m) == master[m].state = "live" /\ elapsed <= master[m].since + 2
Live(s) == support[s].state = "live"
Valid(s) == Live(s) /\ elapsed < support[s].until
ChildrenOf(m) == {s \in Sessions : Live(s) /\ support[s].parent = m}
Revoking(S) == [s \in Sessions |-> IF s \in S THEN [support[s] EXCEPT !.state = "revoked"] ELSE support[s]]

\* validateImpersonatedRequest
Usable(s) == Valid(s) /\ support[s].policy = config /\ master[support[s].parent].state = "live"

Earlier(a, b) == IF a < b THEN a ELSE b

-----------------------------------------------------------------------------
SignInMaster(m) ==
  /\ master[m].state = "none"
  /\ master' = [master EXCEPT ![m] = [state |-> "live", since |-> elapsed]]
  /\ UNCHANGED <<support, caller, failed, config, elapsed>>

\* Wrong codes of the last 15 minutes, of all sign-ins.
RecentFailures == {f \in failed : f.at + 1 >= elapsed}

\* Fault: transactions do not wait for each other.
AnyTime == TRUE
SupportLock == \A c \in Callers : caller[c].op \notin {"start", "switch"}

\* startImpersonation: under the lock, the sign-in is still valid and there
\* were not too many wrong codes; a wrong one is recorded.
BeginStart(c, m) ==
  /\ caller[c] = NoCaller /\ Entitled(m) /\ SupportLock
  /\ Cardinality(RecentFailures) < FailureLimit
  /\ caller' = [caller EXCEPT ![c] = [op |-> "start", master |-> m, old |-> ChildrenOf(m)]]
  /\ UNCHANGED <<master, support, failed, config, elapsed>>
RecordWrongCode(c, a) ==
  /\ caller[c].op = "start" /\ \A f \in failed : f.id # a
  /\ failed' = failed \cup {[id |-> a, at |-> elapsed]}
  /\ caller' = [caller EXCEPT ![c] = NoCaller]
  /\ UNCHANGED <<master, support, config, elapsed>>

\* The session ends within 15 minutes and within 30 of the sign-in; other
\* support sessions of the sign-in are revoked.
CommitStart(c, s) ==
  /\ caller[c].op = "start" /\ support[s] = Unopened
  /\ LET m == caller[c].master IN
     support' = [Revoking(caller[c].old) EXCEPT ![s] =
                   [state |-> "live", parent |-> m, policy |-> config,
                    until |-> Earlier(elapsed + 1, master[m].since + 2)]]
  /\ caller' = [caller EXCEPT ![c] = NoCaller]
  /\ UNCHANGED <<master, failed, config, elapsed>>

\* switchImpersonationProject: the session is valid and not yet revoked; its
\* successor has the same parent, policy and end.
BeginSwitch(c, s) ==
  /\ caller[c] = NoCaller /\ Usable(s) /\ SupportLock
  /\ caller' = [caller EXCEPT ![c] = [op |-> "switch", from |-> s]]
  /\ UNCHANGED <<master, support, failed, config, elapsed>>

Successor(s) == support[s]

CommitSwitch(c, s) ==
  /\ caller[c].op = "switch" /\ support[s] = Unopened
  /\ IF Live(caller[c].from)
     THEN support' = [Revoking({caller[c].from}) EXCEPT ![s] = Successor(caller[c].from)]
     ELSE UNCHANGED support
  /\ caller' = [caller EXCEPT ![c] = NoCaller]
  /\ UNCHANGED <<master, failed, config, elapsed>>

\* stopImpersonation, from the support session or its parent.
StopSupport(m) ==
  /\ SupportLock /\ (Entitled(m) \/ \E s \in ChildrenOf(m) : Usable(s))
  /\ support' = Revoking(ChildrenOf(m))
  /\ UNCHANGED <<master, caller, failed, config, elapsed>>

\* Sign-out revokes the sign-in and then, in a statement of its own, its
\* support sessions.
SignOut(c, m) ==
  /\ caller[c] = NoCaller /\ master[m].state = "live"
  /\ master' = [master EXCEPT ![m].state = "ended"]
  /\ caller' = [caller EXCEPT ![c] = [op |-> "sign_out", master |-> m]]
  /\ UNCHANGED <<support, failed, config, elapsed>>
EndChildren(c) ==
  /\ caller[c].op = "sign_out"
  /\ support' = Revoking(ChildrenOf(caller[c].master))
  /\ caller' = [caller EXCEPT ![c] = NoCaller]
  /\ UNCHANGED <<master, failed, config, elapsed>>

\* A request fails, or its process dies.
DropCaller(c) ==
  /\ caller[c] # NoCaller /\ caller' = [caller EXCEPT ![c] = NoCaller]
  /\ UNCHANGED <<master, support, failed, config, elapsed>>

\* A restart with another master code or address: sessions carry the old one.
ChangeConfig ==
  /\ config = 1 /\ config' = 2
  /\ caller' = [c \in Callers |-> NoCaller]
  /\ UNCHANGED <<master, support, failed, elapsed>>

\* A transaction takes no noticeable time.
SupportTick ==
  /\ elapsed < MaxElapsed /\ elapsed' = elapsed + 1
  /\ \A c \in Callers : caller[c].op \in {"none", "sign_out"}
  /\ UNCHANGED <<master, support, caller, failed, config>>

SupportNext ==
  \/ \E m \in Masters : SignInMaster(m) \/ StopSupport(m)
  \/ \E c \in Callers, m \in Masters : BeginStart(c, m) \/ SignOut(c, m)
  \/ \E c \in Callers, a \in Attempts : RecordWrongCode(c, a)
  \/ \E c \in Callers, s \in Sessions : CommitStart(c, s) \/ BeginSwitch(c, s) \/ CommitSwitch(c, s)
  \/ \E c \in Callers : EndChildren(c) \/ DropCaller(c)
  \/ ChangeConfig \/ SupportTick

SupportSpec == SupportInit /\ [][SupportNext]_supportVars

-----------------------------------------------------------------------------
SupportTypeOK ==
  /\ \A m \in Masters : master[m].state \in {"none", "live", "ended"} /\ master[m].since \in 0..MaxElapsed
  /\ \A s \in Sessions : support[s].state \in {"none", "live", "revoked"}
  /\ \A c \in Callers : caller[c].op \in {"none", "start", "switch", "sign_out"}
  /\ failed \subseteq [id : Attempts, at : 0..MaxElapsed] /\ config \in 1..2 /\ elapsed \in 0..MaxElapsed

\* At any time a sign-in of the master has one support session that answers
\* requests; none does after the sign-in ended or 30 minutes after it, also
\* when the sign-out overtakes a session that is being opened or switched.
OneSupportSession ==
  \A s \in Sessions : Usable(s) =>
    /\ Entitled(support[s].parent)
    /\ \A z \in Sessions : Usable(z) /\ support[z].parent = support[s].parent => z = s

\* Within a quarter of an hour no more wrong codes are heard than the limit,
\* whatever the number of sign-ins and of requests at the same time.
GuessesLimited ==
  \A t \in 0..MaxElapsed : Cardinality({f \in failed : f.at = t}) <= FailureLimit

\* What guards the way into a customer's organization.
SupportGuarded == OneSupportSession /\ GuessesLimited
=============================================================================
