------------------------------- MODULE Roster -------------------------------
(***************************************************************************)
(* The share records of a fund and the roles that give people access to    *)
(* it (members.routes.ts, memberships.routes.ts, member-link.service.ts,   *)
(* member-invitation.routes.ts).                                           *)
(*                                                                         *)
(* A person is an account of the organization; one person may own several  *)
(* share records, and has at most one seat per role.  Every share record   *)
(* has its account (records without one receive it on their first use).    *)
(* Handlers that read before their transaction keep what they read on the  *)
(* desk of a clerk; the others are one transaction.  Whether the balances  *)
(* of a record are settled is the ledger's business: assertMemberCanExit   *)
(* finds them so or the handler stops, at any time.                        *)
(***************************************************************************)
EXTENDS Naturals, FiniteSets, FiniteSetsExt

CONSTANTS
  Persons, Records, Clerks,
  Cap,        \* the project's total shares
  MaxShares,  \* bound: shares of one request
  MostShares, \* bound: shares of one record after transfers
  NoRecord, NoPerson

ASSUME RosterAssumption ==
  /\ NoRecord \notin Records /\ NoPerson \notin Persons
  /\ Cap \in Nat /\ MaxShares \in Nat \ {0} /\ MostShares \in Nat /\ MaxShares <= MostShares

VARIABLES
  record,   \* share records
  seat,     \* roles: for each person, whether on, and the record it names
  desk      \* what a handler read before its transaction
rosterVars == <<record, seat, desk>>

Roles == {"member", "owner"}
Share == [status : {"none", "active", "inactive"}, shares : 0..MostShares,
          person : Persons \cup {NoPerson}]
Seat  == [state : {"none", "on", "off"}, rec : Records \cup {NoRecord}]
NoSeat == [state |-> "none", rec |-> NoRecord]
FreeDesk  == [op |-> "free"]

Of(p)      == {r \in Records : record[r].status # "none" /\ record[r].person = p}
Unused     == {r \in Records : record[r].status = "none"}
Active     == {r \in Records : record[r].status = "active"}
SharesOf(R) == FoldSet(LAMBDA r, n : n + record[r].shares, 0, R)
Owners     == {p \in Persons : seat[p]["owner"].state = "on"}

\* assertShareCap: the shares of the other active records and the new ones.
FitsCap(n, others) == SharesOf(Active \ others) + n <= Cap

\* assertNoActiveManagementRoles: roles of management that name the record.
CanLeave(r) == \A p \in Persons : ~(seat[p]["owner"].state = "on" /\ seat[p]["owner"].rec = r)

\* The member role is created or switched on and names record r.
Seated(seats, p, r) == [seats EXCEPT ![p]["member"] = [state |-> "on", rec |-> r]]
\* The member role that names record r is switched off.
Vacated(seats, r) ==
  [p \in Persons |-> IF seats[p]["member"].rec = r /\ seats[p]["member"].state = "on"
                     THEN [seats[p] EXCEPT !["member"].state = "off"] ELSE seats[p]]
Gone(r) == [record[r] EXCEPT !.status = "inactive", !.shares = 0]

\* ensureUserProjectMember: a record of the person, or a new one without
\* shares, becomes active.
Ensurable(p) == IF Of(p) # {} THEN Of(p) ELSE Unused
Ensured(p, r) ==
  [record EXCEPT ![r] = [status |-> "active", person |-> p,
                         shares |-> IF @.status = "none" THEN 0 ELSE @.shares]]
\* Roles of the person that name no record name r from now on.
Linked(seats, p, r) ==
  [seats EXCEPT ![p] = [role \in Roles |-> IF @[role].state # "none" /\ @[role].rec = NoRecord
                                           THEN [@[role] EXCEPT !.rec = r] ELSE @[role]]]

RosterInit ==
  /\ record = [r \in Records |-> [status |-> "none", shares |-> 0, person |-> NoPerson]]
  /\ \E p \in Persons :
       seat = [x \in Persons |-> [role \in Roles |-> IF x = p /\ role = "owner"
                                                    THEN [state |-> "on", rec |-> NoRecord] ELSE NoSeat]]
  /\ desk = [c \in Clerks |-> FreeDesk]

-----------------------------------------------------------------------------
(* Adding, importing, removing and transferring records. *)

\* POST / : the cap is checked, then the record and the role are written.  A
\* person may be added again: every call creates a record.
StartAdd(c, p, n) ==
  /\ desk[c] = FreeDesk /\ FitsCap(n, {})
  /\ desk' = [desk EXCEPT ![c] = [op |-> "add", person |-> p, shares |-> n]]
  /\ UNCHANGED <<record, seat>>

Enroll(c, r, p, n) ==
  /\ record' = [record EXCEPT ![r] = [status |-> "active", shares |-> n, person |-> p]]
  /\ seat' = Seated(seat, p, r)
  /\ desk' = [desk EXCEPT ![c] = FreeDesk]

CommitAdd(c) ==
  /\ desk[c].op = "add"
  /\ \E r \in Unused : Enroll(c, r, desk[c].person, desk[c].shares)

\* POST /import, one row: the record of the mobile is looked up with the cap,
\* two records of one mobile are refused; the balances of an inactive one are
\* looked at (the row is abandoned or goes on).
StartImport(c, p, n) ==
  /\ desk[c] = FreeDesk /\ Cardinality(Of(p)) <= 1 /\ FitsCap(n, Of(p))
  /\ desk' = [desk EXCEPT ![c] = [op |-> "import", person |-> p, shares |-> n, found |-> Of(p)]]
  /\ UNCHANGED <<record, seat>>

CommitImport(c) ==
  /\ desk[c].op = "import"
  /\ \E r \in IF desk[c].found = {} THEN Unused ELSE desk[c].found :
       Enroll(c, r, desk[c].person, desk[c].shares)

\* POST /:id/remove
Remove(r) ==
  /\ record[r].status = "active" /\ CanLeave(r)
  /\ record' = [record EXCEPT ![r] = Gone(r)]
  /\ seat' = Vacated(seat, r)
  /\ UNCHANGED <<desk>>

\* POST /:id/transfer: the shares go to the record t of another person, which
\* is chosen, found by mobile, or created.
Transfer(r, p, t) ==
  /\ record[r].status = "active" /\ CanLeave(r) /\ record[r].person # p
  /\ t \in (IF Of(p) # {} THEN Of(p) ELSE Unused)
  /\ record[t].status = "inactive" => CanLeave(t)
  /\ record[t].shares + record[r].shares <= MostShares
  /\ record' = [record EXCEPT ![r] = Gone(r),
                              ![t] = [status |-> "active", person |-> p,
                                      shares |-> @.shares + record[r].shares]]
  /\ seat' = Seated(Vacated(seat, r), p, t)
  /\ UNCHANGED desk

\* PATCH /:id: status and shares, each possibly left as it is ("keep", 0).
StartEdit(c, r, status, n) ==
  /\ desk[c] = FreeDesk /\ record[r].status # "none"
  /\ status = "inactive" /\ record[r].status # "inactive" => CanLeave(r)
  /\ status = "active" /\ record[r].status = "inactive" => n > 0
  /\ n > 0 => FitsCap(IF status = "inactive" THEN 0 ELSE n, {r})
  /\ desk' = [desk EXCEPT ![c] = [op |-> "edit", rec |-> r, status |-> status, shares |-> n,
                                  before |-> record[r].status]]
  /\ UNCHANGED <<record, seat>>

CommitEdit(c) ==
  /\ desk[c].op = "edit"
  /\ LET d == desk[c]  r == d.rec  p == record[r].person
     IN  /\ d.status = "inactive" /\ d.before # "inactive" => CanLeave(r)
         /\ record' = [record EXCEPT ![r].status = IF d.status = "keep" THEN @ ELSE d.status,
                                     ![r].shares = IF d.status = "inactive" THEN 0
                                                   ELSE IF d.shares > 0 THEN d.shares ELSE @]
         /\ seat' = CASE d.status = "inactive" -> Vacated(seat, r)
                      [] d.status = "active"   -> Seated(seat, p, r)
                      [] OTHER                 -> seat
  /\ desk' = [desk EXCEPT ![c] = FreeDesk]

\* POST /:id/invitation switches the member role on and leaves its record alone.
Invite(r) ==
  /\ record[r].status = "active"
  /\ LET p == record[r].person
     IN  /\ seat' = [seat EXCEPT ![p]["member"] = IF @.state = "none" THEN [state |-> "on", rec |-> r]
                                                  ELSE [@ EXCEPT !.state = "on"]]
  /\ UNCHANGED <<record, desk>>

-----------------------------------------------------------------------------
(* Roles. *)

\* POST /memberships: a role for a person, with a share record when the role is
\* member or also_member is asked for.
GrantRole(p, role, also) ==
  /\ seat[p][role].state # "on"
  /\ IF role = "member" \/ also
     THEN \E r \in Ensurable(p) :
            /\ record' = Ensured(p, r)
            /\ seat' = Seated([Linked(seat, p, r) EXCEPT ![p][role] = [state |-> "on", rec |-> r]], p, r)
     ELSE /\ seat' = [seat EXCEPT ![p][role] = [state |-> "on", rec |-> NoRecord]]
          /\ UNCHANGED record
  /\ UNCHANGED desk

\* The count of the other active owners.
OtherActiveOwner(p) == Owners \ {p} # {}

\* PATCH /memberships/:id: a seat changes its role or is switched on or off.
StartRole(c, p, role, to, on, also) ==
  /\ desk[c] = FreeDesk /\ seat[p][role].state # "none"
  /\ role = "owner" /\ seat[p][role].state = "on" /\ (on = "off" \/ to # role)
       => OtherActiveOwner(p)
  /\ to # role => seat[p][to].state = "none"
  /\ desk' = [desk EXCEPT ![c] = [op |-> "role", person |-> p, from |-> role, to |-> to, set |-> on, also |-> also,
                                  next |-> IF on = "keep" THEN seat[p][role].state ELSE on]]
  /\ UNCHANGED <<record, seat>>

\* The row keeps its state unless one was asked for; a person holds a role once.
Moved(seats, d, r) ==
  LET p == d.person
      new == [state |-> IF d.set = "keep" THEN seats[p][d.from].state ELSE d.set, rec |-> r]
  IN  [seats EXCEPT ![p] = [role \in Roles |-> IF role = d.to THEN new
                                               ELSE IF role = d.from THEN NoSeat ELSE @[role]]]

CommitRole(c) ==
  /\ desk[c].op = "role"
  /\ LET d == desk[c]  p == d.person
     IN  /\ seat[p][d.from].state # "none" /\ (d.from # d.to => seat[p][d.to].state = "none")
         /\ IF d.next = "on" /\ (d.to = "member" \/ d.also)
            THEN \E r \in Ensurable(p) :
                   /\ record' = Ensured(p, r)
                   /\ seat' = Moved(IF d.from = "member" \/ d.also THEN Linked(Seated(seat, p, r), p, r) ELSE seat, d, r)
            ELSE /\ seat' = Moved(seat, d, IF d.to = "member" THEN seat[p][d.from].rec ELSE NoRecord)
                 /\ UNCHANGED record
  /\ desk' = [desk EXCEPT ![c] = FreeDesk]

\* A request fails, or its transaction meets another one.
GiveUpRequest(c) ==
  /\ desk[c] # FreeDesk /\ desk' = [desk EXCEPT ![c] = FreeDesk]
  /\ UNCHANGED <<record, seat>>

RosterNext ==
  \/ \E c \in Clerks, p \in Persons, n \in 1..MaxShares : StartAdd(c, p, n) \/ StartImport(c, p, n)
  \/ \E c \in Clerks, r \in Records, status \in {"keep", "active", "inactive"}, n \in 0..MaxShares :
       StartEdit(c, r, status, n)
  \/ \E c \in Clerks, p \in Persons, role, to \in Roles, on \in {"keep", "on", "off"}, also \in BOOLEAN :
       StartRole(c, p, role, to, on, also)
  \/ \E c \in Clerks : \/ CommitAdd(c) \/ CommitImport(c) \/ CommitEdit(c)
                       \/ CommitRole(c) \/ GiveUpRequest(c)
  \/ \E r \in Records : Remove(r) \/ Invite(r)
  \/ \E r, t \in Records, p \in Persons : r # t /\ Transfer(r, p, t)
  \/ \E p \in Persons, role \in Roles, also \in BOOLEAN : GrantRole(p, role, also)

RosterSpec == RosterInit /\ [][RosterNext]_rosterVars

-----------------------------------------------------------------------------
RosterTypeOK ==
  /\ record \in [Records -> Share]
  /\ seat \in [Persons -> [Roles -> Seat]]

\* The project keeps an active owner, through all changes of roles ("Cannot
\* remove the project's only active owner").  Two owners whose changes are
\* both counted before either is written leave none.
OwnerRemains == Owners # {}
=============================================================================
