------------------------------- MODULE SignUp -------------------------------
(***************************************************************************)
(* Creating an organization (POST /signup of onboarding.routes.ts,         *)
(* google-oauth.service.ts, provisionTenant, tenant-accounts.ts): a person *)
(* proves a mobile or an e-mail address, or brings a ticket of the Google  *)
(* sign-in, and gets a login and an organization in one transaction.       *)
(*                                                                         *)
(* Logins are global; contacts are unique among them.  A short name is     *)
(* looked up before, and is unique in, the database.                       *)
(***************************************************************************)
EXTENDS Naturals, FiniteSets

CONSTANTS
  Mobiles, Mails, NoMail,
  Names,    \* short names: n + 1 is tried when n is taken, and may be preferred itself
  Tickets,  \* Google tickets that may be given out
  MailOf,   \* the address a ticket proves
  Browsers, \* sign-ups in progress at the same time
  NoTicket

ASSUME SignUpAssumption ==
  /\ NoMail \notin Mails /\ NoTicket \notin Tickets
  /\ Names = 1..Cardinality(Names)
  /\ \A t \in Tickets : MailOf[t] \in Mails

VARIABLES
  people,   \* logins: [mobile, mail]
  founded,  \* organizations: their name and owner
  ticket,   \* "unused", "stored", "held", "spent", "expired"
  window,   \* progress of each sign-up
  resolving,\* progress of the sign-in with each ticket
  dropped   \* history: tickets a failing look-up used up
signUpVars == <<people, founded, ticket, window, resolving, dropped>>

NoWindow == [at |-> "idle"]

SignUpInit ==
  /\ people = {} /\ founded = {}
  /\ ticket = [t \in Tickets |-> "unused"]
  /\ window = [w \in Browsers |-> NoWindow]
  /\ resolving = [t \in Tickets |-> "idle"] /\ dropped = {}

WithMail(mail) == {p \in people : mail # NoMail /\ p.mail = mail}
WithMobile(mobile) == {p \in people : p.mobile = mobile}
Taken(mobile, mail) == WithMail(mail) # {} \/ WithMobile(mobile) # {}

-----------------------------------------------------------------------------
\* handleGoogleOAuthCallback: Google's answer becomes a ticket.
StoreTicket(t) ==
  /\ ticket[t] = "unused" /\ ticket' = [ticket EXCEPT ![t] = "stored"]
  /\ UNCHANGED <<people, founded, window, resolving, dropped>>

\* resolveGoogleAuthTicket: the ticket stays while accounts are looked up, in
\* the organization it may name, and when none is found or the look-up fails;
\* it is used up before a session is issued, which may fail.
Resolve(t) ==
  /\ ticket[t] = "stored" /\ resolving[t] = "idle"
  /\ resolving' = [resolving EXCEPT ![t] = "looking"]
  /\ UNCHANGED <<people, founded, ticket, window, dropped>>
FindNobody(t) ==
  /\ resolving[t] = "looking" /\ resolving' = [resolving EXCEPT ![t] = "idle"]
  /\ UNCHANGED <<people, founded, ticket, window, dropped>>
TakeTicket(t) ==
  /\ resolving[t] = "looking" /\ WithMail(MailOf[t]) # {}
  /\ resolving' = [resolving EXCEPT ![t] = "opening"]
  /\ ticket' = [ticket EXCEPT ![t] = IF @ = "stored" THEN "spent" ELSE @]
  /\ UNCHANGED <<people, founded, window, dropped>>
EndSignIn(t) ==
  /\ resolving[t] = "opening" /\ resolving' = [resolving EXCEPT ![t] = "idle"]
  /\ UNCHANGED <<people, founded, ticket, window, dropped>>

TicketExpires(t) ==
  /\ ticket[t] = "stored" /\ ticket' = [ticket EXCEPT ![t] = "expired"]
  /\ UNCHANGED <<people, founded, window, resolving, dropped>>

Start(w, t, mobile, mail, at) ==
  \E n \in Names :
    window' = [window EXCEPT ![w] = [at |-> at, ticket |-> t, mobile |-> mobile, mail |-> mail, name |-> n]]

\* POST /signup with a proof of its own: contacts that are in use are refused.
StartSignUp(w, mobile, mail) ==
  /\ window[w] = NoWindow /\ ~Taken(mobile, mail)
  /\ Start(w, NoTicket, mobile, mail, "name")
  /\ UNCHANGED <<people, founded, ticket, resolving, dropped>>

\* signupWithGoogleTicket takes the ticket before it waits for anything; an
\* error in the look-up that follows uses it up.
StartWithTicket(w, t, mobile) ==
  /\ window[w] = NoWindow /\ ticket[t] = "stored"
  /\ ticket' = [ticket EXCEPT ![t] = "held"]
  /\ Start(w, t, mobile, MailOf[t], "check")
  /\ UNCHANGED <<people, founded, resolving, dropped>>
CheckMail(w) ==
  /\ window[w].at = "check" /\ WithMail(window[w].mail) = {}
  /\ window' = [window EXCEPT ![w].at = "name"]
  /\ UNCHANGED <<people, founded, ticket, resolving, dropped>>

FailLookUp(w) ==
  /\ window[w].at = "check"
  /\ ticket' = [ticket EXCEPT ![window[w].ticket] = "spent"] /\ dropped' = dropped \cup {window[w].ticket}
  /\ window' = [window EXCEPT ![w] = NoWindow]
  /\ UNCHANGED <<people, founded, resolving>>

\* withAvailableOrganizationSlug: the next name, only after a taken one.
NextName(w) ==
  /\ window[w].name + 1 \in Names
  /\ window' = [window EXCEPT ![w] = [window[w] EXCEPT !.at = "name", !.name = @ + 1]]
  /\ UNCHANGED <<people, founded, ticket, resolving, dropped>>
NameTaken(n) == \E o \in founded : o.name = n

\* Fault: sign-ups of one contact do not wait for each other.
NoWait(w) == TRUE
ContactsFree(w) ==
  \A v \in Browsers \ {w} : window[v].at = "checked" =>
     /\ window[v].mobile # window[w].mobile
     /\ window[v].mail = NoMail \/ window[v].mail # window[w].mail

\* provisionTenantOnce: the name is looked up; then, in the transaction and
\* under the locks of both contacts, the contacts are.
LockContacts(w) ==
  /\ window[w].at = "name" /\ ContactsFree(w)
  /\ ~NameTaken(window[w].name) /\ ~Taken(window[w].mobile, window[w].mail)
  /\ window' = [window EXCEPT ![w].at = "checked"]
  /\ UNCHANGED <<people, founded, ticket, resolving, dropped>>
SkipTakenName(w) == window[w].at = "name" /\ NameTaken(window[w].name) /\ NextName(w)

\* tenantAccounts.create takes the login that has all contacts given, or makes
\* one, and fails when they belong to others.
OwnerFor(mobile, mail) ==
  IF ~Taken(mobile, mail) THEN {[mobile |-> mobile, mail |-> mail]}
  ELSE {p \in people : /\ p.mobile = mobile /\ mail \in {NoMail, p.mail}
                       /\ WithMail(mail) \subseteq {p}}

\* The rest of the transaction; a name that somebody else took meanwhile
\* aborts it and the next one is tried.
Provision(w) ==
  /\ window[w].at = "checked" /\ ~NameTaken(window[w].name)
  /\ \E p \in OwnerFor(window[w].mobile, window[w].mail) :
       /\ people' = people \cup {p}
       /\ founded' = founded \cup {[name |-> window[w].name, owner |-> p]}
  /\ window' = [window EXCEPT ![w].at = "founded"]
  /\ UNCHANGED <<ticket, resolving, dropped>>
RetryName(w) == window[w].at = "checked" /\ NameTaken(window[w].name) /\ NextName(w)

TicketBecomes(w, state) ==
  ticket' = IF window[w].ticket = NoTicket THEN ticket ELSE [ticket EXCEPT ![window[w].ticket] = state]

\* What the answer shows is read: from here on an error is only reported.
Conclude(w) ==
  /\ window[w].at = "founded" /\ TicketBecomes(w, "spent")
  /\ window' = [window EXCEPT ![w] = NoWindow]
  /\ UNCHANGED <<people, founded, resolving, dropped>>

\* A contact in use, names used up, or an error, also of the session that
\* provisionTenant issues after the organization: the ticket is put back.
FailSignUp(w) ==
  /\ window[w] # NoWindow /\ TicketBecomes(w, "stored")
  /\ window' = [window EXCEPT ![w] = NoWindow]
  /\ UNCHANGED <<people, founded, resolving, dropped>>

\* Another organization adds the person as a member, under locks of its own.
Enlist(mobile, mail) ==
  /\ ~Taken(mobile, mail)
  /\ people' = people \cup {[mobile |-> mobile, mail |-> mail]}
  /\ UNCHANGED <<founded, ticket, window, resolving, dropped>>

SignUpNext ==
  \/ \E t \in Tickets : \/ StoreTicket(t) \/ TicketExpires(t)
                        \/ Resolve(t) \/ FindNobody(t) \/ TakeTicket(t) \/ EndSignIn(t)
  \/ \E w \in Browsers, mobile \in Mobiles, mail \in Mails \cup {NoMail} : StartSignUp(w, mobile, mail)
  \/ \E w \in Browsers, t \in Tickets, mobile \in Mobiles : StartWithTicket(w, t, mobile)
  \/ \E w \in Browsers : \/ CheckMail(w) \/ FailLookUp(w) \/ LockContacts(w) \/ SkipTakenName(w)
                        \/ Provision(w) \/ RetryName(w) \/ Conclude(w) \/ FailSignUp(w)
  \/ \E mobile \in Mobiles, mail \in Mails \cup {NoMail} : Enlist(mobile, mail)

SignUpSpec == SignUpInit /\ [][SignUpNext]_signUpVars

-----------------------------------------------------------------------------
SignUpTypeOK ==
  /\ people \subseteq [mobile : Mobiles, mail : Mails \cup {NoMail}]
  /\ founded \subseteq [name : Names, owner : people]
  /\ ticket \in [Tickets -> {"unused", "stored", "held", "spent", "expired"}]
  /\ \A w \in Browsers : window[w].at \in {"idle", "check", "name", "checked", "founded"}
  /\ resolving \in [Tickets -> {"idle", "looking", "opening"}] /\ dropped \subseteq Tickets

\* Signing up twice, in two windows or with two proofs that share a contact,
\* founds one organization; contacts stay unique among logins.
OneOrganizationPerPerson ==
  /\ \A o, q \in founded :
       o.owner.mobile = q.owner.mobile \/ (o.owner.mail = q.owner.mail /\ o.owner.mail # NoMail) => o = q
  /\ \A p, q \in people : p.mobile = q.mobile \/ (p.mail = q.mail /\ p.mail # NoMail) => p = q

\* A ticket that was handed out is in the store until it expires, unless a
\* sign-up holds it or a person of its address has a login: a sign-up that is
\* refused or fails puts it back.  The exception is the look-up for its
\* address (signupWithGoogleTicket), whose failure uses it up for nothing.
TicketsAccounted ==
  \A t \in Tickets :
    /\ ticket[t] = "held" <=> \E w \in Browsers : window[w] # NoWindow /\ window[w].ticket = t
    /\ ticket[t] = "spent" => WithMail(MailOf[t]) # {} \/ t \in dropped

\* What signing up promises, to the person and to the holder of a ticket.
SignUpHolds == OneOrganizationPerPerson /\ TicketsAccounted
=============================================================================
