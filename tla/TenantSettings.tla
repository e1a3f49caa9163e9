--------------------------- MODULE TenantSettings ---------------------------
(***************************************************************************)
(* The settings document of an organization (tenants.contact): one JSON    *)
(* value that holds the permissions to pay for others, the titles of       *)
(* member documents, the contact data and the extra AI credits.  Writers   *)
(* rewrite the whole document from what they read; the row's stamp         *)
(* (updated_at) or the row's lock keeps them apart.                        *)
(*                                                                         *)
(* A permission is on, off or absent for a payer and a beneficiary; a      *)
(* title is on, off or absent; the contact data is a version.  Stamps are  *)
(* distinct for distinct writes (they have milliseconds in the code).      *)
(***************************************************************************)
EXTENDS Naturals

CONSTANTS
  Editors,    \* people with a request in progress
  Payers, Beneficiaries,
  Everyone,   \* the beneficiary of permissions older than member links
  Titles,
  MaxSaves    \* bound: writes of the row

ASSUME SettingsAssumption == Everyone \in Beneficiaries /\ MaxSaves \in Nat

Links == Payers \X Beneficiaries
Flags == {"absent", "on", "off"}

VARIABLES
  contact,   \* the document
  stamp,     \* updated_at
  editing,   \* what a request read and what it will write
  written       \* history: the last value written to each section by its handlers
settingsVars == <<contact, stamp, editing, written>>

Document == [links : [Links -> Flags], titles : [Titles -> Flags],
             data : Nat, credits : Nat]
NotEditing == [on |-> FALSE]

SettingsInit ==
  /\ contact = [links |-> [l \in Links |-> IF l[2] = Everyone THEN "on" ELSE "absent"],
                titles |-> [t \in Titles |-> "absent"], data |-> 0, credits |-> 0]
  /\ stamp = 0
  /\ editing = [e \in Editors |-> NotEditing]
  /\ written = contact

\* upsertDepositDelegatePermission: granting a link ends the payer's old
\* permission for everyone.
LinkSet(links, l, flag) ==
  [k \in Links |-> IF k = l THEN flag
                   ELSE IF flag = "on" /\ l[2] # Everyone /\ k = <<l[1], Everyone>> /\ links[k] = "on"
                        THEN "off" ELSE links[k]]

\* A handler reads the row and computes what it writes.
Edit(e, section, value) ==
  /\ editing[e] = NotEditing
  /\ editing' = [editing EXCEPT ![e] = [on |-> TRUE, seen |-> contact, stamp |-> stamp,
                                        section |-> section, value |-> value]]
  /\ UNCHANGED <<contact, stamp, written>>

\* POST /deposit-delegates
GrantLink(e, l, flag) ==
  /\ l[2] # Everyone
  /\ Edit(e, "links", LinkSet(contact.links, l, flag))

\* PATCH /deposit-delegates/:id: old permissions can only be switched off.
SwitchLink(e, l, flag) ==
  /\ contact.links[l] # "absent" /\ ~(l[2] = Everyone /\ flag = "on")
  /\ Edit(e, "links", LinkSet(contact.links, l, flag))

\* POST /member-document-titles
CreateTitle(e, t) ==
  /\ contact.titles[t] = "absent"
  /\ Edit(e, "titles", [contact.titles EXCEPT ![t] = "on"])

\* PATCH /member-document-titles/:id
UpdateTitle(e, t, flag) ==
  /\ contact.titles[t] # "absent"
  /\ Edit(e, "titles", [contact.titles EXCEPT ![t] = flag])

\* PATCH /tenants/current
UpdateContact(e) == Edit(e, "data", contact.data + 1)

\* seedMemberDocumentTitles: the first project of shares, in its transaction.
SeedTitles(e) ==
  /\ \A t \in Titles : contact.titles[t] = "absent"
  /\ Edit(e, "titles", [t \in Titles |-> "on"])

\* Fault: the row is written by its id alone.
WrittenByAnyone(e) == TRUE
\* The row is written where updated_at is still the one that was read.
Unmoved(e) == stamp = editing[e].stamp

Section(doc, name, value) == [doc EXCEPT ![name] = value]

\* tenant.update with the document that was computed, or no row is found.
SaveSettings(e) ==
  /\ editing[e].on /\ stamp < MaxSaves
  /\ LET d == editing[e]
     IN  IF Unmoved(e)
         THEN /\ contact' = Section(d.seen, d.section, d.value)
              /\ written' = Section(written, d.section, d.value)
              /\ stamp' = stamp + 1
         ELSE UNCHANGED <<contact, written, stamp>>
  /\ editing' = [editing EXCEPT ![e] = NotEditing]

\* grantAiCredits: reads and writes under the row's lock.
ExtendCredits ==
  /\ stamp < MaxSaves
  /\ contact' = [contact EXCEPT !.credits = @ + 1]
  /\ written' = [written EXCEPT !.credits = @ + 1]
  /\ stamp' = stamp + 1
  /\ UNCHANGED editing

\* The organization's name, onboarding and penalty policy are written beside
\* the document and move its stamp.
TouchRow ==
  /\ stamp < MaxSaves /\ stamp' = stamp + 1
  /\ UNCHANGED <<contact, editing, written>>

SettingsNext ==
  \/ \E e \in Editors, l \in Links, flag \in {"on", "off"} : GrantLink(e, l, flag) \/ SwitchLink(e, l, flag)
  \/ \E e \in Editors, t \in Titles, flag \in {"on", "off"} : UpdateTitle(e, t, flag)
  \/ \E e \in Editors, t \in Titles : CreateTitle(e, t)
  \/ \E e \in Editors : UpdateContact(e) \/ SeedTitles(e) \/ SaveSettings(e)
  \/ ExtendCredits \/ TouchRow

SettingsSpec == SettingsInit /\ [][SettingsNext]_settingsVars

-----------------------------------------------------------------------------
SettingsTypeOK ==
  /\ contact \in Document /\ written \in Document
  /\ stamp \in 0..MaxSaves
  /\ DOMAIN editing = Editors

\* What a handler saved in its section stays until that section is saved
\* again: no writer of another section brings an old value back, and no
\* permission that was withdrawn revives.
NoSectionLost == contact = written
=============================================================================
