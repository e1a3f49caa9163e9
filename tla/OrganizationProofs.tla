------------------------- MODULE OrganizationProofs -------------------------
(***************************************************************************)
(* What holds of an organization's settings document, opening import,      *)
(* package, first set-up, fees, examination results and contracts for any  *)
(* number of requests and workers.  Each component keeps its invariant     *)
(* because of one mechanism, and each proof uses just that one: the stamp  *)
(* of the settings row, serializable transactions, the lock of the         *)
(* organization's row, the steps a set-up has settled, what a verified     *)
(* payment takes for each invoice, the revisions of mark sheets, and a     *)
(* second look at a bill when it is approved.  At the end the types of all *)
(* of them and of the roster, and the organization as one.                 *)
(***************************************************************************)
EXTENDS MCOrganization, DueAllocationProofs, FiniteSetTheorems, TLAPS

-----------------------------------------------------------------------------
(* The settings document. *)

\* Whoever still has the row's stamp has read the document as it is.
SettingsInv ==
  /\ contact = written
  /\ stamp \in Nat
  /\ DOMAIN editing = Editors /\ editing = [e \in Editors |-> editing[e]]
  /\ \A e \in Editors : editing[e].on =>
       /\ editing[e].stamp \in Nat /\ editing[e].stamp <= stamp
       /\ editing[e].stamp = stamp => editing[e].seen = contact

LEMMA SettingsInvInit == SettingsInit => SettingsInv
BY DEF SettingsInit, SettingsInv, NotEditing

\* Reading the row and computing a new section.
LEMMA EditKeepsSettings ==
  ASSUME SettingsInv, NEW e \in Editors, NEW section, NEW value, Edit(e, section, value)
  PROVE  SettingsInv'
<1>1. editing' = [editing EXCEPT ![e] = [on |-> TRUE, seen |-> contact, stamp |-> stamp,
                                         section |-> section, value |-> value]]
      /\ UNCHANGED <<contact, stamp, written>>
  BY DEF Edit
<1>2. editing'[e].stamp = stamp /\ editing'[e].seen = contact
  BY <1>1 DEF SettingsInv
<1>3. \A x \in Editors : x # e => editing'[x] = editing[x]
  BY <1>1 DEF SettingsInv
<1>4. DOMAIN editing' = Editors /\ editing' = [x \in Editors |-> editing'[x]]
  BY <1>1 DEF SettingsInv
<1>5. \A x \in Editors : editing'[x].on =>
        /\ editing'[x].stamp \in Nat /\ editing'[x].stamp <= stamp
        /\ editing'[x].stamp = stamp => editing'[x].seen = contact
  BY <1>2, <1>3 DEF SettingsInv
<1> QED BY <1>1, <1>4, <1>5 DEF SettingsInv

LEMMA SaveKeepsSettings ==
  ASSUME SettingsInv, NEW e \in Editors, SaveSettings(e)
  PROVE  SettingsInv'
<1>1. ASSUME Unmoved(e) PROVE contact' = written'
  BY <1>1 DEF SaveSettings, Unmoved, SettingsInv
<1>2. editing' = [editing EXCEPT ![e] = NotEditing] /\ ~editing'[e].on
  BY DEF SaveSettings, SettingsInv, NotEditing
<1>3. \A x \in Editors : x # e => editing'[x] = editing[x]
  BY <1>2 DEF SettingsInv
<1>4. CASE Unmoved(e)
  <2>1. stamp' = stamp + 1
    BY <1>4 DEF SaveSettings
  <2>2. \A x \in Editors : editing'[x].on => editing'[x].stamp \in Nat /\ editing'[x].stamp < stamp'
    BY <1>2, <1>3, <2>1 DEF SettingsInv
  <2> QED BY <1>1, <1>2, <1>4, <2>1, <2>2 DEF SettingsInv
<1>5. CASE ~Unmoved(e)
  <2>1. UNCHANGED <<contact, written, stamp>>
    BY <1>5 DEF SaveSettings
  <2> QED BY <1>2, <1>3, <2>1 DEF SettingsInv
<1> QED BY <1>4, <1>5

LEMMA SettingsInvStep == SettingsInv /\ [SettingsNext]_settingsVars => SettingsInv'
<1> SUFFICES ASSUME SettingsInv, [SettingsNext]_settingsVars PROVE SettingsInv'
  OBVIOUS
<1>1. ASSUME NEW e \in Editors, NEW l \in Links, NEW flag \in {"on", "off"},
             GrantLink(e, l, flag) \/ SwitchLink(e, l, flag)
      PROVE  SettingsInv'
  BY <1>1, EditKeepsSettings DEF GrantLink, SwitchLink
<1>2. ASSUME NEW e \in Editors, NEW t \in Titles, NEW flag \in {"on", "off"}, UpdateTitle(e, t, flag)
      PROVE  SettingsInv'
  BY <1>2, EditKeepsSettings DEF UpdateTitle
<1>3. ASSUME NEW e \in Editors, NEW t \in Titles, CreateTitle(e, t)
      PROVE  SettingsInv'
  BY <1>3, EditKeepsSettings DEF CreateTitle
<1>4. ASSUME NEW e \in Editors, UpdateContact(e) \/ SeedTitles(e)
      PROVE  SettingsInv'
  BY <1>4, EditKeepsSettings DEF UpdateContact, SeedTitles
<1>5. ASSUME NEW e \in Editors, SaveSettings(e)
      PROVE  SettingsInv'
  BY <1>5, SaveKeepsSettings
<1>6. CASE ExtendCredits
  BY <1>6 DEF SettingsInv, ExtendCredits
<1>7. CASE TouchRow
  BY <1>7 DEF SettingsInv, TouchRow
<1>8. CASE UNCHANGED settingsVars
  BY <1>8 DEF SettingsInv, settingsVars
<1> QED BY <1>1, <1>2, <1>3, <1>4, <1>5, <1>6, <1>7, <1>8 DEF SettingsNext

\* No writer of one section of the settings document brings back an old value
\* of another, for any number of people, sections' values and writes.
THEOREM SettingsNotLost == SettingsSpec => []NoSectionLost
<1>1. SettingsInv => NoSectionLost
  BY DEF SettingsInv, NoSectionLost
<1> QED BY <1>1, SettingsInvInit, SettingsInvStep, PTL DEF SettingsSpec

-----------------------------------------------------------------------------
(* The opening import. *)

\* Nothing was written while the fund is not opened; a transaction that began
\* on such a snapshot, and whose import would be the second, has missed one.
ImportInv ==
  /\ roll \in Nat /\ applied \in {0, 1}
  /\ imported = [q \in RequestIds |-> imported[q]] /\ sending = [s \in Sendings |-> sending[s]]
  /\ \A s \in Sendings : sending[s] \in [at : Stages, token : Nat, missed : BOOLEAN]
  /\ ~opened => applied = 0
  /\ \A s \in Sendings : Is(s, "begun") => applied = 0 \/ sending[s].missed
  /\ \A s \in Sendings : Is(s, "saved") \/ Is(s, "replayed") => imported[s[1]] = s[2]

LEMMA ImportInvInit == ImportInit => ImportInv
BY DEF ImportInit, ImportInv, Is, Stages

\* A call that only goes to another stage, but neither begins nor saves.
LEMMA GoingKeepsImport ==
  ASSUME ImportInv, NEW s \in Sendings, NEW stage \in Stages \ {"begun"}, Goes(s, stage),
         stage \in {"saved", "replayed"} => imported[s[1]] = s[2],
         UNCHANGED <<roll, opened, imported, applied>>
  PROVE  ImportInv'
BY DEF ImportInv, Goes, Is

LEMMA CommitKeepsImport ==
  ASSUME ImportInv, NEW s \in Sendings, CommitOpening(s)
  PROVE  ImportInv'
<1>1. CASE imported[s[1]] # NoRows
  <2>1. Replayed(s) \in Stages \ {"begun"} /\ (Replayed(s) = "replayed" => imported[s[1]] = s[2])
        /\ Replayed(s) # "saved"
    BY DEF Replayed, SameReplay, Stages
  <2> QED BY <1>1, <2>1, GoingKeepsImport DEF CommitOpening
<1>2. CASE imported[s[1]] = NoRows /\ ~Serializes(s)
  <2>1. "refused" \in Stages \ {"begun"}
    BY DEF Stages
  <2> QED BY <1>2, <2>1, GoingKeepsImport DEF CommitOpening
<1>3. CASE imported[s[1]] = NoRows /\ Serializes(s)
  <2>1. applied = 0 /\ applied' = 1
    BY <1>3 DEF CommitOpening, Serializes, ImportInv
  <2>2. opened' /\ roll' \in Nat /\ s[1] \in RequestIds
    BY <1>3 DEF CommitOpening, ImportInv, RequestIds
  <2>3. sending' = [c \in Sendings |-> IF c = s THEN [sending[c] EXCEPT !.at = "saved"]
                                       ELSE [sending[c] EXCEPT !.missed = @ \/ Is(c, "begun")]]
    BY <1>3 DEF CommitOpening
  <2>4. imported' = [imported EXCEPT ![s[1]] = s[2]]
    BY <1>3 DEF CommitOpening
  <2>5. \A c \in Sendings : sending'[c] \in [at : Stages, token : Nat, missed : BOOLEAN]
    BY <2>3 DEF ImportInv, Is, Stages
  <2>6. ASSUME NEW c \in Sendings, Is(c, "begun")' PROVE sending'[c].missed
    BY <2>3, <2>6 DEF ImportInv, Is
  <2>7. ASSUME NEW c \in Sendings, Is(c, "saved")' \/ Is(c, "replayed")'
        PROVE  imported'[c[1]] = c[2]
    <3>1. CASE c = s
      BY <2>2, <2>4, <3>1 DEF ImportInv
    <3>2. CASE c # s
      <4>1. imported[c[1]] = c[2]
        BY <2>3, <2>7, <3>2 DEF ImportInv, Is
      <4>2. c[2] # NoRows
        BY ImportAssumption
      <4> QED BY <1>3, <2>4, <4>1, <4>2 DEF ImportInv, RequestIds
    <3> QED BY <3>1, <3>2
  <2> QED BY <2>1, <2>2, <2>3, <2>4, <2>5, <2>6, <2>7 DEF ImportInv
<1> QED BY <1>1, <1>2, <1>3

LEMMA ImportInvStep == ImportInv /\ [ImportNext]_importVars => ImportInv'
<1> SUFFICES ASSUME ImportInv, [ImportNext]_importVars PROVE ImportInv'
  OBVIOUS
<1>1. ASSUME NEW s \in Sendings, PreviewImport(s) PROVE ImportInv'
  BY <1>1 DEF PreviewImport, ImportInv, Is, Stages
<1>2. ASSUME NEW s \in Sendings, LookForReplay(s) PROVE ImportInv'
  <2>1. CASE imported[s[1]] = NoRows
    <3>1. "unknown" \in Stages \ {"begun"}
      BY DEF Stages
    <3> QED BY <1>2, <2>1, <3>1, GoingKeepsImport DEF LookForReplay
  <2>2. CASE imported[s[1]] # NoRows
    <3>1. Replayed(s) \in Stages \ {"begun"} /\ (Replayed(s) = "replayed" => imported[s[1]] = s[2])
          /\ Replayed(s) # "saved"
      BY DEF Replayed, SameReplay, Stages
    <3> QED BY <1>2, <2>2, <3>1, GoingKeepsImport DEF LookForReplay
  <2> QED BY <2>1, <2>2
<1>3. ASSUME NEW s \in Sendings, BeginImport(s) PROVE ImportInv'
  BY <1>3 DEF BeginImport, Goes, ImportInv, Is, Stages
<1>4. ASSUME NEW s \in Sendings, CommitOpening(s) PROVE ImportInv'
  BY <1>4, CommitKeepsImport
<1>5. ASSUME NEW s \in Sendings, AbortImport(s) PROVE ImportInv'
  <2>1. "refused" \in Stages \ {"begun"}
    BY DEF Stages
  <2> QED BY <1>5, <2>1, GoingKeepsImport DEF AbortImport
<1>6. CASE EditRoll
  BY <1>6 DEF EditRoll, ImportInv, Is
<1>7. CASE OpenSchedule
  BY <1>7 DEF OpenSchedule, ImportInv, Is
<1>8. CASE UNCHANGED importVars
  BY <1>8 DEF importVars, ImportInv, Is
<1> QED BY <1>1, <1>2, <1>3, <1>4, <1>5, <1>6, <1>7, <1>8 DEF ImportNext

\* Opening history is written once, and every call that succeeds reports rows
\* that were written, for any number of requests, repetitions and files.
THEOREM ImportedOnce == ImportSpec => []OpeningImportedOnce
<1>1. ImportInv => OpeningImportedOnce
  BY DEF ImportInv, OpeningImportedOnce
<1> QED BY <1>1, ImportInvInit, ImportInvStep, PTL DEF ImportSpec
-----------------------------------------------------------------------------
(* The package. *)

Items == Projects \cup Users \cup Documents
Waiting(c) == request[c].at \in {"checked", "inserted"}
Rows == [at : {"checked", "inserted"}, org : Founded, kind : Kinds, what : Items]

PackageTypes ==
  /\ allowed \in [Organizations -> Nat] /\ highest \in [Organizations -> Nat]
  /\ owned \in [Organizations -> [Kinds -> SUBSET Items]]
  /\ rowLock \in [Organizations -> SetupCalls \cup {NoSetup}]
  /\ request = [c \in SetupCalls |-> request[c]]
  /\ \A c \in SetupCalls : Waiting(c) => request[c] \in Rows
Bounded ==
  /\ \A o \in Organizations : allowed[o] <= highest[o]
  /\ \A o \in Organizations, kind \in Kinds : IsFiniteSet(owned[o][kind]) /\ Count(o, kind) <= highest[o]
\* A row that was inserted has been counted, and its transaction keeps the
\* organization's row until it ends.
Reserved ==
  \A c \in SetupCalls : request[c].at = "inserted" =>
    /\ rowLock[request[c].org] = c
    /\ Cardinality(owned[request[c].org][request[c].kind] \cup {request[c].what}) <= highest[request[c].org]
PackageInv == PackageTypes /\ Bounded /\ Reserved

LEMMA PackageInvInit == SetupInit => PackageInv
<1> SUFFICES ASSUME SetupInit PROVE PackageInv
  OBVIOUS
<1>1. PackageTypes
  BY SetupAssumption DEF SetupInit, PackageTypes, Asleep, Waiting, Items
<1>2. \A o \in Organizations, kind \in Kinds : owned[o][kind] = {}
  BY DEF SetupInit
<1>3. Bounded
  BY <1>1, <1>2, FS_EmptySet DEF SetupInit, Bounded, Count, PackageTypes
<1>4. Reserved
  BY DEF SetupInit, Reserved, Asleep
<1> QED BY <1>1, <1>3, <1>4 DEF PackageInv

LEMMA WaitingForOne ==
  ASSUME PackageInv, NEW c \in SetupCalls, Waiting(c)
  PROVE  /\ request[c].org \in Organizations /\ request[c].kind \in Kinds /\ request[c].what \in Items
         /\ IsFiniteSet(owned[request[c].org][request[c].kind] \cup {request[c].what})
         /\ Cardinality(owned[request[c].org][request[c].kind] \cup {request[c].what}) \in Nat
<1>1. request[c].org \in Organizations /\ request[c].kind \in Kinds /\ request[c].what \in Items
  BY DEF PackageInv, PackageTypes, Rows, Founded
<1>2. IsFiniteSet(owned[request[c].org][request[c].kind])
  BY <1>1 DEF PackageInv, Bounded
<1>3. IsFiniteSet(owned[request[c].org][request[c].kind] \cup {request[c].what})
  BY <1>2, FS_AddElement
<1>4. Cardinality(owned[request[c].org][request[c].kind] \cup {request[c].what}) \in Nat
  BY <1>3, FS_CardinalityType
<1> QED BY <1>1, <1>3, <1>4

\* A request that changes nothing but itself, and reserves nothing.
LEMMA AskingKeepsPackage ==
  ASSUME PackageInv, NEW c \in SetupCalls, NEW r, request' = [request EXCEPT ![c] = r],
         r.at # "inserted",
         r.at = "checked" => r \in Rows,
         UNCHANGED <<allowed, highest, owned, rowLock>>
  PROVE  PackageInv'
<1>1. request'[c] = r /\ \A x \in SetupCalls : x # c => request'[x] = request[x]
  BY DEF PackageInv, PackageTypes
<1>2. request' = [x \in SetupCalls |-> request'[x]]
  BY DEF PackageInv, PackageTypes
<1>3. PackageTypes'
  <2>1. Rows' = Rows
    BY DEF Rows, Founded
  <2> QED BY <1>1, <1>2, <2>1 DEF PackageInv, PackageTypes, Waiting
<1>4. Bounded'
  BY DEF PackageInv, Bounded, Count
<1>5. Reserved'
  BY <1>1 DEF PackageInv, Reserved
<1> QED BY <1>3, <1>4, <1>5 DEF PackageInv

LEMMA LookKeepsPackage ==
  ASSUME PackageInv, NEW c \in SetupCalls, NEW o \in Organizations, NEW kind \in Kinds, NEW x \in Items,
         Look(c, o, kind, x)
  PROVE  PackageInv'
<1> DEFINE r == [at |-> "checked", org |-> o, kind |-> kind, what |-> x]
<1>1. request' = [request EXCEPT ![c] = r] /\ o \in Founded /\ UNCHANGED <<allowed, highest, owned, rowLock>>
  BY DEF Look
<1>2. r.at # "inserted" /\ r \in Rows
  BY <1>1 DEF Rows
<1> HIDE DEF r
<1> QED BY <1>1, <1>2, AskingKeepsPackage

LEMMA SleepingKeepsPackage ==
  ASSUME PackageInv, NEW c \in SetupCalls, request' = [request EXCEPT ![c] = Asleep],
         UNCHANGED <<allowed, highest, owned, rowLock>>
  PROVE  PackageInv'
<1>1. Asleep.at = "asleep"
  BY DEF Asleep
<1> QED BY <1>1, AskingKeepsPackage

\* The count under the lock is what the commit relies on.
LEMMA InsertKeepsPackage ==
  ASSUME PackageInv, NEW c \in SetupCalls, InsertRow(c)
  PROVE  PackageInv'
<1> DEFINE o == request[c].org
           kind == request[c].kind
           new == request[c].what
<1>1. o \in Founded /\ o \in Organizations /\ kind \in Kinds /\ new \in Items /\ rowLock[o] = NoSetup
  BY DEF InsertRow, RowFree, PackageInv, PackageTypes, Waiting, Rows, Founded
<1>2. /\ request'[c] \in Rows /\ request'[c].at = "inserted" /\ request'[c].org = o
      /\ request'[c].kind = kind /\ request'[c].what = new
  <2>1. request[c] \in Rows
    BY DEF InsertRow, PackageInv, PackageTypes, Waiting
  <2>2. request'[c] = [request[c] EXCEPT !.at = "inserted"]
    BY DEF InsertRow, PackageInv, PackageTypes
  <2> QED BY <2>1, <2>2 DEF Rows
<1>3. \A x \in SetupCalls : x # c => request'[x] = request[x]
  BY DEF InsertRow, PackageInv, PackageTypes
<1>4. rowLock' = [rowLock EXCEPT ![o] = c] /\ UNCHANGED <<allowed, highest, owned>>
  BY DEF InsertRow
<1>5. Cardinality(owned[o][kind] \cup {new}) <= allowed[o]
  BY DEF InsertRow, Affordable
<1>6. PackageTypes'
  <2>1. request' = [x \in SetupCalls |-> request'[x]] /\ Rows' = Rows
    BY <1>4 DEF InsertRow, PackageInv, PackageTypes, Rows, Founded
  <2>2. \A x \in SetupCalls : Waiting(x)' => request'[x] \in Rows'
    BY <1>2, <1>3, <2>1 DEF PackageInv, PackageTypes, Waiting
  <2> QED BY <1>1, <1>4, <2>1, <2>2 DEF PackageInv, PackageTypes
<1>7. Bounded'
  BY <1>4 DEF PackageInv, Bounded, Count
<1>8. Reserved'
  <2>1. Waiting(c)
    BY DEF InsertRow, Waiting
  <2>2. Cardinality(owned[o][kind] \cup {new}) \in Nat
    BY <2>1, WaitingForOne
  <2>3. Cardinality(owned[o][kind] \cup {new}) <= highest[o]
    BY <1>1, <1>5, <2>2 DEF PackageInv, Bounded, PackageTypes
  <2>4. ASSUME NEW x \in SetupCalls, x # c, request[x].at = "inserted"
        PROVE  request[x].org # o
    BY <1>1, <2>4, SetupAssumption DEF PackageInv, Reserved
  <2>5. ASSUME NEW x \in SetupCalls, x # c, request'[x].at = "inserted"
        PROVE  /\ rowLock'[request'[x].org] = x
               /\ Cardinality(owned'[request'[x].org][request'[x].kind] \cup {request'[x].what})
                    <= highest'[request'[x].org]
    <3>1. request'[x] = request[x] /\ request[x].at = "inserted"
      BY <1>3, <2>5
    <3>2. request[x].org # o /\ request[x].org \in Organizations
      BY <2>4, <2>5, <3>1, WaitingForOne DEF Waiting
    <3>3. rowLock'[request[x].org] = rowLock[request[x].org]
      BY <1>4, <3>2 DEF PackageInv, PackageTypes
    <3>4. /\ rowLock[request[x].org] = x
          /\ Cardinality(owned[request[x].org][request[x].kind] \cup {request[x].what}) <= highest[request[x].org]
      BY <3>1 DEF PackageInv, Reserved
    <3> QED BY <1>4, <3>1, <3>3, <3>4
  <2>6. /\ rowLock'[request'[c].org] = c
        /\ Cardinality(owned'[request'[c].org][request'[c].kind] \cup {request'[c].what})
             <= highest'[request'[c].org]
    BY <1>1, <1>2, <1>4, <2>3 DEF PackageInv, PackageTypes
  <2> QED BY <2>5, <2>6 DEF Reserved
<1> QED BY <1>6, <1>7, <1>8 DEF PackageInv

LEMMA CommitKeepsPackage ==
  ASSUME PackageInv, NEW c \in SetupCalls, NEW u \in SUBSET Users, CommitRow(c, u)
  PROVE  PackageInv'
<1> DEFINE o == request[c].org
           kind == request[c].kind
           new == request[c].what
<1>1. request[c].at = "inserted" /\ o \in Organizations /\ kind \in Kinds /\ new \in Items
  BY DEF CommitRow, PackageInv, PackageTypes, Waiting, Rows, Founded
<1>2. /\ owned' = [owned EXCEPT ![o][kind] = @ \cup {new}]
      /\ rowLock' = [rowLock EXCEPT ![o] = NoSetup]
      /\ request' = [request EXCEPT ![c] = Asleep] /\ UNCHANGED <<allowed, highest>>
  BY DEF CommitRow
<1>3. /\ request'[c].at = "asleep" /\ \A x \in SetupCalls : x # c => request'[x] = request[x]
      /\ request' = [x \in SetupCalls |-> request'[x]]
  BY <1>2 DEF PackageInv, PackageTypes, Asleep
<1>4. /\ owned'[o][kind] = owned[o][kind] \cup {new}
      /\ \A p \in Organizations, k \in Kinds : p # o \/ k # kind => owned'[p][k] = owned[p][k]
      /\ owned' \in [Organizations -> [Kinds -> SUBSET Items]]
  BY <1>1, <1>2 DEF PackageInv, PackageTypes
<1>5. Cardinality(owned[o][kind] \cup {new}) <= highest[o]
  BY <1>1 DEF PackageInv, Reserved
<1>6. PackageTypes'
  <2>1. Rows' = Rows
    BY <1>2 DEF Rows, Founded
  <2>2. \A x \in SetupCalls : Waiting(x)' => request'[x] \in Rows'
    BY <1>3, <2>1 DEF PackageInv, PackageTypes, Waiting
  <2>3. rowLock' \in [Organizations -> SetupCalls \cup {NoSetup}]
    BY <1>2 DEF PackageInv, PackageTypes
  <2> QED BY <1>2, <1>3, <1>4, <2>2, <2>3 DEF PackageInv, PackageTypes
<1>7. Bounded'
  <2>1. IsFiniteSet(owned'[o][kind])
    <3>1. Waiting(c)
      BY <1>1 DEF Waiting
    <3> QED BY <1>4, <3>1, WaitingForOne
  <2>2. ASSUME NEW p \in Organizations, NEW k \in Kinds
        PROVE  IsFiniteSet(owned'[p][k]) /\ Cardinality(owned'[p][k]) <= highest'[p]
    <3>1. CASE p = o /\ k = kind
      BY <1>2, <1>4, <1>5, <2>1, <3>1
    <3>2. CASE p # o \/ k # kind
      BY <1>2, <1>4, <3>2 DEF PackageInv, Bounded, Count
    <3> QED BY <3>1, <3>2
  <2> QED BY <1>2, <2>2 DEF PackageInv, Bounded, Count
<1>8. Reserved'
  <2> SUFFICES ASSUME NEW x \in SetupCalls, request'[x].at = "inserted"
               PROVE  /\ rowLock'[request'[x].org] = x
                      /\ Cardinality(owned'[request'[x].org][request'[x].kind] \cup {request'[x].what})
                           <= highest'[request'[x].org]
    BY DEF Reserved
  <2>1. x # c /\ request'[x] = request[x] /\ request[x].at = "inserted"
    BY <1>3
  <2>2. /\ rowLock[request[x].org] = x /\ rowLock[o] = c
        /\ Cardinality(owned[request[x].org][request[x].kind] \cup {request[x].what}) <= highest[request[x].org]
    BY <1>1, <2>1 DEF PackageInv, Reserved
  <2>3. request[x].org # o /\ request[x].org \in Organizations /\ request[x].kind \in Kinds
    BY <2>1, <2>2, WaitingForOne DEF Waiting
  <2>4. rowLock'[request[x].org] = rowLock[request[x].org]
    BY <1>2, <2>3 DEF PackageInv, PackageTypes
  <2>5. owned'[request[x].org][request[x].kind] = owned[request[x].org][request[x].kind]
    BY <1>4, <2>3
  <2> QED BY <1>2, <2>1, <2>2, <2>4, <2>5
<1> QED BY <1>6, <1>7, <1>8 DEF PackageInv

LEMMA FoundingKeepsPackage ==
  ASSUME PackageInv, NEW o \in Organizations, NEW n \in Limits, NEW p \in Projects, NEW u \in Users,
         NEW joins, FoundOrganization(o, n, p, u, joins)
  PROVE  PackageInv'
<1>1. /\ allowed[o] = 0 /\ allowed' = [allowed EXCEPT ![o] = n] /\ highest' = [highest EXCEPT ![o] = n]
      /\ owned' = [owned EXCEPT ![o] = [project |-> {p}, person |-> {u}, document |-> {}]]
      /\ UNCHANGED <<rowLock, request>>
  BY DEF FoundOrganization
<1>2. n \in Nat /\ n >= 1
  BY SetupAssumption
<1>3. \A k \in Kinds : owned'[o][k] \in {{p}, {u}, {}}
  BY <1>1 DEF PackageInv, PackageTypes, Kinds
<1>4. \A q \in Organizations : q # o =>
        owned'[q] = owned[q] /\ allowed'[q] = allowed[q] /\ highest'[q] = highest[q]
  BY <1>1 DEF PackageInv, PackageTypes
<1>5. \A c \in SetupCalls : Waiting(c) => request[c].org \in Organizations /\ request[c].org # o
  BY <1>1 DEF PackageInv, PackageTypes, Waiting, Rows, Founded
<1>6. PackageTypes'
  <2>1. [project |-> {p}, person |-> {u}, document |-> {}] \in [Kinds -> SUBSET Items]
    BY DEF Kinds, Items
  <2>2. allowed' \in [Organizations -> Nat] /\ highest' \in [Organizations -> Nat]
        /\ owned' \in [Organizations -> [Kinds -> SUBSET Items]]
    BY <1>1, <1>2, <2>1 DEF PackageInv, PackageTypes
  <2>3. Rows \subseteq Rows'
    BY <1>1, <1>4 DEF Rows, Founded
  <2> QED BY <1>1, <2>2, <2>3 DEF PackageInv, PackageTypes, Waiting
<1>7. Bounded'
  <2>1. \A k \in Kinds : IsFiniteSet(owned'[o][k]) /\ Cardinality(owned'[o][k]) <= 1
    <3>1. IsFiniteSet({}) /\ Cardinality({}) = 0
      BY FS_EmptySet
    <3>2. IsFiniteSet({p}) /\ Cardinality({p}) = 1 /\ IsFiniteSet({u}) /\ Cardinality({u}) = 1
      BY FS_Singleton
    <3>3. TAKE k \in Kinds
    <3>4. owned'[o][k] = {p} \/ owned'[o][k] = {u} \/ owned'[o][k] = {}
      BY <1>3
    <3> QED BY <3>1, <3>2, <3>4
  <2>2. allowed'[o] = n /\ highest'[o] = n
    BY <1>1 DEF PackageInv, PackageTypes
  <2>3. \A k \in Kinds : Cardinality(owned'[o][k]) \in Nat
    BY <2>1, FS_CardinalityType
  <2>4. ASSUME NEW q \in Organizations
        PROVE  /\ allowed'[q] <= highest'[q]
               /\ \A k \in Kinds : IsFiniteSet(owned'[q][k]) /\ Cardinality(owned'[q][k]) <= highest'[q]
    <3>1. CASE q = o
      BY <1>2, <2>1, <2>2, <2>3, <3>1
    <3>2. CASE q # o
      BY <1>4, <3>2 DEF PackageInv, Bounded, Count
    <3> QED BY <3>1, <3>2
  <2> QED BY <2>4 DEF Bounded, Count
<1>8. Reserved'
  BY <1>1, <1>4, <1>5 DEF PackageInv, Reserved, Waiting
<1> QED BY <1>6, <1>7, <1>8 DEF PackageInv

LEMMA ChangeKeepsPackage ==
  ASSUME PackageInv, NEW o \in Organizations, NEW n \in Limits, ChangePackage(o, n)
  PROVE  PackageInv'
<1>1. /\ o \in Founded /\ allowed' = [allowed EXCEPT ![o] = n]
      /\ highest' = [highest EXCEPT ![o] = IF n > @ THEN n ELSE @] /\ UNCHANGED <<owned, rowLock, request>>
  BY DEF ChangePackage
<1>2. n \in Nat /\ n >= 1
  BY SetupAssumption
<1>3. \A q \in Organizations : highest'[q] \in Nat /\ highest[q] \in Nat /\ highest[q] <= highest'[q]
  BY <1>1, <1>2 DEF PackageInv, PackageTypes
<1>4. allowed' \in [Organizations -> Nat] /\ highest' \in [Organizations -> Nat]
  BY <1>1, <1>2 DEF PackageInv, PackageTypes
<1>5. \A q \in Organizations : allowed'[q] <= highest'[q]
  BY <1>1, <1>2 DEF PackageInv, PackageTypes, Bounded
<1>6. PackageTypes'
  <2>1. Rows \subseteq Rows'
    BY <1>1, <1>2 DEF Rows, Founded, PackageInv, PackageTypes
  <2> QED BY <1>1, <1>4, <2>1 DEF PackageInv, PackageTypes, Waiting
<1>7. Bounded'
  <2>1. \A q \in Organizations, k \in Kinds : Cardinality(owned[q][k]) \in Nat
    BY FS_CardinalityType DEF PackageInv, Bounded
  <2> QED BY <1>1, <1>3, <1>5, <2>1 DEF PackageInv, Bounded, Count
<1>8. Reserved'
  <2>1. ASSUME NEW c \in SetupCalls, request[c].at = "inserted"
        PROVE  Cardinality(owned[request[c].org][request[c].kind] \cup {request[c].what})
                 <= highest'[request[c].org]
    <3>1. /\ request[c].org \in Organizations
          /\ Cardinality(owned[request[c].org][request[c].kind] \cup {request[c].what}) \in Nat
      BY <2>1, WaitingForOne DEF Waiting
    <3>2. Cardinality(owned[request[c].org][request[c].kind] \cup {request[c].what}) <= highest[request[c].org]
      BY <2>1 DEF PackageInv, Reserved
    <3>3. highest[request[c].org] \in Nat /\ highest'[request[c].org] \in Nat
          /\ highest[request[c].org] <= highest'[request[c].org]
      BY <1>3, <3>1
    <3> QED BY <3>1, <3>2, <3>3
  <2> QED BY <1>1, <2>1 DEF PackageInv, Reserved
<1> QED BY <1>6, <1>7, <1>8 DEF PackageInv

\* What changes neither the package nor what is owned.
LEMMA OthersKeepPackage ==
  ASSUME PackageInv, UNCHANGED <<allowed, highest, owned, rowLock, request>>
  PROVE  PackageInv'
BY DEF PackageInv, PackageTypes, Bounded, Reserved, Count, Rows, Founded, Waiting

LEMMA PackageInvStep == PackageInv /\ [SetupNext]_setupVars => PackageInv'
<1> SUFFICES ASSUME PackageInv, [SetupNext]_setupVars PROVE PackageInv'
  OBVIOUS
<1>1. ASSUME NEW o \in Organizations, NEW n \in Limits, NEW p \in Projects, NEW u \in Users,
             NEW joins \in BOOLEAN, FoundOrganization(o, n, p, u, joins)
      PROVE  PackageInv'
  BY <1>1, FoundingKeepsPackage
<1>2. ASSUME NEW c \in SetupCalls, NEW o \in Organizations, NEW p \in Projects, AskProject(c, o, p)
      PROVE  PackageInv'
  BY <1>2, LookKeepsPackage DEF AskProject, Kinds, Items
<1>3. ASSUME NEW c \in SetupCalls, NEW o \in Organizations, NEW u \in Users, AskInvitation(c, o, u)
      PROVE  PackageInv'
  BY <1>3, LookKeepsPackage DEF AskInvitation, Kinds, Items
<1>4. ASSUME NEW c \in SetupCalls, NEW o \in Organizations, NEW d \in Documents, StoreUpload(c, o, d)
      PROVE  PackageInv'
  BY <1>4, LookKeepsPackage DEF StoreUpload, Kinds, Items
<1>5. ASSUME NEW c \in SetupCalls, InsertRow(c) PROVE PackageInv'
  BY <1>5, InsertKeepsPackage
<1>6. ASSUME NEW c \in SetupCalls, RefuseRow(c) PROVE PackageInv'
  BY <1>6, SleepingKeepsPackage DEF RefuseRow
<1>7. ASSUME NEW c \in SetupCalls, CommitResize(c) PROVE PackageInv'
  BY <1>7, SleepingKeepsPackage DEF CommitResize
<1>8. ASSUME NEW c \in SetupCalls, NEW u \in SUBSET Users, CommitRow(c, u) PROVE PackageInv'
  BY <1>8, CommitKeepsPackage
<1>9. ASSUME NEW o \in Organizations, NEW n \in Limits, ChangePackage(o, n) PROVE PackageInv'
  BY <1>9, ChangeKeepsPackage
<1>10. ASSUME NEW o \in Organizations, NEW p \in Projects, NEW u \in Users, TakeShare(o, p, u)
       PROVE  PackageInv'
  BY <1>10, OthersKeepPackage DEF TakeShare
<1>11. ASSUME NEW c \in SetupCalls, NEW p \in Projects, NEW n \in 1..MaxTotal, StartResize(c, p, n)
       PROVE  PackageInv'
  <2> DEFINE r == [at |-> "resizing", what |-> p, to |-> n]
  <2>1. r.at = "resizing" /\ request' = [request EXCEPT ![c] = r]
        /\ UNCHANGED <<allowed, highest, owned, rowLock>>
    BY <1>11 DEF StartResize
  <2> HIDE DEF r
  <2> QED BY <2>1, AskingKeepsPackage
<1>12. CASE UNCHANGED setupVars
  BY <1>12, OthersKeepPackage DEF setupVars
<1> QED BY <1>1, <1>2, <1>3, <1>4, <1>5, <1>6, <1>7, <1>8, <1>9, <1>10, <1>11, <1>12 DEF SetupNext

\* However many requests overlap, no organization owns more projects, people
\* or documents than a package it has had allows.
THEOREM PackageKept == SetupSpec => []WithinPackage
<1>1. PackageInv => WithinPackage
  BY DEF PackageInv, Bounded, WithinPackage
<1> QED BY <1>1, PackageInvInit, PackageInvStep, PTL DEF SetupSpec

-----------------------------------------------------------------------------
(* Examination results. *)

ResultTypes ==
  /\ sheet \in [Subjects -> Sheets]
  /\ examRevision \in Nat
  /\ copy \in [Devices -> Copies]
  /\ review \in [Offices -> Reviews]

\* A copy of the sheet's revision has the sheet's marks.
CopyCurrent(d) ==
  copy[d] # NotRead =>
    LET u == copy[d].subject
    IN /\ copy[d].revision <= sheet[u].revision
       /\ copy[d].revision = sheet[u].revision => copy[d].marks = sheet[u].marks

\* A sheet an office has opened was handed in, and still is if its revision is
\* the one that was read.
SeenCurrent(o, u) ==
  LET seen == review[o].sheets[u]
  IN seen # NotRead =>
       /\ seen.revision <= sheet[u].revision
       /\ seen.revision = sheet[u].revision => sheet[u].status = "submitted" /\ seen.marks = sheet[u].marks

\* As long as the examination has the revision of the review, a sheet that was
\* opened is as it was read or has been returned and not handed in again.
ReviewCurrent(o) ==
  review[o] # NotRead =>
    /\ review[o].revision <= examRevision
    /\ \A u \in Subjects : SeenCurrent(o, u)
    /\ review[o].revision = examRevision =>
         \A u \in Subjects : review[o].sheets[u] # NotRead =>
           review[o].sheets[u].revision = sheet[u].revision \/ sheet[u].status # "submitted"

ResultInv ==
  /\ ResultTypes
  /\ \A d \in Devices : CopyCurrent(d)
  /\ \A o \in Offices : ReviewCurrent(o)

LEMMA ReadApart ==
  /\ \A x \in Copies : x # NotRead => x \in [subject : Subjects, revision : Nat, marks : Marks]
  /\ \A x \in Seen : x # NotRead => x \in [revision : Nat, marks : Marks]
  /\ \A x \in Reviews : x # NotRead => x \in [revision : Nat, sheets : [Subjects -> Seen]]
  /\ \A r, m, u : [subject |-> u, revision |-> r, marks |-> m] # NotRead \/ r \notin Nat
  /\ \A r, m : [revision |-> r, marks |-> m] # NotRead \/ r \notin Nat
  /\ \A r, m : [revision |-> r, sheets |-> m] # NotRead \/ r \notin Nat
  BY DEF Copies, Seen, Reviews, NotRead

LEMMA ResultsInit == ASSUME InstituteInit PROVE ResultInv
  BY InstituteAssumption
  DEF InstituteInit, ResultInv, ResultTypes, CopyCurrent, ReviewCurrent, Sheets, Copies, Reviews,
      Marks, NoMarks

LEMMA ResultsUntouched ==
  ASSUME ResultInv, UNCHANGED <<sheet, examRevision, copy, review>>
  PROVE  ResultInv'
  BY DEF ResultInv, ResultTypes, CopyCurrent, ReviewCurrent, SeenCurrent

LEMMA OpenKeeps ==
  ASSUME ResultInv, NEW d \in Devices, NEW u \in Subjects, OpenSheet(d, u)
  PROVE  ResultInv'
<1>1. sheet[u] \in Sheets /\ sheet[u].revision \in Nat /\ sheet[u].marks \in Marks
  BY DEF ResultInv, ResultTypes, Sheets
<1> DEFINE new == [subject |-> u, revision |-> sheet[u].revision, marks |-> sheet[u].marks]
<1>2. new \in Copies
  BY <1>1 DEF Copies
<1>3. copy' = [copy EXCEPT ![d] = new] /\ UNCHANGED <<sheet, examRevision, review>>
  BY DEF OpenSheet
<1>4. ResultTypes'
  BY <1>2, <1>3 DEF ResultInv, ResultTypes
<1>5. ASSUME NEW e \in Devices PROVE CopyCurrent(e)'
  <2>1. CASE e = d
    <3>1. copy'[e] = new /\ sheet' = sheet
      BY <2>1, <1>3 DEF ResultInv, ResultTypes
    <3>2. QED BY <3>1, <1>1 DEF CopyCurrent
  <2>2. CASE e # d
    BY <2>2, <1>3 DEF ResultInv, ResultTypes, CopyCurrent
  <2>3. QED BY <2>1, <2>2
<1>6. ASSUME NEW o \in Offices PROVE ReviewCurrent(o)'
  BY <1>3 DEF ResultInv, ReviewCurrent, SeenCurrent
<1>7. QED BY <1>4, <1>5, <1>6 DEF ResultInv

\* What saving and submitting do to the sheet, as far as copies and reviews
\* can tell: its revision grows, and unless it was handed in it is not.
LEMMA SheetMoves ==
  ASSUME ResultInv, NEW u \in Subjects, NEW new \in Sheets,
         sheet' = [sheet EXCEPT ![u] = new],
         new.revision = sheet[u].revision + 1,
         UNCHANGED review,
         \/ examRevision' = examRevision /\ new.status # "submitted"
         \/ examRevision' = examRevision + 1
  PROVE  \A o \in Offices : ReviewCurrent(o)'
<1> TAKE o \in Offices
<1> SUFFICES ASSUME review[o] # NotRead PROVE ReviewCurrent(o)'
  BY DEF ReviewCurrent
<1>1. review[o] \in [revision : Nat, sheets : [Subjects -> Seen]] /\ ReviewCurrent(o)
  BY ReadApart DEF ResultInv, ResultTypes
<1>2. examRevision \in Nat /\ sheet \in [Subjects -> Sheets] /\ sheet[u].revision \in Nat
  BY DEF ResultInv, ResultTypes, Sheets
<1>3. ASSUME NEW v \in Subjects, review[o].sheets[v] # NotRead
      PROVE  /\ review[o].sheets[v].revision \in Nat
             /\ review[o].sheets[v].revision <= sheet'[v].revision
             /\ review[o].sheets[v].revision = sheet'[v].revision =>
                  v # u /\ sheet'[v].status = "submitted" /\ review[o].sheets[v].marks = sheet'[v].marks
  <2>1. review[o].sheets[v] \in [revision : Nat, marks : Marks]
    BY <1>1, <1>3, ReadApart
  <2>2. SeenCurrent(o, v)
    BY <1>1 DEF ReviewCurrent
  <2>3. CASE v = u
    <3>1. sheet'[v] = new
      BY <2>3, <1>2
    <3>2. QED BY <3>1, <2>1, <2>2, <2>3, <1>2, <1>3 DEF SeenCurrent
  <2>4. CASE v # u
    <3>1. sheet'[v] = sheet[v]
      BY <2>4, <1>2
    <3>2. QED BY <3>1, <2>1, <2>2, <2>4, <1>3 DEF SeenCurrent
  <2>5. QED BY <2>3, <2>4
<1>4. \A v \in Subjects : SeenCurrent(o, v)'
  BY <1>3 DEF SeenCurrent
<1>5. review[o].revision <= examRevision' /\ review[o].revision \in Nat
  BY <1>1, <1>2 DEF ReviewCurrent
<1>6. ASSUME review[o].revision = examRevision', NEW v \in Subjects, review[o].sheets[v] # NotRead
      PROVE  review[o].sheets[v].revision = sheet'[v].revision \/ sheet'[v].status # "submitted"
  <2>1. examRevision' = examRevision /\ new.status # "submitted"
    BY <1>1, <1>2, <1>6 DEF ReviewCurrent
  <2>2. CASE v = u
    BY <2>1, <2>2, <1>2
  <2>3. CASE v # u
    BY <2>1, <2>3, <1>1, <1>2, <1>6 DEF ReviewCurrent
  <2>4. QED BY <2>2, <2>3
<1>7. QED BY <1>4, <1>5, <1>6 DEF ReviewCurrent

\* A device's own save leaves it with what it sent; every other copy is older.
LEMMA CopiesMove ==
  ASSUME ResultInv, NEW u \in Subjects, NEW new \in Sheets,
         sheet' = [sheet EXCEPT ![u] = new],
         new.revision = sheet[u].revision + 1
  PROVE  \A e \in Devices : copy'[e] = copy[e] => CopyCurrent(e)'
<1> SUFFICES ASSUME NEW e \in Devices, copy'[e] = copy[e], copy[e] # NotRead PROVE CopyCurrent(e)'
  BY DEF CopyCurrent
<1>1. copy[e] \in [subject : Subjects, revision : Nat, marks : Marks] /\ CopyCurrent(e)
  BY ReadApart DEF ResultInv, ResultTypes
<1>2. sheet \in [Subjects -> Sheets] /\ sheet[u].revision \in Nat
  BY DEF ResultInv, ResultTypes, Sheets
<1>3. CASE copy[e].subject = u
  <2>1. sheet'[u] = new
    BY <1>2
  <2>2. QED BY <2>1, <1>1, <1>2, <1>3 DEF CopyCurrent
<1>4. CASE copy[e].subject # u
  <2>1. sheet'[copy[e].subject] = sheet[copy[e].subject]
    BY <1>1, <1>2, <1>4
  <2>2. QED BY <2>1, <1>1 DEF CopyCurrent
<1>5. QED BY <1>3, <1>4

\* What saving to a sheet, handing it in or returning it leave, and the same
\* for a device's copy.
SavedRow(r, m, t) == [r EXCEPT !.marks = m, !.revision = @ + 1, !.author = t]
MovedRow(r, k)    == [r EXCEPT !.status = k, !.revision = @ + 1]
ReadSheets        == [subject : Subjects, revision : Nat, marks : Marks]
MovedCopy(c)      == [c EXCEPT !.revision = @ + 1]
SavedCopy(c, m)   == [c EXCEPT !.revision = @ + 1, !.marks = m]

LEMMA SavedRowType ==
  ASSUME NEW r \in Sheets, NEW m \in Marks, NEW t \in Teachers
  PROVE  LET new == SavedRow(r, m, t)
         IN  new \in Sheets /\ new.revision = r.revision + 1 /\ new.marks = m /\ new.status = r.status
<1>1. [r EXCEPT !.marks = m] \in Sheets
  BY DEF Sheets
<1> DEFINE c == [r EXCEPT !.marks = m]
           d == [c EXCEPT !.author = t]
<1>2. c.revision = r.revision /\ c.marks = m /\ c.status = r.status
  BY DEF Sheets
<1> HIDE DEF c
<1>3. d \in Sheets /\ d.revision = r.revision /\ d.marks = m /\ d.status = r.status
  BY <1>1, <1>2 DEF c, Sheets
<1>4. SavedRow(r, m, t) = [d EXCEPT !.revision = @ + 1]
  BY DEF SavedRow, c, Sheets
<1> HIDE DEF d
<1>5. QED BY <1>3, <1>4 DEF Sheets

LEMMA MovedRowType ==
  ASSUME NEW r \in Sheets, NEW k \in {"submitted", "returned"}
  PROVE  LET new == MovedRow(r, k)
         IN  new \in Sheets /\ new.revision = r.revision + 1 /\ new.marks = r.marks /\ new.status = k
<1> DEFINE c == [r EXCEPT !.status = k]
<1>1. c \in Sheets /\ c.revision = r.revision /\ c.marks = r.marks /\ c.status = k
  BY DEF Sheets
<1>2. MovedRow(r, k) = [c EXCEPT !.revision = @ + 1]
  BY DEF MovedRow, Sheets
<1> HIDE DEF c
<1>3. QED BY <1>1, <1>2 DEF Sheets

LEMMA MovedCopyType ==
  ASSUME NEW c \in ReadSheets
  PROVE  /\ MovedCopy(c) \in ReadSheets /\ MovedCopy(c).subject = c.subject
         /\ MovedCopy(c).revision = c.revision + 1 /\ MovedCopy(c).marks = c.marks
  BY DEF MovedCopy, ReadSheets

LEMMA SavedCopyType ==
  ASSUME NEW c \in ReadSheets, NEW m \in Marks
  PROVE  /\ SavedCopy(c, m) \in ReadSheets /\ SavedCopy(c, m).subject = c.subject
         /\ SavedCopy(c, m).revision = c.revision + 1 /\ SavedCopy(c, m).marks = m
<1>1. SavedCopy(c, m) = [MovedCopy(c) EXCEPT !.marks = m]
  BY DEF MovedCopy, SavedCopy, ReadSheets
<1>2. QED BY <1>1, MovedCopyType DEF ReadSheets

LEMMA SaveKeeps ==
  ASSUME ResultInv, NEW d \in Devices, NEW u \in Subjects, NEW m \in Marks, SaveMarks(d, u, m)
  PROVE  ResultInv'
<1> DEFINE new == Saved(d, u, m)
           mine == [copy[d] EXCEPT !.revision = @ + 1, !.marks = m]
<1>1. sheet \in [Subjects -> Sheets] /\ sheet[u] \in Sheets /\ sheet[u].revision \in Nat
  BY DEF ResultInv, ResultTypes, Sheets
<1>2. new \in Sheets /\ new.revision = sheet[u].revision + 1 /\ new.marks = m
      /\ new.status = sheet[u].status
  <2>1. TeacherOf[d] \in Teachers
    BY InstituteAssumption
  <2>2. new = SavedRow(sheet[u], m, TeacherOf[d])
    BY DEF Saved, SavedRow
  <2> HIDE DEF new
  <2>3. QED BY <1>1, <2>1, <2>2, SavedRowType
<1>3. sheet' = [sheet EXCEPT ![u] = new] /\ UNCHANGED <<examRevision, review>>
      /\ new.status # "submitted"
  BY <1>2 DEF SaveMarks
<1>4. copy[d] # NotRead /\ copy[d].subject = u /\ copy[d].revision = sheet[u].revision
  BY DEF SaveMarks, AsRead
<1>5. copy[d] \in [subject : Subjects, revision : Nat, marks : Marks]
  BY <1>4, ReadApart DEF ResultInv, ResultTypes
<1>6. copy' = [copy EXCEPT ![d] = mine]
  BY DEF SaveMarks
<1>7. mine \in [subject : Subjects, revision : Nat, marks : Marks] /\ mine.subject = u
      /\ mine.revision = sheet[u].revision + 1 /\ mine.marks = m
  <2>1. mine = SavedCopy(copy[d], m)
    BY DEF SavedCopy
  <2> HIDE DEF mine
  <2>2. QED BY <1>4, <1>5, <2>1, SavedCopyType DEF ReadSheets
<1>8. ResultTypes'
  BY <1>1, <1>2, <1>3, <1>6, <1>7 DEF ResultInv, ResultTypes, Copies
<1>9. ASSUME NEW e \in Devices PROVE CopyCurrent(e)'
  <2>1. CASE e = d
    <3>1. copy'[e] = mine /\ sheet'[u] = new
      BY <2>1, <1>1, <1>3, <1>6 DEF ResultInv, ResultTypes
    <3>2. QED BY <3>1, <1>1, <1>2, <1>7 DEF CopyCurrent
  <2>2. CASE e # d
    <3>1. copy'[e] = copy[e]
      BY <2>2, <1>6 DEF ResultInv, ResultTypes
    <3>2. QED BY <3>1, <1>2, <1>3, CopiesMove
  <2>3. QED BY <2>1, <2>2
<1>10. \A o \in Offices : ReviewCurrent(o)'
  BY <1>2, <1>3, SheetMoves
<1>11. QED BY <1>8, <1>9, <1>10 DEF ResultInv

LEMMA SubmitKeeps ==
  ASSUME ResultInv, NEW d \in Devices, NEW u \in Subjects, SubmitSheet(d, u)
  PROVE  ResultInv'
<1> DEFINE new == [sheet[u] EXCEPT !.status = "submitted", !.revision = @ + 1]
           mine == [copy[d] EXCEPT !.revision = @ + 1]
<1>1. sheet \in [Subjects -> Sheets] /\ sheet[u] \in Sheets /\ sheet[u].revision \in Nat
      /\ examRevision \in Nat
  BY DEF ResultInv, ResultTypes, Sheets
<1>2. new \in Sheets /\ new.revision = sheet[u].revision + 1 /\ new.marks = sheet[u].marks
  <2>1. new = MovedRow(sheet[u], "submitted")
    BY DEF MovedRow
  <2> HIDE DEF new
  <2>2. QED BY <1>1, <2>1, MovedRowType
<1>3. sheet' = [sheet EXCEPT ![u] = new] /\ examRevision' = examRevision + 1 /\ UNCHANGED review
  BY DEF SubmitSheet, ExamTouched
<1>4. copy[d] # NotRead /\ copy[d].subject = u /\ copy[d].revision = sheet[u].revision
  BY DEF SubmitSheet, AsRead
<1>5. copy[d] \in [subject : Subjects, revision : Nat, marks : Marks] /\ copy[d].marks = sheet[u].marks
  BY <1>4, ReadApart DEF ResultInv, ResultTypes, CopyCurrent
<1>6. copy' = [copy EXCEPT ![d] = mine]
  BY DEF SubmitSheet
<1>7. mine \in [subject : Subjects, revision : Nat, marks : Marks] /\ mine.subject = u
      /\ mine.revision = sheet[u].revision + 1 /\ mine.marks = sheet[u].marks
  <2>1. mine = MovedCopy(copy[d])
    BY DEF MovedCopy
  <2> HIDE DEF mine
  <2>2. QED BY <1>4, <1>5, <2>1, MovedCopyType DEF ReadSheets
<1>8. ResultTypes'
  BY <1>1, <1>2, <1>3, <1>6, <1>7 DEF ResultInv, ResultTypes, Copies
<1>9. ASSUME NEW e \in Devices PROVE CopyCurrent(e)'
  <2>1. CASE e = d
    <3>1. copy'[e] = mine /\ sheet'[u] = new
      BY <2>1, <1>1, <1>3, <1>6 DEF ResultInv, ResultTypes
    <3> HIDE DEF new, mine
    <3>2. QED BY <2>1, <3>1, <1>1, <1>2, <1>7 DEF CopyCurrent
  <2>2. CASE e # d
    <3>1. copy'[e] = copy[e]
      BY <2>2, <1>6 DEF ResultInv, ResultTypes
    <3>2. QED BY <3>1, <1>2, <1>3, CopiesMove
  <2>3. QED BY <2>1, <2>2
<1>10. \A o \in Offices : ReviewCurrent(o)'
  BY <1>2, <1>3, SheetMoves
<1>11. QED BY <1>8, <1>9, <1>10 DEF ResultInv

LEMMA ReturnKeeps ==
  ASSUME ResultInv, NEW o \in Offices, NEW u \in Subjects, ReturnSheet(o, u)
  PROVE  ResultInv'
<1> DEFINE new == [sheet[u] EXCEPT !.status = "returned", !.revision = @ + 1]
<1>1. sheet \in [Subjects -> Sheets] /\ sheet[u] \in Sheets /\ sheet[u].revision \in Nat
  BY DEF ResultInv, ResultTypes, Sheets
<1>2. new \in Sheets /\ new.revision = sheet[u].revision + 1 /\ new.status # "submitted"
  <2>1. new = MovedRow(sheet[u], "returned")
    BY DEF MovedRow
  <2> HIDE DEF new
  <2>2. QED BY <1>1, <2>1, MovedRowType
<1>3. sheet' = [sheet EXCEPT ![u] = new] /\ UNCHANGED <<examRevision, copy, review>>
  BY DEF ReturnSheet
<1>4. ResultTypes'
  BY <1>1, <1>2, <1>3 DEF ResultInv, ResultTypes
<1>5. \A e \in Devices : CopyCurrent(e)'
  BY <1>2, <1>3, CopiesMove
<1>6. \A x \in Offices : ReviewCurrent(x)'
  BY <1>2, <1>3, SheetMoves
<1>7. QED BY <1>4, <1>5, <1>6 DEF ResultInv

LEMMA StartReviewKeeps ==
  ASSUME ResultInv, NEW o \in Offices, StartReview(o)
  PROVE  ResultInv'
<1> DEFINE new == [revision |-> examRevision, sheets |-> [u \in Subjects |-> NotRead]]
<1>1. examRevision \in Nat /\ new \in Reviews
  BY DEF ResultInv, ResultTypes, Reviews, Seen
<1>2. review' = [review EXCEPT ![o] = new] /\ UNCHANGED <<sheet, examRevision, copy>>
  BY DEF StartReview
<1>3. ResultTypes'
  BY <1>1, <1>2 DEF ResultInv, ResultTypes
<1>4. \A e \in Devices : CopyCurrent(e)'
  BY <1>2 DEF ResultInv, CopyCurrent
<1>5. ASSUME NEW x \in Offices PROVE ReviewCurrent(x)'
  <2>1. CASE x = o
    <3>1. review'[x] = new
      BY <2>1, <1>2 DEF ResultInv, ResultTypes
    <3>2. QED BY <3>1, <1>1, <1>2 DEF ReviewCurrent, SeenCurrent
  <2>2. CASE x # o
    BY <2>2, <1>2 DEF ResultInv, ResultTypes, ReviewCurrent, SeenCurrent
  <2>3. QED BY <2>1, <2>2
<1>6. QED BY <1>3, <1>4, <1>5 DEF ResultInv

LEMMA ReviewKeeps ==
  ASSUME ResultInv, NEW o \in Offices, NEW u \in Subjects, ReviewSheet(o, u)
  PROVE  ResultInv'
<1> DEFINE seen == [revision |-> sheet[u].revision, marks |-> sheet[u].marks]
           read == [review[o].sheets EXCEPT ![u] = seen]
           new == [review[o] EXCEPT !.sheets = read]
<1>1. sheet[u] \in Sheets /\ sheet[u].revision \in Nat /\ sheet[u].marks \in Marks
      /\ sheet[u].status = "submitted"
  BY DEF ResultInv, ResultTypes, Sheets, ReviewSheet
<1>2. seen \in Seen /\ seen # NotRead
  BY <1>1, ReadApart DEF Seen
<1>3. review[o] \in [revision : Nat, sheets : [Subjects -> Seen]] /\ review[o] # NotRead
  BY ReadApart DEF ResultInv, ResultTypes, ReviewSheet
<1>4. review' = [review EXCEPT ![o] = new] /\ UNCHANGED <<sheet, examRevision, copy>>
  BY DEF ReviewSheet
<1>5. new \in [revision : Nat, sheets : [Subjects -> Seen]] /\ new.revision = review[o].revision
      /\ new.sheets = read
  BY <1>2, <1>3
<1>6. ResultTypes'
  BY <1>4, <1>5 DEF ResultInv, ResultTypes, Reviews
<1>7. \A e \in Devices : CopyCurrent(e)'
  BY <1>4 DEF ResultInv, CopyCurrent
<1>8. ASSUME NEW x \in Offices PROVE ReviewCurrent(x)'
  <2>1. CASE x = o
    <3>1. review'[x] = new
      BY <2>1, <1>4 DEF ResultInv, ResultTypes
    <3>2. ReviewCurrent(o) /\ examRevision \in Nat
      BY DEF ResultInv, ResultTypes
    <3>3. ASSUME NEW v \in Subjects
          PROVE  /\ SeenCurrent(x, v)'
                 /\ (review[o].revision = examRevision /\ read[v] # NotRead) =>
                      read[v].revision = sheet[v].revision \/ sheet[v].status # "submitted"
      <4>1. CASE v = u
        <5>1. read[v] = seen
          BY <4>1, <1>3
        <5>2. QED BY <5>1, <4>1, <3>1, <1>1, <1>4, <1>5 DEF SeenCurrent
      <4>2. CASE v # u
        <5>1. read[v] = review[o].sheets[v]
          BY <4>2, <1>3
        <5>2. QED BY <5>1, <3>1, <3>2, <1>3, <1>4, <1>5 DEF ReviewCurrent, SeenCurrent
      <4>3. QED BY <4>1, <4>2
    <3>4. QED BY <3>1, <3>2, <3>3, <1>3, <1>4, <1>5 DEF ReviewCurrent
  <2>2. CASE x # o
    BY <2>2, <1>4 DEF ResultInv, ResultTypes, ReviewCurrent, SeenCurrent
  <2>3. QED BY <2>1, <2>2
<1>9. QED BY <1>6, <1>7, <1>8 DEF ResultInv

\* Publishing makes the other reviews stale.
LEMMA PublishKeeps ==
  ASSUME ResultInv, NEW o \in Offices, PublishResults(o)
  PROVE  ResultInv'
<1>1. review' = [review EXCEPT ![o] = NotRead] /\ examRevision' = examRevision + 1
      /\ UNCHANGED <<sheet, copy>>
  BY DEF PublishResults, ExamTouched
<1>2. ResultTypes'
  BY <1>1 DEF ResultInv, ResultTypes, Reviews
<1>3. \A e \in Devices : CopyCurrent(e)'
  BY <1>1 DEF ResultInv, CopyCurrent
<1>4. ASSUME NEW x \in Offices PROVE ReviewCurrent(x)'
  <2>1. CASE x = o
    BY <2>1, <1>1 DEF ResultInv, ResultTypes, ReviewCurrent
  <2>2. CASE x # o
    <3>1. review'[x] = review[x]
      BY <2>2, <1>1 DEF ResultInv, ResultTypes
    <3>2. SUFFICES ASSUME review[x] # NotRead PROVE ReviewCurrent(x)'
      BY <3>1 DEF ReviewCurrent
    <3>3. review[x].revision \in Nat /\ examRevision \in Nat /\ ReviewCurrent(x)
      BY <3>2, ReadApart DEF ResultInv, ResultTypes
    <3>4. QED BY <3>1, <3>2, <3>3, <1>1 DEF ReviewCurrent, SeenCurrent
  <2>3. QED BY <2>1, <2>2
<1>5. QED BY <1>2, <1>3, <1>4 DEF ResultInv

LEMMA ResultsStep == ResultInv /\ [InstituteNext]_instituteVars => ResultInv'
<1> SUFFICES ASSUME ResultInv, [InstituteNext]_instituteVars PROVE ResultInv'
  OBVIOUS
<1>1. CASE UNCHANGED instituteVars
  BY <1>1, ResultsUntouched DEF instituteVars, resultVars
<1>2. ASSUME NEW s \in Pupils, EnrolPupil(s) PROVE ResultInv'
  BY <1>2, ResultsUntouched DEF EnrolPupil, resultVars
<1>3. CASE FeesNext
  <2>1. UNCHANGED <<sheet, examRevision, copy, review>>
    BY <1>3 DEF FeesNext, GenerateFees, SubmitFeePayment, VerifyFeePayment, RejectFeePayment, resultVars
  <2>2. QED BY <2>1, ResultsUntouched
<1>4. CASE ResultsNext
  BY <1>4, OpenKeeps, SaveKeeps, SubmitKeeps, StartReviewKeeps, ReviewKeeps, ReturnKeeps, PublishKeeps
  DEF ResultsNext
<1>5. QED BY <1>1, <1>2, <1>3, <1>4 DEF InstituteNext

\* No device overwrites or hands in marks it has not read, and no office
\* publishes a sheet other than as it opened it, however many devices, offices
\* and subjects there are and however often a sheet is returned and handed in
\* again: a sheet's revision grows with every write to it, and the revision of
\* the examination with every sheet handed in (mutate, assertRevision).
THEOREM ResultsAsSeen == InstituteSpec => [](MarksNotLost /\ PublishedAsSeen)
<1>1. InstituteInit => ResultInv
  BY ResultsInit
<1>2. ResultInv => MarksNotLost /\ PublishedAsSeen
  <2> SUFFICES ASSUME ResultInv PROVE MarksNotLost /\ PublishedAsSeen
    OBVIOUS
  <2>1. MarksNotLost
    BY DEF ResultInv, CopyCurrent, MarksNotLost, AsRead
  <2>2. PublishedAsSeen
    BY DEF ResultInv, ReviewCurrent, SeenCurrent, PublishedAsSeen, AllSubmitted
  <2>3. QED BY <2>1, <2>2
<1>3. QED BY <1>1, <1>2, ResultsStep, PTL DEF InstituteSpec

-----------------------------------------------------------------------------
(* Onboarding.  The argument: a step that was settled once left behind     *)
(* what it settles, and no later request takes that back; and a window     *)
(* reads no step as settled that never was.                                *)

Requests ==
  [op : {"organization"}, seen : [Steps -> {"pending", "done", "skipped"}], total : Targets]
    \cup [op : {"accounting"}, seen : [Steps -> {"pending", "done", "skipped"}], review : {"one", "two"}]
    \cup [op : {"accounts"}, seen : [Steps -> {"pending", "done", "skipped"}],
          names : (SUBSET AccountNames) \ {{}}]
    \cup [op : {"shareholders"}, seen : [Steps -> {"pending", "done", "skipped"}],
          change : 1 .. MaxAssigned, from : 0 .. MaxAssigned, total : Targets]
    \cup [op : {"skip_accounting", "skip_shareholders", "complete"},
          seen : [Steps -> {"pending", "done", "skipped"}]]

OnboardingInv ==
  /\ OnboardingTypeOK
  /\ setup \in [Windows -> {Idle} \cup Requests]
  /\ SettledIn(step) \subseteq everSettled
  /\ \A w \in Windows : setup[w] # Idle =>
       /\ SettledIn(setup[w].seen) \subseteq everSettled
       /\ setup[w].op = "complete" => SettledIn(setup[w].seen) = Steps
  /\ overall = "completed" => everSettled = Steps
  /\ "accounts" \in everSettled => accountNames # {}
  /\ "accounting" \in everSettled => (flow.review = "two" => accountant)

LEMMA OnboardingStarts == OnboardingInit => OnboardingInv
  <1> SUFFICES ASSUME OnboardingInit PROVE OnboardingInv
    OBVIOUS
  <1>1. PICK seeded \in {"pending", "skipped"} :
          step = [s \in Steps |-> IF s = "shareholders" THEN seeded ELSE "pending"]
    BY DEF OnboardingInit
  <1>2. everSettled = SettledIn(step) /\ everSettled \subseteq {"shareholders"}
    BY <1>1 DEF OnboardingInit, SettledIn, Steps
  <1>3. OnboardingTypeOK
    <2>1. step \in [Steps -> {"pending", "done", "skipped"}]
      BY <1>1
    <2>2. assigned \in 0 .. MaxAssigned /\ target \in Targets /\ overall = "in_progress"
      BY OnboardingAssumption DEF OnboardingInit
    <2>3. flow \in [review : {"one", "two"}, named : BOOLEAN] /\ accountant \in BOOLEAN
      BY DEF OnboardingInit
    <2>4. accountNames = {} /\ DOMAIN setup = Windows /\ everSettled \subseteq Steps
      BY <1>2 DEF OnboardingInit, Steps
    <2> QED BY <2>1, <2>2, <2>3, <2>4 DEF OnboardingTypeOK
  <1> QED BY <1>2, <1>3 DEF OnboardingInit, OnboardingInv

\* A window reads the row.
LEMMA OpensSafe ==
  ASSUME OnboardingInv, NEW w \in Windows, NEW r \in Requests, Opens(w, r), r.seen = step,
         r.op = "complete" => Overall(step) = "completed"
  PROVE  OnboardingInv'
  <1>1. /\ setup' = [setup EXCEPT ![w] = r]
        /\ UNCHANGED <<step, overall, flow, accountant, accountNames, target, assigned, everSettled>>
    BY DEF Opens
  <1>2. OnboardingTypeOK' /\ setup' \in [Windows -> {Idle} \cup Requests]
    BY <1>1 DEF OnboardingInv, OnboardingTypeOK
  <1>3. r.op = "complete" => SettledIn(r.seen) = Steps
    BY DEF Overall
  <1>4. \A x \in Windows : setup'[x] # Idle =>
          /\ SettledIn(setup'[x].seen) \subseteq everSettled'
          /\ setup'[x].op = "complete" => SettledIn(setup'[x].seen) = Steps
    BY <1>1, <1>3 DEF OnboardingInv
  <1> QED BY <1>1, <1>2, <1>4 DEF OnboardingInv, SettledIn

\* A window's own step is settled, or left pending, as it says.
LEMMA SettlesStep ==
  ASSUME OnboardingInv, NEW w \in Windows, setup[w] # Idle, NEW s \in Steps,
         NEW to \in {"pending", "done", "skipped"}, Settles(w, s, to)
  PROVE  /\ step' \in [Steps -> {"pending", "done", "skipped"}]
         /\ overall' \in {"in_progress", "completed"}
         /\ setup' \in [Windows -> {Idle} \cup Requests]
         /\ everSettled \subseteq everSettled' /\ everSettled' \subseteq Steps
         /\ everSettled' \subseteq everSettled \cup {s}
         /\ SettledIn(step') \subseteq everSettled'
         /\ \A x \in Windows : setup'[x] # Idle =>
              /\ SettledIn(setup'[x].seen) \subseteq everSettled'
              /\ setup'[x].op = "complete" => SettledIn(setup'[x].seen) = Steps
         /\ overall' = "completed" => everSettled' = Steps
  <1>1. /\ step' = [step EXCEPT ![s] = to] /\ overall' = Overall(SeenWith(w, s, to))
        /\ everSettled' = everSettled \cup SettledIn(step')
        /\ setup' = [setup EXCEPT ![w] = Idle]
    BY DEF Settles
  <1>2. /\ step \in [Steps -> {"pending", "done", "skipped"}] /\ everSettled \subseteq Steps
        /\ setup \in [Windows -> {Idle} \cup Requests] /\ SettledIn(step) \subseteq everSettled
    BY DEF OnboardingInv, OnboardingTypeOK
  <1>3. step' \in [Steps -> {"pending", "done", "skipped"}]
    BY <1>1, <1>2
  <1>4. overall' \in {"in_progress", "completed"}
    BY <1>1 DEF Overall
  <1>5. setup' \in [Windows -> {Idle} \cup Requests]
    BY <1>1, <1>2
  <1>6. SettledIn(step') \subseteq Steps /\ SettledIn(step') \subseteq everSettled \cup {s}
    BY <1>1, <1>2 DEF SettledIn
  <1>7. /\ everSettled \subseteq everSettled' /\ everSettled' \subseteq Steps
        /\ everSettled' \subseteq everSettled \cup {s} /\ SettledIn(step') \subseteq everSettled'
    BY <1>1, <1>2, <1>6
  <1>8. \A x \in Windows : setup'[x] # Idle =>
          /\ SettledIn(setup'[x].seen) \subseteq everSettled'
          /\ setup'[x].op = "complete" => SettledIn(setup'[x].seen) = Steps
    BY <1>1, <1>2, <1>7 DEF OnboardingInv
  <1>9. overall' = "completed" => everSettled' = Steps
    <2> SUFFICES ASSUME overall' = "completed", NEW t \in Steps PROVE t \in everSettled'
      BY <1>7
    <2>1. SeenWith(w, s, to)[t] # "pending"
      BY <1>1 DEF Overall, SettledIn
    <2>2. setup[w].seen \in [Steps -> {"pending", "done", "skipped"}]
      BY <1>2 DEF Requests
    <2>3. CASE t = s
      BY <1>1, <1>2, <2>1, <2>2, <2>3 DEF SeenWith, SettledIn
    <2>4. CASE t # s
      <3>1. t \in SettledIn(setup[w].seen)
        BY <2>1, <2>2, <2>4 DEF SeenWith, SettledIn
      <3> QED BY <1>7, <3>1 DEF OnboardingInv
    <2> QED BY <2>3, <2>4
  <1> QED BY <1>3, <1>4, <1>5, <1>7, <1>8, <1>9

\* What a window asks for is of the kind it opened.
LEMMA RequestFields ==
  ASSUME OnboardingInv, NEW w \in Windows, setup[w].op \in {"organization", "accounting", "accounts",
           "shareholders", "skip_accounting", "skip_shareholders", "complete"}
  PROVE  /\ setup[w] # Idle /\ setup[w] \in Requests
         /\ setup[w].op = "organization" => setup[w].total \in Targets
         /\ setup[w].op = "accounting" => setup[w].review \in {"one", "two"}
         /\ setup[w].op = "accounts" => setup[w].names \subseteq AccountNames /\ setup[w].names # {}
         /\ setup[w].op = "shareholders" => setup[w].change \in 1 .. MaxAssigned
  <1>1. setup[w] # Idle
    BY DEF Idle
  <1>2. setup[w] \in Requests
    BY <1>1 DEF OnboardingInv
  <1> QED BY <1>1, <1>2 DEF Requests

LEMMA OnboardingSettles ==
  ASSUME OnboardingInv, NEW w \in Windows,
         \/ SaveOrganization(w) \/ SaveAccounting(w) \/ SaveAccounts(w)
         \/ SaveShareholders(w) \/ SkipAccounting(w) \/ SkipShareholders(w)
  PROVE  OnboardingInv'
  <1>0. OnboardingTypeOK /\ setup \in [Windows -> {Idle} \cup Requests]
    BY DEF OnboardingInv
  <1>1. CASE SaveOrganization(w)
    <2>1. /\ setup[w].op = "organization" /\ target' = setup[w].total /\ Settles(w, "organization", "done")
          /\ UNCHANGED <<flow, accountant, accountNames, assigned>>
      BY <1>1 DEF SaveOrganization
    <2>2. setup[w] # Idle /\ setup[w].total \in Targets
      BY <2>1, RequestFields
    <2> QED BY <1>0, <2>1, <2>2, SettlesStep DEF OnboardingInv, OnboardingTypeOK, Steps
  <1>2. CASE SaveAccounting(w)
    <2>1. /\ setup[w].op = "accounting" /\ accountant' = TRUE /\ Settles(w, "accounting", "done")
          /\ flow' = [review |-> setup[w].review, named |-> TRUE]
          /\ UNCHANGED <<accountNames, target, assigned>>
      BY <1>2 DEF SaveAccounting
    <2>2. setup[w] # Idle /\ setup[w].review \in {"one", "two"}
      BY <2>1, RequestFields
    <2> QED BY <1>0, <2>1, <2>2, SettlesStep DEF OnboardingInv, OnboardingTypeOK, Steps
  <1>3. CASE SaveAccounts(w)
    <2>1. /\ setup[w].op = "accounts" /\ accountNames' = accountNames \cup setup[w].names
          /\ Settles(w, "accounts", "done") /\ UNCHANGED <<flow, accountant, target, assigned>>
      BY <1>3 DEF SaveAccounts
    <2>2. setup[w] # Idle /\ setup[w].names \subseteq AccountNames /\ setup[w].names # {}
      BY <2>1, RequestFields
    <2>3. accountNames' # {} /\ accountNames' \subseteq AccountNames
      BY <1>0, <2>1, <2>2 DEF OnboardingTypeOK
    <2> QED BY <1>0, <2>1, <2>2, <2>3, SettlesStep DEF OnboardingInv, OnboardingTypeOK, Steps
  <1>4. CASE SaveShareholders(w)
    <2>1. PICK to \in {"pending", "done"} :
            /\ setup[w].op = "shareholders" /\ Settles(w, "shareholders", to)
            /\ UNCHANGED <<flow, accountant, accountNames, target>>
      BY <1>4 DEF SaveShareholders
    <2>2. setup[w] # Idle /\ setup[w].change \in 1 .. MaxAssigned
      BY <2>1, RequestFields
    <2>3. assigned' \in 0 .. MaxAssigned
      <3>1. assigned' \in IF assigned = setup[w].from THEN {setup[w].change}
                          ELSE 1 .. (setup[w].change + assigned)
        BY <1>4 DEF SaveShareholders
      <3>2. assigned' <= MaxAssigned
        BY <1>4 DEF SaveShareholders
      <3> QED BY <1>0, <2>2, <3>1, <3>2, OnboardingAssumption DEF OnboardingTypeOK
    <2>4. to \in {"pending", "done", "skipped"} /\ "shareholders" \in Steps
      BY DEF Steps
    <2>5. /\ step' \in [Steps -> {"pending", "done", "skipped"}]
          /\ overall' \in {"in_progress", "completed"}
          /\ setup' \in [Windows -> {Idle} \cup Requests]
          /\ everSettled' \subseteq Steps /\ everSettled' \subseteq everSettled \cup {"shareholders"}
          /\ SettledIn(step') \subseteq everSettled'
          /\ overall' = "completed" => everSettled' = Steps
      BY <2>1, <2>2, <2>4, SettlesStep
    <2>6. \A x \in Windows : setup'[x] # Idle =>
            /\ SettledIn(setup'[x].seen) \subseteq everSettled'
            /\ setup'[x].op = "complete" => SettledIn(setup'[x].seen) = Steps
      BY <2>1, <2>2, <2>4, SettlesStep
    <2> QED BY <1>0, <2>1, <2>3, <2>5, <2>6 DEF OnboardingInv, OnboardingTypeOK
  <1>5. CASE SkipAccounting(w)
    <2>1. /\ setup[w].op = "skip_accounting" /\ flow' = [review |-> "one", named |-> FALSE]
          /\ Settles(w, "accounting", "skipped") /\ UNCHANGED <<accountant, accountNames, target, assigned>>
      BY <1>5 DEF SkipAccounting
    <2>2. setup[w] # Idle
      BY <2>1, RequestFields
    <2> QED BY <1>0, <2>1, <2>2, SettlesStep DEF OnboardingInv, OnboardingTypeOK, Steps
  <1>6. CASE SkipShareholders(w)
    <2>1. /\ setup[w].op = "skip_shareholders" /\ Settles(w, "shareholders", "skipped")
          /\ UNCHANGED <<flow, accountant, accountNames, target, assigned>>
      BY <1>6 DEF SkipShareholders
    <2>2. setup[w] # Idle
      BY <2>1, RequestFields
    <2> QED BY <1>0, <2>1, <2>2, SettlesStep DEF OnboardingInv, OnboardingTypeOK, Steps
  <1> QED BY <1>1, <1>2, <1>3, <1>4, <1>5, <1>6

LEMMA OnboardingStep == OnboardingInv /\ [OnboardingNext]_onboardingVars => OnboardingInv'
  <1> SUFFICES ASSUME OnboardingInv, [OnboardingNext]_onboardingVars PROVE OnboardingInv'
    OBVIOUS
  <1>0. /\ step \in [Steps -> {"pending", "done", "skipped"}] /\ target \in Targets
        /\ assigned \in 0 .. MaxAssigned /\ setup \in [Windows -> {Idle} \cup Requests]
    BY DEF OnboardingInv, OnboardingTypeOK
  <1>1. ASSUME NEW w \in Windows, NEW n \in Targets, OpenOrganization(w, n) PROVE OnboardingInv'
    <2>1. PICK r : r = [op |-> "organization", seen |-> step, total |-> n]
      OBVIOUS
    <2>2. r \in Requests /\ r.seen = step /\ r.op = "organization"
      BY <1>0, <2>1 DEF Requests
    <2>3. Opens(w, r)
      BY <1>1, <2>1 DEF OpenOrganization
    <2> QED BY <2>2, <2>3, OpensSafe
  <1>2. ASSUME NEW w \in Windows, NEW level \in {"one", "two"}, OpenAccounting(w, level)
        PROVE  OnboardingInv'
    <2>1. PICK r : r = [op |-> "accounting", seen |-> step, review |-> level]
      OBVIOUS
    <2>2. r \in Requests /\ r.seen = step /\ r.op = "accounting"
      BY <1>0, <2>1 DEF Requests
    <2>3. Opens(w, r)
      BY <1>2, <2>1 DEF OpenAccounting
    <2> QED BY <2>2, <2>3, OpensSafe
  <1>3. ASSUME NEW w \in Windows, NEW names \in (SUBSET AccountNames) \ {{}}, OpenAccounts(w, names)
        PROVE  OnboardingInv'
    <2>1. PICK r : r = [op |-> "accounts", seen |-> step, names |-> names]
      OBVIOUS
    <2>2. r \in Requests /\ r.seen = step /\ r.op = "accounts"
      BY <1>0, <2>1 DEF Requests
    <2>3. Opens(w, r)
      BY <1>3, <2>1 DEF OpenAccounts
    <2> QED BY <2>2, <2>3, OpensSafe
  <1>4. ASSUME NEW w \in Windows, NEW n \in 1 .. MaxAssigned, OpenShareholders(w, n) PROVE OnboardingInv'
    <2>1. PICK r : r = [op |-> "shareholders", seen |-> step, change |-> n, from |-> assigned, total |-> target]
      OBVIOUS
    <2>2. r \in Requests /\ r.seen = step /\ r.op = "shareholders"
      BY <1>0, <2>1 DEF Requests
    <2>3. Opens(w, r)
      BY <1>4, <2>1 DEF OpenShareholders
    <2> QED BY <2>2, <2>3, OpensSafe
  <1>5. ASSUME NEW w \in Windows, OpenSkipAccounting(w) \/ OpenSkipShareholders(w) \/ OpenCompletion(w)
        PROVE  OnboardingInv'
    <2>1. PICK name \in {"skip_accounting", "skip_shareholders", "complete"} :
            /\ Opens(w, [op |-> name, seen |-> step])
            /\ name = "complete" => Overall(step) = "completed"
      BY <1>5 DEF OpenSkipAccounting, OpenSkipShareholders, OpenCompletion
    <2>2. PICK r : r = [op |-> name, seen |-> step]
      OBVIOUS
    <2>3. r \in Requests /\ r.seen = step /\ (r.op = "complete" => Overall(step) = "completed")
      BY <1>0, <2>1, <2>2 DEF Requests
    <2>4. Opens(w, r)
      BY <2>1, <2>2
    <2> QED BY <2>3, <2>4, OpensSafe
  <1>6. ASSUME NEW w \in Windows,
               \/ SaveOrganization(w) \/ SaveAccounting(w) \/ SaveAccounts(w)
               \/ SaveShareholders(w) \/ SkipAccounting(w) \/ SkipShareholders(w)
        PROVE  OnboardingInv'
    BY <1>6, OnboardingSettles
  <1>7. ASSUME NEW w \in Windows, Complete(w) \/ CloseWindow(w) PROVE OnboardingInv'
    <2>1. /\ setup' = [setup EXCEPT ![w] = Idle]
          /\ UNCHANGED <<step, flow, accountant, accountNames, target, assigned, everSettled>>
      BY <1>7 DEF Complete, CloseWindow
    <2>2. overall' = overall \/ (overall' = "completed" /\ setup[w].op = "complete")
      BY <1>7 DEF Complete, CloseWindow
    <2>3. setup[w].op = "complete" => everSettled = Steps
      BY RequestFields DEF OnboardingInv, OnboardingTypeOK
    <2>4. OnboardingTypeOK' /\ setup' \in [Windows -> {Idle} \cup Requests]
      BY <1>0, <2>1, <2>2 DEF OnboardingInv, OnboardingTypeOK
    <2>5. \A x \in Windows : setup'[x] # Idle => setup'[x] = setup[x]
      BY <1>0, <2>1
    <2> QED BY <2>1, <2>2, <2>3, <2>4, <2>5 DEF OnboardingInv, SettledIn
  <1>8. CASE ImportShareholders
    <2>1. /\ step' = [step EXCEPT !["shareholders"] = IF @ = "pending" THEN "done" ELSE @]
          /\ assigned' = target /\ target <= MaxAssigned
          /\ everSettled' = everSettled \cup SettledIn(step')
          /\ UNCHANGED <<overall, flow, accountant, accountNames, target, setup>>
      BY <1>8 DEF ImportShareholders
    <2>2. /\ step' \in [Steps -> {"pending", "done", "skipped"}]
          /\ SettledIn(step') \subseteq SettledIn(step) \cup {"shareholders"}
          /\ SettledIn(step') \subseteq Steps
      BY <1>0, <2>1 DEF Steps, SettledIn
    <2>3. everSettled' \subseteq everSettled \cup {"shareholders"} /\ everSettled \subseteq everSettled'
          /\ everSettled' \subseteq Steps /\ SettledIn(step') \subseteq everSettled'
      BY <2>1, <2>2 DEF OnboardingInv, OnboardingTypeOK, Steps
    <2>4. assigned' \in 0 .. MaxAssigned
      BY <1>0, <2>1, OnboardingAssumption
    <2>5. OnboardingTypeOK'
      BY <2>1, <2>2, <2>3, <2>4 DEF OnboardingInv, OnboardingTypeOK
    <2>6. overall' = "completed" => everSettled' = Steps
      BY <2>1, <2>3 DEF OnboardingInv
    <2>7. \A x \in Windows : setup'[x] # Idle =>
            /\ SettledIn(setup'[x].seen) \subseteq everSettled'
            /\ setup'[x].op = "complete" => SettledIn(setup'[x].seen) = Steps
      BY <2>1, <2>3 DEF OnboardingInv
    <2> QED BY <1>0, <2>1, <2>3, <2>5, <2>6, <2>7 DEF OnboardingInv
  <1>9. CASE UNCHANGED onboardingVars
    BY <1>9 DEF onboardingVars, OnboardingInv, OnboardingTypeOK, SettledIn
  <1> QED BY <1>1, <1>2, <1>3, <1>4, <1>5, <1>6, <1>7, <1>8, <1>9 DEF OnboardingNext

\* However many windows save, skip and complete at the same time, from rows
\* they read at any time: an organization that left the set-up settled every
\* step once, has an account, and has an accountant if two persons review
\* (onboarding.routes.ts, onboarding.service.ts).
THEOREM SetUpIsReady == OnboardingSpec => [](OnboardingTypeOK /\ LeavesSetUpReady)
  <1>1. OnboardingInv => OnboardingTypeOK /\ LeavesSetUpReady
    BY DEF OnboardingInv, LeavesSetUpReady, Steps
  <1> QED BY <1>1, OnboardingStarts, OnboardingStep, PTL DEF OnboardingSpec

-----------------------------------------------------------------------------
(* Sums over a set that is a part of a fixed one. *)

LEMMA SumOfMembers ==
  ASSUME NEW S, IsFiniteSet(S), NEW T \in SUBSET S, NEW f, NEW g,
         \A x \in T : f[x] = g[x], \A x \in S : g[x] \in Int, \A x \in S \ T : g[x] = 0
  PROVE  SumOver(f, T) = SumOver(g, S)
  <1>1. IsFiniteSet(T) /\ IsFiniteSet(S \ T)
    BY FS_Subset
  <1>2. SumOver(g, S) = SumOver(g, T) + SumOver(g, S \ T)
    BY SumSplit
  <1>3. SumOver(g, S \ T) = 0
    BY <1>1, SumOfZeros
  <1>4. SumOver(f, T) = SumOver(g, T)
    BY <1>1, SumAgrees
  <1>5. SumOver(g, T) \in Int
    BY <1>1, SumIsInteger
  <1> QED BY <1>2, <1>3, <1>4, <1>5

LEMMA FeeTotalIsSum == ASSUME NEW f, NEW S PROVE FeeTotal(f, S) = SumOver(f, S)
  BY DEF FeeTotal, SumOver

LEMMA LeastOfTwo ==
  ASSUME NEW a \in Int, NEW b \in Int
  PROVE  Min({a, b}) = IF a <= b THEN a ELSE b
  BY DEF Min

-----------------------------------------------------------------------------
(* Fees.  The argument: what a verified payment adds to the invoices of    *)
(* its pupil is what it took for them, and the rest is its advance.        *)

\* The lesser of what is left and what is owed, term by term, comes to the
\* lesser of the payment and all that is owed.
LEMMA TakenComesTo ==
  ASSUME NEW n \in Nat, NEW owes \in [Terms -> Nat], NEW taken,
         \A t \in Terms :
           LET left == n - SumOver(owes, {e \in Terms : e < t})
           IN taken[t] = IF left <= 0 THEN 0 ELSE Min({left, owes[t]})
  PROVE  /\ \A t \in Terms : taken[t] \in 0 .. owes[t]
         /\ SumOver(taken, Terms) <= n
  <1>1. \A D \in SUBSET Terms : IsFiniteSet(D) /\ SumOver(owes, D) \in Nat
    <2> SUFFICES ASSUME NEW D \in SUBSET Terms PROVE IsFiniteSet(D) /\ SumOver(owes, D) \in Nat
      OBVIOUS
    <2>1. IsFiniteSet(D)
      BY InstituteAssumption, FS_Subset
    <2>2. \A x \in D : owes[x] \in Nat
      OBVIOUS
    <2> QED BY <2>1, <2>2, SumIsNatural
  <1>2. ASSUME NEW t \in Terms, NEW b, b = SumOver(owes, {e \in Terms : e < t})
        PROVE  /\ b \in Nat /\ taken[t] \in 0 .. owes[t]
               /\ taken[t] = IF n <= b THEN 0 ELSE IF n - b <= owes[t] THEN n - b ELSE owes[t]
    <2>1. b \in Nat /\ owes[t] \in Nat
      BY <1>1, <1>2
    <2>2. Min({n - b, owes[t]}) = IF n - b <= owes[t] THEN n - b ELSE owes[t]
      BY <2>1, LeastOfTwo
    <2>3. taken[t] = IF n - b <= 0 THEN 0 ELSE Min({n - b, owes[t]})
      BY <1>2
    <2> QED BY <2>1, <2>2, <2>3
  <1>3. \A t \in Terms : taken[t] \in 0 .. owes[t]
    BY <1>2
  <1> DEFINE Lower(D) == \A x \in D, y \in Terms : y < x => y \in D
             Comes(D) == SumOver(taken, D) = IF n <= SumOver(owes, D) THEN n ELSE SumOver(owes, D)
             C == {D \in SUBSET Terms : Lower(D) /\ ~Comes(D)}
  <1>4. C = {}
    <2> SUFFICES ASSUME C # {} PROVE FALSE
      OBVIOUS
    <2>1. PICK D \in C : \A U \in C : ~(U \subseteq D /\ U # D)
      <3>1. C \in SUBSET SUBSET Terms /\ IsFiniteSet(Terms)
        BY InstituteAssumption
      <3> HIDE DEF C
      <3> QED BY <3>1, SmallestSubset
    <2>2. D # {}
      <3>1. SumOver(taken, {}) = 0 /\ SumOver(owes, {}) = 0
        BY SumOfEmpty
      <3> QED BY <3>1
    <2>3. PICK t \in D : \A x \in D : x <= t
      <3>1. PICK f : f = [x \in D |-> x]
        OBVIOUS
      <3>2. \A x \in D : f[x] \in Int
        BY <3>1, InstituteAssumption
      <3>3. PICK t \in D : \A x \in D : f[x] <= f[t]
        BY <1>1, <2>2, <3>2, GreatestElement
      <3> QED BY <3>1, <3>3
    <2>4. PICK U : U = D \ {t}
      OBVIOUS
    <2>5. U = {e \in Terms : e < t}
      <3>1. ASSUME NEW e \in Terms PROVE e \in U <=> e < t
        <4>1. e \in Nat /\ t \in Nat /\ t \in Terms
          BY <2>1, <2>3, InstituteAssumption
        <4>2. e \in D => e <= t
          BY <2>3
        <4>3. e < t => e \in D
          BY <2>1, <2>3
        <4> QED BY <2>4, <4>1, <4>2, <4>3
      <3> QED BY <2>1, <2>4, <3>1
    <2>6. Lower(U)
      BY <2>5, InstituteAssumption
    <2>7. Comes(U)
      BY <2>1, <2>3, <2>4, <2>6
    <2>8. PICK b, w : b = SumOver(owes, U) /\ w = SumOver(taken, U)
      OBVIOUS
    <2>9. SumOver(owes, D) = owes[t] + b
      <3>1. IsFiniteSet(D) /\ \A x \in D : owes[x] \in Int
        BY <1>1
      <3> QED BY <2>3, <2>4, <2>8, <3>1, SumRemove
    <2>10. SumOver(taken, D) = taken[t] + w
      <3>1. IsFiniteSet(D) /\ \A x \in D : taken[x] \in Int
        BY <1>1, <1>3
      <3> QED BY <2>3, <2>4, <2>8, <3>1, SumRemove
    <2>11. /\ b \in Nat /\ owes[t] \in Nat
           /\ taken[t] = IF n <= b THEN 0 ELSE IF n - b <= owes[t] THEN n - b ELSE owes[t]
      BY <1>2, <2>3, <2>5, <2>8
    <2>12. w = IF n <= b THEN n ELSE b
      BY <2>7, <2>8
    <2>13. taken[t] + w = IF n <= owes[t] + b THEN n ELSE owes[t] + b
      BY <2>11, <2>12
    <2> QED BY <2>1, <2>9, <2>10, <2>13
  <1>5. Comes(Terms)
    BY <1>4
  <1>6. SumOver(taken, Terms) <= n
    BY <1>1, <1>5
  <1> QED BY <1>3, <1>6

\* What a pupil's invoices hold, a payment left on them and brought in.
PaidOn(row) == [t \in Terms |-> IF row[t] = NoRow THEN 0 ELSE row[t].paid]
LeftBy(pay, s) ==
  [p \in FeePayments |-> IF pay[p].status = "verified" /\ pay[p].pupil = s
                           THEN pay[p].amount - pay[p].advance ELSE 0]
BroughtBy(pay) == [p \in FeePayments |-> IF pay[p].status = "verified" THEN pay[p].amount ELSE 0]

StatusTells(i) ==
  i # NoRow => i.status = (IF i.paid = 0 THEN "open" ELSE IF i.paid = Fee THEN "paid" ELSE "partial")

FeesInv ==
  /\ enrolled \subseteq Pupils /\ feeCash \in Nat
  /\ fee \in [Pupils -> [Terms -> Invoices]]
  /\ feePayment \in [FeePayments -> PaymentRows]
  /\ \A s \in Pupils : SumOver(PaidOn(fee[s]), Terms) = SumOver(LeftBy(feePayment, s), FeePayments)
  /\ feeCash = SumOver(BroughtBy(feePayment), FeePayments)
  /\ \A s \in Pupils, t \in Terms : StatusTells(fee[s][t])

LEMMA RowTypes ==
  /\ \A i \in Invoices : i # NoRow => i \in [amount : {Fee}, paid : 0 .. Fee, status : {"open", "partial", "paid"}]
  /\ \A p \in PaymentRows : p.status # "none" =>
       p \in [pupil : Pupils, amount : FeeSums, trx : TrxIds \cup {NoTrx}, advance : Nat,
              status : {"submitted", "verified", "rejected"}]
  /\ NoRow.status = "none" /\ NoRow \in Invoices /\ NoRow \in PaymentRows
  /\ Fee \in Nat /\ Fee > 0 /\ \A n \in FeeSums : n \in Nat /\ n > 0
  BY InstituteAssumption DEF Invoices, PaymentRows, NoRow

LEMMA OwedTypes ==
  ASSUME NEW i \in Invoices
  PROVE  /\ Owed(i) \in Nat
         /\ i = NoRow => Owed(i) = 0
         /\ StatusTells(i) /\ i # NoRow => Owed(i) = Fee - i.paid
  <1>1. CASE i = NoRow
    BY <1>1, RowTypes DEF Owed
  <1>2. CASE i # NoRow
    BY <1>2, RowTypes DEF Owed, StatusTells
  <1> QED BY <1>1, <1>2

LEMMA PaidIntoTypes ==
  ASSUME NEW i \in Invoices, StatusTells(i), NEW n \in 0 .. Owed(i)
  PROVE  /\ PaidInto(i, n) \in Invoices /\ StatusTells(PaidInto(i, n))
         /\ PaidInto(i, n) = NoRow <=> i = NoRow
         /\ i # NoRow => PaidInto(i, n).paid = i.paid + n
         /\ i = NoRow => n = 0
  <1>1. CASE i = NoRow
    BY <1>1, OwedTypes DEF PaidInto
  <1>2. CASE i # NoRow /\ n = 0
    <2>1. i.paid \in Nat
      BY <1>2, RowTypes
    <2> QED BY <1>2, <2>1 DEF PaidInto
  <1>3. CASE i # NoRow /\ n # 0
    <2>1. i \in [amount : {Fee}, paid : 0 .. Fee, status : {"open", "partial", "paid"}] /\ Owed(i) = Fee - i.paid
      BY <1>3, RowTypes, OwedTypes
    <2>2. PICK j : j = PaidInto(i, n)
      OBVIOUS
    <2>3. j = [i EXCEPT !.paid = i.paid + n, !.status = IF i.paid + n = i.amount THEN "paid" ELSE "partial"]
      BY <1>3, <2>2 DEF PaidInto
    <2>4. n \in Nat /\ n > 0 /\ i.paid + n <= Fee /\ i.paid \in Nat /\ i.amount = Fee /\ Fee \in Nat
      BY <1>3, <2>1, RowTypes
    <2>5. /\ j \in [amount : {Fee}, paid : 0 .. Fee, status : {"open", "partial", "paid"}]
          /\ j.paid = i.paid + n /\ j.status = IF i.paid + n = Fee THEN "paid" ELSE "partial"
      <3>1. PICK m, x : m = i.paid + n /\ x = IF m = Fee THEN "paid" ELSE "partial"
        OBVIOUS
      <3>2. m \in 0 .. Fee /\ x \in {"open", "partial", "paid"}
        BY <2>4, <3>1
      <3>3. j = [i EXCEPT !.paid = m, !.status = x]
        BY <2>3, <2>4, <3>1
      <3>4. /\ j \in [amount : {Fee}, paid : 0 .. Fee, status : {"open", "partial", "paid"}]
            /\ j.paid = m /\ j.status = x
        BY <2>1, <3>2, <3>3
      <3> QED BY <3>1, <3>4
    <2>6. j # NoRow
      BY <2>5, RowTypes
    <2>7. j \in Invoices
      BY <2>5 DEF Invoices
    <2>8. StatusTells(j)
      BY <2>4, <2>5 DEF StatusTells
    <2> QED BY <1>3, <2>2, <2>5, <2>6, <2>7, <2>8
  <1> QED BY <1>1, <1>2, <1>3

LEMMA LeftTypes ==
  ASSUME NEW pay \in [FeePayments -> PaymentRows], NEW p \in FeePayments
  PROVE  /\ BroughtBy(pay)[p] \in Int /\ BroughtBy(pay)[p] \in Nat
         /\ \A s \in Pupils : LeftBy(pay, s)[p] \in Int
  BY RowTypes DEF BroughtBy, LeftBy

LEMMA PaidOnTypes ==
  ASSUME NEW row \in [Terms -> Invoices], NEW t \in Terms
  PROVE  PaidOn(row)[t] \in Int
  BY RowTypes DEF PaidOn

LEMMA FeesStart == InstituteInit => FeesInv
  <1> SUFFICES ASSUME InstituteInit PROVE FeesInv
    OBVIOUS
  <1>1. /\ enrolled = {} /\ feeCash = 0
        /\ fee = [s \in Pupils |-> [t \in Terms |-> NoRow]]
        /\ feePayment = [p \in FeePayments |-> NoRow]
    BY DEF InstituteInit
  <1>2. fee \in [Pupils -> [Terms -> Invoices]] /\ feePayment \in [FeePayments -> PaymentRows]
    BY <1>1, RowTypes
  <1>3. \A p \in FeePayments : feePayment[p].status # "verified"
    BY <1>1, RowTypes
  <1>4. \A s \in Pupils : SumOver(LeftBy(feePayment, s), FeePayments) = 0
    <2> SUFFICES ASSUME NEW s \in Pupils PROVE SumOver(LeftBy(feePayment, s), FeePayments) = 0
      OBVIOUS
    <2>1. \A p \in FeePayments : LeftBy(feePayment, s)[p] = 0
      BY <1>3 DEF LeftBy
    <2> QED BY <2>1, SumOfZeros, InstituteAssumption
  <1>5. SumOver(BroughtBy(feePayment), FeePayments) = 0
    <2>1. \A p \in FeePayments : BroughtBy(feePayment)[p] = 0
      BY <1>3 DEF BroughtBy
    <2> QED BY <2>1, SumOfZeros, InstituteAssumption
  <1>6. \A s \in Pupils : SumOver(PaidOn(fee[s]), Terms) = 0
    <2> SUFFICES ASSUME NEW s \in Pupils PROVE SumOver(PaidOn(fee[s]), Terms) = 0
      OBVIOUS
    <2>1. \A t \in Terms : PaidOn(fee[s])[t] = 0
      BY <1>1 DEF PaidOn
    <2> QED BY <2>1, SumOfZeros, InstituteAssumption
  <1>7. \A s \in Pupils, t \in Terms : StatusTells(fee[s][t])
    BY <1>1 DEF StatusTells
  <1> QED BY <1>1, <1>2, <1>4, <1>5, <1>6, <1>7 DEF FeesInv

\* A payment is entered or rejected.
LEMMA PaymentWritten ==
  ASSUME FeesInv, UNCHANGED <<enrolled, fee, feeCash>>, NEW p \in FeePayments, NEW row \in PaymentRows,
         feePayment' = [feePayment EXCEPT ![p] = row],
         row.status # "verified", feePayment[p].status # "verified"
  PROVE  FeesInv'
  <1>1. feePayment \in [FeePayments -> PaymentRows] /\ feePayment' \in [FeePayments -> PaymentRows]
    BY DEF FeesInv
  <1>2. BroughtBy(feePayment') = BroughtBy(feePayment)
    BY <1>1 DEF BroughtBy
  <1>3. \A s \in Pupils : LeftBy(feePayment', s) = LeftBy(feePayment, s)
    BY <1>1 DEF LeftBy
  <1> QED BY <1>1, <1>2, <1>3 DEF FeesInv

LEMMA GenerateSafe ==
  ASSUME FeesInv, NEW t \in Terms, GenerateFees(t)
  PROVE  FeesInv'
  <1>1. PICK new : new = [amount |-> Fee, paid |-> 0, status |-> "open"]
    OBVIOUS
  <1>2. new \in Invoices /\ new # NoRow /\ new.paid = 0 /\ StatusTells(new)
    BY <1>1, RowTypes DEF Invoices, StatusTells
  <1>3. /\ fee' = [s \in Pupils |-> IF s \in enrolled /\ fee[s][t] = NoRow
                                      THEN [fee[s] EXCEPT ![t] = new] ELSE fee[s]]
        /\ UNCHANGED <<enrolled, feePayment, feeCash>>
    BY <1>1 DEF GenerateFees
  <1>4. fee \in [Pupils -> [Terms -> Invoices]]
    BY DEF FeesInv
  <1>5. fee' \in [Pupils -> [Terms -> Invoices]]
    BY <1>2, <1>3, <1>4
  <1>6. \A s \in Pupils, e \in Terms : fee'[s][e] = fee[s][e] \/ (fee[s][e] = NoRow /\ fee'[s][e] = new)
    BY <1>3, <1>4
  <1>7. \A s \in Pupils : PaidOn(fee'[s]) = PaidOn(fee[s])
    BY <1>2, <1>6 DEF PaidOn
  <1>8. \A s \in Pupils, e \in Terms : StatusTells(fee'[s][e])
    BY <1>2, <1>6 DEF FeesInv
  <1> QED BY <1>3, <1>5, <1>7, <1>8 DEF FeesInv

LEMMA VerifySafe ==
  ASSUME FeesInv, NEW p \in FeePayments, VerifyFeePayment(p)
  PROVE  FeesInv'
  <1>1. PICK row, s, n : row = feePayment[p] /\ s = row.pupil /\ n = row.amount
    OBVIOUS
  <1>2. /\ row \in [pupil : Pupils, amount : FeeSums, trx : TrxIds \cup {NoTrx}, advance : Nat,
                    status : {"submitted", "verified", "rejected"}]
        /\ row.status = "submitted" /\ s \in Pupils /\ n \in Nat
    BY <1>1, RowTypes DEF FeesInv, VerifyFeePayment
  <1>3. PICK taken : taken = [t \in Terms |-> Taken(s, t, n)]
    OBVIOUS
  <1>4. PICK adv : adv = n - SumOver(taken, Terms)
    OBVIOUS
  <1>5. /\ fee' = [fee EXCEPT ![s] = [t \in Terms |-> PaidInto(fee[s][t], taken[t])]]
        /\ feeCash' = feeCash + n
        /\ feePayment' = [feePayment EXCEPT ![p] = [row EXCEPT !.status = "verified", !.advance = adv]]
        /\ enrolled' = enrolled
    <2>1. FeeTotal(taken, Terms) = SumOver(taken, Terms)
      BY FeeTotalIsSum
    <2>2. /\ fee' = [fee EXCEPT ![s] = [t \in Terms |-> PaidInto(@[t], taken[t])]]
          /\ feeCash' = feeCash + n
          /\ feePayment' = [feePayment EXCEPT ![p].status = "verified",
                              ![p].advance = n - FeeTotal(taken, Terms)]
          /\ enrolled' = enrolled
      BY <1>1, <1>3 DEF VerifyFeePayment
    <2>3. feePayment' = [feePayment EXCEPT ![p] = [[feePayment[p] EXCEPT !.status = "verified"]
                                                      EXCEPT !.advance = adv]]
      BY <1>1, <1>2, <1>4, <2>1, <2>2 DEF FeesInv
    <2>4. [row EXCEPT !.status = "verified", !.advance = adv]
            = [[row EXCEPT !.status = "verified"] EXCEPT !.advance = adv]
      OBVIOUS
    <2> QED BY <1>1, <2>2, <2>3, <2>4
  <1>6. fee \in [Pupils -> [Terms -> Invoices]] /\ feePayment \in [FeePayments -> PaymentRows]
        /\ (\A t \in Terms : StatusTells(fee[s][t])) /\ feeCash \in Nat
    BY <1>2 DEF FeesInv
  <1>7. PICK owes : owes = [t \in Terms |-> Owed(fee[s][t])]
    OBVIOUS
  <1>8. owes \in [Terms -> Nat]
    BY <1>2, <1>6, <1>7, OwedTypes
  <1>9. ASSUME NEW t \in Terms
        PROVE  taken[t] = IF n - SumOver(owes, {e \in Terms : e < t}) <= 0 THEN 0
                          ELSE Min({n - SumOver(owes, {e \in Terms : e < t}), owes[t]})
    <2>1. PICK E : E = {e \in Terms : e < t}
      OBVIOUS
    <2>2. IsFiniteSet(E) /\ E \subseteq Terms
      BY <2>1, InstituteAssumption, FS_Subset
    <2>3. PICK f : f = [e \in E |-> Owed(fee[s][e])]
      OBVIOUS
    <2>4. \A e \in E : f[e] = owes[e]
      BY <1>7, <2>2, <2>3
    <2>5. SumOver(f, E) = SumOver(owes, E)
      BY <2>2, <2>4, SumAgrees
    <2>6. PupilOwes(s, E) = SumOver(owes, E)
      BY <2>3, <2>5, FeeTotalIsSum DEF PupilOwes
    <2>7. taken[t] = IF n - PupilOwes(s, E) <= 0 THEN 0 ELSE Min({n - PupilOwes(s, E), Owed(fee[s][t])})
      BY <1>3, <2>1 DEF Taken
    <2>8. owes[t] = Owed(fee[s][t])
      BY <1>7
    <2> QED BY <2>1, <2>6, <2>7, <2>8
  <1>10. (\A t \in Terms : taken[t] \in 0 .. owes[t]) /\ SumOver(taken, Terms) <= n
    BY <1>2, <1>8, <1>9, TakenComesTo
  <1>11. SumOver(taken, Terms) \in Nat
    <2>1. \A t \in Terms : taken[t] \in Nat
      BY <1>8, <1>10
    <2> QED BY <2>1, InstituteAssumption, SumIsNatural
  <1>12. adv \in Nat /\ n - adv = SumOver(taken, Terms)
    BY <1>2, <1>4, <1>10, <1>11
  <1>13. PICK new : new = [row EXCEPT !.status = "verified", !.advance = adv]
    OBVIOUS
  <1>14. /\ new \in PaymentRows /\ new.status = "verified" /\ new.pupil = s /\ new.amount = n /\ new.advance = adv
    BY <1>1, <1>2, <1>12, <1>13 DEF PaymentRows
  <1>15. feePayment' = [feePayment EXCEPT ![p] = new] /\ feePayment' \in [FeePayments -> PaymentRows]
    BY <1>5, <1>6, <1>13, <1>14
  <1>16. ASSUME NEW t \in Terms
         PROVE  /\ PaidInto(fee[s][t], taken[t]) \in Invoices /\ StatusTells(PaidInto(fee[s][t], taken[t]))
                /\ PaidInto(fee[s][t], taken[t]) = NoRow <=> fee[s][t] = NoRow
                /\ fee[s][t] # NoRow => PaidInto(fee[s][t], taken[t]).paid = fee[s][t].paid + taken[t]
                /\ fee[s][t] = NoRow => taken[t] = 0
    <2>1. PICK x, m : x = fee[s][t] /\ m = taken[t]
      OBVIOUS
    <2>2. x \in Invoices /\ StatusTells(x) /\ m \in 0 .. Owed(x)
      BY <1>2, <1>6, <1>7, <1>10, <2>1
    <2>3. /\ PaidInto(x, m) \in Invoices /\ StatusTells(PaidInto(x, m))
          /\ PaidInto(x, m) = NoRow <=> x = NoRow
          /\ x # NoRow => PaidInto(x, m).paid = x.paid + m
          /\ x = NoRow => m = 0
      BY <2>2, PaidIntoTypes
    <2> QED BY <2>1, <2>3
  <1>17. fee' \in [Pupils -> [Terms -> Invoices]]
    <2>1. [t \in Terms |-> PaidInto(fee[s][t], taken[t])] \in [Terms -> Invoices]
      BY <1>16
    <2> QED BY <1>5, <1>6, <2>1
  <1>18. \A t \in Terms : fee'[s][t] = PaidInto(fee[s][t], taken[t])
    BY <1>2, <1>5, <1>6
  <1>19. \A z \in Pupils \ {s} : fee'[z] = fee[z]
    BY <1>5, <1>6
  <1>20. SumOver(PaidOn(fee'[s]), Terms) = SumOver(PaidOn(fee[s]), Terms) + SumOver(taken, Terms)
    <2>1. PICK f, h : f = PaidOn(fee[s]) /\ h = PaidOn(fee'[s])
      OBVIOUS
    <2>2. \A t \in Terms : f[t] \in Int /\ taken[t] \in Int
      <3>1. fee[s] \in [Terms -> Invoices]
        BY <1>2, <1>6
      <3> QED BY <1>8, <1>10, <2>1, <3>1, PaidOnTypes
    <2>3. ASSUME NEW t \in Terms PROVE h[t] = f[t] + taken[t]
      <3>1. CASE fee[s][t] = NoRow
        <4>1. fee'[s][t] = NoRow /\ taken[t] = 0
          BY <1>16, <1>18, <3>1
        <4> QED BY <2>1, <3>1, <4>1 DEF PaidOn
      <3>2. CASE fee[s][t] # NoRow
        <4>1. fee'[s][t] # NoRow /\ fee'[s][t].paid = fee[s][t].paid + taken[t]
          BY <1>16, <1>18, <3>2
        <4> QED BY <2>1, <3>2, <4>1 DEF PaidOn
      <3> QED BY <3>1, <3>2
    <2>4. SumOver(h, Terms) = SumOver(f, Terms) + SumOver(taken, Terms)
      BY <2>2, <2>3, SumOfChanges, InstituteAssumption
    <2> QED BY <2>1, <2>4
  <1>21. SumOver(LeftBy(feePayment', s), FeePayments)
           = SumOver(LeftBy(feePayment, s), FeePayments) + SumOver(taken, Terms)
    <2>1. PICK f, h : f = LeftBy(feePayment, s) /\ h = LeftBy(feePayment', s)
      OBVIOUS
    <2>2. \A q \in FeePayments : f[q] \in Int /\ h[q] \in Int
      BY <1>2, <1>6, <1>15, <2>1, LeftTypes
    <2>3. \A q \in FeePayments \ {p} : h[q] = f[q]
      BY <1>6, <1>15, <2>1 DEF LeftBy
    <2>4. f[p] = 0 /\ h[p] = SumOver(taken, Terms)
      BY <1>1, <1>2, <1>6, <1>12, <1>14, <1>15, <2>1 DEF LeftBy
    <2>5. SumOver(h, FeePayments) = SumOver(f, FeePayments) + h[p] - f[p]
      <3>1. IsFiniteSet(FeePayments)
        BY InstituteAssumption
      <3> QED BY <2>2, <2>3, <3>1, SumUpdate
    <2>6. SumOver(f, FeePayments) \in Int
      BY <2>2, InstituteAssumption, SumIsInteger
    <2> QED BY <1>11, <2>1, <2>4, <2>5, <2>6
  <1>22. \A z \in Pupils \ {s} : LeftBy(feePayment', z) = LeftBy(feePayment, z)
    BY <1>1, <1>2, <1>6, <1>14, <1>15 DEF LeftBy
  <1>23. feeCash' = SumOver(BroughtBy(feePayment'), FeePayments)
    <2>1. PICK f, h : f = BroughtBy(feePayment) /\ h = BroughtBy(feePayment')
      OBVIOUS
    <2>2. \A q \in FeePayments : f[q] \in Int /\ h[q] \in Int
      BY <1>6, <1>15, <2>1, LeftTypes
    <2>3. \A q \in FeePayments \ {p} : h[q] = f[q]
      BY <1>6, <1>15, <2>1 DEF BroughtBy
    <2>4. f[p] = 0 /\ h[p] = n
      BY <1>1, <1>2, <1>6, <1>14, <1>15, <2>1 DEF BroughtBy
    <2>5. SumOver(h, FeePayments) = SumOver(f, FeePayments) + h[p] - f[p]
      <3>1. IsFiniteSet(FeePayments)
        BY InstituteAssumption
      <3> QED BY <2>2, <2>3, <3>1, SumUpdate
    <2>6. feeCash = SumOver(f, FeePayments)
      BY <2>1 DEF FeesInv
    <2> QED BY <1>2, <1>5, <1>6, <2>1, <2>4, <2>5, <2>6
  <1>24. \A z \in Pupils : SumOver(PaidOn(fee'[z]), Terms) = SumOver(LeftBy(feePayment', z), FeePayments)
    <2>1. \A z \in Pupils : SumOver(PaidOn(fee[z]), Terms) = SumOver(LeftBy(feePayment, z), FeePayments)
      BY DEF FeesInv
    <2>2. SumOver(PaidOn(fee'[s]), Terms) = SumOver(LeftBy(feePayment', s), FeePayments)
      BY <1>2, <1>20, <1>21, <2>1
    <2> QED BY <1>19, <1>22, <2>1, <2>2
  <1>25. \A z \in Pupils, t \in Terms : StatusTells(fee'[z][t])
    BY <1>16, <1>18, <1>19 DEF FeesInv
  <1>26. feeCash' \in Nat
    BY <1>2, <1>5, <1>6
  <1> QED BY <1>5, <1>15, <1>17, <1>23, <1>24, <1>25, <1>26 DEF FeesInv

LEMMA FeesStep == FeesInv /\ [InstituteNext]_instituteVars => FeesInv'
  <1> SUFFICES ASSUME FeesInv, [InstituteNext]_instituteVars PROVE FeesInv'
    OBVIOUS
  <1>1. ASSUME NEW s \in Pupils, EnrolPupil(s) PROVE FeesInv'
    BY <1>1 DEF EnrolPupil, FeesInv, feeVars
  <1>2. ASSUME NEW t \in Terms, GenerateFees(t) PROVE FeesInv'
    BY <1>2, GenerateSafe
  <1>3. ASSUME NEW p \in FeePayments, NEW s \in Pupils, NEW n \in FeeSums, NEW x \in TrxIds \cup {NoTrx},
               SubmitFeePayment(p, s, n, x)
        PROVE  FeesInv'
    <2>1. PICK row : row = [pupil |-> s, amount |-> n, trx |-> x, advance |-> 0, status |-> "submitted"]
      OBVIOUS
    <2>2. row \in PaymentRows /\ row.status # "verified" /\ feePayment[p].status # "verified"
      BY <1>3, <2>1, RowTypes DEF SubmitFeePayment, PaymentRows
    <2>3. feePayment' = [feePayment EXCEPT ![p] = row] /\ UNCHANGED <<enrolled, fee, feeCash>>
      BY <1>3, <2>1 DEF SubmitFeePayment
    <2> QED BY <2>2, <2>3, PaymentWritten
  <1>4. ASSUME NEW p \in FeePayments, VerifyFeePayment(p) PROVE FeesInv'
    BY <1>4, VerifySafe
  <1>5. ASSUME NEW p \in FeePayments, RejectFeePayment(p) PROVE FeesInv'
    <2>1. PICK row : row = [feePayment[p] EXCEPT !.status = "rejected"]
      OBVIOUS
    <2>2. feePayment[p].status = "submitted" /\ feePayment[p] \in PaymentRows
      BY <1>5 DEF RejectFeePayment, FeesInv
    <2>3. row \in PaymentRows /\ row.status = "rejected"
      BY <2>1, <2>2, RowTypes DEF PaymentRows
    <2>4. feePayment' = [feePayment EXCEPT ![p] = row] /\ UNCHANGED <<enrolled, fee, feeCash>>
      BY <1>5, <2>1 DEF RejectFeePayment
    <2> QED BY <2>2, <2>3, <2>4, PaymentWritten
  <1>6. CASE ResultsNext
    <2>1. UNCHANGED <<enrolled, feeVars>>
      BY <1>6 DEF ResultsNext, OpenSheet, SaveMarks, SubmitSheet, StartReview, PublishResults, ReviewSheet,
                  ReturnSheet
    <2> QED BY <2>1 DEF FeesInv, feeVars
  <1>7. CASE UNCHANGED instituteVars
    BY <1>7 DEF FeesInv, instituteVars, feeVars
  <1> QED BY <1>1, <1>2, <1>3, <1>4, <1>5, <1>6, <1>7 DEF InstituteNext, FeesNext

\* The books as the property adds them up: over what is billed or verified.
LEMMA FeesFollow == FeesInv => FeesAgree
  <1> SUFFICES ASSUME FeesInv PROVE FeesAgree
    OBVIOUS
  <1>1. fee \in [Pupils -> [Terms -> Invoices]] /\ feePayment \in [FeePayments -> PaymentRows]
    BY DEF FeesInv
  <1>2. ASSUME NEW s \in Pupils
        PROVE  LET billed == {t \in Terms : fee[s][t] # NoRow}
               IN FeeTotal([t \in billed |-> fee[s][t].paid], billed)
                    = FeeTotal([p \in Verified(s) |-> feePayment[p].amount - feePayment[p].advance], Verified(s))
    <2>1. PICK B, V, f, h : /\ B = {t \in Terms : fee[s][t] # NoRow} /\ f = [t \in B |-> fee[s][t].paid]
                            /\ V = Verified(s) /\ h = [p \in V |-> feePayment[p].amount - feePayment[p].advance]
      OBVIOUS
    <2>2. SumOver(f, B) = SumOver(PaidOn(fee[s]), Terms)
      <3>1. B \in SUBSET Terms /\ IsFiniteSet(Terms)
        BY <2>1, InstituteAssumption
      <3>2. \A t \in B : f[t] = PaidOn(fee[s])[t]
        BY <2>1 DEF PaidOn
      <3>3. \A t \in Terms : PaidOn(fee[s])[t] \in Int
        BY <1>1, PaidOnTypes
      <3>4. \A t \in Terms \ B : PaidOn(fee[s])[t] = 0
        BY <2>1 DEF PaidOn
      <3> QED BY <3>1, <3>2, <3>3, <3>4, SumOfMembers
    <2>3. SumOver(h, V) = SumOver(LeftBy(feePayment, s), FeePayments)
      <3>1. V \in SUBSET FeePayments /\ IsFiniteSet(FeePayments)
        BY <2>1, InstituteAssumption DEF Verified
      <3>2. \A p \in V : h[p] = LeftBy(feePayment, s)[p]
        BY <2>1 DEF LeftBy, Verified
      <3>3. \A p \in FeePayments : LeftBy(feePayment, s)[p] \in Int
        BY <1>1, LeftTypes
      <3>4. \A p \in FeePayments \ V : LeftBy(feePayment, s)[p] = 0
        BY <2>1 DEF LeftBy, Verified
      <3> QED BY <3>1, <3>2, <3>3, <3>4, SumOfMembers
    <2>4. FeeTotal(f, B) = FeeTotal(h, V)
      BY <2>2, <2>3, FeeTotalIsSum DEF FeesInv
    <2> QED BY <2>1, <2>4
  <1>3. LET verified == UNION {Verified(s) : s \in Pupils}
        IN feeCash = FeeTotal([p \in verified |-> feePayment[p].amount], verified)
    <2>1. PICK V, h : V = UNION {Verified(s) : s \in Pupils} /\ h = [p \in V |-> feePayment[p].amount]
      OBVIOUS
    <2>2. V = {p \in FeePayments : feePayment[p].status = "verified"}
      <3>1. \A p \in FeePayments : feePayment[p].status = "verified" => feePayment[p].pupil \in Pupils
        BY <1>1, RowTypes
      <3> QED BY <2>1, <3>1 DEF Verified
    <2>3. V \in SUBSET FeePayments /\ IsFiniteSet(FeePayments)
      BY <2>2, InstituteAssumption
    <2>4. \A p \in V : h[p] = BroughtBy(feePayment)[p]
      BY <2>1, <2>2 DEF BroughtBy
    <2>5. \A p \in FeePayments : BroughtBy(feePayment)[p] \in Int
      BY <1>1, LeftTypes
    <2>6. \A p \in FeePayments \ V : BroughtBy(feePayment)[p] = 0
      BY <2>2 DEF BroughtBy
    <2>7. SumOver(h, V) = SumOver(BroughtBy(feePayment), FeePayments)
      BY <2>3, <2>4, <2>5, <2>6, SumOfMembers
    <2>8. feeCash = FeeTotal(h, V)
      BY <2>7, FeeTotalIsSum DEF FeesInv
    <2> QED BY <2>1, <2>8
  <1>4. \A s \in Pupils, t \in Terms : fee[s][t] # NoRow =>
          fee[s][t].status = (IF fee[s][t].paid = 0 THEN "open" ELSE IF fee[s][t].paid = Fee THEN "paid" ELSE "partial")
    BY DEF FeesInv, StatusTells
  <1> QED BY <1>2, <1>3, <1>4 DEF FeesAgree

-----------------------------------------------------------------------------
(* Report cards. *)

Publications == UNION {[E -> [Subjects -> Scores \cup {NoScore}]] : E \in SUBSET Pupils}
Shows(s, v) == v \in 1 .. Len(issued) /\ s \in DOMAIN issued[v]

CardsInv ==
  /\ issued \in Seq(Publications) /\ card \in [Pupils -> Nat]
  /\ \A s \in Pupils : /\ card[s] # 0 => Shows(s, card[s])
                       /\ \A v \in Nat : Shows(s, v) => v <= card[s]

LEMMA CardsStart == InstituteInit => CardsInv
  <1> SUFFICES ASSUME InstituteInit PROVE CardsInv
    OBVIOUS
  <1>1. issued = << >> /\ card = [s \in Pupils |-> 0]
    BY DEF InstituteInit
  <1> QED BY <1>1 DEF CardsInv, Shows

LEMMA PublishCards ==
  ASSUME CardsInv, ResultTypes, enrolled \subseteq Pupils, NEW o \in Offices, PublishResults(o)
  PROVE  CardsInv'
  <1>1. /\ issued' = Append(issued, Results)
        /\ card' = [s \in Pupils |-> IF s \in enrolled THEN Len(issued) + 1 ELSE card[s]]
    BY DEF PublishResults
  <1>2. Results \in [enrolled -> [Subjects -> Scores \cup {NoScore}]] /\ DOMAIN Results = enrolled
    BY DEF Results, ResultTypes, Sheets, Marks
  <1>3. Results \in Publications
    BY <1>2 DEF Publications
  <1>4. PICK q, r, n : q = issued /\ r = Results /\ n = Len(issued)
    OBVIOUS
  <1>5. q \in Seq(Publications) /\ r \in Publications /\ n \in Nat /\ Len(q) = n
    BY <1>3, <1>4 DEF CardsInv
  <1>6. /\ Append(q, r) \in Seq(Publications) /\ Len(Append(q, r)) = n + 1
        /\ Append(q, r)[n + 1] = r /\ \A v \in 1 .. n : Append(q, r)[v] = q[v]
    BY <1>5
  <1>7. issued' \in Seq(Publications) /\ Len(issued') = n + 1 /\ issued'[n + 1] = r
        /\ \A v \in 1 .. n : issued'[v] = issued[v]
    BY <1>1, <1>4, <1>6
  <1>8. card' \in [Pupils -> Nat]
    BY <1>1, <1>4, <1>5 DEF CardsInv
  <1>9. ASSUME NEW s \in Pupils
        PROVE  /\ card'[s] # 0 => Shows(s, card[s])'
               /\ \A v \in Nat : Shows(s, v)' => v <= card'[s]
    <2>1. \A v \in Nat : Shows(s, v)' <=> (v = n + 1 /\ s \in enrolled) \/ Shows(s, v)
      BY <1>2, <1>4, <1>5, <1>7 DEF Shows
    <2>2. CASE s \in enrolled
      <3>1. card'[s] = n + 1
        BY <1>1, <1>4, <2>2
      <3>2. \A v \in Nat : Shows(s, v) => v <= n
        BY <1>4, <1>5 DEF Shows
      <3> QED BY <1>2, <1>4, <1>5, <1>7, <2>1, <2>2, <3>1, <3>2 DEF Shows
    <2>3. CASE s \notin enrolled
      <3>1. card'[s] = card[s] /\ card[s] \in Nat
        BY <1>1, <2>3 DEF CardsInv
      <3> QED BY <1>4, <1>5, <1>7, <2>1, <2>3, <3>1 DEF CardsInv, Shows
    <2> QED BY <2>2, <2>3
  <1> QED BY <1>7, <1>8, <1>9 DEF CardsInv

LEMMA CardsStep == FeesInv /\ ResultInv /\ CardsInv /\ [InstituteNext]_instituteVars => CardsInv'
  <1> SUFFICES ASSUME FeesInv, ResultInv, CardsInv, [InstituteNext]_instituteVars PROVE CardsInv'
    OBVIOUS
  <1>1. ASSUME NEW o \in Offices, PublishResults(o) PROVE CardsInv'
    BY <1>1, PublishCards DEF FeesInv, ResultInv
  <1>2. ASSUME UNCHANGED <<issued, card>> PROVE CardsInv'
    BY <1>2 DEF CardsInv, Shows
  <1>3. ASSUME NEW s \in Pupils, EnrolPupil(s) PROVE CardsInv'
    BY <1>2, <1>3 DEF EnrolPupil, resultVars
  <1>4. CASE FeesNext
    BY <1>2, <1>4 DEF FeesNext, GenerateFees, SubmitFeePayment, VerifyFeePayment, RejectFeePayment, resultVars
  <1>5. CASE ResultsNext
    BY <1>1, <1>2, <1>5 DEF ResultsNext, OpenSheet, SaveMarks, SubmitSheet, StartReview, ReviewSheet, ReturnSheet
  <1>6. CASE UNCHANGED instituteVars
    BY <1>2, <1>6 DEF instituteVars, resultVars
  <1> QED BY <1>3, <1>4, <1>5, <1>6 DEF InstituteNext

LEMMA CardsFollow == CardsInv => CardsCurrent
  <1> SUFFICES ASSUME CardsInv, NEW s \in Pupils
               PROVE  LET with == {v \in DOMAIN issued : s \in DOMAIN issued[v]}
                      IN card[s] = IF with = {} THEN 0 ELSE Max(with)
    BY DEF CardsCurrent
  <1>1. PICK W : W = {v \in DOMAIN issued : s \in DOMAIN issued[v]}
    OBVIOUS
  <1>2. DOMAIN issued = 1 .. Len(issued) /\ Len(issued) \in Nat /\ card[s] \in Nat
    BY DEF CardsInv
  <1>3. W \subseteq Nat \ {0} /\ \A v \in Nat : Shows(s, v) <=> v \in W
    BY <1>1, <1>2 DEF Shows
  <1>4. (card[s] # 0 => card[s] \in W) /\ \A v \in W : v <= card[s]
    BY <1>2, <1>3 DEF CardsInv
  <1>5. CASE W = {}
    BY <1>1, <1>4, <1>5
  <1>6. CASE W # {}
    <2>1. card[s] \in W
      <3>1. PICK v \in W : TRUE
        BY <1>6
      <3>2. v \in Nat /\ v # 0 /\ v <= card[s]
        BY <1>3, <1>4
      <3> QED BY <1>2, <1>4, <3>2
    <2>2. \A m \in W : (\A v \in W : m >= v) => m = card[s]
      BY <1>2, <1>3, <1>4, <2>1
    <2>3. \A v \in W : card[s] >= v
      BY <1>2, <1>3, <1>4
    <2>4. Max(W) = card[s]
      BY <2>1, <2>2, <2>3 DEF Max
    <2> QED BY <1>1, <1>6, <2>4
  <1> QED BY <1>5, <1>6

LEMMA InstituteIsTyped == FeesInv /\ ResultInv /\ CardsInv => InstituteTypeOK
  <1> SUFFICES ASSUME FeesInv, ResultInv, CardsInv PROVE InstituteTypeOK
    OBVIOUS
  <1>1. DOMAIN issued \subseteq Nat
    BY DEF CardsInv
  <1> QED BY <1>1 DEF FeesInv, ResultInv, ResultTypes, CardsInv, InstituteTypeOK

\* Whatever is paid, verified, marked, returned, handed in again and published:
\* every sum a verified payment brought is on an invoice or an advance of its
\* pupil, no marks are lost or published unseen, and a report card shows the
\* latest publication that has the pupil (institute.routes.ts).
THEOREM InstituteIsSound == InstituteSpec => [](InstituteTypeOK /\ InstituteHolds)
  <1>1. FeesInv /\ ResultInv /\ CardsInv => InstituteTypeOK /\ FeesAgree /\ CardsCurrent
    BY FeesFollow, CardsFollow, InstituteIsTyped
  <1>2. InstituteInit => FeesInv /\ ResultInv /\ CardsInv
    BY FeesStart, CardsStart, ResultsInit
  <1>3. InstituteSpec => [](FeesInv /\ ResultInv /\ CardsInv)
    BY <1>2, FeesStep, ResultsStep, CardsStep, PTL DEF InstituteSpec
  <1>4. InstituteTypeOK /\ FeesAgree /\ CardsCurrent /\ MarksNotLost /\ PublishedAsSeen
          => InstituteTypeOK /\ InstituteHolds
    BY DEF InstituteHolds
  <1> QED BY <1>1, <1>3, <1>4, ResultsAsSeen, PTL

-----------------------------------------------------------------------------
(* Contracts.  The argument: a bill is approved only if the contract still *)
(* stands where the bill starts and the bill still comes to what was       *)
(* requested, so that approved bills follow one another without a gap; and *)
(* waste leaves the pool when a bill takes it and returns with that bill.  *)

LEMMA SumOfIsSum == ASSUME NEW f, NEW S PROVE SumOf(f, S) = SumOver(f, S)
  BY DEF SumOf, SumOver

SignedRow ==
  [mode : {"lump_sum", "item_rate"}, by : Engineers,
   status : {"pending", "active", "rejected", "suspended", "closed"},
   revised : Nat, certified : Nat, done : 0 .. Quantity, held : Int, released : Nat,
   advance : Nat, recovered : Nat]
CertificateRow ==
  [contract : Contracts, by : Engineers, status : {"pending", "approved", "rejected"},
   previous : Nat, cumulative : Nat, before : 0 .. Quantity, done : 0 .. Quantity,
   retention : Int, recovery : Nat, deducted : Nat, net : Nat, paid : Nat]
ChargeRow ==
  [status : {"charged"}, contract : Contracts, value : ContractSums, bill : RunningBills \cup {NoBill}]
OrderRow ==
  [contract : Contracts, by : Engineers, amount : Int, status : {"pending", "approved", "rejected"}]

\* What an approved bill adds to its contract.
Counts(row, c) == row.status = "approved" /\ row.contract = c
CertifiedOf(cert, c) ==
  [b \in RunningBills |-> IF Counts(cert[b], c) THEN cert[b].cumulative - cert[b].previous ELSE 0]
HeldOf(cert, c) == [b \in RunningBills |-> IF Counts(cert[b], c) THEN cert[b].retention ELSE 0]
RecoveredOf(cert, c) == [b \in RunningBills |-> IF Counts(cert[b], c) THEN cert[b].recovery ELSE 0]
SharesAgree(row, cert, c) ==
  /\ row.certified = SumOver(CertifiedOf(cert, c), RunningBills)
  /\ row.held = SumOver(HeldOf(cert, c), RunningBills)
  /\ row.recovered = SumOver(RecoveredOf(cert, c), RunningBills)

DeductedBy(w, b) == [e \in WasteEntries |-> IF w[e] # NoAgreement /\ w[e].bill = b THEN w[e].value ELSE 0]
PaidOutOf(con) == [c \in Contracts |-> IF con[c] = NoAgreement THEN 0 ELSE con[c].advance + con[c].released]
PaidBills(cert) == [b \in RunningBills |-> IF cert[b].status = "approved" THEN cert[b].paid ELSE 0]

\* One contract, and one bill beside the contracts it is read with.
ContractSound(row) ==
  /\ row.certified <= row.revised /\ row.recovered <= row.advance /\ row.released <= row.held
  /\ row.mode = "item_rate" => row.certified = WorkValue(row.done) /\ row.held = Retained(row.certified)
  /\ row.status = "closed" => row.certified = row.revised /\ row.advance = row.recovered
BillSound(row, con) ==
  row # NoAgreement =>
    /\ con[row.contract] # NoAgreement
    /\ con[row.contract].mode = "item_rate" => row.cumulative = WorkValue(row.done)
    /\ row.retention >= 0 /\ (row.status = "pending" => row.paid = 0)
    /\ row.status = "approved" => row.cumulative <= con[row.contract].certified

BillsChain(cert) ==
  \A a, b \in RunningBills :
    a # b /\ cert[a].status = "approved" /\ cert[b].status = "approved" /\ cert[a].contract = cert[b].contract
      => cert[a].cumulative <= cert[b].previous \/ cert[b].cumulative <= cert[a].previous

WasteAgrees(w, cert) ==
  /\ \A e \in WasteEntries : w[e] # NoAgreement /\ w[e].bill \in RunningBills =>
       cert[w[e].bill].status \in {"pending", "approved"}
  /\ \A b \in RunningBills : cert[b].status \in {"pending", "approved"} =>
       cert[b].deducted = SumOver(DeductedBy(w, b), WasteEntries)

ContractsInv ==
  /\ ContractsTypeOK
  /\ \A c \in Contracts : contract[c] # NoAgreement =>
       ContractSound(contract[c]) /\ SharesAgree(contract[c], certificate, c)
  /\ \A b \in RunningBills : BillSound(certificate[b], contract)
  /\ BillsChain(certificate)
  /\ WasteAgrees(waste, certificate)
  /\ SiteCash - siteCash = SumOver(PaidOutOf(contract), Contracts) + SumOver(PaidBills(certificate), RunningBills)

LEMMA AgreementTypes ==
  /\ ContractRows = {NoAgreement} \cup SignedRow /\ CertificateRows = {NoAgreement} \cup CertificateRow
  /\ WasteRows = {NoAgreement} \cup ChargeRow /\ ChangeRows = {NoAgreement} \cup OrderRow
  /\ NoAgreement.status = "none" /\ NoAgreement \notin SignedRow
  /\ NoAgreement \notin CertificateRow /\ NoAgreement \notin ChargeRow
  <1>1. ContractRows = {NoAgreement} \cup SignedRow
    BY DEF ContractRows, SignedRow
  <1>2. CertificateRows = {NoAgreement} \cup CertificateRow
    BY DEF CertificateRows, CertificateRow
  <1>3. WasteRows = {NoAgreement} \cup ChargeRow
    BY DEF WasteRows, ChargeRow
  <1>4. ChangeRows = {NoAgreement} \cup OrderRow
    BY DEF ChangeRows, OrderRow
  <1>5. NoAgreement.status = "none"
    BY DEF NoAgreement
  <1>6. NoAgreement \notin SignedRow
    BY <1>5 DEF SignedRow
  <1>7. NoAgreement \notin CertificateRow /\ NoAgreement \notin ChargeRow
    BY <1>5 DEF CertificateRow, ChargeRow
  <1> QED BY <1>1, <1>2, <1>3, <1>4, <1>5, <1>6, <1>7

LEMMA WorkTypes ==
  /\ \A q \in Nat : WorkValue(q) \in Nat
  /\ \A n \in Int : Retained(n) \in Int
  /\ WorkValue(0) = 0 /\ Retained(0) = 0
  <1>1. HalfRate \in Nat /\ RetentionBps \in Nat
    BY ContractAssumption
  <1>2. ASSUME NEW q \in Nat PROVE WorkValue(q) \in Nat
    <2>1. PICK m : m = q * HalfRate
      OBVIOUS
    <2>2. m \in Nat
      BY <1>1, <2>1
    <2>3. (m + 1) \div 2 \in Nat
      BY <2>2
    <2> QED BY <2>1, <2>3 DEF WorkValue
  <1>3. ASSUME NEW n \in Int PROVE Retained(n) \in Int
    <2>1. PICK m : m = n * RetentionBps
      OBVIOUS
    <2>2. m \in Int
      BY <1>1, <2>1
    <2>3. (m + 5000) \div 10000 \in Int
      BY <2>2
    <2> QED BY <2>1, <2>3 DEF Retained
  <1>4. WorkValue(0) = 0
    <2>1. 0 * HalfRate = 0 /\ (0 + 1) \div 2 = 0
      BY <1>1
    <2> QED BY <2>1 DEF WorkValue
  <1>5. Retained(0) = 0
    <2>1. 0 * RetentionBps = 0 /\ (0 + 5000) \div 10000 = 0
      BY <1>1
    <2> QED BY <2>1 DEF Retained
  <1> QED BY <1>2, <1>3, <1>4, <1>5

LEMMA ContractFinite == IsFiniteSet(Contracts) /\ IsFiniteSet(RunningBills) /\ IsFiniteSet(WasteEntries)
  BY ContractAssumption

LEMMA ShareTypes ==
  ASSUME NEW cert \in [RunningBills -> CertificateRows], NEW c, NEW b \in RunningBills
  PROVE  /\ CertifiedOf(cert, c)[b] \in Int /\ HeldOf(cert, c)[b] \in Int /\ RecoveredOf(cert, c)[b] \in Int
         /\ PaidBills(cert)[b] \in Int
  <1>1. cert[b].status = "approved" => cert[b] \in CertificateRow
    BY AgreementTypes
  <1>2. cert[b].status = "approved" =>
          /\ cert[b].cumulative \in Nat /\ cert[b].previous \in Nat /\ cert[b].retention \in Int
          /\ cert[b].recovery \in Nat /\ cert[b].paid \in Nat
    BY <1>1 DEF CertificateRow
  <1> QED BY <1>2 DEF CertifiedOf, HeldOf, RecoveredOf, PaidBills, Counts

LEMMA DeductedTypes ==
  ASSUME NEW w \in [WasteEntries -> WasteRows], NEW b, NEW e \in WasteEntries
  PROVE  DeductedBy(w, b)[e] \in Nat
  <1>1. w[e] # NoAgreement => w[e] \in ChargeRow
    BY AgreementTypes
  <1>2. w[e] # NoAgreement => w[e].value \in Nat
    <2>1. w[e] # NoAgreement => w[e].value \in ContractSums
      BY <1>1 DEF ChargeRow
    <2>2. ContractSums \subseteq Nat \ {0}
      BY ContractAssumption
    <2> QED BY <2>1, <2>2
  <1> QED BY <1>2 DEF DeductedBy

LEMMA PaidOutTypes ==
  ASSUME NEW con \in [Contracts -> ContractRows], NEW c \in Contracts
  PROVE  PaidOutOf(con)[c] \in Int
  <1>1. con[c] # NoAgreement => con[c] \in SignedRow
    BY AgreementTypes
  <1> QED BY <1>1 DEF PaidOutOf, SignedRow

LEMMA ContractsStart == ContractsInit => ContractsInv
  <1> SUFFICES ASSUME ContractsInit PROVE ContractsInv
    OBVIOUS
  <1>1. /\ contract = [c \in Contracts |-> NoAgreement] /\ certificate = [b \in RunningBills |-> NoAgreement]
        /\ waste = [e \in WasteEntries |-> NoAgreement] /\ change = [o \in ChangeOrders |-> NoAgreement]
        /\ siteCash = SiteCash /\ SiteCash \in Nat
    BY ContractAssumption DEF ContractsInit
  <1>2. ContractsTypeOK
    BY <1>1 DEF ContractsTypeOK, ContractRows, CertificateRows, WasteRows, ChangeRows
  <1>3. SumOver(PaidOutOf(contract), Contracts) = 0
    <2>1. \A c \in Contracts : PaidOutOf(contract)[c] = 0
      BY <1>1 DEF PaidOutOf
    <2> QED BY <2>1, ContractFinite, SumOfZeros
  <1>4. SumOver(PaidBills(certificate), RunningBills) = 0
    <2>1. \A b \in RunningBills : PaidBills(certificate)[b] = 0
      BY <1>1, AgreementTypes DEF PaidBills
    <2> QED BY <2>1, ContractFinite, SumOfZeros
  <1>5. BillsChain(certificate) /\ WasteAgrees(waste, certificate)
    BY <1>1, AgreementTypes DEF BillsChain, WasteAgrees
  <1>6. \A b \in RunningBills : BillSound(certificate[b], contract)
    BY <1>1 DEF BillSound
  <1> QED BY <1>1, <1>2, <1>3, <1>4, <1>5, <1>6 DEF ContractsInv

-----------------------------------------------------------------------------
(* A step that writes one contract. *)

ContractStep(c, row) ==
  /\ contract' = [contract EXCEPT ![c] = row] /\ UNCHANGED <<certificate, waste>>
  /\ row \in SignedRow /\ ContractSound(row)
  /\ contract[c] = NoAgreement => row.certified = 0 /\ row.held = 0 /\ row.recovered = 0
                                  /\ row.advance = 0 /\ row.released = 0 /\ siteCash' = siteCash
  /\ contract[c] # NoAgreement =>
       /\ row.mode = contract[c].mode /\ row.certified = contract[c].certified
       /\ row.held = contract[c].held /\ row.recovered = contract[c].recovered
       /\ siteCash' = siteCash - (row.advance + row.released - contract[c].advance - contract[c].released)
  /\ siteCash' \in Nat
  /\ change' \in [ChangeOrders -> ChangeRows]

LEMMA ContractWritten ==
  ASSUME ContractsInv, NEW c \in Contracts, NEW row, ContractStep(c, row)
  PROVE  ContractsInv'
  <1>1. /\ contract' = [contract EXCEPT ![c] = row] /\ certificate' = certificate /\ waste' = waste
        /\ row \in SignedRow /\ ContractSound(row) /\ siteCash' \in Nat
        /\ change' \in [ChangeOrders -> ChangeRows]
    BY DEF ContractStep
  <1>2. /\ contract \in [Contracts -> ContractRows] /\ certificate \in [RunningBills -> CertificateRows]
        /\ waste \in [WasteEntries -> WasteRows] /\ siteCash \in Nat
    BY DEF ContractsInv, ContractsTypeOK
  <1>3. contract' \in [Contracts -> ContractRows] /\ \A z \in Contracts : contract'[z] = IF z = c THEN row ELSE contract[z]
    BY <1>1, <1>2, AgreementTypes
  <1>4. row # NoAgreement
    BY <1>1, AgreementTypes
  <1>5. ContractsTypeOK'
    BY <1>1, <1>2, <1>3 DEF ContractsTypeOK
  <1>6. ASSUME NEW b \in RunningBills, certificate[b] # NoAgreement
        PROVE  certificate[b].contract \in Contracts /\ contract[certificate[b].contract] # NoAgreement
    <2>1. certificate[b] \in CertificateRow
      BY <1>2, <1>6, AgreementTypes
    <2> QED BY <1>6, <2>1 DEF ContractsInv, BillSound, CertificateRow
  <1>7. SharesAgree(row, certificate, c)
    <2>1. CASE contract[c] = NoAgreement
      <3>1. \A b \in RunningBills : ~Counts(certificate[b], c)
        BY <1>6, <2>1, AgreementTypes DEF Counts
      <3>2. \A b \in RunningBills : /\ CertifiedOf(certificate, c)[b] = 0 /\ HeldOf(certificate, c)[b] = 0
                                    /\ RecoveredOf(certificate, c)[b] = 0
        BY <3>1 DEF CertifiedOf, HeldOf, RecoveredOf
      <3>3. SumOver(CertifiedOf(certificate, c), RunningBills) = 0
        BY <3>2, ContractFinite, SumOfZeros
      <3>4. SumOver(HeldOf(certificate, c), RunningBills) = 0
        BY <3>2, ContractFinite, SumOfZeros
      <3>5. SumOver(RecoveredOf(certificate, c), RunningBills) = 0
        BY <3>2, ContractFinite, SumOfZeros
      <3>6. row.certified = 0 /\ row.held = 0 /\ row.recovered = 0
        BY <2>1 DEF ContractStep
      <3> QED BY <3>3, <3>4, <3>5, <3>6 DEF SharesAgree
    <2>2. CASE contract[c] # NoAgreement
      <3>1. row.certified = contract[c].certified /\ row.held = contract[c].held /\ row.recovered = contract[c].recovered
        BY <2>2 DEF ContractStep
      <3>2. SharesAgree(contract[c], certificate, c)
        BY <2>2 DEF ContractsInv
      <3> QED BY <3>1, <3>2 DEF SharesAgree
    <2> QED BY <2>1, <2>2
  <1>8. \A z \in Contracts : contract'[z] # NoAgreement =>
          ContractSound(contract'[z]) /\ SharesAgree(contract'[z], certificate', z)
    BY <1>1, <1>3, <1>7 DEF ContractsInv
  <1>9. ASSUME NEW b \in RunningBills PROVE BillSound(certificate'[b], contract')
    <2> SUFFICES ASSUME certificate[b] # NoAgreement PROVE BillSound(certificate[b], contract')
      BY <1>1 DEF BillSound
    <2>1. PICK z : z = certificate[b].contract
      OBVIOUS
    <2>2. z \in Contracts /\ contract[z] # NoAgreement /\ BillSound(certificate[b], contract)
      BY <1>6, <2>1 DEF ContractsInv
    <2>3. contract'[z] # NoAgreement /\ contract'[z].mode = contract[z].mode /\ contract'[z].certified = contract[z].certified
      BY <1>3, <1>4, <2>2 DEF ContractStep
    <2> QED BY <2>1, <2>2, <2>3 DEF BillSound
  <1>10. SumOver(PaidOutOf(contract'), Contracts)
           = SumOver(PaidOutOf(contract), Contracts) + siteCash - siteCash'
    <2>1. PICK f, g : f = PaidOutOf(contract) /\ g = PaidOutOf(contract')
      OBVIOUS
    <2>2. \A z \in Contracts : f[z] \in Int /\ g[z] \in Int
      BY <1>2, <1>3, <2>1, PaidOutTypes
    <2>3. \A z \in Contracts \ {c} : g[z] = f[z]
      BY <1>3, <2>1 DEF PaidOutOf
    <2>4. SumOver(g, Contracts) = SumOver(f, Contracts) + g[c] - f[c]
      BY <2>2, <2>3, ContractFinite, SumUpdate
    <2>5. g[c] = row.advance + row.released /\ row.advance \in Nat /\ row.released \in Nat
      BY <1>1, <1>3, <1>4, <2>1 DEF PaidOutOf, SignedRow
    <2>6. g[c] - f[c] = siteCash - siteCash'
      <3>1. CASE contract[c] = NoAgreement
        BY <1>2, <2>1, <2>5, <3>1 DEF ContractStep, PaidOutOf
      <3>2. CASE contract[c] # NoAgreement
        <4>1. f[c] = contract[c].advance + contract[c].released
          BY <2>1, <3>2 DEF PaidOutOf
        <4>2. contract[c].advance \in Nat /\ contract[c].released \in Nat
          BY <1>2, <3>2, AgreementTypes DEF SignedRow
        <4>3. siteCash' = siteCash - (row.advance + row.released - contract[c].advance - contract[c].released)
          BY <3>2 DEF ContractStep
        <4> QED BY <1>2, <2>5, <4>1, <4>2, <4>3
      <3> QED BY <3>1, <3>2
    <2>7. SumOver(f, Contracts) \in Int
      BY <2>2, ContractFinite, SumIsInteger
    <2> QED BY <1>1, <1>2, <2>1, <2>2, <2>4, <2>6, <2>7
  <1>11. SiteCash - siteCash' = SumOver(PaidOutOf(contract'), Contracts) + SumOver(PaidBills(certificate'), RunningBills)
    <2>1. SumOver(PaidBills(certificate), RunningBills) \in Int
      <3>1. \A b \in RunningBills : PaidBills(certificate)[b] \in Int
        BY <1>2, ShareTypes
      <3> QED BY <3>1, ContractFinite, SumIsInteger
    <2>2. SumOver(PaidOutOf(contract), Contracts) \in Int
      <3>1. \A z \in Contracts : PaidOutOf(contract)[z] \in Int
        BY <1>2, PaidOutTypes
      <3> QED BY <3>1, ContractFinite, SumIsInteger
    <2>3. SiteCash - siteCash = SumOver(PaidOutOf(contract), Contracts) + SumOver(PaidBills(certificate), RunningBills)
      BY DEF ContractsInv
    <2> QED BY <1>1, <1>2, <1>10, <2>1, <2>2, <2>3, ContractAssumption
  <1>12. BillsChain(certificate') /\ WasteAgrees(waste', certificate')
    BY <1>1 DEF ContractsInv
  <1> QED BY <1>5, <1>8, <1>9, <1>11, <1>12 DEF ContractsInv

LEMMA ContractsKept ==
  ASSUME ContractsInv, UNCHANGED <<contract, certificate, waste, siteCash>>,
         change' \in [ChangeOrders -> ChangeRows]
  PROVE  ContractsInv'
  BY DEF ContractsInv, ContractsTypeOK

LEMMA MoneySpent ==
  ASSUME ContractsInv, NEW n \in Nat, Spent(n)
  PROVE  siteCash' = siteCash - n /\ siteCash' \in Nat
  BY DEF Spent, ContractsInv, ContractsTypeOK

LEMMA ContractTyped ==
  ASSUME ContractsInv, NEW c \in Contracts, contract[c] # NoAgreement
  PROVE  /\ contract[c] \in SignedRow /\ ContractSound(contract[c]) /\ SharesAgree(contract[c], certificate, c)
         /\ contract[c].revised \in Nat /\ contract[c].certified \in Nat /\ contract[c].held \in Int
         /\ contract[c].released \in Nat /\ contract[c].advance \in Nat /\ contract[c].recovered \in Nat
         /\ contract[c].done \in 0 .. Quantity /\ contract[c].mode \in {"lump_sum", "item_rate"}
         /\ contract[c].status \in {"pending", "active", "rejected", "suspended", "closed"}
  <1>1. contract[c] \in SignedRow
    BY AgreementTypes DEF ContractsInv, ContractsTypeOK
  <1> QED BY <1>1 DEF ContractsInv, SignedRow

LEMMA SignStep ==
  ASSUME ContractsInv, NEW c \in Contracts, NEW u \in Engineers, SignContract(c, u)
  PROVE  ContractsInv'
  <1>1. /\ contract[c] = NoAgreement /\ UNCHANGED <<certificate, waste, change, siteCash>>
        /\ siteCash \in Nat /\ change \in [ChangeOrders -> ChangeRows]
    BY DEF SignContract, Unwritten, ContractsInv, ContractsTypeOK
  <1>2. Quantity \in Nat \ {0} /\ LumpSum \in Nat /\ WorkValue(Quantity) \in Nat
    BY ContractAssumption, WorkTypes
  <1>3. \/ contract' = [contract EXCEPT ![c] = Agreed(u, "lump_sum", LumpSum, "active")]
        \/ contract' = [contract EXCEPT ![c] = Agreed(u, "item_rate", WorkValue(Quantity), "pending")]
    BY DEF SignContract
  <1>4. PICK kind \in {"lump_sum", "item_rate"}, amount \in Nat, state \in {"active", "pending"} :
          contract' = [contract EXCEPT ![c] = Agreed(u, kind, amount, state)]
    BY <1>2, <1>3
  <1> DEFINE row == Agreed(u, kind, amount, state)
  <1>5. row \in SignedRow
    BY <1>2, <1>4 DEF Agreed, SignedRow
  <1>6. /\ row.certified = 0 /\ row.held = 0 /\ row.recovered = 0 /\ row.advance = 0 /\ row.released = 0
        /\ row.done = 0 /\ row.revised = amount /\ row.status = state
    BY <1>4 DEF Agreed
  <1>7. ContractSound(row)
    BY <1>4, <1>6, WorkTypes DEF ContractSound
  <1>8. ContractStep(c, row)
    BY <1>1, <1>4, <1>5, <1>6, <1>7 DEF ContractStep
  <1> QED BY <1>8, ContractWritten

\* A step that changes the state of a signed contract only.
LEMMA StatusWritten ==
  ASSUME ContractsInv, NEW c \in Contracts, contract[c] # NoAgreement,
         NEW to \in {"active", "rejected", "suspended", "closed"}, to = "closed" => Closable(c),
         contract' = [contract EXCEPT ![c].status = to], UNCHANGED <<certificate, waste, change, siteCash>>
  PROVE  ContractsInv'
  <1>1. PICK row : row = [contract[c] EXCEPT !.status = to]
    OBVIOUS
  <1>2. contract' = [contract EXCEPT ![c] = row]
    BY <1>1
  <1>3. row \in SignedRow
    BY <1>1, ContractTyped DEF SignedRow
  <1>4. /\ row.certified = contract[c].certified /\ row.held = contract[c].held
        /\ row.recovered = contract[c].recovered /\ row.advance = contract[c].advance
        /\ row.released = contract[c].released /\ row.done = contract[c].done
        /\ row.revised = contract[c].revised /\ row.mode = contract[c].mode /\ row.status = to
    BY <1>1, ContractTyped DEF SignedRow
  <1>5. ContractSound(row)
    BY <1>4, ContractTyped DEF ContractSound, Closable
  <1>6. /\ siteCash' \in Nat /\ change' \in [ChangeOrders -> ChangeRows]
        /\ siteCash' = siteCash - (row.advance + row.released - contract[c].advance - contract[c].released)
    <2>1. contract[c].advance \in Nat /\ contract[c].released \in Nat
      BY ContractTyped
    <2> QED BY <1>4, <2>1 DEF ContractsInv, ContractsTypeOK
  <1>7. ContractStep(c, row)
    BY <1>2, <1>3, <1>4, <1>5, <1>6 DEF ContractStep
  <1> QED BY <1>7, ContractWritten

LEMMA DecideStep ==
  ASSUME ContractsInv, NEW c \in Contracts, NEW u \in Engineers, NEW yes \in BOOLEAN, DecideContract(c, u, yes)
  PROVE  ContractsInv'
  <1>1. PICK to : to = IF yes THEN "active" ELSE "rejected"
    OBVIOUS
  <1>2. contract[c] # NoAgreement
    BY AgreementTypes DEF DecideContract
  <1>3. contract' = [contract EXCEPT ![c].status = to] /\ UNCHANGED <<certificate, waste, change, siteCash>>
    BY <1>1 DEF DecideContract
  <1>4. to \in {"active", "rejected", "suspended", "closed"} /\ (to = "closed" => Closable(c))
    BY <1>1
  <1> QED BY <1>2, <1>3, <1>4, StatusWritten

LEMMA ChangeStatusStep ==
  ASSUME ContractsInv, NEW c \in Contracts, NEW to \in {"active", "suspended", "closed"},
         ChangeContractStatus(c, to)
  PROVE  ContractsInv'
  <1>1. /\ contract[c] # NoAgreement /\ (to = "closed" => Closable(c))
        /\ contract' = [contract EXCEPT ![c].status = to] /\ UNCHANGED <<certificate, waste, change, siteCash>>
    BY DEF ChangeContractStatus
  <1>2. to \in {"active", "rejected", "suspended", "closed"}
    OBVIOUS
  <1> QED BY <1>1, <1>2, StatusWritten

LEMMA ApproveChangeStep ==
  ASSUME ContractsInv, NEW o \in ChangeOrders, NEW u \in Engineers, ApproveChange(o, u)
  PROVE  ContractsInv'
  <1>1. PICK c, amount : c = change[o].contract /\ amount = contract[c].revised + change[o].amount
    OBVIOUS
  <1>2. /\ change[o].status = "pending" /\ InForce(c)
        /\ amount >= Max({contract[c].certified, contract[c].advance})
        /\ contract' = [contract EXCEPT ![c].revised = amount]
        /\ change' = [change EXCEPT ![o].status = "approved"] /\ UNCHANGED <<certificate, waste, siteCash>>
    BY <1>1 DEF ApproveChange
  <1>3. change \in [ChangeOrders -> ChangeRows] /\ change[o] \in OrderRow
    BY <1>2, AgreementTypes DEF ContractsInv, ContractsTypeOK
  <1>4. c \in Contracts /\ change[o].amount \in Int
    BY <1>1, <1>3 DEF OrderRow
  <1>5. contract[c] # NoAgreement
    BY <1>2, AgreementTypes DEF InForce
  <1>6. contract[c].certified \in Nat /\ contract[c].advance \in Nat /\ contract[c].revised \in Nat
    BY <1>4, <1>5, ContractTyped
  <1>7. amount \in Nat /\ contract[c].certified <= amount
    <2>1. amount \in Int
      BY <1>1, <1>4, <1>6
    <2>2. contract[c].certified <= Max({contract[c].certified, contract[c].advance})
          /\ Max({contract[c].certified, contract[c].advance}) \in Nat
      <3> PICK a, b : a = contract[c].certified /\ b = contract[c].advance
        OBVIOUS
      <3>1. a \in Nat /\ b \in Nat
        BY <1>6
      <3>2. Max({a, b}) = IF a >= b THEN a ELSE b
        BY <3>1 DEF Max
      <3> QED BY <3>1, <3>2
    <2> QED BY <1>2, <1>6, <2>1, <2>2
  <1>8. PICK row : row = [contract[c] EXCEPT !.revised = amount]
    OBVIOUS
  <1>9. row \in SignedRow /\ contract' = [contract EXCEPT ![c] = row]
    BY <1>2, <1>4, <1>5, <1>7, <1>8, ContractTyped DEF SignedRow
  <1>10. /\ row.certified = contract[c].certified /\ row.held = contract[c].held
         /\ row.recovered = contract[c].recovered /\ row.advance = contract[c].advance
         /\ row.released = contract[c].released /\ row.done = contract[c].done
         /\ row.revised = amount /\ row.mode = contract[c].mode /\ row.status = contract[c].status
    BY <1>4, <1>5, <1>8, ContractTyped DEF SignedRow
  <1>11. ContractSound(row)
    BY <1>2, <1>4, <1>5, <1>7, <1>10, ContractTyped DEF ContractSound, InForce
  <1>12. /\ siteCash' \in Nat
         /\ siteCash' = siteCash - (row.advance + row.released - contract[c].advance - contract[c].released)
    <2>1. contract[c].advance \in Nat /\ contract[c].released \in Nat
      BY <1>4, <1>5, ContractTyped
    <2> QED BY <1>2, <1>10, <2>1 DEF ContractsInv, ContractsTypeOK
  <1>13. change' \in [ChangeOrders -> ChangeRows]
    <2>1. [change[o] EXCEPT !.status = "approved"] \in OrderRow
      BY <1>3 DEF OrderRow
    <2> QED BY <1>2, <1>3, <2>1, AgreementTypes
  <1>14. ContractStep(c, row)
    BY <1>2, <1>5, <1>9, <1>10, <1>11, <1>12, <1>13 DEF ContractStep
  <1> QED BY <1>4, <1>14, ContractWritten

LEMMA OtherChangeSteps ==
  ASSUME ContractsInv, NEW o \in ChangeOrders, NEW u \in Engineers,
         \/ \E c \in Contracts, n \in ContractSums : RequestChange(o, c, u, n) \/ RequestChange(o, c, u, -n)
         \/ RejectChange(o, u)
  PROVE  ContractsInv'
  <1>1. change \in [ChangeOrders -> ChangeRows]
    BY DEF ContractsInv, ContractsTypeOK
  <1>2. PICK row : row \in OrderRow /\ change' = [change EXCEPT ![o] = row]
                   /\ UNCHANGED <<contract, certificate, waste, siteCash>>
    <2>1. CASE RejectChange(o, u)
      <3>1. change[o] \in OrderRow
        BY <1>1, <2>1, AgreementTypes DEF RejectChange
      <3>2. [change[o] EXCEPT !.status = "rejected"] \in OrderRow
        BY <3>1 DEF OrderRow
      <3> QED BY <2>1, <3>2 DEF RejectChange
    <2>2. ASSUME NEW c \in Contracts, NEW n \in Int, RequestChange(o, c, u, n)
          PROVE  \E row : /\ row \in OrderRow /\ change' = [change EXCEPT ![o] = row]
                          /\ UNCHANGED <<contract, certificate, waste, siteCash>>
      <3>1. [contract |-> c, by |-> u, amount |-> n, status |-> "pending"] \in OrderRow
        BY DEF OrderRow
      <3> QED BY <2>2, <3>1 DEF RequestChange
    <2>3. \A n \in ContractSums : n \in Int /\ -n \in Int
      BY ContractAssumption
    <2> QED BY <2>1, <2>2, <2>3
  <1>3. change' \in [ChangeOrders -> ChangeRows]
    BY <1>1, <1>2, AgreementTypes
  <1> QED BY <1>2, <1>3, ContractsKept

LEMMA PayAdvanceStep ==
  ASSUME ContractsInv, NEW c \in Contracts, NEW n \in ContractSums, PayAdvance(c, n)
  PROVE  ContractsInv'
  <1>1. /\ InForce(c) /\ Spent(n) /\ contract' = [contract EXCEPT ![c].advance = @ + n]
        /\ UNCHANGED <<certificate, waste, change>>
    BY DEF PayAdvance
  <1>2. contract[c] # NoAgreement /\ n \in Nat
    BY <1>1, AgreementTypes, ContractAssumption DEF InForce
  <1>3. PICK row : row = [contract[c] EXCEPT !.advance = contract[c].advance + n]
    OBVIOUS
  <1>4. contract[c].advance \in Nat /\ contract[c].released \in Nat /\ contract[c].recovered \in Nat
        /\ contract[c].advance + n \in Nat
    BY <1>2, ContractTyped
  <1>5. row \in SignedRow /\ contract' = [contract EXCEPT ![c] = row]
    BY <1>1, <1>2, <1>3, <1>4, ContractTyped DEF SignedRow
  <1>6. /\ row.certified = contract[c].certified /\ row.held = contract[c].held
        /\ row.recovered = contract[c].recovered /\ row.advance = contract[c].advance + n
        /\ row.released = contract[c].released /\ row.done = contract[c].done
        /\ row.revised = contract[c].revised /\ row.mode = contract[c].mode /\ row.status = contract[c].status
    BY <1>2, <1>3, ContractTyped DEF SignedRow
  <1>7. ContractSound(row)
    BY <1>1, <1>2, <1>4, <1>6, ContractTyped DEF ContractSound, InForce
  <1>8. siteCash' = siteCash - n /\ siteCash' \in Nat
    BY <1>1, <1>2, MoneySpent
  <1>9. row.advance + row.released - contract[c].advance - contract[c].released = n
    BY <1>2, <1>4, <1>6
  <1>10. change' \in [ChangeOrders -> ChangeRows]
    BY <1>1 DEF ContractsInv, ContractsTypeOK
  <1>11. ContractStep(c, row)
    BY <1>1, <1>2, <1>5, <1>6, <1>7, <1>8, <1>9, <1>10 DEF ContractStep
  <1> QED BY <1>11, ContractWritten

LEMMA PayRetentionStep ==
  ASSUME ContractsInv, NEW c \in Contracts, NEW n \in ContractSums, PayRetention(c, n)
  PROVE  ContractsInv'
  <1>1. /\ contract[c].status = "closed" /\ n <= contract[c].held - contract[c].released
        /\ Spent(n) /\ contract' = [contract EXCEPT ![c].released = @ + n]
        /\ UNCHANGED <<certificate, waste, change>>
    BY DEF PayRetention
  <1>2. contract[c] # NoAgreement /\ n \in Nat
    BY <1>1, AgreementTypes, ContractAssumption
  <1>3. PICK row : row = [contract[c] EXCEPT !.released = contract[c].released + n]
    OBVIOUS
  <1>4. contract[c].advance \in Nat /\ contract[c].released \in Nat /\ contract[c].held \in Int
        /\ contract[c].released + n \in Nat
    BY <1>2, ContractTyped
  <1>5. row \in SignedRow /\ contract' = [contract EXCEPT ![c] = row]
    BY <1>1, <1>2, <1>3, <1>4, ContractTyped DEF SignedRow
  <1>6. /\ row.certified = contract[c].certified /\ row.held = contract[c].held
        /\ row.recovered = contract[c].recovered /\ row.advance = contract[c].advance
        /\ row.released = contract[c].released + n /\ row.done = contract[c].done
        /\ row.revised = contract[c].revised /\ row.mode = contract[c].mode /\ row.status = contract[c].status
    BY <1>2, <1>3, ContractTyped DEF SignedRow
  <1>7. ContractSound(row)
    BY <1>1, <1>2, <1>4, <1>6, ContractTyped DEF ContractSound
  <1>8. siteCash' = siteCash - n /\ siteCash' \in Nat
    BY <1>1, <1>2, MoneySpent
  <1>9. row.advance + row.released - contract[c].advance - contract[c].released = n
    BY <1>2, <1>4, <1>6
  <1>10. change' \in [ChangeOrders -> ChangeRows]
    BY <1>1 DEF ContractsInv, ContractsTypeOK
  <1>11. ContractStep(c, row)
    BY <1>1, <1>2, <1>5, <1>6, <1>7, <1>8, <1>9, <1>10 DEF ContractStep
  <1> QED BY <1>11, ContractWritten

-----------------------------------------------------------------------------
(* A step that writes one bill that is not approved, before or after. *)

LEMMA BillTyped ==
  ASSUME ContractsInv, NEW b \in RunningBills, certificate[b] # NoAgreement
  PROVE  /\ certificate[b] \in CertificateRow /\ BillSound(certificate[b], contract)
         /\ certificate[b].contract \in Contracts /\ contract[certificate[b].contract] # NoAgreement
         /\ certificate[b].previous \in Nat /\ certificate[b].cumulative \in Nat /\ certificate[b].net \in Nat
         /\ certificate[b].retention \in Int /\ certificate[b].recovery \in Nat /\ certificate[b].paid \in Nat
         /\ certificate[b].done \in 0 .. Quantity
  <1>1. certificate[b] \in CertificateRow
    BY AgreementTypes DEF ContractsInv, ContractsTypeOK
  <1>2. BillSound(certificate[b], contract)
    BY DEF ContractsInv
  <1>3. contract[certificate[b].contract] # NoAgreement
    BY <1>2 DEF BillSound
  <1> QED BY <1>1, <1>2, <1>3 DEF CertificateRow

Outside(cert, b, row, new) ==
  /\ cert \in [RunningBills -> CertificateRows] /\ new = [cert EXCEPT ![b] = row]
  /\ cert[b].status # "approved" /\ row.status # "approved"
SameShares(new, cert) ==
  /\ \A c : /\ CertifiedOf(new, c) = CertifiedOf(cert, c) /\ HeldOf(new, c) = HeldOf(cert, c)
            /\ RecoveredOf(new, c) = RecoveredOf(cert, c)
  /\ PaidBills(new) = PaidBills(cert) /\ (BillsChain(cert) => BillsChain(new))

LEMMA BillsOutside ==
  ASSUME NEW cert, NEW b \in RunningBills, NEW row, NEW new, Outside(cert, b, row, new)
  PROVE  SameShares(new, cert)
  <1>1. /\ \A a \in RunningBills : new[a] = IF a = b THEN row ELSE cert[a]
        /\ cert[b].status # "approved" /\ row.status # "approved"
    BY DEF Outside
  <1>2. ASSUME NEW c, NEW a \in RunningBills
        PROVE  /\ Counts(new[a], c) <=> Counts(cert[a], c)
               /\ Counts(new[a], c) => new[a] = cert[a]
    BY <1>1 DEF Counts
  <1>3. ASSUME NEW c
        PROVE  /\ CertifiedOf(new, c) = CertifiedOf(cert, c) /\ HeldOf(new, c) = HeldOf(cert, c)
               /\ RecoveredOf(new, c) = RecoveredOf(cert, c)
    BY <1>2 DEF CertifiedOf, HeldOf, RecoveredOf
  <1>4. PaidBills(new) = PaidBills(cert)
    BY <1>1 DEF PaidBills
  <1>5. BillsChain(cert) => BillsChain(new)
    BY <1>1 DEF BillsChain
  <1> QED BY <1>3, <1>4, <1>5 DEF SameShares

BillStep(b, row) ==
  /\ certificate' = [certificate EXCEPT ![b] = row] /\ UNCHANGED <<contract, change, siteCash>>
  /\ certificate[b].status # "approved" /\ row.status # "approved"
  /\ row \in CertificateRow /\ BillSound(row, contract)
  /\ waste' \in [WasteEntries -> WasteRows] /\ WasteAgrees(waste', certificate')

LEMMA BillWritten ==
  ASSUME ContractsInv, NEW b \in RunningBills, NEW row, BillStep(b, row)
  PROVE  ContractsInv'
  <1>1. /\ certificate' = [certificate EXCEPT ![b] = row] /\ contract' = contract /\ change' = change
        /\ siteCash' = siteCash /\ certificate[b].status # "approved" /\ row.status # "approved"
        /\ row \in CertificateRow /\ BillSound(row, contract)
        /\ waste' \in [WasteEntries -> WasteRows] /\ WasteAgrees(waste', certificate')
    BY DEF BillStep
  <1>2. certificate \in [RunningBills -> CertificateRows]
    BY DEF ContractsInv, ContractsTypeOK
  <1>3. certificate' \in [RunningBills -> CertificateRows]
        /\ \A a \in RunningBills : certificate'[a] = IF a = b THEN row ELSE certificate[a]
    BY <1>1, <1>2, AgreementTypes
  <1>4. ContractsTypeOK'
    BY <1>1, <1>3 DEF ContractsInv, ContractsTypeOK
  <1>5. /\ \A c : /\ CertifiedOf(certificate', c) = CertifiedOf(certificate, c)
                  /\ HeldOf(certificate', c) = HeldOf(certificate, c)
                  /\ RecoveredOf(certificate', c) = RecoveredOf(certificate, c)
        /\ PaidBills(certificate') = PaidBills(certificate) /\ BillsChain(certificate')
    <2>1. Outside(certificate, b, row, certificate')
      BY <1>1, <1>2 DEF Outside
    <2>2. SameShares(certificate', certificate)
      BY <2>1, BillsOutside
    <2> QED BY <2>2 DEF SameShares, ContractsInv
  <1>6. \A c \in Contracts : contract'[c] # NoAgreement =>
          ContractSound(contract'[c]) /\ SharesAgree(contract'[c], certificate', c)
    BY <1>1, <1>5 DEF ContractsInv, SharesAgree
  <1>7. \A a \in RunningBills : BillSound(certificate'[a], contract')
    BY <1>1, <1>3 DEF ContractsInv
  <1> QED BY <1>1, <1>4, <1>5, <1>6, <1>7 DEF ContractsInv

LEMMA RejectBillStep ==
  ASSUME ContractsInv, NEW b \in RunningBills, NEW u \in Engineers, RejectBill(b, u)
  PROVE  ContractsInv'
  <1>1. /\ certificate[b].status = "pending"
        /\ certificate' = [certificate EXCEPT ![b].status = "rejected"]
        /\ waste' = [e \in WasteEntries |->
              IF waste[e] # NoAgreement /\ waste[e].bill = b THEN [waste[e] EXCEPT !.bill = NoBill]
              ELSE waste[e]]
        /\ UNCHANGED <<contract, change, siteCash>>
    BY DEF RejectBill
  <1>2. certificate[b] # NoAgreement
    BY <1>1, AgreementTypes
  <1>3. PICK row : row = [certificate[b] EXCEPT !.status = "rejected"]
    OBVIOUS
  <1>4. certificate' = [certificate EXCEPT ![b] = row] /\ row \in CertificateRow
    BY <1>1, <1>2, <1>3, BillTyped DEF CertificateRow
  <1>5. /\ row.status = "rejected" /\ row.contract = certificate[b].contract
        /\ row.cumulative = certificate[b].cumulative /\ row.done = certificate[b].done
        /\ row.retention = certificate[b].retention
    BY <1>2, <1>3, BillTyped DEF CertificateRow
  <1>6. BillSound(row, contract)
    BY <1>2, <1>5, BillTyped DEF BillSound
  <1>7. certificate \in [RunningBills -> CertificateRows] /\ waste \in [WasteEntries -> WasteRows]
        /\ WasteAgrees(waste, certificate)
    BY DEF ContractsInv, ContractsTypeOK
  <1>8. \A a \in RunningBills : certificate'[a] = IF a = b THEN row ELSE certificate[a]
    BY <1>4, <1>7
  <1>9. ASSUME NEW e \in WasteEntries
        PROVE  /\ waste'[e] \in WasteRows /\ (waste'[e] = NoAgreement <=> waste[e] = NoAgreement)
               /\ waste[e] # NoAgreement /\ waste[e].bill = b => waste'[e].bill = NoBill
               /\ ~(waste[e] # NoAgreement /\ waste[e].bill = b) => waste'[e] = waste[e]
    <2>1. CASE waste[e] # NoAgreement /\ waste[e].bill = b
      <3>1. waste[e] \in ChargeRow /\ waste'[e] = [waste[e] EXCEPT !.bill = NoBill]
        BY <1>1, <1>7, <2>1, AgreementTypes
      <3>2. waste'[e] \in ChargeRow /\ waste'[e].bill = NoBill
        BY <3>1 DEF ChargeRow
      <3> QED BY <2>1, <3>2, AgreementTypes
    <2>2. CASE ~(waste[e] # NoAgreement /\ waste[e].bill = b)
      BY <1>1, <1>7, <2>2
    <2> QED BY <2>1, <2>2
  <1>10. waste' \in [WasteEntries -> WasteRows]
    BY <1>1, <1>9
  <1>11. WasteAgrees(waste', certificate')
    <2>1. ASSUME NEW e \in WasteEntries, waste'[e] # NoAgreement, waste'[e].bill \in RunningBills
          PROVE  certificate'[waste'[e].bill].status \in {"pending", "approved"}
      <3>1. waste'[e] = waste[e] /\ waste[e].bill # b
        BY <1>9, <2>1, ContractAssumption
      <3> QED BY <1>7, <1>8, <2>1, <3>1 DEF WasteAgrees
    <2>2. ASSUME NEW a \in RunningBills, certificate'[a].status \in {"pending", "approved"}
          PROVE  certificate'[a].deducted = SumOver(DeductedBy(waste', a), WasteEntries)
      <3>1. a # b /\ certificate'[a] = certificate[a]
        BY <1>5, <1>8, <2>2
      <3>2. DeductedBy(waste', a) = DeductedBy(waste, a)
        BY <1>9, <3>1, ContractAssumption DEF DeductedBy
      <3> QED BY <1>7, <2>2, <3>1, <3>2 DEF WasteAgrees
    <2> QED BY <2>1, <2>2 DEF WasteAgrees
  <1>12. BillStep(b, row)
    BY <1>1, <1>4, <1>5, <1>6, <1>10, <1>11 DEF BillStep
  <1> QED BY <1>12, BillWritten

LEMMA RecordWasteStep ==
  ASSUME ContractsInv, NEW e \in WasteEntries, NEW c \in Contracts, NEW n \in ContractSums, RecordWaste(e, c, n)
  PROVE  ContractsInv'
  <1>1. PICK row : row = [status |-> "charged", contract |-> c, value |-> n, bill |-> NoBill]
    OBVIOUS
  <1>2. /\ waste[e] = NoAgreement /\ waste' = [waste EXCEPT ![e] = row]
        /\ UNCHANGED <<contract, certificate, change, siteCash>>
    BY <1>1 DEF RecordWaste, Unwritten
  <1>3. row \in ChargeRow /\ row.bill = NoBill
    BY <1>1 DEF ChargeRow
  <1>4. waste \in [WasteEntries -> WasteRows] /\ WasteAgrees(waste, certificate)
    BY DEF ContractsInv, ContractsTypeOK
  <1>5. waste' \in [WasteEntries -> WasteRows] /\ \A x \in WasteEntries : waste'[x] = IF x = e THEN row ELSE waste[x]
    BY <1>2, <1>3, <1>4, AgreementTypes
  <1>6. \A b \in RunningBills : DeductedBy(waste', b) = DeductedBy(waste, b)
    BY <1>2, <1>3, <1>5, ContractAssumption DEF DeductedBy
  <1>7. WasteAgrees(waste', certificate)
    <2>1. \A b \in RunningBills : certificate[b].status \in {"pending", "approved"} =>
            certificate[b].deducted = SumOver(DeductedBy(waste', b), WasteEntries)
      BY <1>4, <1>6 DEF WasteAgrees
    <2>2. ASSUME NEW x \in WasteEntries, waste'[x] # NoAgreement, waste'[x].bill \in RunningBills
          PROVE  certificate[waste'[x].bill].status \in {"pending", "approved"}
      <3>1. x # e /\ waste'[x] = waste[x]
        BY <1>3, <1>5, <2>2, ContractAssumption
      <3> QED BY <1>4, <2>2, <3>1 DEF WasteAgrees
    <2> QED BY <2>1, <2>2 DEF WasteAgrees
  <1> QED BY <1>2, <1>5, <1>7 DEF ContractsInv, ContractsTypeOK

LEMMA SubmitBillStep ==
  ASSUME ContractsInv, NEW b \in RunningBills, NEW c \in Contracts, NEW u \in Engineers,
         NEW q \in 1 .. MaxContract, NEW recovery \in {0} \cup ContractSums, NEW W \in SUBSET WasteEntries,
         SubmitBill(b, c, u, q, recovery, W)
  PROVE  ContractsInv'
  <1>1. PICK cumulative, done, deducted, payable :
          /\ cumulative = (IF contract[c].mode = "item_rate" THEN WorkValue(q) ELSE q)
          /\ done = (IF contract[c].mode = "item_rate" THEN q ELSE 0)
          /\ deducted = WasteValue(W) /\ payable = Payable(c, cumulative, recovery)
    OBVIOUS
  <1>2. PICK row : row =
          [contract |-> c, by |-> u, status |-> "pending",
           previous |-> contract[c].certified, cumulative |-> cumulative,
           before |-> contract[c].done, done |-> done,
           retention |-> Retention(c, cumulative), recovery |-> recovery,
           deducted |-> deducted, net |-> payable - deducted, paid |-> 0]
    OBVIOUS
  <1>3. /\ certificate[b] = NoAgreement /\ InForce(c) /\ (contract[c].mode = "item_rate" => q <= Quantity)
        /\ Computable(c, cumulative, done, recovery) /\ Free(W, c) /\ deducted <= payable
        /\ certificate' = [certificate EXCEPT ![b] = row]
        /\ waste' = [e \in WasteEntries |-> IF e \in W THEN [waste[e] EXCEPT !.bill = b] ELSE waste[e]]
        /\ UNCHANGED <<contract, change, siteCash>>
    BY <1>1, <1>2 DEF SubmitBill, Unwritten
  <1>4. contract[c] # NoAgreement
    BY <1>3, AgreementTypes DEF InForce
  <1>5. /\ contract[c].certified \in Nat /\ contract[c].done \in 0 .. Quantity /\ contract[c].held \in Int
        /\ contract[c].mode \in {"lump_sum", "item_rate"}
    BY <1>4, ContractTyped
  <1>6. q \in Nat /\ recovery \in Nat /\ Quantity \in Nat
    BY ContractAssumption
  <1>7. cumulative \in Nat /\ done \in 0 .. Quantity
    BY <1>1, <1>3, <1>6, WorkTypes
  <1>8. Retention(c, cumulative) \in Int /\ Retention(c, cumulative) >= 0
    <2>1. cumulative - contract[c].certified \in Int /\ cumulative \in Int
      BY <1>5, <1>7
    <2>2. Retained(cumulative - contract[c].certified) \in Int /\ Retained(cumulative) \in Int
      BY <2>1, WorkTypes
    <2> QED BY <1>3, <1>5, <2>2 DEF Retention, Computable
  <1>9. payable \in Int
    BY <1>1, <1>5, <1>6, <1>7, <1>8 DEF Payable
  <1>10. waste \in [WasteEntries -> WasteRows] /\ WasteAgrees(waste, certificate)
         /\ certificate \in [RunningBills -> CertificateRows]
    BY DEF ContractsInv, ContractsTypeOK
  <1>11. \A a \in RunningBills : certificate'[a] = IF a = b THEN row ELSE certificate[a]
    BY <1>3, <1>10
  <1>12. ASSUME NEW e \in WasteEntries
         PROVE  /\ waste'[e] \in WasteRows /\ (e \notin W => waste'[e] = waste[e])
                /\ waste[e] # NoAgreement => waste[e].bill # b
                /\ e \in W => /\ waste[e] # NoAgreement /\ waste[e].bill = NoBill /\ waste'[e] # NoAgreement
                              /\ waste'[e].bill = b /\ waste'[e].value = waste[e].value
                              /\ waste[e].value \in Nat
    <2>1. waste[e] # NoAgreement => waste[e].bill # b
      <3>1. certificate[b].status = "none"
        BY <1>3, AgreementTypes
      <3> QED BY <1>10, <3>1 DEF WasteAgrees
    <2>2. CASE e \in W
      <3>1. waste[e] # NoAgreement /\ waste[e].bill = NoBill /\ waste[e] \in ChargeRow
        BY <1>3, <1>10, <2>2, AgreementTypes DEF Free
      <3>2. waste'[e] = [waste[e] EXCEPT !.bill = b]
        BY <1>3, <2>2
      <3>3. /\ waste'[e] \in ChargeRow /\ waste'[e].bill = b /\ waste'[e].value = waste[e].value
            /\ waste[e].value \in ContractSums
        BY <3>1, <3>2 DEF ChargeRow
      <3>4. waste[e].value \in Nat
        <4>1. ContractSums \subseteq Nat \ {0}
          BY ContractAssumption
        <4> QED BY <3>3, <4>1
      <3>5. waste'[e] \in WasteRows /\ waste'[e] # NoAgreement
        BY <3>3, AgreementTypes
      <3> QED BY <2>1, <2>2, <3>1, <3>3, <3>4, <3>5
    <2>3. CASE e \notin W
      BY <1>3, <1>10, <2>1, <2>3
    <2> QED BY <2>2, <2>3
  <1>13. waste' \in [WasteEntries -> WasteRows]
    BY <1>3, <1>12
  <1>14. \A a \in RunningBills : a # b => DeductedBy(waste', a) = DeductedBy(waste, a)
    <2> SUFFICES ASSUME NEW a \in RunningBills, a # b, NEW e \in WasteEntries
                 PROVE  DeductedBy(waste', a)[e] = DeductedBy(waste, a)[e]
      BY DEF DeductedBy
    <2> QED BY <1>12, ContractAssumption DEF DeductedBy
  <1>15. deducted = SumOver(DeductedBy(waste', b), WasteEntries) /\ deducted \in Nat
    <2>1. PICK f, g : f = [e \in W |-> waste[e].value] /\ g = DeductedBy(waste', b)
      OBVIOUS
    <2>2. \A e \in WasteEntries : g[e] = IF e \in W THEN waste[e].value ELSE 0
      BY <1>12, <2>1 DEF DeductedBy
    <2>3. \A e \in WasteEntries : g[e] \in Nat
      BY <1>12, <2>2
    <2>4. SumOver(f, W) = SumOver(g, WasteEntries)
      <3>1. \A e \in W : f[e] = g[e]
        BY <2>1, <2>2
      <3>2. (\A e \in WasteEntries : g[e] \in Int) /\ \A e \in WasteEntries \ W : g[e] = 0
        BY <2>2, <2>3
      <3> QED BY <3>1, <3>2, ContractFinite, SumOfMembers
    <2>5. SumOver(g, WasteEntries) \in Nat
      BY <2>3, ContractFinite, SumIsNatural
    <2>6. deducted = SumOver(f, W)
      BY <1>1, <2>1, SumOfIsSum DEF WasteValue
    <2> QED BY <2>1, <2>4, <2>5, <2>6
  <1>16. row \in CertificateRow
    <2>1. payable - deducted \in Nat
      BY <1>3, <1>9, <1>15
    <2> QED BY <1>2, <1>5, <1>6, <1>7, <1>8, <1>15, <2>1 DEF CertificateRow
  <1>17. BillSound(row, contract)
    BY <1>1, <1>2, <1>4, <1>8 DEF BillSound
  <1>18. WasteAgrees(waste', certificate')
    <2>1. ASSUME NEW e \in WasteEntries, waste'[e] # NoAgreement, waste'[e].bill \in RunningBills
          PROVE  certificate'[waste'[e].bill].status \in {"pending", "approved"}
      <3>1. CASE e \in W
        BY <1>2, <1>11, <1>12, <3>1
      <3>2. CASE e \notin W
        BY <1>10, <1>11, <1>12, <2>1, <3>2 DEF WasteAgrees
      <3> QED BY <3>1, <3>2
    <2>2. ASSUME NEW a \in RunningBills, certificate'[a].status \in {"pending", "approved"}
          PROVE  certificate'[a].deducted = SumOver(DeductedBy(waste', a), WasteEntries)
      <3>1. CASE a = b
        BY <1>2, <1>11, <1>15, <3>1
      <3>2. CASE a # b
        BY <1>10, <1>11, <1>14, <2>2, <3>2 DEF WasteAgrees
      <3> QED BY <3>1, <3>2
    <2> QED BY <2>1, <2>2 DEF WasteAgrees
  <1>19. BillStep(b, row)
    <2>1. certificate[b].status # "approved" /\ row.status = "pending"
      BY <1>2, <1>3, AgreementTypes
    <2> QED BY <1>3, <1>13, <1>16, <1>17, <1>18, <2>1 DEF BillStep
  <1> QED BY <1>19, BillWritten

LEMMA PayBillStep ==
  ASSUME ContractsInv, NEW b \in RunningBills, NEW n \in ContractSums, PayBill(b, n)
  PROVE  ContractsInv'
  <1>1. /\ certificate[b].status = "approved" /\ Spent(n)
        /\ certificate' = [certificate EXCEPT ![b].paid = @ + n] /\ UNCHANGED <<contract, waste, change>>
    BY DEF PayBill
  <1>2. certificate[b] # NoAgreement /\ n \in Nat
    BY <1>1, AgreementTypes, ContractAssumption
  <1>3. PICK row : row = [certificate[b] EXCEPT !.paid = certificate[b].paid + n]
    OBVIOUS
  <1>4. row \in CertificateRow /\ certificate' = [certificate EXCEPT ![b] = row]
    BY <1>1, <1>2, <1>3, BillTyped DEF CertificateRow
  <1>5. /\ row.status = "approved" /\ row.contract = certificate[b].contract
        /\ row.cumulative = certificate[b].cumulative /\ row.previous = certificate[b].previous
        /\ row.retention = certificate[b].retention /\ row.recovery = certificate[b].recovery
        /\ row.done = certificate[b].done /\ row.deducted = certificate[b].deducted
        /\ row.paid = certificate[b].paid + n
    BY <1>1, <1>2, <1>3, BillTyped DEF CertificateRow
  <1>6. certificate \in [RunningBills -> CertificateRows] /\ contract \in [Contracts -> ContractRows]
        /\ siteCash \in Nat
    BY DEF ContractsInv, ContractsTypeOK
  <1>7. certificate' \in [RunningBills -> CertificateRows]
        /\ \A a \in RunningBills : certificate'[a] = IF a = b THEN row ELSE certificate[a]
    BY <1>4, <1>6, AgreementTypes
  <1>8. siteCash' = siteCash - n /\ siteCash' \in Nat
    BY <1>1, <1>2, MoneySpent
  <1>9. ContractsTypeOK'
    BY <1>1, <1>7, <1>8 DEF ContractsInv, ContractsTypeOK
  <1>10. ASSUME NEW c
         PROVE  /\ CertifiedOf(certificate', c) = CertifiedOf(certificate, c)
                /\ HeldOf(certificate', c) = HeldOf(certificate, c)
                /\ RecoveredOf(certificate', c) = RecoveredOf(certificate, c)
    <2>1. CertifiedOf(certificate', c) = CertifiedOf(certificate, c)
      BY <1>1, <1>5, <1>7 DEF CertifiedOf, Counts
    <2>2. HeldOf(certificate', c) = HeldOf(certificate, c)
      BY <1>1, <1>5, <1>7 DEF HeldOf, Counts
    <2>3. RecoveredOf(certificate', c) = RecoveredOf(certificate, c)
      BY <1>1, <1>5, <1>7 DEF RecoveredOf, Counts
    <2> QED BY <2>1, <2>2, <2>3
  <1>11. \A c \in Contracts : contract'[c] # NoAgreement =>
           ContractSound(contract'[c]) /\ SharesAgree(contract'[c], certificate', c)
    BY <1>1, <1>10 DEF ContractsInv, SharesAgree
  <1>12. ASSUME NEW a \in RunningBills PROVE BillSound(certificate'[a], contract')
    <2>1. CASE a = b
      BY <1>1, <1>2, <1>5, <1>7, <2>1, BillTyped DEF BillSound
    <2>2. CASE a # b
      BY <1>1, <1>7, <2>2 DEF ContractsInv
    <2> QED BY <2>1, <2>2
  <1>13. BillsChain(certificate')
    <2>1. \A a \in RunningBills :
            /\ certificate'[a].status = certificate[a].status
            /\ certificate[a].status = "approved" =>
                 /\ certificate'[a].contract = certificate[a].contract
                 /\ certificate'[a].cumulative = certificate[a].cumulative
                 /\ certificate'[a].previous = certificate[a].previous
      BY <1>1, <1>5, <1>7
    <2> QED BY <2>1 DEF ContractsInv, BillsChain
  <1>14. WasteAgrees(waste', certificate')
    <2>1. \A a \in RunningBills : certificate'[a].status = certificate[a].status
                                  /\ certificate'[a].deducted = certificate[a].deducted
      BY <1>1, <1>5, <1>7
    <2>2. WasteAgrees(waste, certificate)
      BY DEF ContractsInv
    <2> QED BY <1>1, <2>1, <2>2 DEF WasteAgrees
  <1>15. SumOver(PaidBills(certificate'), RunningBills) = SumOver(PaidBills(certificate), RunningBills) + n
         /\ SumOver(PaidBills(certificate), RunningBills) \in Int
    <2>1. PICK f, g : f = PaidBills(certificate) /\ g = PaidBills(certificate')
      OBVIOUS
    <2>2. \A a \in RunningBills : f[a] \in Int /\ g[a] \in Int
      BY <1>6, <1>7, <2>1, ShareTypes
    <2>3. \A a \in RunningBills \ {b} : g[a] = f[a]
      BY <1>7, <2>1 DEF PaidBills
    <2>4. SumOver(g, RunningBills) = SumOver(f, RunningBills) + g[b] - f[b]
      BY <2>2, <2>3, ContractFinite, SumUpdate
    <2>5. g[b] = certificate[b].paid + n /\ f[b] = certificate[b].paid
      BY <1>1, <1>5, <1>7, <2>1 DEF PaidBills
    <2>6. certificate[b].paid \in Nat
      BY <1>2, BillTyped
    <2>7. SumOver(f, RunningBills) \in Int
      BY <2>2, ContractFinite, SumIsInteger
    <2> QED BY <1>2, <2>1, <2>4, <2>5, <2>6, <2>7
  <1>16. SiteCash - siteCash' = SumOver(PaidOutOf(contract'), Contracts) + SumOver(PaidBills(certificate'), RunningBills)
    <2>1. SumOver(PaidOutOf(contract), Contracts) \in Int
      <3>1. \A z \in Contracts : PaidOutOf(contract)[z] \in Int
        BY <1>6, PaidOutTypes
      <3> QED BY <3>1, ContractFinite, SumIsInteger
    <2>2. SiteCash - siteCash = SumOver(PaidOutOf(contract), Contracts) + SumOver(PaidBills(certificate), RunningBills)
      BY DEF ContractsInv
    <2>3. contract' = contract
      BY <1>1
    <2> QED BY <1>2, <1>6, <1>8, <1>15, <2>1, <2>2, <2>3, ContractAssumption
  <1> QED BY <1>9, <1>11, <1>12, <1>13, <1>14, <1>16 DEF ContractsInv

-----------------------------------------------------------------------------
(* An approval: the bill's share is added to the contract's totals. *)

\* The contract after the approval.
Certified(row, r) ==
  [row EXCEPT !.certified = r.cumulative, !.done = IF row.mode = "item_rate" THEN r.done ELSE row.done,
              !.held = row.held + r.retention, !.recovered = row.recovered + r.recovery]

\* What the guards of an approval say of its bill and its contract.
ApprovalFacts(b, c) ==
  /\ certificate[b].contract = c /\ c \in Contracts /\ contract[c] # NoAgreement
  /\ certificate[b].status = "pending" /\ contract[c].status = "active"
  /\ certificate[b].previous = contract[c].certified
  /\ certificate[b].cumulative <= contract[c].revised
  /\ contract[c].certified <= certificate[b].cumulative
  /\ contract[c].recovered + certificate[b].recovery <= contract[c].advance
  /\ certificate[b].retention >= 0
  /\ contract[c].mode = "item_rate" =>
       certificate[b].retention = Retained(certificate[b].cumulative) - contract[c].held
  /\ contract' = [contract EXCEPT ![c] = Certified(contract[c], certificate[b])]
  /\ certificate' = [certificate EXCEPT ![b].status = "approved"]
  /\ UNCHANGED <<waste, change, siteCash>>

LEMMA ApprovalGuards ==
  ASSUME ContractsInv, NEW b \in RunningBills, NEW u \in Engineers, ApproveBill(b, u)
  PROVE  ApprovalFacts(b, certificate[b].contract)
  <1>1. PICK c, row : c = certificate[b].contract /\ row = certificate[b]
    OBVIOUS
  <1>2. /\ row.status = "pending" /\ InForce(c) /\ StillRight(b)
        /\ contract' = [contract EXCEPT
             ![c].certified = row.cumulative,
             ![c].done = IF contract[c].mode = "item_rate" THEN row.done ELSE @,
             ![c].held = @ + row.retention, ![c].recovered = @ + row.recovery]
        /\ certificate' = [certificate EXCEPT ![b].status = "approved"]
        /\ UNCHANGED <<waste, change, siteCash>>
    BY <1>1 DEF ApproveBill
  <1>3. certificate[b] # NoAgreement
    BY <1>1, <1>2, AgreementTypes
  <1>4. c \in Contracts /\ contract[c] # NoAgreement
    BY <1>1, <1>3, BillTyped
  <1>5. /\ row.cumulative \in Nat /\ row.recovery \in Nat /\ row.retention \in Int /\ row.previous \in Nat
        /\ row.done \in 0 .. Quantity /\ row.retention >= 0
    BY <1>1, <1>3, BillTyped DEF BillSound
  <1>6. /\ contract[c].certified \in Nat /\ contract[c].held \in Int /\ contract[c].revised \in Nat
        /\ contract[c].advance \in Nat /\ contract[c].recovered \in Nat
    BY <1>4, ContractTyped
  <1>7. /\ contract[c].certified = row.previous /\ Computable(c, row.cumulative, row.done, row.recovery)
        /\ Retention(c, row.cumulative) = row.retention
    BY <1>1, <1>2 DEF StillRight
  <1>8. /\ row.recovery <= contract[c].advance - contract[c].recovered /\ row.cumulative <= contract[c].revised
        /\ row.cumulative - contract[c].certified - row.retention - row.recovery >= 0
    BY <1>7 DEF Computable, Payable, Outstanding
  <1>9. contract[c].mode = "item_rate" => row.retention = Retained(row.cumulative) - contract[c].held
    BY <1>7 DEF Retention
  <1>10. contract \in [Contracts -> ContractRows] /\ contract[c] \in SignedRow
    BY <1>4, ContractTyped DEF ContractsInv, ContractsTypeOK
  <1>11. contract' = [contract EXCEPT ![c] = Certified(contract[c], row)]
    BY <1>2, <1>10 DEF Certified, SignedRow
  <1>12. row.previous = contract[c].certified /\ contract[c].certified <= row.cumulative
         /\ contract[c].recovered + row.recovery <= contract[c].advance
    BY <1>5, <1>6, <1>7, <1>8
  <1> QED BY <1>1, <1>2, <1>4, <1>5, <1>8, <1>9, <1>11, <1>12 DEF ApprovalFacts, InForce

LEMMA ShareAdded ==
  ASSUME NEW f, NEW g, NEW b \in RunningBills, NEW n \in Int,
         \A a \in RunningBills : f[a] \in Int /\ g[a] \in Int /\ (a # b => g[a] = f[a]),
         f[b] = 0, g[b] = n
  PROVE  SumOver(g, RunningBills) = SumOver(f, RunningBills) + n
  <1>1. SumOver(g, RunningBills) = SumOver(f, RunningBills) + g[b] - f[b]
    BY ContractFinite, SumUpdate
  <1>2. SumOver(f, RunningBills) \in Int
    BY ContractFinite, SumIsInteger
  <1> QED BY <1>1, <1>2

LEMMA ApproveBillStep ==
  ASSUME ContractsInv, NEW b \in RunningBills, NEW u \in Engineers, ApproveBill(b, u)
  PROVE  ContractsInv'
  <1>1. PICK c, row, old, new :
          c = certificate[b].contract /\ row = certificate[b] /\ old = contract[c] /\ new = Certified(old, row)
    OBVIOUS
  <1>2. ApprovalFacts(b, c)
    BY <1>1, ApprovalGuards
  <1>3. /\ row.contract = c /\ c \in Contracts /\ old # NoAgreement /\ row # NoAgreement
        /\ row.status = "pending" /\ old.status = "active" /\ row.previous = old.certified
        /\ row.cumulative <= old.revised /\ old.certified <= row.cumulative
        /\ old.recovered + row.recovery <= old.advance /\ row.retention >= 0
        /\ old.mode = "item_rate" => row.retention = Retained(row.cumulative) - old.held
    BY <1>1, <1>2, AgreementTypes DEF ApprovalFacts
  <1>4. /\ contract' = [contract EXCEPT ![c] = new] /\ certificate' = [certificate EXCEPT ![b].status = "approved"]
        /\ waste' = waste /\ change' = change /\ siteCash' = siteCash
    BY <1>1, <1>2 DEF ApprovalFacts
  <1>5. /\ row \in CertificateRow /\ row.cumulative \in Nat /\ row.recovery \in Nat /\ row.retention \in Int
        /\ row.previous \in Nat /\ row.done \in 0 .. Quantity /\ row.paid = 0
        /\ old.mode = "item_rate" => row.cumulative = WorkValue(row.done)
    BY <1>1, <1>3, BillTyped DEF BillSound
  <1>6. /\ old \in SignedRow /\ ContractSound(old) /\ SharesAgree(old, certificate, c)
        /\ old.certified \in Nat /\ old.held \in Int /\ old.revised \in Nat /\ old.released \in Nat
        /\ old.advance \in Nat /\ old.recovered \in Nat /\ old.done \in 0 .. Quantity
        /\ old.mode \in {"lump_sum", "item_rate"}
    BY <1>1, <1>3, ContractTyped
  <1>7. /\ new \in SignedRow /\ new.certified = row.cumulative /\ new.held = old.held + row.retention
        /\ new.recovered = old.recovered + row.recovery /\ new.mode = old.mode /\ new.status = old.status
        /\ new.revised = old.revised /\ new.released = old.released /\ new.advance = old.advance
        /\ new.done = IF old.mode = "item_rate" THEN row.done ELSE old.done
    <2>1. new = [old EXCEPT !.certified = row.cumulative,
                            !.done = IF old.mode = "item_rate" THEN row.done ELSE old.done,
                            !.held = old.held + row.retention, !.recovered = old.recovered + row.recovery]
      BY <1>1 DEF Certified
    <2>2. old.held + row.retention \in Int /\ old.recovered + row.recovery \in Nat
          /\ (IF old.mode = "item_rate" THEN row.done ELSE old.done) \in 0 .. Quantity
      BY <1>5, <1>6
    <2> QED BY <1>5, <1>6, <2>1, <2>2 DEF SignedRow
  <1>8. ContractSound(new)
    <2>1. new.certified <= new.revised /\ new.recovered <= new.advance
      BY <1>3, <1>7
    <2>2. new.released <= new.held
      BY <1>3, <1>5, <1>6, <1>7 DEF ContractSound
    <2>3. new.mode = "item_rate" => new.certified = WorkValue(new.done) /\ new.held = Retained(new.certified)
      <3> SUFFICES ASSUME new.mode = "item_rate"
                   PROVE  new.certified = WorkValue(new.done) /\ new.held = Retained(new.certified)
        OBVIOUS
      <3>1. Retained(row.cumulative) \in Int
        BY <1>5, WorkTypes
      <3>2. new.held = Retained(row.cumulative)
        BY <1>3, <1>6, <1>7, <3>1
      <3> QED BY <1>5, <1>7, <3>2
    <2>4. new.status # "closed"
      BY <1>3, <1>7
    <2> QED BY <2>1, <2>2, <2>3, <2>4 DEF ContractSound
  <1>9. certificate \in [RunningBills -> CertificateRows] /\ contract \in [Contracts -> ContractRows]
    BY DEF ContractsInv, ContractsTypeOK
  <1>10. PICK approved : approved = [row EXCEPT !.status = "approved"]
    OBVIOUS
  <1>11. /\ approved \in CertificateRow /\ approved.status = "approved" /\ approved.contract = c
         /\ approved.cumulative = row.cumulative /\ approved.previous = row.previous /\ approved.retention = row.retention
         /\ approved.recovery = row.recovery /\ approved.paid = row.paid /\ approved.done = row.done
         /\ approved.deducted = row.deducted
    BY <1>3, <1>5, <1>10 DEF CertificateRow
  <1>12. /\ certificate' \in [RunningBills -> CertificateRows] /\ contract' \in [Contracts -> ContractRows]
         /\ \A a \in RunningBills : certificate'[a] = IF a = b THEN approved ELSE certificate[a]
         /\ \A z \in Contracts : contract'[z] = IF z = c THEN new ELSE contract[z]
    <2>1. certificate' = [certificate EXCEPT ![b] = approved]
      BY <1>1, <1>4, <1>9, <1>10
    <2> QED BY <1>4, <1>7, <1>9, <1>11, <2>1, AgreementTypes
  <1>13. ContractsTypeOK'
    BY <1>4, <1>12 DEF ContractsInv, ContractsTypeOK
  <1>14. ~Counts(certificate[b], c) /\ Counts(approved, c)
         /\ \A z \in Contracts \ {c} : ~Counts(certificate[b], z) /\ ~Counts(approved, z)
    BY <1>1, <1>3, <1>11 DEF Counts
  <1>15. SharesAgree(new, certificate', c)
    <2>1. new.certified = SumOver(CertifiedOf(certificate', c), RunningBills)
      <3>1. PICK f, g : f = CertifiedOf(certificate, c) /\ g = CertifiedOf(certificate', c)
        OBVIOUS
      <3>2. \A a \in RunningBills : f[a] \in Int /\ g[a] \in Int /\ (a # b => g[a] = f[a])
        BY <1>9, <1>12, <3>1, ShareTypes DEF CertifiedOf
      <3>3. f[b] = 0 /\ g[b] = row.cumulative - row.previous /\ row.cumulative - row.previous \in Int
        BY <1>5, <1>11, <1>12, <1>14, <3>1 DEF CertifiedOf
      <3>4. SumOver(g, RunningBills) = SumOver(f, RunningBills) + (row.cumulative - row.previous)
        BY <3>2, <3>3, ShareAdded
      <3>5. SumOver(f, RunningBills) = old.certified
        BY <1>6, <3>1 DEF SharesAgree
      <3> QED BY <1>3, <1>5, <1>6, <1>7, <3>1, <3>4, <3>5
    <2>2. new.held = SumOver(HeldOf(certificate', c), RunningBills)
      <3>1. PICK f, g : f = HeldOf(certificate, c) /\ g = HeldOf(certificate', c)
        OBVIOUS
      <3>2. \A a \in RunningBills : f[a] \in Int /\ g[a] \in Int /\ (a # b => g[a] = f[a])
        BY <1>9, <1>12, <3>1, ShareTypes DEF HeldOf
      <3>3. f[b] = 0 /\ g[b] = row.retention
        BY <1>11, <1>12, <1>14, <3>1 DEF HeldOf
      <3>4. SumOver(g, RunningBills) = SumOver(f, RunningBills) + row.retention
        BY <1>5, <3>2, <3>3, ShareAdded
      <3>5. SumOver(f, RunningBills) = old.held
        BY <1>6, <3>1 DEF SharesAgree
      <3> QED BY <1>7, <3>1, <3>4, <3>5
    <2>3. new.recovered = SumOver(RecoveredOf(certificate', c), RunningBills)
      <3>1. PICK f, g : f = RecoveredOf(certificate, c) /\ g = RecoveredOf(certificate', c)
        OBVIOUS
      <3>2. \A a \in RunningBills : f[a] \in Int /\ g[a] \in Int /\ (a # b => g[a] = f[a])
        BY <1>9, <1>12, <3>1, ShareTypes DEF RecoveredOf
      <3>3. f[b] = 0 /\ g[b] = row.recovery /\ row.recovery \in Int
        BY <1>5, <1>11, <1>12, <1>14, <3>1 DEF RecoveredOf
      <3>4. SumOver(g, RunningBills) = SumOver(f, RunningBills) + row.recovery
        BY <3>2, <3>3, ShareAdded
      <3>5. SumOver(f, RunningBills) = old.recovered
        BY <1>6, <3>1 DEF SharesAgree
      <3> QED BY <1>7, <3>1, <3>4, <3>5
    <2> QED BY <2>1, <2>2, <2>3 DEF SharesAgree
  <1>16. ASSUME NEW z \in Contracts, contract'[z] # NoAgreement
         PROVE  ContractSound(contract'[z]) /\ SharesAgree(contract'[z], certificate', z)
    <2>1. CASE z = c
      BY <1>8, <1>12, <1>15, <2>1
    <2>2. CASE z # c
      <3>1. contract'[z] = contract[z] /\ ContractSound(contract[z]) /\ SharesAgree(contract[z], certificate, z)
        BY <1>12, <1>16, <2>2 DEF ContractsInv
      <3>2. CertifiedOf(certificate', z) = CertifiedOf(certificate, z)
        BY <1>12, <1>14, <2>2 DEF CertifiedOf
      <3>3. HeldOf(certificate', z) = HeldOf(certificate, z)
        BY <1>12, <1>14, <2>2 DEF HeldOf
      <3>4. RecoveredOf(certificate', z) = RecoveredOf(certificate, z)
        BY <1>12, <1>14, <2>2 DEF RecoveredOf
      <3> QED BY <3>1, <3>2, <3>3, <3>4 DEF SharesAgree
    <2> QED BY <2>1, <2>2
  <1>17. ASSUME NEW a \in RunningBills, certificate'[a] # NoAgreement
         PROVE  BillSound(certificate'[a], contract')
    <2>1. new # NoAgreement
      BY <1>7, AgreementTypes
    <2>2. CASE a = b
      <3>1. /\ certificate'[a] = approved /\ contract'[c] = new
        BY <1>3, <1>12, <2>2
      <3> QED BY <1>3, <1>5, <1>7, <1>11, <2>1, <3>1 DEF BillSound
    <2>3. CASE a # b
      <3>1. PICK z : z = certificate[a].contract
        OBVIOUS
      <3>2. certificate'[a] = certificate[a] /\ BillSound(certificate[a], contract) /\ z \in Contracts
            /\ certificate[a].cumulative \in Nat /\ contract[z] # NoAgreement
        BY <1>12, <1>17, <2>3, <3>1, BillTyped
      <3>3. /\ contract'[z] # NoAgreement /\ contract'[z].mode = contract[z].mode
            /\ certificate[a].cumulative <= contract[z].certified =>
                 certificate[a].cumulative <= contract'[z].certified
        <4>1. CASE z = c
          BY <1>1, <1>3, <1>5, <1>6, <1>7, <1>12, <2>1, <3>2, <4>1
        <4>2. CASE z # c
          BY <1>12, <3>2, <4>2
        <4> QED BY <4>1, <4>2
      <3> QED BY <3>1, <3>2, <3>3 DEF BillSound
    <2> QED BY <2>2, <2>3
  <1>18. BillsChain(certificate')
    <2>1. ASSUME NEW a \in RunningBills, a # b, certificate[a].status = "approved", certificate[a].contract = c
          PROVE  certificate[a].cumulative <= approved.previous
      <3>1. certificate[a] # NoAgreement
        BY <2>1, AgreementTypes
      <3>2. certificate[a].cumulative <= contract[c].certified
        BY <2>1, <3>1, BillTyped DEF BillSound
      <3> QED BY <1>1, <1>3, <1>11, <3>2
    <2>2. BillsChain(certificate)
      BY DEF ContractsInv
    <2>3. ASSUME NEW x \in RunningBills, NEW y \in RunningBills, x # y, certificate'[x].status = "approved",
                 certificate'[y].status = "approved", certificate'[x].contract = certificate'[y].contract
          PROVE  \/ certificate'[x].cumulative <= certificate'[y].previous
                 \/ certificate'[y].cumulative <= certificate'[x].previous
      <3>1. CASE x = b
        BY <1>11, <1>12, <2>1, <2>3, <3>1
      <3>2. CASE y = b
        BY <1>11, <1>12, <2>1, <2>3, <3>2
      <3>3. CASE x # b /\ y # b
        BY <1>12, <2>2, <2>3, <3>3 DEF BillsChain
      <3> QED BY <3>1, <3>2, <3>3
    <2> QED BY <2>3 DEF BillsChain
  <1>19. WasteAgrees(waste', certificate')
    <2>1. \A a \in RunningBills :
            /\ certificate'[a].deducted = certificate[a].deducted
            /\ certificate'[a].status \in {"pending", "approved"} <=> certificate[a].status \in {"pending", "approved"}
      BY <1>1, <1>3, <1>11, <1>12
    <2>2. WasteAgrees(waste, certificate)
      BY DEF ContractsInv
    <2> QED BY <1>4, <2>1, <2>2 DEF WasteAgrees
  <1>20. PaidBills(certificate') = PaidBills(certificate)
    <2> SUFFICES ASSUME NEW a \in RunningBills PROVE PaidBills(certificate')[a] = PaidBills(certificate)[a]
      BY DEF PaidBills
    <2> QED BY <1>1, <1>3, <1>5, <1>11, <1>12 DEF PaidBills
  <1>21. PaidOutOf(contract') = PaidOutOf(contract)
    <2> SUFFICES ASSUME NEW z \in Contracts PROVE PaidOutOf(contract')[z] = PaidOutOf(contract)[z]
      BY DEF PaidOutOf
    <2>1. new # NoAgreement
      BY <1>7, AgreementTypes
    <2> QED BY <1>1, <1>3, <1>7, <1>12, <2>1 DEF PaidOutOf
  <1>22. SiteCash - siteCash' = SumOver(PaidOutOf(contract'), Contracts) + SumOver(PaidBills(certificate'), RunningBills)
    BY <1>4, <1>20, <1>21 DEF ContractsInv
  <1>23. \A a \in RunningBills : BillSound(certificate'[a], contract')
    BY <1>17 DEF BillSound
  <1> QED BY <1>13, <1>16, <1>18, <1>19, <1>22, <1>23 DEF ContractsInv

-----------------------------------------------------------------------------

LEMMA ContractsStep ==
  ASSUME ContractsInv, [ContractsNext]_contractVars
  PROVE  ContractsInv'
  <1>1. CASE UNCHANGED contractVars
    <2>1. /\ UNCHANGED <<contract, certificate, waste, siteCash>> /\ change' = change
          /\ change \in [ChangeOrders -> ChangeRows]
      BY <1>1 DEF contractVars, ContractsInv, ContractsTypeOK
    <2> QED BY <2>1, ContractsKept
  <1>2. ASSUME NEW c \in Contracts, NEW u \in Engineers,
               SignContract(c, u) \/ \E yes \in BOOLEAN : DecideContract(c, u, yes)
        PROVE  ContractsInv'
    BY <1>2, SignStep, DecideStep
  <1>3. ASSUME NEW c \in Contracts, NEW to \in {"active", "suspended", "closed"}, ChangeContractStatus(c, to)
        PROVE  ContractsInv'
    BY <1>3, ChangeStatusStep
  <1>4. ASSUME NEW b \in RunningBills, NEW u \in Engineers, NEW c \in Contracts, NEW q \in 1 .. MaxContract,
               NEW r \in {0} \cup ContractSums, NEW W \in SUBSET WasteEntries, SubmitBill(b, c, u, q, r, W)
        PROVE  ContractsInv'
    BY <1>4, SubmitBillStep
  <1>5. ASSUME NEW b \in RunningBills, NEW u \in Engineers, ApproveBill(b, u) \/ RejectBill(b, u)
        PROVE  ContractsInv'
    BY <1>5, ApproveBillStep, RejectBillStep
  <1>6. ASSUME NEW e \in WasteEntries, NEW c \in Contracts, NEW n \in ContractSums, RecordWaste(e, c, n)
        PROVE  ContractsInv'
    BY <1>6, RecordWasteStep
  <1>7. ASSUME NEW o \in ChangeOrders, NEW u \in Engineers, ApproveChange(o, u)
        PROVE  ContractsInv'
    BY <1>7, ApproveChangeStep
  <1>8. ASSUME NEW o \in ChangeOrders, NEW u \in Engineers,
               \/ \E c \in Contracts, n \in ContractSums : RequestChange(o, c, u, n) \/ RequestChange(o, c, u, -n)
               \/ RejectChange(o, u)
        PROVE  ContractsInv'
    BY <1>8, OtherChangeSteps
  <1>9. ASSUME NEW c \in Contracts, NEW n \in ContractSums, PayAdvance(c, n) \/ PayRetention(c, n)
        PROVE  ContractsInv'
    BY <1>9, PayAdvanceStep, PayRetentionStep
  <1>10. ASSUME NEW b \in RunningBills, NEW n \in ContractSums, PayBill(b, n)
         PROVE  ContractsInv'
    BY <1>10, PayBillStep
  <1> QED BY <1>1, <1>2, <1>3, <1>4, <1>5, <1>6, <1>7, <1>8, <1>9, <1>10 DEF ContractsNext

\* f on a part of S, and g on all of S that is 0 outside that part.
PartOf(T, f, S, g) ==
  /\ IsFiniteSet(S) /\ T \in SUBSET S /\ \A x \in T : f[x] = g[x]
  /\ (\A x \in S : g[x] \in Int) /\ \A x \in S \ T : g[x] = 0

LEMMA SumOfStanding ==
  ASSUME NEW S, NEW T, NEW f, NEW g, PartOf(T, f, S, g)
  PROVE  SumOf(f, T) = SumOver(g, S)
  <1>1. /\ IsFiniteSet(S) /\ T \in SUBSET S /\ \A x \in T : f[x] = g[x]
        /\ (\A x \in S : g[x] \in Int) /\ \A x \in S \ T : g[x] = 0
    BY DEF PartOf
  <1>2. IsFiniteSet(T) /\ IsFiniteSet(S \ T)
    BY <1>1, FS_Subset
  <1>3. SumOver(g, S) = SumOver(g, T) + SumOver(g, S \ T)
    BY <1>1, SumSplit
  <1>4. SumOver(g, S \ T) = 0
    BY <1>1, <1>2, SumOfZeros
  <1>5. SumOver(f, T) = SumOver(g, T)
    BY <1>1, <1>2, SumAgrees
  <1>6. SumOver(g, T) \in Int
    BY <1>1, <1>2, SumIsInteger
  <1> QED BY <1>3, <1>4, <1>5, <1>6, SumOfIsSum

LEMMA ContractsFollow == ContractsInv => ContractsHold
  <1> SUFFICES ASSUME ContractsInv PROVE ContractsHold
    OBVIOUS
  <1>1. /\ contract \in [Contracts -> ContractRows] /\ certificate \in [RunningBills -> CertificateRows]
        /\ waste \in [WasteEntries -> WasteRows]
    BY DEF ContractsInv, ContractsTypeOK
  <1>2. CertifiedByBills
    <2> SUFFICES ASSUME NEW c \in SignedContracts, NEW chain, chain = BillsOf(c, {"approved"})
        PROVE /\ contract[c].certified
                   = SumOf([b \in chain |-> certificate[b].cumulative - certificate[b].previous], chain)
              /\ \A a, b \in chain : a # b =>
                   certificate[a].cumulative <= certificate[b].previous
                     \/ certificate[b].cumulative <= certificate[a].previous
              /\ contract[c].held = SumOf([b \in chain |-> certificate[b].retention], chain)
              /\ contract[c].recovered = SumOf([b \in chain |-> certificate[b].recovery], chain)
              /\ contract[c].certified <= contract[c].revised
              /\ contract[c].recovered <= contract[c].advance
              /\ contract[c].released <= contract[c].held
      BY DEF CertifiedByBills
    <2>1. c \in Contracts /\ ContractSound(contract[c]) /\ SharesAgree(contract[c], certificate, c)
      BY ContractTyped DEF SignedContracts
    <2>2. chain = {b \in RunningBills : Counts(certificate[b], c)}
      BY DEF BillsOf, Standing, Counts
    <2>3. SumOf([b \in chain |-> certificate[b].cumulative - certificate[b].previous], chain)
            = SumOver(CertifiedOf(certificate, c), RunningBills)
      <3>1. PICK f, g : /\ f = [b \in chain |-> certificate[b].cumulative - certificate[b].previous]
                        /\ g = CertifiedOf(certificate, c)
        OBVIOUS
      <3>2. /\ \A b \in chain : f[b] = g[b]
            /\ \A b \in RunningBills : g[b] \in Int
            /\ \A b \in RunningBills \ chain : g[b] = 0
        BY <1>1, <2>2, <3>1, ShareTypes DEF CertifiedOf
      <3>3. PartOf(chain, f, RunningBills, g)
        BY <2>2, <3>2, ContractFinite DEF PartOf
      <3> QED BY <3>1, <3>3, SumOfStanding
    <2>4. SumOf([b \in chain |-> certificate[b].retention], chain) = SumOver(HeldOf(certificate, c), RunningBills)
      <3>1. PICK f, g : f = [b \in chain |-> certificate[b].retention] /\ g = HeldOf(certificate, c)
        OBVIOUS
      <3>2. /\ \A b \in chain : f[b] = g[b]
            /\ \A b \in RunningBills : g[b] \in Int
            /\ \A b \in RunningBills \ chain : g[b] = 0
        BY <1>1, <2>2, <3>1, ShareTypes DEF HeldOf
      <3>3. PartOf(chain, f, RunningBills, g)
        BY <2>2, <3>2, ContractFinite DEF PartOf
      <3> QED BY <3>1, <3>3, SumOfStanding
    <2>5. SumOf([b \in chain |-> certificate[b].recovery], chain) = SumOver(RecoveredOf(certificate, c), RunningBills)
      <3>1. PICK f, g : f = [b \in chain |-> certificate[b].recovery] /\ g = RecoveredOf(certificate, c)
        OBVIOUS
      <3>2. /\ \A b \in chain : f[b] = g[b]
            /\ \A b \in RunningBills : g[b] \in Int
            /\ \A b \in RunningBills \ chain : g[b] = 0
        BY <1>1, <2>2, <3>1, ShareTypes DEF RecoveredOf
      <3>3. PartOf(chain, f, RunningBills, g)
        BY <2>2, <3>2, ContractFinite DEF PartOf
      <3> QED BY <3>1, <3>3, SumOfStanding
    <2>6. \A a, b \in chain : a # b =>
            certificate[a].cumulative <= certificate[b].previous
              \/ certificate[b].cumulative <= certificate[a].previous
      BY <2>2 DEF ContractsInv, BillsChain, Counts
    <2> QED BY <2>1, <2>3, <2>4, <2>5, <2>6 DEF SharesAgree, ContractSound
  <1>3. RoundedOnce
    BY ContractTyped DEF RoundedOnce, SignedContracts, ContractSound
  <1>4. WasteChargedOnce
    <2> SUFFICES ASSUME NEW b \in Standing({"pending", "approved"}), NEW W,
                        W = {e \in WasteEntries : waste[e] # NoAgreement /\ waste[e].bill = b}
                 PROVE  certificate[b].deducted = WasteValue(W)
      BY DEF WasteChargedOnce
    <2>1. b \in RunningBills /\ certificate[b].deducted = SumOver(DeductedBy(waste, b), WasteEntries)
      BY DEF Standing, ContractsInv, WasteAgrees
    <2>2. PICK f, g : f = [e \in W |-> waste[e].value] /\ g = DeductedBy(waste, b)
      OBVIOUS
    <2>3. \A e \in WasteEntries : g[e] \in Int
      <3>1. \A e \in WasteEntries : g[e] \in Nat
        BY <1>1, <2>2, DeductedTypes
      <3> QED BY <3>1
    <2>4. (\A e \in W : f[e] = g[e]) /\ \A e \in WasteEntries \ W : g[e] = 0
      BY <2>2 DEF DeductedBy
    <2>5. SumOf(f, W) = SumOver(g, WasteEntries)
      <3>1. PartOf(W, f, WasteEntries, g)
        BY <2>3, <2>4, ContractFinite DEF PartOf
      <3> QED BY <3>1, SumOfStanding
    <2> QED BY <2>1, <2>2, <2>5 DEF WasteValue
  <1>5. ClosedIsSettled
    <2> SUFFICES ASSUME NEW c \in SignedContracts, contract[c].status = "closed"
                 PROVE  contract[c].certified = contract[c].revised /\ Outstanding(c) = 0
      BY DEF ClosedIsSettled
    <2>1. ContractSound(contract[c]) /\ contract[c].advance \in Nat
      BY ContractTyped DEF SignedContracts
    <2> QED BY <2>1 DEF ContractSound, Outstanding
  <1>6. PaymentsAccounted
    <2>1. PICK C, B, f, g : /\ C = SignedContracts /\ B = Standing({"approved"})
                            /\ f = [c \in C |-> contract[c].advance + contract[c].released]
                            /\ g = [b \in B |-> certificate[b].paid]
      OBVIOUS
    <2>2. SumOf(f, C) = SumOver(PaidOutOf(contract), Contracts)
      <3>1. PICK h : h = PaidOutOf(contract)
        OBVIOUS
      <3>2. /\ C \in SUBSET Contracts /\ \A c \in C : f[c] = h[c]
            /\ \A c \in Contracts \ C : h[c] = 0
        BY <2>1, <3>1 DEF PaidOutOf, SignedContracts
      <3>3. \A c \in Contracts : h[c] \in Int
        BY <1>1, <3>1, PaidOutTypes
      <3>4. PartOf(C, f, Contracts, h)
        BY <3>2, <3>3, ContractFinite DEF PartOf
      <3> QED BY <3>1, <3>4, SumOfStanding
    <2>3. SumOf(g, B) = SumOver(PaidBills(certificate), RunningBills)
      <3>1. PICK h : h = PaidBills(certificate)
        OBVIOUS
      <3>2. /\ B \in SUBSET RunningBills /\ \A b \in B : g[b] = h[b]
            /\ \A b \in RunningBills \ B : h[b] = 0
        BY <2>1, <3>1 DEF PaidBills, Standing
      <3>3. \A b \in RunningBills : h[b] \in Int
        BY <1>1, <3>1, ShareTypes
      <3>4. PartOf(B, g, RunningBills, h)
        BY <3>2, <3>3, ContractFinite DEF PartOf
      <3> QED BY <3>1, <3>4, SumOfStanding
    <2>4. SiteCash - siteCash = SumOf(f, C) + SumOf(g, B)
      BY <2>2, <2>3 DEF ContractsInv
    <2> QED BY <2>1, <2>4 DEF PaymentsAccounted
  <1> QED BY <1>2, <1>3, <1>4, <1>5, <1>6 DEF ContractsHold

\* Whatever is signed, billed, approved, rejected and paid
\* (construction.service.ts), the totals of every contract are those of its
\* approved bills, roundings and waste are counted once, a closed contract is
\* settled, and what left the account is what the rows say was paid.
THEOREM ContractsAreSound == ContractsSpec => [](ContractsTypeOK /\ ContractsHold)
  <1>1. ContractsInit => ContractsInv
    BY ContractsStart
  <1>2. ContractsInv /\ [ContractsNext]_contractVars => ContractsInv'
    BY ContractsStep
  <1>3. ContractsInv => ContractsTypeOK /\ ContractsHold
    BY ContractsFollow DEF ContractsInv
  <1> QED BY <1>1, <1>2, <1>3, PTL DEF ContractsSpec

-----------------------------------------------------------------------------
(* Types of the opening import: only an import takes the version of the    *)
(* members past its bound, and there is one.                               *)

ImportTyped ==
  /\ ImportInv /\ ImportTypeOK
  /\ applied = 0 => roll <= MaxRosterEdits

LEMMA ImportTypedInit == ImportInit => ImportTyped
<1> SUFFICES ASSUME ImportInit PROVE ImportTyped
  OBVIOUS
<1>1. ImportInv
  BY ImportInvInit
<1>2. \A s \in Sendings : sending[s] \in [at : Stages, token : 0..(MaxRosterEdits + 1), missed : BOOLEAN]
  BY ImportAssumption DEF ImportInit, Stages
<1>3. imported \in [RequestIds -> {s[2] : s \in Sendings} \cup {NoRows}]
  BY DEF ImportInit
<1>4. roll = 0 /\ applied = 0
  BY DEF ImportInit
<1>8. opened \in BOOLEAN
  BY DEF ImportInit
<1>7. MaxRosterEdits \in Nat
  BY ImportAssumption
<1>5. roll \in 0..(MaxRosterEdits + 1) /\ roll <= MaxRosterEdits /\ opened \in BOOLEAN /\ applied \in Nat
  BY <1>4, <1>7, <1>8
<1>6. ImportTypeOK
  BY <1>2, <1>3, <1>5 DEF ImportTypeOK
<1> QED BY <1>1, <1>5, <1>6 DEF ImportTyped

LEMMA ImportTypedStep == ImportTyped /\ [ImportNext]_importVars => ImportTyped'
<1> SUFFICES ASSUME ImportTyped, [ImportNext]_importVars PROVE ImportTyped'
  OBVIOUS
<1> DEFINE Sent == [at : Stages, token : 0..(MaxRosterEdits + 1), missed : BOOLEAN]
           Reports == [RequestIds -> {s[2] : s \in Sendings} \cup {NoRows}]
<1> USE ImportAssumption
<1>1. ImportInv'
  BY ImportInvStep DEF ImportTyped
<1>2. /\ roll \in 0..(MaxRosterEdits + 1) /\ opened \in BOOLEAN /\ imported \in Reports
      /\ \A s \in Sendings : sending[s] \in Sent
      /\ sending = [s \in Sendings |-> sending[s]] /\ (applied = 0 => roll <= MaxRosterEdits)
  BY DEF ImportTyped, ImportTypeOK, ImportInv
<1>3. ASSUME roll' \in 0..(MaxRosterEdits + 1), opened' \in BOOLEAN, imported' \in Reports,
             \A s \in Sendings : sending'[s] \in Sent, applied' = 0 => roll' <= MaxRosterEdits
      PROVE  ImportTyped'
  <2>1. applied' \in Nat
    BY <1>1 DEF ImportInv
  <2> QED BY <1>1, <1>3, <2>1 DEF ImportTyped, ImportTypeOK
<1>4. ASSUME NEW s \in Sendings, NEW stage \in Stages, Goes(s, stage), UNCHANGED <<roll, opened, imported, applied>>
      PROVE  ImportTyped'
  <2>1. \A c \in Sendings : sending'[c] \in Sent
    BY <1>2, <1>4 DEF Goes
  <2> QED BY <1>2, <1>3, <1>4, <2>1
<1>5. ASSUME NEW s \in Sendings, PreviewImport(s) PROVE ImportTyped'
  <2>1. sending' = [sending EXCEPT ![s].at = "reviewed", ![s].token = roll]
        /\ UNCHANGED <<roll, opened, imported, applied>>
    BY <1>5 DEF PreviewImport
  <2>2. \A c \in Sendings : sending'[c] \in Sent
    BY <1>2, <2>1 DEF Stages
  <2> QED BY <1>2, <1>3, <2>1, <2>2
<1>6. \A s \in Sendings : Replayed(s) \in Stages
  BY DEF Replayed, Stages
<1>7. ASSUME NEW s \in Sendings, LookForReplay(s) PROVE ImportTyped'
  <2>1. (IF imported[s[1]] = NoRows THEN "unknown" ELSE Replayed(s)) \in Stages
    BY <1>6 DEF Stages
  <2> QED BY <1>4, <1>7, <2>1 DEF LookForReplay
<1>8. "refused" \in Stages
  BY DEF Stages
<1>9. ASSUME NEW s \in Sendings, AbortImport(s) PROVE ImportTyped'
  BY <1>4, <1>8, <1>9 DEF AbortImport
<1>10. ASSUME NEW s \in Sendings, BeginImport(s) PROVE ImportTyped'
  <2>1. CASE Goes(s, "refused")
    BY <1>4, <1>8, <1>10, <2>1 DEF BeginImport
  <2>2. CASE ~Goes(s, "refused")
    <3>1. sending' = [sending EXCEPT ![s].at = "begun", ![s].missed = FALSE]
          /\ UNCHANGED <<roll, opened, imported, applied>>
      BY <1>10, <2>2 DEF BeginImport
    <3>2. \A c \in Sendings : sending'[c] \in Sent
      BY <1>2, <3>1 DEF Stages
    <3> QED BY <1>2, <1>3, <3>1, <3>2
  <2> QED BY <2>1, <2>2
<1>11. ASSUME NEW s \in Sendings, CommitOpening(s) PROVE ImportTyped'
  <2>1. CASE imported[s[1]] # NoRows
    BY <1>4, <1>6, <1>11, <2>1 DEF CommitOpening
  <2>2. CASE imported[s[1]] = NoRows /\ ~Serializes(s)
    BY <1>4, <1>8, <1>11, <2>2 DEF CommitOpening
  <2>3. CASE imported[s[1]] = NoRows /\ Serializes(s)
    <3>1. applied = 0
      BY <1>11, <2>3 DEF CommitOpening, Serializes, ImportTyped, ImportInv
    <3>2. /\ imported' = [imported EXCEPT ![s[1]] = s[2]] /\ opened' = TRUE /\ roll' = roll + 1
          /\ applied' = applied + 1
          /\ sending' = [c \in Sendings |-> IF c = s THEN [sending[c] EXCEPT !.at = "saved"]
                                            ELSE [sending[c] EXCEPT !.missed = @ \/ Is(c, "begun")]]
      BY <1>11, <2>3 DEF CommitOpening
    <3>3. \A c \in Sendings : sending'[c] \in Sent
      BY <1>2, <3>2 DEF Stages, Is
    <3>4. imported' \in Reports
      BY <1>2, <3>2
    <3>5. roll' \in 0..(MaxRosterEdits + 1) /\ applied' = 1 /\ opened' \in BOOLEAN
      BY <1>2, <3>1, <3>2
    <3> QED BY <1>3, <3>3, <3>4, <3>5
  <2> QED BY <2>1, <2>2, <2>3
<1>12. CASE EditRoll
  BY <1>2, <1>3, <1>12 DEF EditRoll
<1>13. CASE OpenSchedule
  BY <1>2, <1>3, <1>13 DEF OpenSchedule
<1>14. CASE UNCHANGED importVars
  BY <1>2, <1>3, <1>14 DEF importVars
<1> QED BY <1>5, <1>7, <1>9, <1>10, <1>11, <1>12, <1>13, <1>14 DEF ImportNext

LEMMA ImportKeepsTypes == ImportSpec => []ImportTypeOK
<1>1. ImportTyped => ImportTypeOK
  BY DEF ImportTyped
<1> QED BY <1>1, ImportTypedInit, ImportTypedStep, PTL DEF ImportSpec

-----------------------------------------------------------------------------
(* Types of the settings document: each editor has read a document and     *)
(* computed a value for one of its sections.                               *)

Computed(d) ==
  /\ d.seen \in Document
  /\ \/ d.section = "links" /\ d.value \in [Links -> Flags]
     \/ d.section = "titles" /\ d.value \in [Titles -> Flags]
     \/ d.section = "data" /\ d.value \in Nat
SettingsTyped ==
  /\ SettingsInv /\ contact \in Document /\ stamp \in 0..MaxSaves
  /\ \A e \in Editors : editing[e].on => Computed(editing[e])

LEMMA SectionsAreDocuments ==
  ASSUME NEW d, Computed(d)
  PROVE  Section(d.seen, d.section, d.value) \in Document
<1>1. CASE d.section = "links" /\ d.value \in [Links -> Flags]
  <2>1. Section(d.seen, d.section, d.value) = [d.seen EXCEPT !.links = d.value]
    BY <1>1 DEF Section
  <2> QED BY <1>1, <2>1 DEF Computed, Document
<1>2. CASE d.section = "titles" /\ d.value \in [Titles -> Flags]
  <2>1. Section(d.seen, d.section, d.value) = [d.seen EXCEPT !.titles = d.value]
    BY <1>2 DEF Section
  <2> QED BY <1>2, <2>1 DEF Computed, Document
<1>3. CASE d.section = "data" /\ d.value \in Nat
  <2>1. Section(d.seen, d.section, d.value) = [d.seen EXCEPT !.data = d.value]
    BY <1>3 DEF Section
  <2> QED BY <1>3, <2>1 DEF Computed, Document
<1> QED BY <1>1, <1>2, <1>3 DEF Computed

LEMMA SettingsTypedInit == SettingsInit => SettingsTyped
<1> SUFFICES ASSUME SettingsInit PROVE SettingsTyped
  OBVIOUS
<1>1. SettingsInv
  BY SettingsInvInit
<1>2. contact \in Document
  BY DEF SettingsInit, Document, Flags
<1>3. stamp \in 0..MaxSaves /\ \A e \in Editors : ~editing[e].on
  BY SettingsAssumption DEF SettingsInit, NotEditing
<1> QED BY <1>1, <1>2, <1>3 DEF SettingsTyped

LEMMA EditIsTyped ==
  ASSUME SettingsTyped, SettingsInv', NEW e \in Editors, NEW section, NEW value, Edit(e, section, value),
         \/ section = "links" /\ value \in [Links -> Flags]
         \/ section = "titles" /\ value \in [Titles -> Flags]
         \/ section = "data" /\ value \in Nat
  PROVE  SettingsTyped'
<1> DEFINE d == [on |-> TRUE, seen |-> contact, stamp |-> stamp, section |-> section, value |-> value]
<1>1. Computed(d)
  BY DEF Computed, SettingsTyped
<1>2. editing' = [editing EXCEPT ![e] = d] /\ UNCHANGED <<contact, stamp, written>>
  BY DEF Edit
<1> HIDE DEF d
<1>3. editing'[e] = d /\ \A x \in Editors : x # e => editing'[x] = editing[x]
  BY <1>2 DEF SettingsTyped, SettingsInv
<1> QED BY <1>1, <1>2, <1>3 DEF SettingsTyped

LEMMA SettingsTypedStep == SettingsTyped /\ [SettingsNext]_settingsVars => SettingsTyped'
<1> SUFFICES ASSUME SettingsTyped, [SettingsNext]_settingsVars PROVE SettingsTyped'
  OBVIOUS
<1>1. SettingsInv'
  BY SettingsInvStep DEF SettingsTyped
<1>2. contact \in Document /\ stamp \in 0..MaxSaves /\ MaxSaves \in Nat
  BY SettingsAssumption DEF SettingsTyped
<1>3. ASSUME NEW e \in Editors, NEW l \in Links, NEW flag \in {"on", "off"},
             GrantLink(e, l, flag) \/ SwitchLink(e, l, flag)
      PROVE  SettingsTyped'
  <2>1. LinkSet(contact.links, l, flag) \in [Links -> Flags]
    BY <1>2 DEF Document, LinkSet, Flags
  <2>2. Edit(e, "links", LinkSet(contact.links, l, flag))
    BY <1>3 DEF GrantLink, SwitchLink
  <2> QED BY <1>1, <2>1, <2>2, EditIsTyped
<1>4. ASSUME NEW e \in Editors, NEW t \in Titles, NEW flag \in {"on", "off"}, Edit(e, "titles", [contact.titles EXCEPT ![t] = flag])
      PROVE  SettingsTyped'
  <2>1. [contact.titles EXCEPT ![t] = flag] \in [Titles -> Flags]
    BY <1>2 DEF Document, Flags
  <2> QED BY <1>1, <1>4, <2>1, EditIsTyped
<1>5. ASSUME NEW e \in Editors, UpdateContact(e) PROVE SettingsTyped'
  <2>1. contact.data + 1 \in Nat
    BY <1>2 DEF Document
  <2> QED BY <1>1, <1>5, <2>1, EditIsTyped DEF UpdateContact
<1>6. ASSUME NEW e \in Editors, SeedTitles(e) PROVE SettingsTyped'
  <2>1. [t \in Titles |-> "on"] \in [Titles -> Flags]
    BY DEF Flags
  <2> QED BY <1>1, <1>6, <2>1, EditIsTyped DEF SeedTitles
<1>7. ASSUME NEW e \in Editors, SaveSettings(e) PROVE SettingsTyped'
  <2>1. Section(editing[e].seen, editing[e].section, editing[e].value) \in Document
    BY <1>7, SectionsAreDocuments DEF SaveSettings, SettingsTyped
  <2>2. contact' \in Document /\ stamp' \in 0..MaxSaves
    BY <1>2, <1>7, <2>1 DEF SaveSettings
  <2>3. editing' = [editing EXCEPT ![e] = NotEditing]
    BY <1>7 DEF SaveSettings
  <2>4. ~editing'[e].on /\ \A x \in Editors : x # e => editing'[x] = editing[x]
    BY <2>3 DEF SettingsTyped, SettingsInv, NotEditing
  <2>5. \A x \in Editors : editing'[x].on => Computed(editing'[x])
    BY <2>4 DEF SettingsTyped
  <2> QED BY <1>1, <2>2, <2>5 DEF SettingsTyped
<1>8. CASE ExtendCredits
  <2>1. contact' \in Document
    BY <1>2, <1>8 DEF ExtendCredits, Document
  <2>2. stamp' \in 0..MaxSaves /\ editing' = editing
    BY <1>2, <1>8 DEF ExtendCredits
  <2> QED BY <1>1, <2>1, <2>2 DEF SettingsTyped
<1>9. CASE TouchRow \/ UNCHANGED settingsVars
  <2>1. stamp' \in 0..MaxSaves /\ editing' = editing /\ contact' = contact
    BY <1>2, <1>9 DEF TouchRow, settingsVars
  <2> QED BY <1>1, <1>2, <2>1 DEF SettingsTyped
<1>10. ASSUME NEW e \in Editors, NEW t \in Titles, CreateTitle(e, t) PROVE SettingsTyped'
  BY <1>4, <1>10 DEF CreateTitle
<1>11. ASSUME NEW e \in Editors, NEW t \in Titles, NEW flag \in {"on", "off"}, UpdateTitle(e, t, flag)
       PROVE  SettingsTyped'
  BY <1>4, <1>11 DEF UpdateTitle
<1> QED BY <1>3, <1>5, <1>6, <1>7, <1>8, <1>9, <1>10, <1>11 DEF SettingsNext

LEMMA SettingsKeepTypes == SettingsSpec => []SettingsTypeOK
<1>1. SettingsTyped => SettingsTypeOK
  BY DEF SettingsTyped, SettingsInv, SettingsTypeOK
<1> QED BY <1>1, SettingsTypedInit, SettingsTypedStep, PTL DEF SettingsSpec

-----------------------------------------------------------------------------
(* Types of the package: each request asks for something of its kind.      *)

Asked(r) ==
  \/ r.at = "asleep"
  \/ r.at \in {"checked", "inserted"} /\ r.what \in Things[r.kind]
  \/ r.at = "resizing" /\ r.what \in Projects /\ r.to \in 1..MaxTotal
PackageFields ==
  /\ allowed \in [Organizations -> Limits \cup {0}] /\ highest \in [Organizations -> Limits \cup {0}]
  /\ \A o \in Organizations, kind \in Kinds : owned[o][kind] \subseteq Things[kind]
  /\ bucket \subseteq Documents
  /\ total \in [Projects -> 1..MaxTotal] /\ holders \in [Projects -> SUBSET Users]
SetupTyped == PackageInv /\ PackageFields /\ \A c \in SetupCalls : Asked(request[c])

LEMMA SetupTypedInit == SetupInit => SetupTyped
<1> SUFFICES ASSUME SetupInit PROVE SetupTyped
  OBVIOUS
<1>1. PackageInv
  BY PackageInvInit
<1>2. allowed \in [Organizations -> Limits \cup {0}] /\ highest = allowed
  BY DEF SetupInit
<1>3. \A o \in Organizations, kind \in Kinds : owned[o][kind] \subseteq Things[kind]
  BY DEF SetupInit
<1>4. bucket \subseteq Documents /\ holders \in [Projects -> SUBSET Users]
  BY DEF SetupInit
<1>5. total \in [Projects -> 1..MaxTotal]
  BY SetupAssumption DEF SetupInit
<1>6. \A c \in SetupCalls : Asked(request[c])
  BY DEF SetupInit, Asleep, Asked
<1> QED BY <1>1, <1>2, <1>3, <1>4, <1>5, <1>6 DEF SetupTyped, PackageFields

\* A request that is written alone.
LEMMA AskedAlone ==
  ASSUME SetupTyped, NEW c \in SetupCalls, NEW r, Asked(r), request' = [request EXCEPT ![c] = r]
  PROVE  \A x \in SetupCalls : Asked(request'[x])
<1>1. request = [x \in SetupCalls |-> request[x]]
  BY DEF SetupTyped, PackageInv, PackageTypes
<1>2. request'[c] = r /\ \A x \in SetupCalls : x # c => request'[x] = request[x]
  BY <1>1
<1>3. \A x \in SetupCalls : Asked(request[x])
  BY DEF SetupTyped
<1> QED BY <1>2, <1>3

LEMMA AsleepIsAsked == Asked(Asleep)
  BY DEF Asked, Asleep

LEMMA SetupTypedStep == SetupTyped /\ [SetupNext]_setupVars => SetupTyped'
<1> SUFFICES ASSUME SetupTyped, [SetupNext]_setupVars PROVE SetupTyped'
  OBVIOUS
<1>1. PackageInv'
  BY PackageInvStep DEF SetupTyped
<1>2. PackageFields /\ (\A c \in SetupCalls : Asked(request[c])) /\ owned \in [Organizations -> [Kinds -> SUBSET Items]]
      /\ request = [c \in SetupCalls |-> request[c]]
  BY DEF SetupTyped, PackageInv, PackageTypes
<1>3. ASSUME PackageFields', \A c \in SetupCalls : Asked(request'[c]) PROVE SetupTyped'
  BY <1>1, <1>3 DEF SetupTyped
<1>4. ASSUME UNCHANGED <<allowed, highest, owned, bucket, total, holders>> PROVE PackageFields'
  BY <1>2, <1>4 DEF PackageFields
<1>5. ASSUME NEW o \in Organizations, NEW n \in Limits, NEW p \in Projects, NEW u \in Users, NEW joins \in BOOLEAN,
             FoundOrganization(o, n, p, u, joins)
      PROVE  SetupTyped'
  <2>1. allowed' = [allowed EXCEPT ![o] = n] /\ highest' = [highest EXCEPT ![o] = n]
        /\ owned' = [owned EXCEPT ![o] = [project |-> {p}, person |-> {u}, document |-> {}]]
        /\ holders' = [holders EXCEPT ![p] = IF joins THEN {u} ELSE {}]
        /\ UNCHANGED <<bucket, total, request>>
    BY <1>5 DEF FoundOrganization
  <2>2. \A x \in Organizations, kind \in Kinds : owned'[x][kind] \subseteq Things[kind]
    <3> SUFFICES ASSUME NEW x \in Organizations, NEW kind \in Kinds PROVE owned'[x][kind] \subseteq Things[kind]
      OBVIOUS
    <3>1. CASE x = o
      <4>1. owned'[x] = [project |-> {p}, person |-> {u}, document |-> {}]
        BY <1>2, <2>1, <3>1
      <4> QED BY <4>1 DEF Kinds, Things
    <3>2. CASE x # o
      <4>1. owned'[x] = owned[x]
        BY <2>1, <3>2
      <4> QED BY <1>2, <4>1 DEF PackageFields
    <3> QED BY <3>1, <3>2
  <2>3. allowed' \in [Organizations -> Limits \cup {0}] /\ highest' \in [Organizations -> Limits \cup {0}]
    BY <1>2, <2>1 DEF PackageFields
  <2>4. holders' \in [Projects -> SUBSET Users]
    BY <1>2, <2>1 DEF PackageFields
  <2>5. PackageFields'
    BY <1>2, <2>1, <2>2, <2>3, <2>4 DEF PackageFields
  <2> QED BY <1>2, <1>3, <2>1, <2>5
<1>6. ASSUME NEW c \in SetupCalls, NEW o \in Organizations, NEW kind \in Kinds, NEW x \in Things[kind],
             Look(c, o, kind, x), bucket' \subseteq Documents
      PROVE  SetupTyped'
  <2> DEFINE r == [at |-> "checked", org |-> o, kind |-> kind, what |-> x]
  <2>1. Asked(r)
    BY DEF Asked
  <2>2. request' = [request EXCEPT ![c] = r] /\ UNCHANGED <<allowed, highest, owned, total, holders>>
    BY <1>6 DEF Look
  <2> HIDE DEF r
  <2>3. \A y \in SetupCalls : Asked(request'[y])
    BY <2>1, <2>2, AskedAlone
  <2>4. PackageFields'
    BY <1>2, <1>6, <2>2 DEF PackageFields
  <2> QED BY <1>3, <2>3, <2>4
<1>7. ASSUME NEW c \in SetupCalls, NEW o \in Organizations, NEW p \in Projects, AskProject(c, o, p) PROVE SetupTyped'
  <2>1. p \in Things["project"] /\ "project" \in Kinds /\ bucket' \subseteq Documents
    BY <1>2, <1>7 DEF Things, Kinds, AskProject, PackageFields
  <2> QED BY <1>6, <1>7, <2>1 DEF AskProject
<1>8. ASSUME NEW c \in SetupCalls, NEW o \in Organizations, NEW u \in Users, AskInvitation(c, o, u) PROVE SetupTyped'
  <2>1. u \in Things["person"] /\ "person" \in Kinds /\ bucket' \subseteq Documents
    BY <1>2, <1>8 DEF Things, Kinds, AskInvitation, PackageFields
  <2> QED BY <1>6, <1>8, <2>1 DEF AskInvitation
<1>9. ASSUME NEW c \in SetupCalls, NEW o \in Organizations, NEW d \in Documents, StoreUpload(c, o, d) PROVE SetupTyped'
  <2>1. d \in Things["document"] /\ "document" \in Kinds /\ bucket' \subseteq Documents
    BY <1>2, <1>9 DEF Things, Kinds, StoreUpload, PackageFields
  <2> QED BY <1>6, <1>9, <2>1 DEF StoreUpload
<1>10. ASSUME NEW c \in SetupCalls, InsertRow(c) PROVE SetupTyped'
  <2>1. request[c].at = "checked" /\ UNCHANGED <<allowed, highest, owned, bucket, total, holders>>
    BY <1>10 DEF InsertRow
  <2>2. request[c] \in Rows /\ request[c].what \in Things[request[c].kind]
    BY <1>2, <2>1 DEF SetupTyped, PackageInv, PackageTypes, Waiting, Asked
  <2>3. PICK r : r = [request[c] EXCEPT !.at = "inserted"]
    OBVIOUS
  <2>4. r.at = "inserted" /\ r.what = request[c].what /\ r.kind = request[c].kind
    BY <2>2, <2>3 DEF Rows
  <2>5. Asked(r)
    BY <2>2, <2>4 DEF Asked
  <2>6. request' = [request EXCEPT ![c] = r]
    BY <1>10, <2>3 DEF InsertRow
  <2>7. \A y \in SetupCalls : Asked(request'[y])
    BY <2>5, <2>6, AskedAlone
  <2> QED BY <1>3, <1>4, <2>1, <2>7
<1>11. ASSUME NEW c \in SetupCalls, request' = [request EXCEPT ![c] = Asleep], PackageFields' PROVE SetupTyped'
  BY <1>3, <1>11, AskedAlone, AsleepIsAsked
<1>12. ASSUME NEW c \in SetupCalls, RefuseRow(c) PROVE SetupTyped'
  <2>1. bucket' \subseteq bucket /\ UNCHANGED <<allowed, highest, owned, total, holders>>
    BY <1>12 DEF RefuseRow
  <2>2. PackageFields'
    BY <1>2, <2>1 DEF PackageFields
  <2> QED BY <1>11, <1>12, <2>2 DEF RefuseRow
<1>13. ASSUME NEW c \in SetupCalls, CommitResize(c) PROVE SetupTyped'
  <2>1. request[c].what \in Projects /\ request[c].to \in 1..MaxTotal
    BY <1>2, <1>13 DEF CommitResize, Asked
  <2>2. total' = [total EXCEPT ![request[c].what] = request[c].to] /\ UNCHANGED <<allowed, highest, owned, bucket, holders>>
    BY <1>13 DEF CommitResize
  <2>3. total' \in [Projects -> 1..MaxTotal]
    BY <1>2, <2>1, <2>2 DEF PackageFields
  <2>4. PackageFields'
    BY <1>2, <2>2, <2>3 DEF PackageFields
  <2> QED BY <1>11, <1>13, <2>4 DEF CommitResize
<1>14. ASSUME NEW c \in SetupCalls, NEW u \in SUBSET Users, CommitRow(c, u) PROVE SetupTyped'
  <2>1. request[c] \in Rows /\ request[c].what \in Things[request[c].kind]
    BY <1>2, <1>14 DEF CommitRow, SetupTyped, PackageInv, PackageTypes, Waiting, Asked
  <2>2. PICK o \in Organizations, k \in Kinds, w \in Items :
          o = request[c].org /\ k = request[c].kind /\ w = request[c].what /\ w \in Things[k]
    BY <2>1 DEF Rows, Founded
  <2>3. owned' = [owned EXCEPT ![o][k] = @ \cup {w}] /\ UNCHANGED <<allowed, highest, bucket, total>>
        /\ holders' = IF k = "project" THEN [holders EXCEPT ![w] = u] ELSE holders
    BY <1>14, <2>2 DEF CommitRow
  <2>4. \A x \in Organizations, kind \in Kinds : owned'[x][kind] \subseteq Things[kind]
    <3> SUFFICES ASSUME NEW x \in Organizations, NEW kind \in Kinds PROVE owned'[x][kind] \subseteq Things[kind]
      OBVIOUS
    <3>1. owned'[x][kind] = owned[x][kind] \/ (kind = k /\ owned'[x][kind] = owned[x][kind] \cup {w})
      <4>1. owned'[x] = IF x = o THEN [owned[o] EXCEPT ![k] = @ \cup {w}] ELSE owned[x]
        BY <1>2, <2>3
      <4>2. owned[x] \in [Kinds -> SUBSET Items]
        BY <1>2
      <4> QED BY <4>1, <4>2
    <3>2. owned[x][kind] \subseteq Things[kind]
      BY <1>2 DEF PackageFields
    <3> QED BY <2>2, <3>1, <3>2
  <2>5. holders' \in [Projects -> SUBSET Users]
    BY <1>2, <2>2, <2>3 DEF PackageFields, Things
  <2>6. PackageFields'
    BY <1>2, <2>3, <2>4, <2>5 DEF PackageFields
  <2> QED BY <1>11, <1>14, <2>6 DEF CommitRow
<1>15. ASSUME NEW o \in Organizations, NEW n \in Limits, ChangePackage(o, n) PROVE SetupTyped'
  <2>1. allowed' \in [Organizations -> Limits \cup {0}] /\ highest' \in [Organizations -> Limits \cup {0}]
    BY <1>2, <1>15 DEF ChangePackage, PackageFields
  <2>2. UNCHANGED <<owned, bucket, total, holders, request>>
    BY <1>15 DEF ChangePackage
  <2>3. PackageFields'
    BY <1>2, <2>1, <2>2 DEF PackageFields
  <2> QED BY <1>2, <1>3, <2>2, <2>3
<1>16. ASSUME NEW o \in Organizations, NEW p \in Projects, NEW u \in Users, TakeShare(o, p, u) PROVE SetupTyped'
  <2>1. UNCHANGED <<allowed, highest, owned, bucket, total, request>> /\ holders' = [holders EXCEPT ![p] = @ \cup {u}]
    BY <1>16 DEF TakeShare
  <2>2. holders' \in [Projects -> SUBSET Users]
    BY <1>2, <2>1 DEF PackageFields
  <2>3. PackageFields'
    BY <1>2, <2>1, <2>2 DEF PackageFields
  <2> QED BY <1>2, <1>3, <2>1, <2>3
<1>17. ASSUME NEW c \in SetupCalls, NEW p \in Projects, NEW n \in 1..MaxTotal, StartResize(c, p, n) PROVE SetupTyped'
  <2> DEFINE r == [at |-> "resizing", what |-> p, to |-> n]
  <2>1. Asked(r)
    BY DEF Asked
  <2>2. request' = [request EXCEPT ![c] = r] /\ UNCHANGED <<allowed, highest, owned, bucket, total, holders>>
    BY <1>17 DEF StartResize
  <2> HIDE DEF r
  <2> QED BY <1>3, <1>4, <2>1, <2>2, AskedAlone
<1>18. CASE UNCHANGED setupVars
  BY <1>2, <1>3, <1>4, <1>18 DEF setupVars
<1> QED BY <1>5, <1>7, <1>8, <1>9, <1>10, <1>12, <1>13, <1>14, <1>15, <1>16, <1>17, <1>18 DEF SetupNext

LEMMA SetupKeepsTypes == SetupSpec => []SetupTypeOK
<1>1. ASSUME SetupTyped PROVE SetupTypeOK
  <2>1. \A c \in SetupCalls : request[c].at \in {"asleep", "checked", "inserted", "resizing"}
    BY <1>1 DEF SetupTyped, Asked
  <2>2. \A c \in SetupCalls : request[c].at = "inserted" => rowLock[request[c].org] = c
    BY <1>1 DEF SetupTyped, PackageInv, Reserved
  <2>3. rowLock \in [Organizations -> SetupCalls \cup {NoSetup}]
    BY <1>1 DEF SetupTyped, PackageInv, PackageTypes
  <2> QED BY <1>1, <2>1, <2>2, <2>3 DEF SetupTyped, PackageFields, SetupTypeOK
<1>2. SetupTyped => SetupTypeOK
  BY <1>1
<1> QED BY <1>2, SetupTypedInit, SetupTypedStep, PTL DEF SetupSpec

-----------------------------------------------------------------------------
(* Types of the roster: what a request keeps on the desk is of the kind it *)
(* will write.                                                             *)

SeatsTyped(s) == s \in [Persons -> [Roles -> Seat]]
SharesTyped(q) == q \in [Records -> Share]
OnDesk(d) ==
  \/ d.op = "free"
  \/ d.op = "add" /\ d.person \in Persons /\ d.shares \in 1..MaxShares
  \/ d.op = "import" /\ d.person \in Persons /\ d.shares \in 1..MaxShares /\ d.found \subseteq Records
  \/ /\ d.op = "edit" /\ d.rec \in Records /\ d.status \in {"keep", "active", "inactive"}
     /\ d.shares \in 0..MaxShares
  \/ /\ d.op = "role" /\ d.person \in Persons /\ d.from \in Roles /\ d.to \in Roles
     /\ d.set \in {"keep", "on", "off"}
RosterTyped ==
  /\ SharesTyped(record) /\ SeatsTyped(seat)
  /\ DOMAIN desk = Clerks /\ \A c \in Clerks : OnDesk(desk[c])

\* One record, and one seat, written alone.
SharePut(q, r, e) == [q EXCEPT ![r] = e]
SeatPut(s, p, role, e) == [s EXCEPT ![p][role] = e]

LEMMA SharesWritten ==
  ASSUME NEW q, SharesTyped(q), NEW r, NEW e \in Share
  PROVE  SharesTyped(SharePut(q, r, e))
  BY DEF SharesTyped, SharePut

LEMMA SeatWritten ==
  ASSUME NEW s, SeatsTyped(s), NEW p, NEW role, NEW e \in Seat
  PROVE  SeatsTyped(SeatPut(s, p, role, e))
  BY DEF SeatsTyped, SeatPut

LEMMA SharesThere ==
  ASSUME NEW n \in 0..MaxShares
  PROVE  n \in 0..MostShares
  BY RosterAssumption

LEMMA SeatedIsTyped ==
  ASSUME NEW s, SeatsTyped(s), NEW p, NEW r \in Records
  PROVE  SeatsTyped(Seated(s, p, r))
  <1>1. [state |-> "on", rec |-> r] \in Seat
    BY DEF Seat
  <1>2. Seated(s, p, r) = SeatPut(s, p, "member", [state |-> "on", rec |-> r])
    BY DEF Seated, SeatPut
  <1> QED BY <1>1, <1>2, SeatWritten

LEMMA VacatedIsTyped ==
  ASSUME NEW s, SeatsTyped(s), NEW r
  PROVE  SeatsTyped(Vacated(s, r))
  <1> SUFFICES ASSUME NEW p \in Persons
               PROVE  (IF s[p]["member"].rec = r /\ s[p]["member"].state = "on"
                       THEN [s[p] EXCEPT !["member"].state = "off"] ELSE s[p]) \in [Roles -> Seat]
    BY DEF SeatsTyped, Vacated
  <1>1. s[p] \in [Roles -> Seat] /\ s[p]["member"] \in Seat
    BY DEF SeatsTyped, Roles
  <1>2. PICK e : e = [s[p]["member"] EXCEPT !.state = "off"]
    OBVIOUS
  <1>3. e \in Seat
    BY <1>1, <1>2 DEF Seat
  <1>4. [s[p] EXCEPT !["member"].state = "off"] = [s[p] EXCEPT !["member"] = e]
    BY <1>2
  <1> QED BY <1>1, <1>3, <1>4

LEMMA LinkedIsTyped ==
  ASSUME NEW s, SeatsTyped(s), NEW p \in Persons, NEW r \in Records
  PROVE  SeatsTyped(Linked(s, p, r))
  <1> DEFINE f == [role \in Roles |-> IF s[p][role].state # "none" /\ s[p][role].rec = NoRecord
                                      THEN [s[p][role] EXCEPT !.rec = r] ELSE s[p][role]]
  <1>1. f \in [Roles -> Seat]
    <2> SUFFICES ASSUME NEW role \in Roles PROVE f[role] \in Seat
      OBVIOUS
    <2>1. s[p][role] \in Seat
      BY DEF SeatsTyped
    <2>2. [s[p][role] EXCEPT !.rec = r] \in Seat
      BY <2>1 DEF Seat
    <2> QED BY <2>1, <2>2
  <1>2. Linked(s, p, r) = [s EXCEPT ![p] = f]
    BY DEF Linked, SeatsTyped
  <1> HIDE DEF f
  <1> QED BY <1>1, <1>2 DEF SeatsTyped

LEMMA MovedIsTyped ==
  ASSUME NEW s, SeatsTyped(s), NEW d, d.person \in Persons, d.from \in Roles, d.to \in Roles,
         d.set \in {"keep", "on", "off"}, NEW r \in Records \cup {NoRecord}
  PROVE  SeatsTyped(Moved(s, d, r))
  <1> DEFINE p == d.person
             new == [state |-> IF d.set = "keep" THEN s[p][d.from].state ELSE d.set, rec |-> r]
             f == [role \in Roles |-> IF role = d.to THEN new ELSE IF role = d.from THEN NoSeat ELSE s[p][role]]
  <1>1. s[p] \in [Roles -> Seat]
    BY DEF SeatsTyped
  <1>2. s[p][d.from].state \in {"none", "on", "off"}
    BY <1>1 DEF Seat
  <1>3. new \in Seat /\ NoSeat \in Seat
    BY <1>2 DEF Seat, NoSeat
  <1>4. f \in [Roles -> Seat]
    <2> HIDE DEF new, p
    <2> QED BY <1>1, <1>3
  <1>5. Moved(s, d, r) = [s EXCEPT ![p] = f]
    BY DEF Moved, SeatsTyped
  <1> HIDE DEF f, new
  <1> QED BY <1>4, <1>5 DEF SeatsTyped

LEMMA EnsuredIsTyped ==
  ASSUME RosterTyped, NEW p \in Persons, NEW r \in Records
  PROVE  SharesTyped(Ensured(p, r))
  <1> DEFINE n == IF record[r].status = "none" THEN 0 ELSE record[r].shares
             e == [status |-> "active", person |-> p, shares |-> n]
  <1>1. n \in 0..MostShares
    BY RosterAssumption DEF RosterTyped, SharesTyped, Share
  <1> HIDE DEF n
  <1>2. e \in Share
    BY <1>1 DEF Share
  <1>3. Ensured(p, r) = SharePut(record, r, e)
    BY DEF Ensured, SharePut, RosterTyped, SharesTyped, n
  <1> HIDE DEF e
  <1> QED BY <1>2, <1>3, SharesWritten DEF RosterTyped

LEMMA RosterTypedInit == RosterInit => RosterTyped
  <1> SUFFICES ASSUME RosterInit PROVE RosterTyped
    OBVIOUS
  <1>1. PICK p \in Persons :
          seat = [x \in Persons |-> [role \in Roles |-> IF x = p /\ role = "owner"
                                                       THEN [state |-> "on", rec |-> NoRecord] ELSE NoSeat]]
    BY DEF RosterInit
  <1>2. [state |-> "on", rec |-> NoRecord] \in Seat /\ NoSeat \in Seat
    BY DEF Seat, NoSeat
  <1>3. SeatsTyped(seat)
    BY <1>1, <1>2 DEF SeatsTyped
  <1>4. [status |-> "none", shares |-> 0, person |-> NoPerson] \in Share
    BY RosterAssumption DEF Share
  <1>5. SharesTyped(record)
    BY <1>4 DEF RosterInit, SharesTyped
  <1>6. DOMAIN desk = Clerks /\ \A c \in Clerks : OnDesk(desk[c])
    BY DEF RosterInit, FreeDesk, OnDesk
  <1> QED BY <1>3, <1>5, <1>6 DEF RosterTyped

\* A clerk who puts something on the desk, or clears it.
LEMMA DeskWritten ==
  ASSUME RosterTyped, NEW c \in Clerks, NEW d, OnDesk(d), desk' = [desk EXCEPT ![c] = d]
  PROVE  DOMAIN desk' = Clerks /\ \A x \in Clerks : OnDesk(desk'[x])
  <1>1. DOMAIN desk' = Clerks /\ desk'[c] = d /\ \A x \in Clerks \ {c} : desk'[x] = desk[x]
    BY DEF RosterTyped
  <1> QED BY <1>1 DEF RosterTyped

LEMMA DeskCleared ==
  ASSUME RosterTyped, NEW c \in Clerks, desk' = [desk EXCEPT ![c] = FreeDesk]
  PROVE  DOMAIN desk' = Clerks /\ \A x \in Clerks : OnDesk(desk'[x])
  <1>1. OnDesk(FreeDesk)
    BY DEF OnDesk, FreeDesk
  <1> QED BY <1>1, DeskWritten

LEMMA EnrolledIsTyped ==
  ASSUME RosterTyped, NEW c \in Clerks, NEW r \in Records, NEW p \in Persons, NEW n \in 1..MaxShares, Enroll(c, r, p, n)
  PROVE  RosterTyped'
  <1>1. [status |-> "active", shares |-> n, person |-> p] \in Share
    BY RosterAssumption DEF Share
  <1>2. record' = SharePut(record, r, [status |-> "active", shares |-> n, person |-> p])
    BY DEF Enroll, SharePut
  <1>3. SharesTyped(record')
    BY <1>1, <1>2, SharesWritten DEF RosterTyped
  <1>4. SeatsTyped(seat')
    BY SeatedIsTyped DEF Enroll, RosterTyped
  <1> QED BY <1>3, <1>4, DeskCleared DEF Enroll, RosterTyped

LEMMA GoneIsShare == ASSUME RosterTyped, NEW r \in Records PROVE Gone(r) \in Share
  <1>1. record[r] \in Share /\ 0 \in 0..MostShares
    BY RosterAssumption DEF RosterTyped, SharesTyped
  <1> QED BY <1>1 DEF Gone, Share

LEMMA TransferIsTyped ==
  ASSUME RosterTyped, NEW r \in Records, NEW t \in Records, NEW p \in Persons, r # t, Transfer(r, p, t)
  PROVE  RosterTyped'
  <1> DEFINE n == record[t].shares + record[r].shares
             e == [status |-> "active", person |-> p, shares |-> n]
  <1>1. n \in 0..MostShares
    BY RosterAssumption DEF RosterTyped, SharesTyped, Share, Transfer
  <1> HIDE DEF n
  <1>2. e \in Share
    BY <1>1 DEF Share
  <1>3. record' = SharePut(SharePut(record, r, Gone(r)), t, e)
    BY DEF Transfer, SharePut, RosterTyped, SharesTyped, n
  <1> HIDE DEF e
  <1>4. SharesTyped(record')
    BY <1>2, <1>3, GoneIsShare, SharesWritten DEF RosterTyped
  <1>5. seat' = Seated(Vacated(seat, r), p, t) /\ desk' = desk
    BY DEF Transfer
  <1>6. SeatsTyped(seat')
    BY <1>5, VacatedIsTyped, SeatedIsTyped DEF RosterTyped
  <1> QED BY <1>4, <1>5, <1>6 DEF RosterTyped

LEMMA EditedIsTyped ==
  ASSUME RosterTyped, NEW c \in Clerks, CommitEdit(c)
  PROVE  RosterTyped'
  <1> DEFINE d == desk[c]
             r == d.rec
             p == record[r].person
  <1>1. d.op = "edit" /\ r \in Records /\ d.status \in {"keep", "active", "inactive"} /\ d.shares \in 0..MaxShares
    BY DEF CommitEdit, RosterTyped, OnDesk
  <1>2. record[r] \in Share
    BY <1>1 DEF RosterTyped, SharesTyped
  <1> DEFINE st == IF d.status = "keep" THEN record[r].status ELSE d.status
             n == IF d.status = "inactive" THEN 0 ELSE IF d.shares > 0 THEN d.shares ELSE record[r].shares
             e == [[record[r] EXCEPT !.status = st] EXCEPT !.shares = n]
  <1>3. record' = [record EXCEPT ![r].status = st, ![r].shares = n]
    BY DEF CommitEdit
  <1>4. seat' \in {Vacated(seat, r), Seated(seat, p, r), seat} /\ desk' = [desk EXCEPT ![c] = FreeDesk]
    BY DEF CommitEdit
  <1>5. st \in {"none", "active", "inactive"}
    BY <1>1, <1>2 DEF Share
  <1>6. n \in 0..MostShares
    BY <1>1, <1>2, RosterAssumption DEF Share
  <1> HIDE DEF st, n
  <1>7. e \in Share
    BY <1>2, <1>5, <1>6 DEF Share
  <1>8. record' = SharePut(record, r, e)
    BY <1>1, <1>2, <1>3 DEF RosterTyped, SharesTyped, SharePut, Share
  <1> HIDE DEF e, d, p
  <1>9. SharesTyped(record')
    BY <1>7, <1>8, SharesWritten DEF RosterTyped
  <1>10. SeatsTyped(seat')
    BY <1>1, <1>4, VacatedIsTyped, SeatedIsTyped DEF RosterTyped
  <1> QED BY <1>4, <1>9, <1>10, DeskCleared DEF RosterTyped

LEMMA InvitedIsTyped ==
  ASSUME RosterTyped, NEW r \in Records, Invite(r)
  PROVE  RosterTyped'
  <1> DEFINE p == record[r].person
             e == IF seat[p]["member"].state = "none" THEN [state |-> "on", rec |-> r]
                  ELSE [seat[p]["member"] EXCEPT !.state = "on"]
  <1>1. seat' = [seat EXCEPT ![p]["member"] = e] /\ UNCHANGED <<record, desk>>
    BY DEF Invite
  <1>2. CASE p \notin Persons
    <2>1. seat' = seat
      BY <1>1, <1>2 DEF RosterTyped, SeatsTyped
    <2> QED BY <1>1, <2>1 DEF RosterTyped
  <1>3. CASE p \in Persons
    <2>1. seat[p]["member"] \in Seat
      BY <1>3 DEF RosterTyped, SeatsTyped, Roles
    <2>2. e \in Seat
      BY <2>1 DEF Seat
    <2> HIDE DEF e, p
    <2>3. seat' = SeatPut(seat, p, "member", e)
      BY <1>1 DEF SeatPut
    <2>4. SeatsTyped(seat')
      BY <2>2, <2>3, SeatWritten DEF RosterTyped
    <2>5. record' = record /\ desk' = desk
      BY <1>1
    <2> QED BY <2>4, <2>5 DEF RosterTyped
  <1> QED BY <1>2, <1>3

LEMMA GrantIsTyped ==
  ASSUME RosterTyped, NEW p \in Persons, NEW role \in Roles, NEW also \in BOOLEAN, GrantRole(p, role, also)
  PROVE  RosterTyped'
  <1>1. CASE role = "member" \/ also
    <2>1. PICK r \in Ensurable(p) :
            /\ record' = Ensured(p, r)
            /\ seat' = Seated([Linked(seat, p, r) EXCEPT ![p][role] = [state |-> "on", rec |-> r]], p, r)
      BY <1>1 DEF GrantRole
    <2>2. r \in Records
      BY DEF Ensurable, Of, Unused
    <2>3. [state |-> "on", rec |-> r] \in Seat
      BY <2>2 DEF Seat
    <2>4. seat' = Seated(SeatPut(Linked(seat, p, r), p, role, [state |-> "on", rec |-> r]), p, r)
      BY <2>1 DEF SeatPut
    <2>5. SeatsTyped(seat')
      BY <2>2, <2>3, <2>4, LinkedIsTyped, SeatWritten, SeatedIsTyped DEF RosterTyped
    <2> QED BY <2>1, <2>2, <2>5, EnsuredIsTyped DEF GrantRole, RosterTyped
  <1>2. CASE ~(role = "member" \/ also)
    <2>1. [state |-> "on", rec |-> NoRecord] \in Seat
      BY DEF Seat
    <2>2. seat' = SeatPut(seat, p, role, [state |-> "on", rec |-> NoRecord]) /\ UNCHANGED <<record, desk>>
      BY <1>2 DEF GrantRole, SeatPut
    <2> QED BY <2>1, <2>2, SeatWritten DEF RosterTyped
  <1> QED BY <1>1, <1>2

LEMMA RoleIsTyped ==
  ASSUME RosterTyped, NEW c \in Clerks, CommitRole(c)
  PROVE  RosterTyped'
  <1> DEFINE d == desk[c]
             p == d.person
  <1>1. /\ p \in Persons /\ d.from \in Roles /\ d.to \in Roles /\ d.set \in {"keep", "on", "off"}
        /\ desk' = [desk EXCEPT ![c] = FreeDesk]
    BY DEF CommitRole, RosterTyped, OnDesk
  <1>2. CASE d.next = "on" /\ (d.to = "member" \/ d.also)
    <2>1. PICK r \in Ensurable(p) :
            /\ record' = Ensured(p, r)
            /\ seat' = Moved(IF d.from = "member" \/ d.also THEN Linked(Seated(seat, p, r), p, r) ELSE seat, d, r)
      BY <1>2 DEF CommitRole
    <2>2. r \in Records
      BY DEF Ensurable, Of, Unused
    <2> DEFINE s == IF d.from = "member" \/ d.also THEN Linked(Seated(seat, p, r), p, r) ELSE seat
    <2> HIDE DEF d, p
    <2>3. SeatsTyped(s)
      BY <1>1, <2>2, SeatedIsTyped, LinkedIsTyped DEF RosterTyped
    <2> HIDE DEF s
    <2>4. seat' = Moved(s, d, r)
      BY <2>1 DEF s
    <2>5. SeatsTyped(seat')
      BY <1>1, <2>2, <2>3, <2>4, MovedIsTyped DEF p
    <2>6. SharesTyped(record')
      BY <1>1, <2>1, <2>2, EnsuredIsTyped
    <2> QED BY <1>1, <2>5, <2>6, DeskCleared DEF RosterTyped
  <1>3. CASE ~(d.next = "on" /\ (d.to = "member" \/ d.also))
    <2> DEFINE r == IF d.to = "member" THEN seat[p][d.from].rec ELSE NoRecord
    <2>1. r \in Records \cup {NoRecord}
      BY <1>1 DEF RosterTyped, SeatsTyped, Seat
    <2>2. seat' = Moved(seat, d, r) /\ record' = record
      BY <1>3 DEF CommitRole
    <2> HIDE DEF r, d
    <2>3. SeatsTyped(seat')
      BY <1>1, <2>1, <2>2, MovedIsTyped DEF RosterTyped
    <2> QED BY <1>1, <2>2, <2>3, DeskCleared DEF RosterTyped
  <1> QED BY <1>2, <1>3

LEMMA RosterTypedStep == RosterTyped /\ [RosterNext]_rosterVars => RosterTyped'
  <1> SUFFICES ASSUME RosterTyped, [RosterNext]_rosterVars PROVE RosterTyped'
    OBVIOUS
  <1>1. ASSUME NEW c \in Clerks, NEW p \in Persons, NEW n \in 1..MaxShares, StartAdd(c, p, n) \/ StartImport(c, p, n)
        PROVE  RosterTyped'
    <2>1. OnDesk([op |-> "add", person |-> p, shares |-> n])
          /\ OnDesk([op |-> "import", person |-> p, shares |-> n, found |-> Of(p)])
      BY DEF OnDesk, Of
    <2>2. UNCHANGED <<record, seat>>
      BY <1>1 DEF StartAdd, StartImport
    <2>3. DOMAIN desk' = Clerks /\ \A x \in Clerks : OnDesk(desk'[x])
      BY <1>1, <2>1, DeskWritten DEF StartAdd, StartImport
    <2> QED BY <2>2, <2>3 DEF RosterTyped
  <1>2. ASSUME NEW c \in Clerks, NEW r \in Records, NEW status \in {"keep", "active", "inactive"}, NEW n \in 0..MaxShares,
               StartEdit(c, r, status, n)
        PROVE  RosterTyped'
    <2>1. OnDesk([op |-> "edit", rec |-> r, status |-> status, shares |-> n, before |-> record[r].status])
      BY DEF OnDesk
    <2>2. DOMAIN desk' = Clerks /\ \A x \in Clerks : OnDesk(desk'[x])
      BY <1>2, <2>1, DeskWritten DEF StartEdit
    <2> QED BY <1>2, <2>2 DEF RosterTyped, StartEdit
  <1>3. ASSUME NEW c \in Clerks, NEW p \in Persons, NEW role \in Roles, NEW to \in Roles,
               NEW on \in {"keep", "on", "off"}, NEW also \in BOOLEAN, StartRole(c, p, role, to, on, also)
        PROVE  RosterTyped'
    <2> DEFINE d == [op |-> "role", person |-> p, from |-> role, to |-> to, set |-> on, also |-> also,
                     next |-> IF on = "keep" THEN seat[p][role].state ELSE on]
    <2>1. OnDesk(d)
      BY DEF OnDesk
    <2>2. desk' = [desk EXCEPT ![c] = d] /\ UNCHANGED <<record, seat>>
      BY <1>3 DEF StartRole
    <2> HIDE DEF d
    <2>3. DOMAIN desk' = Clerks /\ \A x \in Clerks : OnDesk(desk'[x])
      BY <2>1, <2>2, DeskWritten
    <2> QED BY <2>2, <2>3 DEF RosterTyped
  <1>4. ASSUME NEW c \in Clerks, CommitAdd(c) PROVE RosterTyped'
    <2>1. PICK r \in Unused : Enroll(c, r, desk[c].person, desk[c].shares)
      BY <1>4 DEF CommitAdd
    <2>2. r \in Records /\ desk[c].person \in Persons /\ desk[c].shares \in 1..MaxShares
      BY <1>4 DEF CommitAdd, RosterTyped, OnDesk, Unused
    <2> QED BY <2>1, <2>2, EnrolledIsTyped
  <1>5. ASSUME NEW c \in Clerks, CommitImport(c) PROVE RosterTyped'
    <2>1. PICK r \in IF desk[c].found = {} THEN Unused ELSE desk[c].found : Enroll(c, r, desk[c].person, desk[c].shares)
      BY <1>5 DEF CommitImport
    <2>2. desk[c].found \subseteq Records /\ desk[c].person \in Persons /\ desk[c].shares \in 1..MaxShares
      BY <1>5 DEF CommitImport, RosterTyped, OnDesk
    <2>3. r \in Records
      BY <2>1, <2>2 DEF Unused
    <2> QED BY <2>1, <2>2, <2>3, EnrolledIsTyped
  <1>6. ASSUME NEW c \in Clerks, GiveUpRequest(c) PROVE RosterTyped'
    BY <1>6, DeskCleared DEF GiveUpRequest, RosterTyped
  <1>7. ASSUME NEW r \in Records, Remove(r) PROVE RosterTyped'
    <2>1. record' = SharePut(record, r, Gone(r)) /\ seat' = Vacated(seat, r) /\ desk' = desk
      BY <1>7 DEF Remove, SharePut
    <2>2. SharesTyped(record') /\ SeatsTyped(seat')
      BY <2>1, GoneIsShare, SharesWritten, VacatedIsTyped DEF RosterTyped
    <2> QED BY <2>1, <2>2 DEF RosterTyped
  <1>8. CASE UNCHANGED rosterVars
    BY <1>8 DEF rosterVars, RosterTyped
  <1> QED BY <1>1, <1>2, <1>3, <1>4, <1>5, <1>6, <1>7, <1>8, EditedIsTyped, RoleIsTyped, InvitedIsTyped,
             TransferIsTyped, GrantIsTyped DEF RosterNext

LEMMA RosterKeepsTypes == RosterSpec => []RosterTypeOK
  <1>1. RosterTyped => RosterTypeOK
    BY DEF RosterTyped, SharesTyped, SeatsTyped, RosterTypeOK
  <1> QED BY <1>1, RosterTypedInit, RosterTypedStep, PTL DEF RosterSpec

-----------------------------------------------------------------------------
(* The organization as one: every step of it is a step of the component at *)
(* work and of no other.                                                   *)

LEMMA RosterComposed == OrganizationSpec => RosterSpec
<1>1. OrganizationInit => RosterInit
  BY DEF OrganizationInit
<1>2. [OrganizationNext]_OrganizationVars => [RosterNext]_rosterVars
  BY DEF OrganizationNext, OrganizationVars, At, RosterMoves, ImportMoves, SettingsMoves, OnboardingMoves,
         SetupMoves, InstituteMoves, ContractMoves
<1> QED BY <1>1, <1>2, PTL DEF OrganizationSpec, RosterSpec

LEMMA ImportComposed == OrganizationSpec => ImportSpec
<1>1. OrganizationInit => ImportInit
  BY DEF OrganizationInit
<1>2. [OrganizationNext]_OrganizationVars => [ImportNext]_importVars
  BY DEF OrganizationNext, OrganizationVars, At, RosterMoves, ImportMoves, SettingsMoves, OnboardingMoves,
         SetupMoves, InstituteMoves, ContractMoves
<1> QED BY <1>1, <1>2, PTL DEF OrganizationSpec, ImportSpec

LEMMA SettingsComposed == OrganizationSpec => SettingsSpec
<1>1. OrganizationInit => SettingsInit
  BY DEF OrganizationInit
<1>2. [OrganizationNext]_OrganizationVars => [SettingsNext]_settingsVars
  BY DEF OrganizationNext, OrganizationVars, At, RosterMoves, ImportMoves, SettingsMoves, OnboardingMoves,
         SetupMoves, InstituteMoves, ContractMoves
<1> QED BY <1>1, <1>2, PTL DEF OrganizationSpec, SettingsSpec

LEMMA OnboardingComposed == OrganizationSpec => OnboardingSpec
<1>1. OrganizationInit => OnboardingInit
  BY DEF OrganizationInit
<1>2. [OrganizationNext]_OrganizationVars => [OnboardingNext]_onboardingVars
  BY DEF OrganizationNext, OrganizationVars, At, RosterMoves, ImportMoves, SettingsMoves, OnboardingMoves,
         SetupMoves, InstituteMoves, ContractMoves
<1> QED BY <1>1, <1>2, PTL DEF OrganizationSpec, OnboardingSpec

LEMMA SetupComposed == OrganizationSpec => SetupSpec
<1>1. OrganizationInit => SetupInit
  BY DEF OrganizationInit
<1>2. [OrganizationNext]_OrganizationVars => [SetupNext]_setupVars
  BY DEF OrganizationNext, OrganizationVars, At, RosterMoves, ImportMoves, SettingsMoves, OnboardingMoves,
         SetupMoves, InstituteMoves, ContractMoves
<1> QED BY <1>1, <1>2, PTL DEF OrganizationSpec, SetupSpec

LEMMA InstituteComposed == OrganizationSpec => InstituteSpec
<1>1. OrganizationInit => InstituteInit
  BY DEF OrganizationInit
<1>2. [OrganizationNext]_OrganizationVars => [InstituteNext]_instituteVars
  BY DEF OrganizationNext, OrganizationVars, At, RosterMoves, ImportMoves, SettingsMoves, OnboardingMoves,
         SetupMoves, InstituteMoves, ContractMoves
<1> QED BY <1>1, <1>2, PTL DEF OrganizationSpec, InstituteSpec

LEMMA ContractsComposed == OrganizationSpec => ContractsSpec
<1>1. OrganizationInit => ContractsInit
  BY DEF OrganizationInit
<1>2. [OrganizationNext]_OrganizationVars => [ContractsNext]_contractVars
  BY DEF OrganizationNext, OrganizationVars, At, RosterMoves, ImportMoves, SettingsMoves, OnboardingMoves,
         SetupMoves, InstituteMoves, ContractMoves
<1> QED BY <1>1, <1>2, PTL DEF OrganizationSpec, ContractsSpec

\* Every row of the organization keeps its type, for any constants.
THEOREM OrganizationTypes == OrganizationSpec => []OrganizationTypeOK
<1>1. OrganizationSpec => [](RosterTypeOK /\ ImportTypeOK /\ SettingsTypeOK)
  BY RosterComposed, ImportComposed, SettingsComposed, RosterKeepsTypes, ImportKeepsTypes, SettingsKeepTypes, PTL
<1>2. OrganizationSpec => [](OnboardingTypeOK /\ SetupTypeOK)
  BY OnboardingComposed, SetupComposed, SetUpIsReady, SetupKeepsTypes, PTL
<1>3. OrganizationSpec => [](InstituteTypeOK /\ ContractsTypeOK)
  BY InstituteComposed, ContractsComposed, InstituteIsSound, ContractsAreSound, PTL
<1>4. RosterTypeOK /\ ImportTypeOK /\ SettingsTypeOK /\ OnboardingTypeOK /\ SetupTypeOK /\ InstituteTypeOK
        /\ ContractsTypeOK => OrganizationTypeOK
  BY DEF OrganizationTypeOK
<1> QED BY <1>1, <1>2, <1>3, <1>4, PTL

\* What the components promise holds of an organization whose people do all of
\* it: nothing is imported twice or taken back, a set-up that was left is
\* ready, the package is kept, and fees, results and contracts add up.
THEOREM OrganizationIsSound ==
  OrganizationSpec => [](/\ OpeningImportedOnce /\ NoSectionLost /\ LeavesSetUpReady
                         /\ WithinPackage /\ InstituteHolds /\ ContractsHold)
<1>1. OrganizationSpec => [](OpeningImportedOnce /\ NoSectionLost /\ LeavesSetUpReady)
  BY ImportComposed, SettingsComposed, OnboardingComposed, ImportedOnce, SettingsNotLost, SetUpIsReady, PTL
<1>2. OrganizationSpec => [](WithinPackage /\ InstituteHolds /\ ContractsHold)
  BY SetupComposed, InstituteComposed, ContractsComposed, PackageKept, InstituteIsSound, ContractsAreSound, PTL
<1> QED BY <1>1, <1>2, PTL
=============================================================================
