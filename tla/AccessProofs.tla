---------------------------- MODULE AccessProofs ----------------------------
(***************************************************************************)
(* What concerns people, for any numbers of them: one part for each        *)
(* component, with its inductive invariant, and at the end their           *)
(* composition, in which one component moves while the others rest.        *)
(*                                                                         *)
(* Each invariant relates what a call has read, or claimed, to the rows:   *)
(* an open code has one holder, a session one child, a claimed reminder no *)
(* delivery yet.                                                           *)
(***************************************************************************)
EXTENDS MCAccess, FiniteSetTheorems, WellFoundedInduction, TLAPS

-----------------------------------------------------------------------------
(* Sign-in codes. *)

-----------------------------------------------------------------------------
(* Codes. *)

Code == [to : Contacts, state : {"open", "consumed", "expired"}]
Numbers == 1..MaxCodes
CodeAsk ==
  {NoAsk} \cup [at : {"reserve", "send", "issue"}, to : Contacts]
          \cup [at : {"locked"}, to : Contacts, old : SUBSET Numbers]
CodeLogin == {NoLogin} \cup [at : {"compared", "choice", "session"}, code : Numbers]

CodeTypes ==
  /\ usage \in [Tenants -> Nat] /\ texts \in [Tenants -> Nat]
  /\ ask \in [CodeRequests -> CodeAsk]
  /\ codes \in Seq(Code) /\ Len(codes) <= MaxCodes
  /\ login \in [Logins -> CodeLogin]
  /\ \A l \in Logins : login[l] # NoLogin => login[l].code \in DOMAIN codes
  /\ selections \subseteq Logins /\ chooser \in [Choosers -> Logins \cup {Nobody}]
  /\ sessionsOf \in [Numbers -> Nat]

\* The requests that hold a reservation of the organization and have not yet
\* called the provider.
Reserving(o) == {r \in CodeRequests : ask[r].at = "send" /\ o \in ScopesOf[ask[r].to]}

\* A message the provider takes was reserved before.
Reserved(o) ==
  /\ IsFiniteSet(Reserving(o))
  /\ texts[o] + Cardinality(Reserving(o)) <= usage[o] /\ usage[o] <= SmsLimit

\* While a request has a contact's lock the codes open for it are those it
\* will consume; so two are never open.
OneOpen ==
  /\ \A c \in Contacts, m, n \in DOMAIN codes : m \in OpenCodes(c) /\ n \in OpenCodes(c) => m = n
  /\ \A r \in CodeRequests : ask[r].at = "locked" => OpenCodes(ask[r].to) \subseteq ask[r].old
  /\ \A q, r \in CodeRequests : ask[q].at = "locked" /\ ask[r].at = "locked" /\ ask[q].to = ask[r].to => q = r

\* A code is claimed by one login, and opens its session there, or in the one
\* completion that took the login's choice.
Claims(l, n) == login[l].at \in {"choice", "session"} /\ login[l].code = n
OneClaim ==
  /\ \A n \in Numbers : sessionsOf[n] <= 1
  /\ \A n \in Numbers : (n \in DOMAIN codes => codes[n].state # "consumed") => sessionsOf[n] = 0
  /\ \A l \in Logins, n \in Numbers : Claims(l, n) => codes[n].state = "consumed"
  /\ \A l, m \in Logins, n \in Numbers : Claims(l, n) /\ Claims(m, n) => l = m
  /\ \A l \in Logins : login[l].at = "session" => sessionsOf[login[l].code] = 0
  /\ \A l \in selections : login[l].at = "choice" /\ sessionsOf[login[l].code] = 0
  /\ \A k \in Choosers : chooser[k] # Nobody =>
       /\ login[chooser[k]].at = "choice" /\ sessionsOf[login[chooser[k]].code] = 0
       /\ chooser[k] \notin selections
       /\ \A j \in Choosers : chooser[j] = chooser[k] => j = k

CodesInv == CodeTypes /\ (\A o \in Tenants : Reserved(o)) /\ OneOpen /\ OneClaim

LEMMA CodesInvInit == CodesInit => CodesInv
<1> SUFFICES ASSUME CodesInit PROVE CodesInv
  OBVIOUS
<1> USE CodesAssumption
<1>1. CodeTypes
  BY DEF CodesInit, CodeTypes, NoAsk, NoLogin, CodeAsk, CodeLogin, Numbers
<1>2. ASSUME NEW o \in Tenants PROVE Reserved(o)
  <2>1. Reserving(o) = {}
    BY DEF CodesInit, Reserving, NoAsk
  <2> QED BY <2>1, FS_EmptySet DEF CodesInit, Reserved
<1>3. OneOpen
  BY DEF CodesInit, OneOpen, OpenCodes, NoAsk
<1>4. OneClaim
  BY DEF CodesInit, OneClaim, Claims, NoLogin, Numbers
<1> QED BY <1>1, <1>2, <1>3, <1>4 DEF CodesInv

\* What a step that leaves a part alone keeps of it.
LEMMA ReservedKept ==
  ASSUME NEW o \in Tenants, Reserved(o), CodeTypes, UNCHANGED <<usage, texts>>,
         Reserving(o)' \subseteq Reserving(o)
  PROVE  Reserved(o)'
<1>1. IsFiniteSet(Reserving(o)') /\ Cardinality(Reserving(o)') <= Cardinality(Reserving(o))
  BY FS_Subset DEF Reserved
<1>2. Cardinality(Reserving(o)) \in Nat /\ Cardinality(Reserving(o)') \in Nat
  BY <1>1, FS_CardinalityType DEF Reserved
<1> QED BY <1>1, <1>2, CodesAssumption DEF Reserved, CodeTypes

LEMMA AskStaysOpen ==
  ASSUME CodeTypes, OneOpen, NEW r \in CodeRequests, NEW a \in CodeAsk,
         ask' = [ask EXCEPT ![r] = a], a.at # "locked", UNCHANGED codes
  PROVE  OneOpen'
<1>1. \A q \in CodeRequests : ask'[q].at = "locked" => q # r /\ ask'[q] = ask[q]
  BY DEF CodeTypes
<1> QED BY <1>1 DEF OneOpen, OpenCodes

LEMMA LoginRowType ==
  ASSUME NEW a \in CodeLogin
  PROVE  /\ a.at \in {"idle", "compared", "choice", "session"}
         /\ a.at = "idle" <=> a = NoLogin
         /\ a # NoLogin => a.code \in Numbers /\ a = [at |-> a.at, code |-> a.code]
  BY DEF CodeLogin, NoLogin

LEMMA ClaimsKept ==
  ASSUME CodeTypes, OneClaim, UNCHANGED <<login, selections, chooser, sessionsOf>>,
         DOMAIN codes \subseteq DOMAIN codes',
         \A n \in DOMAIN codes : codes[n].state = "consumed" => codes'[n].state = "consumed"
  PROVE  OneClaim'
<1>1. \A l \in Logins, n \in Numbers : Claims(l, n)' <=> Claims(l, n)
  BY DEF Claims
<1>2. \A l \in Logins, n \in Numbers : Claims(l, n) => n \in DOMAIN codes
  <2> SUFFICES ASSUME NEW l \in Logins, NEW n \in Numbers, Claims(l, n)
               PROVE  n \in DOMAIN codes
    OBVIOUS
  <2> QED BY LoginRowType DEF CodeTypes, Claims, NoLogin
<1>3. \A l \in Logins, n \in Numbers : Claims(l, n)' => codes'[n].state = "consumed"
  BY <1>1, <1>2 DEF OneClaim
<1>4. \A n \in Numbers : (n \in DOMAIN codes' => codes'[n].state # "consumed") => sessionsOf'[n] = 0
  BY DEF OneClaim
<1> QED BY <1>1, <1>3, <1>4 DEF OneClaim

LEMMA AskRowType ==
  ASSUME NEW a \in CodeAsk
  PROVE  /\ a.at \in {"idle", "reserve", "send", "issue", "locked"}
         /\ a.at \in {"reserve", "send", "issue"} => a \in [at : {"reserve", "send", "issue"}, to : Contacts]
         /\ a.at = "locked" => a \in [at : {"locked"}, to : Contacts, old : SUBSET Numbers]
         /\ a # NoAsk => a.to \in Contacts
  BY DEF CodeAsk, NoAsk

\* What CodesInv says of the parts, in the form the steps use.
LEMMA ReservedAll ==
  ASSUME CodesInv, CodeTypes', UNCHANGED <<usage, texts>>,
         \A r \in CodeRequests : ask'[r].at = "send" => ask'[r] = ask[r]
  PROVE  \A o \in Tenants : Reserved(o)'
<1> TAKE o \in Tenants
<1>1. Reserving(o)' \subseteq Reserving(o)
  BY DEF Reserving
<1> QED BY <1>1, ReservedKept DEF CodesInv

LEMMA AskKeeps ==
  ASSUME CodesInv, NEW r \in CodeRequests, NEW a \in CodeAsk,
         ask' = [ask EXCEPT ![r] = a], a.at \notin {"send", "locked"},
         UNCHANGED <<usage, texts, codes, login, selections, chooser, sessionsOf>>
  PROVE  CodesInv'
<1>1. CodeTypes'
  BY DEF CodesInv, CodeTypes
<1>2. \A q \in CodeRequests : ask'[q].at = "send" => ask'[q] = ask[q]
  BY DEF CodesInv, CodeTypes
<1>3. \A o \in Tenants : Reserved(o)'
  BY <1>1, <1>2, ReservedAll
<1>4. OneOpen'
  BY AskStaysOpen DEF CodesInv
<1>5. OneClaim'
  BY ClaimsKept DEF CodesInv
<1> QED BY <1>1, <1>3, <1>4, <1>5 DEF CodesInv

LEMMA AskStep ==
  ASSUME CodesInv, NEW r \in CodeRequests, NEW c \in Contacts, Ask(r, c)
  PROVE  CodesInv'
<1>1. PICK at \in {"issue", "reserve"} : ask' = [ask EXCEPT ![r] = [at |-> at, to |-> c]]
  BY DEF Ask
<1>2. [at |-> at, to |-> c] \in CodeAsk
  BY DEF CodeAsk
<1> QED BY <1>1, <1>2, AskKeeps DEF Ask

LEMMA EndAskStep ==
  ASSUME CodesInv, NEW r \in CodeRequests, EndAsk(r)
  PROVE  CodesInv'
<1>1. NoAsk \in CodeAsk /\ NoAsk.at = "idle"
  BY DEF CodeAsk, NoAsk
<1> QED BY <1>1, AskKeeps DEF EndAsk

LEMMA ReserveStep ==
  ASSUME CodesInv, NEW r \in CodeRequests, Reserve(r)
  PROVE  CodesInv'
<1> DEFINE c == ask[r].to
<1>1. /\ c \in Contacts /\ ask[r] \in [at : {"reserve", "send", "issue"}, to : Contacts]
      /\ ask[r].at = "reserve"
  BY AskRowType DEF CodesInv, CodeTypes, Reserve, NoAsk
<1>2. CASE ~ \A o \in ScopesOf[c] : usage[o] < SmsLimit
  <2>1. [ask[r] EXCEPT !.at = "issue"] \in CodeAsk /\ [ask[r] EXCEPT !.at = "issue"].at = "issue"
    BY <1>1 DEF CodeAsk
  <2> QED BY <1>2, <2>1, AskKeeps DEF Reserve, CodesInv, CodeTypes
<1>3. CASE \A o \in ScopesOf[c] : usage[o] < SmsLimit
  <2>1. /\ usage' = [o \in Tenants |-> usage[o] + IF o \in ScopesOf[c] THEN 1 ELSE 0]
        /\ ask' = [ask EXCEPT ![r].at = "send"]
        /\ UNCHANGED <<texts, codes, login, selections, chooser, sessionsOf>>
    BY <1>3 DEF Reserve
  <2>2. ask' = [ask EXCEPT ![r] = [at |-> "send", to |-> c]] /\ [at |-> "send", to |-> c] \in CodeAsk
    <3>1. [ask[r] EXCEPT !.at = "send"] = [at |-> "send", to |-> c]
      BY <1>1
    <3> QED BY <1>1, <2>1, <3>1 DEF CodeAsk
  <2>3. CodeTypes'
    <3>1. usage' \in [Tenants -> Nat]
      BY <2>1 DEF CodesInv, CodeTypes
    <3> QED BY <2>1, <2>2, <3>1 DEF CodesInv, CodeTypes
  <2>4. ASSUME NEW o \in Tenants PROVE Reserved(o)'
    <3>1. CASE o \in ScopesOf[c]
      <4>1. Reserving(o)' = Reserving(o) \cup {r} /\ r \notin Reserving(o)
        BY <1>1, <2>2, <3>1 DEF Reserving, CodesInv, CodeTypes
      <4>2. /\ IsFiniteSet(Reserving(o)')
            /\ Cardinality(Reserving(o)') = Cardinality(Reserving(o)) + 1
        BY <4>1, FS_AddElement DEF CodesInv, Reserved
      <4>3. Cardinality(Reserving(o)) \in Nat
        BY FS_CardinalityType DEF CodesInv, Reserved
      <4>4. usage'[o] = usage[o] + 1 /\ usage[o] < SmsLimit /\ texts' = texts
        BY <1>3, <2>1, <3>1
      <4> QED BY <4>2, <4>3, <4>4, CodesAssumption DEF CodesInv, Reserved, CodeTypes
    <3>2. CASE o \notin ScopesOf[c]
      <4>1. Reserving(o)' = Reserving(o)
        BY <1>1, <2>2, <3>2 DEF Reserving, CodesInv, CodeTypes
      <4>2. usage'[o] = usage[o] /\ texts' = texts
        BY <2>1, <3>2 DEF CodesInv, CodeTypes
      <4> QED BY <4>1, <4>2 DEF CodesInv, Reserved
    <3> QED BY <3>1, <3>2
  <2>5. OneOpen'
    BY <2>1, <2>2, AskStaysOpen DEF CodesInv
  <2>6. OneClaim'
    BY <2>1, ClaimsKept DEF CodesInv
  <2> QED BY <2>3, <2>4, <2>5, <2>6 DEF CodesInv
<1> QED BY <1>2, <1>3

LEMMA CallProviderStep ==
  ASSUME CodesInv, NEW r \in CodeRequests, NEW taken \in BOOLEAN, NEW answered \in BOOLEAN,
         CallProvider(r, taken, answered)
  PROVE  CodesInv'
<1> DEFINE c == ask[r].to
<1>1. /\ c \in Contacts /\ ask[r] \in [at : {"reserve", "send", "issue"}, to : Contacts]
      /\ ask[r].at = "send"
  BY AskRowType DEF CodesInv, CodeTypes, CallProvider, NoAsk
<1>2. PICK a \in CodeAsk : a.at \in {"idle", "issue"} /\ ask' = [ask EXCEPT ![r] = a]
  <2>1. NoAsk \in CodeAsk /\ NoAsk.at = "idle"
    BY DEF CodeAsk, NoAsk
  <2>2. [ask[r] EXCEPT !.at = "issue"] \in CodeAsk /\ [ask[r] EXCEPT !.at = "issue"].at = "issue"
    BY <1>1 DEF CodeAsk
  <2>3. CASE taken /\ answered
    BY <2>1, <2>3 DEF CallProvider
  <2>4. CASE ~(taken /\ answered)
    BY <2>2, <2>4 DEF CallProvider, CodesInv, CodeTypes
  <2> QED BY <2>3, <2>4
<1>3. /\ texts' = [o \in Tenants |-> texts[o] + IF taken /\ o \in ScopesOf[c] THEN 1 ELSE 0]
      /\ usage' = usage /\ UNCHANGED <<codes, login, selections, chooser, sessionsOf>>
  BY DEF CallProvider, UsageAfter
<1>4. CodeTypes'
  <2>1. texts' \in [Tenants -> Nat]
    BY <1>3 DEF CodesInv, CodeTypes
  <2> QED BY <1>2, <1>3, <2>1 DEF CodesInv, CodeTypes
<1>5. ASSUME NEW o \in Tenants PROVE Reserved(o)'
  <2>1. CASE o \in ScopesOf[c]
    <3>1. Reserving(o)' = Reserving(o) \ {r} /\ r \in Reserving(o)
      BY <1>1, <1>2, <2>1 DEF Reserving, CodesInv, CodeTypes
    <3>2. /\ IsFiniteSet(Reserving(o)')
          /\ Cardinality(Reserving(o)') = Cardinality(Reserving(o)) - 1
      BY <3>1, FS_RemoveElement DEF CodesInv, Reserved
    <3>3. Cardinality(Reserving(o)) \in Nat
      BY FS_CardinalityType DEF CodesInv, Reserved
    <3>4. texts'[o] \in Nat /\ texts'[o] <= texts[o] + 1 /\ usage' = usage
      BY <1>3 DEF CodesInv, CodeTypes
    <3> QED BY <3>2, <3>3, <3>4, CodesAssumption DEF CodesInv, Reserved, CodeTypes
  <2>2. CASE o \notin ScopesOf[c]
    <3>1. Reserving(o)' = Reserving(o)
      BY <1>1, <1>2, <2>2 DEF Reserving, CodesInv, CodeTypes
    <3>2. texts'[o] = texts[o] /\ usage' = usage
      BY <1>3, <2>2 DEF CodesInv, CodeTypes
    <3> QED BY <3>1, <3>2 DEF CodesInv, Reserved
  <2> QED BY <2>1, <2>2
<1>6. OneOpen'
  BY <1>2, <1>3, AskStaysOpen DEF CodesInv
<1>7. OneClaim'
  BY <1>3, ClaimsKept DEF CodesInv
<1> QED BY <1>4, <1>5, <1>6, <1>7 DEF CodesInv

LEMMA LockContactStep ==
  ASSUME CodesInv, NEW r \in CodeRequests, LockContact(r)
  PROVE  CodesInv'
<1> DEFINE c == ask[r].to  a == [at |-> "locked", to |-> c, old |-> OpenCodes(c)]
<1>1. c \in Contacts /\ ask' = [ask EXCEPT ![r] = a]
      /\ UNCHANGED <<usage, texts, codes, login, selections, chooser, sessionsOf>>
  BY AskRowType DEF CodesInv, CodeTypes, LockContact, NoAsk
<1>2. OpenCodes(c) \subseteq Numbers
  BY CodesAssumption DEF OpenCodes, CodesInv, CodeTypes, Numbers
<1>3. a \in CodeAsk
  BY <1>1, <1>2 DEF CodeAsk
<1>4. CodeTypes'
  BY <1>1, <1>3 DEF CodesInv, CodeTypes
<1>5. \A o \in Tenants : Reserved(o)'
  BY <1>1, <1>4, ReservedAll DEF CodesInv, CodeTypes
<1>6. OneOpen'
  <2>1. \A d \in Contacts : OpenCodes(d)' = OpenCodes(d)
    BY <1>1 DEF OpenCodes
  <2>2. \A q \in CodeRequests \ {r} : ask'[q] = ask[q]
    BY <1>1 DEF CodesInv, CodeTypes
  <2>3. ask'[r] = a
    BY <1>1 DEF CodesInv, CodeTypes
  <2>4. \A q \in CodeRequests : ask'[q].at = "locked" => (OpenCodes(ask[q].to) \subseteq ask[q].old)'
    BY <1>1, <2>2, <2>3 DEF OpenCodes, CodesInv, OneOpen
  <2>5. \A q \in CodeRequests \ {r} : ask[q].at = "locked" => ask[q].to # c
    BY DEF LockContact, ContactLock
  <2>6. \A p, q \in CodeRequests :
          ask'[p].at = "locked" /\ ask'[q].at = "locked" /\ ask'[p].to = ask'[q].to => p = q
    BY <2>2, <2>3, <2>5 DEF CodesInv, OneOpen
  <2>7. (\A d \in Contacts, m, n \in DOMAIN codes : m \in OpenCodes(d) /\ n \in OpenCodes(d) => m = n)'
    BY <1>1, <2>1 DEF CodesInv, OneOpen
  <2> QED BY <2>4, <2>6, <2>7 DEF OneOpen
<1>7. OneClaim'
  BY <1>1, ClaimsKept DEF CodesInv
<1> QED BY <1>4, <1>5, <1>6, <1>7 DEF CodesInv

LEMMA CommitCodeStep ==
  ASSUME CodesInv, NEW r \in CodeRequests, CommitCode(r)
  PROVE  CodesInv'
<1>0. PICK c \in Contacts : c = ask[r].to
  BY AskRowType DEF CodesInv, CodeTypes, CommitCode, NoAsk
<1> DEFINE older == [n \in DOMAIN codes |-> IF n \in ask[r].old THEN [codes[n] EXCEPT !.state = "consumed"]
                                          ELSE codes[n]]
<1>1. /\ ask[r].at = "locked" /\ Len(codes) < MaxCodes
      /\ codes' = Append(older, [to |-> c, state |-> "open"])
      /\ ask' = [ask EXCEPT ![r] = NoAsk]
      /\ UNCHANGED <<usage, texts, login, selections, chooser, sessionsOf>>
  BY <1>0 DEF CommitCode
<1>2. codes \in Seq(Code) /\ Len(codes) \in Nat /\ DOMAIN codes = 1..Len(codes)
  BY DEF CodesInv, CodeTypes
<1>n. PICK N : N = Len(codes) + 1
  OBVIOUS
<1>3. older \in Seq(Code) /\ Len(older) = Len(codes)
  <2>1. ASSUME NEW n \in 1..Len(codes) PROVE older[n] \in Code
    <3>1. codes[n] \in Code
      BY <1>2
    <3> QED BY <1>2, <3>1 DEF Code
  <2> QED BY <1>2, <2>1
<1>4. /\ codes' \in Seq(Code) /\ Len(codes') = N /\ DOMAIN codes' = 1..N
      /\ codes'[N] = [to |-> c, state |-> "open"]
      /\ \A n \in DOMAIN codes : codes'[n] = older[n]
  <2>1. [to |-> c, state |-> "open"] \in Code
    BY <1>1 DEF Code
  <2> HIDE DEF older
  <2> QED BY <1>1, <1>2, <1>3, <1>n, <2>1
<1>5. \A n \in DOMAIN codes : /\ codes'[n].to = codes[n].to
                              /\ codes'[n].state = IF n \in ask[r].old THEN "consumed" ELSE codes[n].state
  <2> TAKE n \in DOMAIN codes
  <2>1. codes[n] \in Code /\ codes'[n] = older[n]
    BY <1>2, <1>4
  <2> QED BY <2>1 DEF Code
<1> HIDE DEF older
<1>6. ask' \in [CodeRequests -> CodeAsk] /\ \A q \in CodeRequests : ask'[q] = IF q = r THEN NoAsk ELSE ask[q]
  BY <1>1 DEF CodesInv, CodeTypes, CodeAsk
<1>7. CodeTypes'
  <2>1. Len(codes') <= MaxCodes
    BY <1>1, <1>2, <1>4, <1>n, CodesAssumption
  <2>2. \A l \in Logins : login[l] # NoLogin => login[l].code \in DOMAIN codes'
    BY <1>2, <1>4, <1>n DEF CodesInv, CodeTypes
  <2> QED BY <1>1, <1>4, <1>6, <2>1, <2>2 DEF CodesInv, CodeTypes
<1>8. \A o \in Tenants : Reserved(o)'
  <2>1. NoAsk.at # "send"
    BY DEF NoAsk
  <2> QED BY <1>1, <1>6, <1>7, <2>1, ReservedAll
<1>9. OneOpen'
  <2>1. OpenCodes(c)' \subseteq {N}
    <3>1. OpenCodes(c) \subseteq ask[r].old
      BY <1>0, <1>1 DEF CodesInv, OneOpen
    <3>2. \A n \in DOMAIN codes' : n \in DOMAIN codes \/ n = N
      BY <1>2, <1>4, <1>n
    <3>3. \A n \in DOMAIN codes : ~(codes'[n].to = c /\ codes'[n].state = "open")
      BY <1>5, <3>1 DEF OpenCodes
    <3> QED BY <3>2, <3>3 DEF OpenCodes
  <2>2. ASSUME NEW d \in Contacts, d # c PROVE OpenCodes(d)' \subseteq OpenCodes(d)
    BY <1>2, <1>4, <1>5, <1>n, <2>2 DEF OpenCodes
  <2>3. (\A d \in Contacts, m, n \in DOMAIN codes : m \in OpenCodes(d) /\ n \in OpenCodes(d) => m = n)'
    <3> SUFFICES ASSUME NEW d \in Contacts, NEW m, NEW n, m \in OpenCodes(d)', n \in OpenCodes(d)'
                 PROVE  m = n
      OBVIOUS
    <3>1. CASE d = c
      BY <2>1, <3>1
    <3>2. CASE d # c
      BY <2>2, <3>2 DEF CodesInv, OneOpen, OpenCodes
    <3> QED BY <3>1, <3>2
  <2>4. \A q \in CodeRequests : ask'[q].at = "locked" => q # r /\ ask'[q] = ask[q] /\ ask[q].to \in Contacts \ {c}
    <3> SUFFICES ASSUME NEW q \in CodeRequests, ask'[q].at = "locked"
                 PROVE  q # r /\ ask'[q] = ask[q] /\ ask[q].to \in Contacts \ {c}
      OBVIOUS
    <3>1. q # r /\ ask'[q] = ask[q]
      BY <1>6 DEF NoAsk
    <3>2. ask[q].to \in Contacts
      BY <3>1, AskRowType DEF CodesInv, CodeTypes, NoAsk
    <3>3. ask[q].to # c
      BY <1>0, <1>1, <3>1 DEF CodesInv, OneOpen
    <3> QED BY <3>1, <3>2, <3>3
  <2>5. \A q \in CodeRequests : ask'[q].at = "locked" => (OpenCodes(ask[q].to) \subseteq ask[q].old)'
    <3> SUFFICES ASSUME NEW q \in CodeRequests, ask'[q].at = "locked"
                 PROVE  (OpenCodes(ask[q].to) \subseteq ask[q].old)'
      OBVIOUS
    <3> DEFINE d == ask[q].to
    <3>1. ask'[q] = ask[q] /\ d \in Contacts /\ d # c
      BY <2>4
    <3>2. OpenCodes(d) \subseteq ask[q].old
      BY <3>1 DEF CodesInv, OneOpen
    <3> QED BY <1>2, <1>4, <1>5, <1>n, <3>1, <3>2 DEF OpenCodes
  <2>6. (\A p, q \in CodeRequests : ask[p].at = "locked" /\ ask[q].at = "locked" /\ ask[p].to = ask[q].to => p = q)'
    BY <2>4 DEF CodesInv, OneOpen
  <2> QED BY <2>3, <2>5, <2>6 DEF OneOpen
<1>10. OneClaim'
  <2>1. DOMAIN codes \subseteq DOMAIN codes'
    BY <1>2, <1>4, <1>n
  <2> QED BY <1>1, <1>5, <2>1, ClaimsKept DEF CodesInv
<1> QED BY <1>7, <1>8, <1>9, <1>10 DEF CodesInv

\* One code changes its state, from open to something else.
LEMMA CodeCloses ==
  ASSUME CodesInv, NEW n \in DOMAIN codes, NEW s \in {"consumed", "expired"},
         codes[n].state = "open", codes' = [codes EXCEPT ![n].state = s], UNCHANGED ask
  PROVE  /\ codes' \in Seq(Code) /\ Len(codes') = Len(codes) /\ DOMAIN codes' = DOMAIN codes
         /\ codes'[n].state = s /\ \A m \in DOMAIN codes \ {n} : codes'[m] = codes[m]
         /\ OneOpen'
<1>1. codes \in Seq(Code) /\ Len(codes) \in Nat /\ DOMAIN codes = 1..Len(codes)
  BY DEF CodesInv, CodeTypes
<1>0. [codes[n] EXCEPT !.state = s] \in Code
  <2>1. codes[n] \in Code
    BY <1>1
  <2> QED BY <2>1 DEF Code
<1>2. \A m \in DOMAIN codes : /\ codes'[m].to = codes[m].to
                              /\ codes'[m].state = IF m = n THEN s ELSE codes[m].state
                              /\ m # n => codes'[m] = codes[m]
  BY <1>1 DEF Code
<1>3. codes' \in Seq(Code) /\ Len(codes') = Len(codes) /\ DOMAIN codes' = DOMAIN codes
  BY <1>0, <1>1
<1>4. \A c \in Contacts : OpenCodes(c)' \subseteq OpenCodes(c)
  BY <1>2, <1>3 DEF OpenCodes
<1>5. (\A c \in Contacts, m, k \in DOMAIN codes : m \in OpenCodes(c) /\ k \in OpenCodes(c) => m = k)'
  <2> SUFFICES ASSUME NEW c \in Contacts, NEW m, NEW k, m \in OpenCodes(c)', k \in OpenCodes(c)'
               PROVE  m = k
    OBVIOUS
  <2> QED BY <1>4 DEF CodesInv, OneOpen, OpenCodes
<1>6. \A q \in CodeRequests : ask'[q].at = "locked" => (OpenCodes(ask[q].to) \subseteq ask[q].old)'
  <2> SUFFICES ASSUME NEW q \in CodeRequests, ask'[q].at = "locked"
               PROVE  (OpenCodes(ask[q].to) \subseteq ask[q].old)'
    OBVIOUS
  <2>1. OpenCodes(ask[q].to) \subseteq ask[q].old
    BY DEF CodesInv, OneOpen
  <2> QED BY <1>2, <1>3, <2>1 DEF OpenCodes
<1> QED BY <1>2, <1>3, <1>5, <1>6 DEF OneOpen, CodesInv

LEMMA CodeExpiresStep ==
  ASSUME CodesInv, NEW n \in Numbers, CodeExpires(n)
  PROVE  CodesInv'
<1>1. n \in DOMAIN codes /\ codes[n].state = "open" /\ codes' = [codes EXCEPT ![n].state = "expired"]
  BY DEF CodeExpires
<1>2. UNCHANGED <<usage, texts, ask, login, selections, chooser, sessionsOf>>
  BY DEF CodeExpires
<1>3. /\ codes' \in Seq(Code) /\ Len(codes') = Len(codes) /\ DOMAIN codes' = DOMAIN codes
      /\ codes'[n].state = "expired" /\ \A m \in DOMAIN codes \ {n} : codes'[m] = codes[m]
      /\ OneOpen'
  BY <1>1, <1>2, CodeCloses
<1>4. CodeTypes'
  BY <1>2, <1>3 DEF CodesInv, CodeTypes
<1>5. \A o \in Tenants : Reserved(o)'
  BY <1>2, <1>4, ReservedAll
<1>6. OneClaim'
  BY <1>1, <1>2, <1>3, ClaimsKept DEF CodesInv
<1> QED BY <1>3, <1>4, <1>5, <1>6 DEF CodesInv

\* A step of a login or a chooser alone leaves the allowance and the open codes.
LEMMA RestKept ==
  ASSUME CodesInv, CodeTypes', OneClaim', UNCHANGED <<usage, texts, ask, codes>>
  PROVE  CodesInv'
<1>1. \A o \in Tenants : Reserved(o)'
  BY ReservedAll
<1>2. OneOpen'
  BY DEF CodesInv, OneOpen, OpenCodes
<1> QED BY <1>1, <1>2 DEF CodesInv

LEMMA TypeCodeStep ==
  ASSUME CodesInv, NEW l \in Logins, NEW n \in Numbers, TypeCode(l, n)
  PROVE  CodesInv'
<1> DEFINE a == [at |-> "compared", code |-> n]
<1>1. /\ login[l] = NoLogin /\ n \in DOMAIN codes /\ login' = [login EXCEPT ![l] = a]
      /\ UNCHANGED <<usage, texts, ask, codes, selections, chooser, sessionsOf>>
  BY DEF TypeCode
<1>2. a \in CodeLogin
  BY DEF CodeLogin
<1>3. login' \in [Logins -> CodeLogin] /\ \A m \in Logins : login'[m] = IF m = l THEN a ELSE login[m]
  BY <1>1, <1>2 DEF CodesInv, CodeTypes
<1>4. CodeTypes'
  BY <1>1, <1>3 DEF CodesInv, CodeTypes
<1>5. \A m \in Logins, k \in Numbers : Claims(m, k)' => m # l /\ Claims(m, k)
  BY <1>3 DEF Claims
<1>6. \A m \in Logins : login[m].at = "choice" => m # l
  BY <1>1 DEF NoLogin
<1>7. OneClaim'
  <2>1. \A m \in selections : m # l
    BY <1>6 DEF CodesInv, OneClaim, CodeTypes
  <2>2. \A k \in Choosers : chooser[k] # Nobody => chooser[k] \in Logins \ {l}
    BY <1>6 DEF CodesInv, OneClaim, CodeTypes
  <2>3. \A m \in Logins : login'[m].at = "session" => m # l /\ login'[m] = login[m]
    BY <1>3
  <2> QED BY <1>1, <1>3, <1>5, <2>1, <2>2, <2>3 DEF CodesInv, OneClaim
<1> QED BY <1>1, <1>4, <1>7, RestKept

LEMMA ClaimCodeStep ==
  ASSUME CodesInv, NEW l \in Logins, NEW several \in BOOLEAN, ClaimCode(l, several)
  PROVE  CodesInv'
<1>1. PICK n \in Numbers : /\ n = login[l].code /\ n \in DOMAIN codes
                           /\ login[l] = [at |-> "compared", code |-> n] /\ login[l].at = "compared"
  BY LoginRowType DEF CodesInv, CodeTypes, ClaimCode, NoLogin
<1>2. UNCHANGED <<usage, texts, ask, chooser, sessionsOf>>
  BY DEF ClaimCode
<1>3. \A m \in selections : m \in Logins \ {l}
  BY <1>1 DEF CodesInv, CodeTypes, OneClaim
<1>4. \A k \in Choosers : chooser[k] # Nobody => chooser[k] \in Logins \ {l}
  BY <1>1 DEF CodesInv, CodeTypes, OneClaim
<1>5. CASE codes[n].state # "open"
  <2>1. login' = [login EXCEPT ![l] = NoLogin] /\ UNCHANGED <<codes, selections>>
    BY <1>1, <1>5 DEF ClaimCode, Claimable
  <2>2. login' \in [Logins -> CodeLogin] /\ \A m \in Logins : login'[m] = IF m = l THEN NoLogin ELSE login[m]
    BY <2>1 DEF CodesInv, CodeTypes, CodeLogin
  <2>3. CodeTypes'
    BY <1>2, <2>1, <2>2 DEF CodesInv, CodeTypes
  <2>4. \A m \in Logins, k \in Numbers : Claims(m, k)' => Claims(m, k)
    BY <2>2 DEF Claims, NoLogin
  <2>5. \A m \in Logins : login'[m].at = "session" => login'[m] = login[m]
    BY <2>2 DEF NoLogin
  <2>6. OneClaim'
    BY <1>2, <1>3, <1>4, <2>1, <2>2, <2>4, <2>5 DEF CodesInv, OneClaim
  <2> QED BY <1>2, <2>1, <2>3, <2>6, RestKept
<1>6. CASE codes[n].state = "open"
  <2> DEFINE at == IF several THEN "choice" ELSE "session"
             a == [at |-> at, code |-> n]
  <2>1. /\ codes' = [codes EXCEPT ![n].state = "consumed"]
        /\ login' = [login EXCEPT ![l].at = at]
        /\ selections' = IF several THEN selections \cup {l} ELSE selections
    BY <1>1, <1>6 DEF ClaimCode, Claimable
  <2>2. a \in CodeLogin /\ a # NoLogin
    BY DEF CodeLogin, NoLogin
  <2>3. login' \in [Logins -> CodeLogin] /\ \A m \in Logins : login'[m] = IF m = l THEN a ELSE login[m]
    <3>1. [login[l] EXCEPT !.at = at] = a
      BY <1>1
    <3> QED BY <2>1, <2>2, <3>1 DEF CodesInv, CodeTypes
  <2>4. /\ codes' \in Seq(Code) /\ Len(codes') = Len(codes) /\ DOMAIN codes' = DOMAIN codes
        /\ codes'[n].state = "consumed" /\ \A m \in DOMAIN codes \ {n} : codes'[m] = codes[m]
        /\ OneOpen'
    BY <1>1, <1>2, <1>6, <2>1, CodeCloses
  <2>5. CodeTypes'
    <3>1. \A m \in Logins : login'[m] # NoLogin => login'[m].code \in DOMAIN codes'
      BY <1>1, <2>3, <2>4 DEF CodesInv, CodeTypes
    <3>2. selections' \subseteq Logins
      BY <2>1 DEF CodesInv, CodeTypes
    <3> QED BY <1>2, <2>3, <2>4, <3>1, <3>2 DEF CodesInv, CodeTypes
  <2>6. \A o \in Tenants : Reserved(o)'
    BY <1>2, <2>5, ReservedAll
  <2>7. sessionsOf[n] = 0
    BY <1>6 DEF CodesInv, OneClaim
  <2>8. \A m \in Logins, k \in Numbers : Claims(m, k)' <=> (m = l /\ k = n) \/ Claims(m, k)
    BY <1>1, <2>3 DEF Claims
  <2>9. \A m \in Logins : ~ Claims(m, n)
    BY <1>6 DEF CodesInv, OneClaim
  <2>10. OneClaim'
    <3>1. \A k \in Numbers : (k \in DOMAIN codes' => codes'[k].state # "consumed") => sessionsOf'[k] = 0
      BY <1>2, <2>4 DEF CodesInv, OneClaim
    <3>2. \A m \in Logins, k \in Numbers : Claims(m, k) => k \in DOMAIN codes
      <4> SUFFICES ASSUME NEW m \in Logins, NEW k \in Numbers, Claims(m, k)
                   PROVE  k \in DOMAIN codes
        OBVIOUS
      <4> QED BY LoginRowType DEF CodesInv, CodeTypes, Claims, NoLogin
    <3>3. \A m \in Logins, k \in Numbers : Claims(m, k)' => codes'[k].state = "consumed"
      BY <2>4, <2>8, <3>2 DEF CodesInv, OneClaim
    <3>4. \A m, j \in Logins, k \in Numbers : Claims(m, k)' /\ Claims(j, k)' => m = j
      BY <2>8, <2>9 DEF CodesInv, OneClaim
    <3>5. \A m \in Logins : login'[m].at = "session" => sessionsOf'[login'[m].code] = 0
      BY <1>2, <2>3, <2>7 DEF CodesInv, OneClaim
    <3>6. \A m \in selections' : login'[m].at = "choice" /\ sessionsOf'[login'[m].code] = 0
      BY <1>2, <1>3, <2>1, <2>3, <2>7 DEF CodesInv, OneClaim
    <3>7. \A k \in Choosers : chooser'[k] # Nobody =>
            /\ login'[chooser'[k]].at = "choice" /\ sessionsOf'[login'[chooser'[k]].code] = 0
            /\ chooser'[k] \notin selections'
            /\ \A j \in Choosers : chooser'[j] = chooser'[k] => j = k
      BY <1>2, <1>4, <2>1, <2>3 DEF CodesInv, OneClaim
    <3> QED BY <1>2, <3>1, <3>3, <3>4, <3>5, <3>6, <3>7 DEF CodesInv, OneClaim
  <2> QED BY <2>4, <2>5, <2>6, <2>10 DEF CodesInv
<1> QED BY <1>5, <1>6

\* A session is opened for a code that was claimed and has none.
LEMMA OpenSessionStep ==
  ASSUME CodesInv, NEW l \in Logins, NEW fine \in BOOLEAN, OpenSession(l, fine)
  PROVE  CodesInv'
<1>1. PICK n \in Numbers : n = login[l].code /\ login[l].at = "session"
  BY LoginRowType DEF CodesInv, CodeTypes, OpenSession, NoLogin
<1>2. PICK s \in {0, 1} : sessionsOf' = [sessionsOf EXCEPT ![n] = s]
  <2>1. sessionsOf[n] = 0 /\ sessionsOf[n] + (IF fine THEN 1 ELSE 0) \in {0, 1}
    BY <1>1 DEF CodesInv, OneClaim
  <2> QED BY <1>1, <2>1 DEF OpenSession
<1>3. /\ login' = [login EXCEPT ![l] = NoLogin]
      /\ UNCHANGED <<usage, texts, ask, codes, selections, chooser>>
  BY DEF OpenSession
<1>4. login' \in [Logins -> CodeLogin] /\ \A m \in Logins : login'[m] = IF m = l THEN NoLogin ELSE login[m]
  BY <1>3 DEF CodesInv, CodeTypes, CodeLogin
<1>5. sessionsOf' \in [Numbers -> Nat] /\ \A k \in Numbers : sessionsOf'[k] = IF k = n THEN s ELSE sessionsOf[k]
  BY <1>2 DEF CodesInv, CodeTypes
<1>6. CodeTypes'
  BY <1>3, <1>4, <1>5 DEF CodesInv, CodeTypes
<1>7. Claims(l, n) /\ codes[n].state = "consumed"
  BY <1>1 DEF CodesInv, OneClaim, Claims
<1>8. \A m \in Logins, k \in Numbers : Claims(m, k)' => Claims(m, k) /\ m # l /\ k # n
  <2>1. \A m \in Logins, k \in Numbers : Claims(m, k)' => Claims(m, k) /\ m # l
    BY <1>4 DEF Claims, NoLogin
  <2> QED BY <1>7, <2>1 DEF CodesInv, OneClaim
<1>9. \A m \in Logins \ {l} : login[m].at \in {"choice", "session"} => login[m].code \in Numbers \ {n}
  <2> SUFFICES ASSUME NEW m \in Logins \ {l}, login[m].at \in {"choice", "session"}
               PROVE  login[m].code \in Numbers \ {n}
    OBVIOUS
  <2>1. login[m].code \in Numbers
    BY LoginRowType DEF CodesInv, CodeTypes, NoLogin
  <2>2. Claims(m, login[m].code)
    BY DEF Claims
  <2> QED BY <1>7, <2>1, <2>2 DEF CodesInv, OneClaim
<1>10. OneClaim'
  <2>1. \A k \in Numbers : sessionsOf'[k] <= 1
    BY <1>5 DEF CodesInv, OneClaim
  <2>2. \A k \in Numbers : (k \in DOMAIN codes' => codes'[k].state # "consumed") => sessionsOf'[k] = 0
    <3>1. n \in DOMAIN codes
      BY <1>1, LoginRowType DEF CodesInv, CodeTypes, NoLogin
    <3> QED BY <1>3, <1>5, <1>7, <3>1 DEF CodesInv, OneClaim
  <2>3. \A m \in Logins, k \in Numbers : Claims(m, k)' => codes'[k].state = "consumed"
    BY <1>3, <1>8 DEF CodesInv, OneClaim
  <2>4. \A m, j \in Logins, k \in Numbers : Claims(m, k)' /\ Claims(j, k)' => m = j
    BY <1>8 DEF CodesInv, OneClaim
  <2>5. \A m \in Logins : login'[m].at = "session" => sessionsOf'[login'[m].code] = 0
    <3>1. \A m \in Logins : login'[m].at = "session" => m # l /\ login'[m] = login[m]
      BY <1>4 DEF NoLogin
    <3> QED BY <1>5, <1>9, <3>1 DEF CodesInv, OneClaim
  <2>6. \A m \in Logins : login[m].at = "choice" => m # l /\ login'[m] = login[m]
    BY <1>1, <1>4
  <2>7. \A m \in selections' : login'[m].at = "choice" /\ sessionsOf'[login'[m].code] = 0
    BY <1>3, <1>5, <1>9, <2>6 DEF CodesInv, OneClaim, CodeTypes
  <2>8. \A k \in Choosers : chooser'[k] # Nobody =>
          /\ login'[chooser'[k]].at = "choice" /\ sessionsOf'[login'[chooser'[k]].code] = 0
          /\ chooser'[k] \notin selections'
          /\ \A j \in Choosers : chooser'[j] = chooser'[k] => j = k
    BY <1>3, <1>5, <1>9, <2>6 DEF CodesInv, OneClaim, CodeTypes
  <2> QED BY <2>1, <2>2, <2>3, <2>4, <2>5, <2>7, <2>8 DEF OneClaim
<1> QED BY <1>3, <1>6, <1>10, RestKept

LEMMA ChooseStep ==
  ASSUME CodesInv, NEW k \in Choosers, NEW l \in Logins, Choose(k, l)
  PROVE  CodesInv'
<1>1. /\ chooser[k] = Nobody /\ l \in selections /\ selections' = selections \ {l}
      /\ chooser' = [chooser EXCEPT ![k] = l]
      /\ UNCHANGED <<usage, texts, ask, codes, login, sessionsOf>>
  BY DEF Choose, TakeChoice
<1>2. \A j \in Choosers : chooser'[j] = IF j = k THEN l ELSE chooser[j]
  BY <1>1 DEF CodesInv, CodeTypes
<1>3. CodeTypes'
  BY <1>1 DEF CodesInv, CodeTypes
<1>4. \A m \in Logins, n \in Numbers : Claims(m, n)' <=> Claims(m, n)
  BY <1>1 DEF Claims
<1>5. \A j \in Choosers : chooser'[j] # Nobody =>
        /\ login'[chooser'[j]].at = "choice" /\ sessionsOf'[login'[chooser'[j]].code] = 0
        /\ chooser'[j] \notin selections'
        /\ \A i \in Choosers : chooser'[i] = chooser'[j] => i = j
  BY <1>1, <1>2 DEF CodesInv, OneClaim
<1>6. \A m \in selections' : login'[m].at = "choice" /\ sessionsOf'[login'[m].code] = 0
  BY <1>1 DEF CodesInv, OneClaim
<1>7. OneClaim'
  BY <1>1, <1>4, <1>5, <1>6 DEF CodesInv, OneClaim
<1> QED BY <1>1, <1>3, <1>7, RestKept

LEMMA FinishChoiceStep ==
  ASSUME CodesInv, NEW k \in Choosers, NEW fine \in BOOLEAN, FinishChoice(k, fine)
  PROVE  CodesInv'
<1>1. PICK l \in Logins : l = chooser[k]
  BY DEF CodesInv, CodeTypes, FinishChoice
<1>2. /\ chooser' = [chooser EXCEPT ![k] = Nobody]
      /\ UNCHANGED <<usage, texts, ask, codes, login>>
  BY DEF FinishChoice
<1>3. /\ login[l].at = "choice" /\ sessionsOf[login[l].code] = 0 /\ l \notin selections
      /\ \A j \in Choosers : chooser[j] = l => j = k
  BY <1>1 DEF CodesInv, OneClaim, FinishChoice
<1>4. \A j \in Choosers : /\ chooser'[j] = IF j = k THEN Nobody ELSE chooser[j]
                          /\ chooser'[j] # Nobody => chooser'[j] = chooser[j] /\ chooser[j] \in Logins \ {l}
  BY <1>2, <1>3 DEF CodesInv, CodeTypes
<1>5. \A m \in Logins, n \in Numbers : Claims(m, n)' <=> Claims(m, n)
  BY <1>2 DEF Claims
<1>6. PICK n \in Numbers : n = login[l].code /\ Claims(l, n) /\ n \in DOMAIN codes
  BY <1>3, LoginRowType DEF CodesInv, CodeTypes, NoLogin, Claims
<1>7. CASE ~ fine
  <2>1. selections' = selections \cup {l} /\ UNCHANGED sessionsOf
    BY <1>1, <1>7 DEF FinishChoice
  <2>2. CodeTypes'
    BY <1>2, <2>1 DEF CodesInv, CodeTypes
  <2>3. OneClaim'
    <3>1. \A j \in Choosers : chooser'[j] # Nobody =>
            /\ login'[chooser'[j]].at = "choice" /\ sessionsOf'[login'[chooser'[j]].code] = 0
            /\ chooser'[j] \notin selections'
            /\ \A i \in Choosers : chooser'[i] = chooser'[j] => i = j
      BY <1>2, <1>4, <2>1 DEF CodesInv, OneClaim
    <3>2. \A m \in selections' : login'[m].at = "choice" /\ sessionsOf'[login'[m].code] = 0
      BY <1>2, <1>3, <2>1 DEF CodesInv, OneClaim
    <3> QED BY <1>2, <1>5, <2>1, <3>1, <3>2 DEF CodesInv, OneClaim
  <2> QED BY <1>2, <2>2, <2>3, RestKept
<1>8. CASE fine
  <2>1. UNCHANGED selections /\ sessionsOf' = [sessionsOf EXCEPT ![n] = 1]
    BY <1>1, <1>3, <1>6, <1>8 DEF FinishChoice
  <2>2. sessionsOf' \in [Numbers -> Nat] /\ \A i \in Numbers : sessionsOf'[i] = IF i = n THEN 1 ELSE sessionsOf[i]
    BY <2>1 DEF CodesInv, CodeTypes
  <2>3. CodeTypes'
    BY <1>2, <2>1, <2>2 DEF CodesInv, CodeTypes
  <2>4. \A m \in Logins \ {l} : login[m].at \in {"choice", "session"} => login[m].code \in Numbers \ {n}
    <3> SUFFICES ASSUME NEW m \in Logins \ {l}, login[m].at \in {"choice", "session"}
                 PROVE  login[m].code \in Numbers \ {n}
      OBVIOUS
    <3>1. login[m].code \in Numbers
      BY LoginRowType DEF CodesInv, CodeTypes, NoLogin
    <3>2. Claims(m, login[m].code)
      BY DEF Claims
    <3> QED BY <1>6, <3>1, <3>2 DEF CodesInv, OneClaim
  <2>5. OneClaim'
    <3>1. \A i \in Numbers : sessionsOf'[i] <= 1
      BY <2>2 DEF CodesInv, OneClaim
    <3>2. \A i \in Numbers : (i \in DOMAIN codes' => codes'[i].state # "consumed") => sessionsOf'[i] = 0
      BY <1>2, <1>6, <2>2 DEF CodesInv, OneClaim
    <3>3. \A m \in Logins : login'[m].at = "session" => sessionsOf'[login'[m].code] = 0
      BY <1>2, <1>3, <2>2, <2>4 DEF CodesInv, OneClaim
    <3>4. \A m \in selections' : login'[m].at = "choice" /\ sessionsOf'[login'[m].code] = 0
      BY <1>2, <1>3, <2>1, <2>2, <2>4 DEF CodesInv, OneClaim, CodeTypes
    <3>5. \A j \in Choosers : chooser'[j] # Nobody =>
            /\ login'[chooser'[j]].at = "choice" /\ sessionsOf'[login'[chooser'[j]].code] = 0
            /\ chooser'[j] \notin selections'
            /\ \A i \in Choosers : chooser'[i] = chooser'[j] => i = j
      BY <1>2, <1>4, <2>1, <2>2, <2>4 DEF CodesInv, OneClaim
    <3> QED BY <1>2, <1>5, <3>1, <3>2, <3>3, <3>4, <3>5 DEF CodesInv, OneClaim
  <2> QED BY <1>2, <2>3, <2>5, RestKept
<1> QED BY <1>7, <1>8

LEMMA ChoiceExpiresStep ==
  ASSUME CodesInv, NEW l \in Logins, ChoiceExpires(l)
  PROVE  CodesInv'
<1>1. /\ selections' = selections \ {l} /\ login' = [login EXCEPT ![l] = NoLogin]
      /\ \A k \in Choosers : chooser[k] # l
      /\ UNCHANGED <<usage, texts, ask, codes, chooser, sessionsOf>>
  BY DEF ChoiceExpires
<1>2. login' \in [Logins -> CodeLogin] /\ \A m \in Logins : login'[m] = IF m = l THEN NoLogin ELSE login[m]
  BY <1>1 DEF CodesInv, CodeTypes, CodeLogin
<1>3. CodeTypes'
  BY <1>1, <1>2 DEF CodesInv, CodeTypes
<1>4. \A m \in Logins, k \in Numbers : Claims(m, k)' => Claims(m, k)
  BY <1>2 DEF Claims, NoLogin
<1>5. \A m \in Logins : login'[m].at = "session" => login'[m] = login[m]
  BY <1>2 DEF NoLogin
<1>6. \A m \in selections' : login'[m] = login[m] /\ m \in selections
  BY <1>1, <1>2 DEF CodesInv, CodeTypes
<1>7. \A k \in Choosers : chooser[k] # Nobody => login'[chooser[k]] = login[chooser[k]]
  BY <1>1, <1>2 DEF CodesInv, CodeTypes
<1>8. OneClaim'
  BY <1>1, <1>4, <1>5, <1>6, <1>7 DEF CodesInv, OneClaim
<1> QED BY <1>1, <1>3, <1>8, RestKept

LEMMA CodesInvStep == CodesInv /\ [CodesNext]_codeVars => CodesInv'
<1> SUFFICES ASSUME CodesInv, [CodesNext]_codeVars PROVE CodesInv'
  OBVIOUS
<1>1. ASSUME NEW r \in CodeRequests, NEW c \in Contacts, Ask(r, c) PROVE CodesInv'
  BY <1>1, AskStep
<1>2. ASSUME NEW r \in CodeRequests, Reserve(r) \/ LockContact(r) \/ CommitCode(r) \/ EndAsk(r) PROVE CodesInv'
  BY <1>2, ReserveStep, LockContactStep, CommitCodeStep, EndAskStep
<1>3. ASSUME NEW r \in CodeRequests, NEW taken \in BOOLEAN, NEW answered \in BOOLEAN,
             CallProvider(r, taken, answered)
      PROVE  CodesInv'
  BY <1>3, CallProviderStep
<1>4. ASSUME NEW n \in 1..MaxCodes, CodeExpires(n) PROVE CodesInv'
  BY <1>4, CodeExpiresStep DEF Numbers
<1>5. ASSUME NEW l \in Logins, NEW n \in 1..MaxCodes, TypeCode(l, n) PROVE CodesInv'
  BY <1>5, TypeCodeStep DEF Numbers
<1>6. ASSUME NEW l \in Logins, NEW b \in BOOLEAN, ClaimCode(l, b) \/ OpenSession(l, b) PROVE CodesInv'
  BY <1>6, ClaimCodeStep, OpenSessionStep
<1>7. ASSUME NEW k \in Choosers, NEW l \in Logins, Choose(k, l) PROVE CodesInv'
  BY <1>7, ChooseStep
<1>8. ASSUME NEW k \in Choosers, NEW fine \in BOOLEAN, FinishChoice(k, fine) PROVE CodesInv'
  BY <1>8, FinishChoiceStep
<1>9. ASSUME NEW l \in Logins, ChoiceExpires(l) PROVE CodesInv'
  BY <1>9, ChoiceExpiresStep
<1>10. CASE UNCHANGED codeVars
  <2>1. CodeTypes' /\ OneClaim'
    BY <1>10, ClaimsKept DEF codeVars, CodesInv, CodeTypes
  <2> QED BY <1>10, <2>1, RestKept DEF codeVars
<1> QED BY <1>1, <1>2, <1>3, <1>4, <1>5, <1>6, <1>7, <1>8, <1>9, <1>10 DEF CodesNext

LEMMA CodesInvImplies == CodesInv => CodesTypeOK /\ CodesHold
<1> SUFFICES ASSUME CodesInv PROVE CodesTypeOK /\ CodesHold
  OBVIOUS
<1>1. CodesTypeOK
  BY AskRowType, LoginRowType DEF CodesInv, CodeTypes, CodesTypeOK, Code, Numbers
<1>2. OneSessionPerCode
  BY DEF CodesInv, CodeTypes, OneClaim, OneOpen, OneSessionPerCode, Numbers
<1>3. ASSUME NEW o \in Tenants PROVE texts[o] <= SmsLimit
  <2>1. Cardinality(Reserving(o)) \in Nat
    BY FS_CardinalityType DEF CodesInv, Reserved
  <2> QED BY <2>1, CodesAssumption DEF CodesInv, CodeTypes, Reserved
<1> QED BY <1>1, <1>2, <1>3 DEF CodesHold, TextsWithinAllowance

\* A code opens one session and an organization's allowance of text messages
\* is not exceeded, for any number of contacts, organizations and requests.
THEOREM CodesAreSafe == CodesSpec => [](CodesTypeOK /\ CodesHold)
<1>1. CodesSpec => []CodesInv
  BY CodesInvInit, CodesInvStep, PTL DEF CodesSpec
<1> QED BY <1>1, CodesInvImplies, PTL

-----------------------------------------------------------------------------
(* Support sessions. *)

Opened == [state : {"live", "revoked"}, parent : Masters, policy : 1..2, until : Nat]
SupportRow == {Unopened} \cup Opened
CallerRow ==
  {NoCaller} \cup [op : {"start"}, master : Masters, old : SUBSET Sessions]
             \cup [op : {"switch"}, from : Sessions] \cup [op : {"sign_out"}, master : Masters]
Guess == [id : Attempts, at : 0..MaxElapsed]

SupportTypes ==
  /\ master \in [Masters -> [state : {"none", "live", "ended"}, since : 0..MaxElapsed]]
  /\ support \in [Sessions -> SupportRow]
  /\ caller \in [Callers -> CallerRow]
  /\ failed \subseteq Guess /\ IsFiniteSet(failed)
  /\ config \in 1..2 /\ elapsed \in 0..MaxElapsed
  /\ \A m \in Masters : master[m].since <= elapsed

\* A support session ends with its sign-in's half hour, and its sign-in was
\* made; a sign-in has one.
OneChild ==
  /\ \A s \in Sessions : Live(s) =>
       master[support[s].parent].state # "none" /\ support[s].until <= master[support[s].parent].since + 2
  /\ \A s, z \in Sessions : Live(s) /\ Live(z) /\ support[s].parent = support[z].parent => s = z

\* One transaction starts or switches at a time, and one that starts has read
\* every session it must revoke.
Starting(c) == caller[c].op = "start"
Changing(c) == caller[c].op \in {"start", "switch"}
OneChange ==
  /\ \A b, c \in Callers : Changing(b) /\ Changing(c) => b = c
  /\ \A c \in Callers : Starting(c) =>
       /\ master[caller[c].master].state # "none"
       /\ ChildrenOf(caller[c].master) \subseteq caller[c].old
       /\ \A z \in caller[c].old : support[z] # Unopened

GuessesAt(t) == {f \in failed : f.at = t}
RoomForGuess ==
  /\ \A t \in 0..MaxElapsed : Cardinality(GuessesAt(t)) <= FailureLimit
  /\ \A f \in failed : f.at <= elapsed
  /\ \A c \in Callers : Starting(c) => Cardinality(GuessesAt(elapsed)) < FailureLimit

SupportInv == SupportTypes /\ OneChild /\ OneChange /\ RoomForGuess

LEMMA SupportInvInit == SupportInit => SupportInv
<1> SUFFICES ASSUME SupportInit PROVE SupportInv
  OBVIOUS
<1> USE SupportAssumption
<1>1. SupportTypes
  BY FS_EmptySet DEF SupportInit, SupportTypes, SupportRow, CallerRow
<1>2. OneChild /\ OneChange
  BY DEF SupportInit, OneChild, OneChange, Live, Starting, Changing, Unopened, NoCaller
<1>3. \A t \in 0..MaxElapsed : GuessesAt(t) = {}
  BY DEF SupportInit, GuessesAt
<1>4. RoomForGuess
  BY <1>3, FS_EmptySet DEF SupportInit, RoomForGuess, Starting, NoCaller
<1> QED BY <1>1, <1>2, <1>4 DEF SupportInv

LEMMA CallerRowType ==
  ASSUME NEW a \in CallerRow
  PROVE  /\ a.op \in {"none", "start", "switch", "sign_out"}
         /\ a.op = "none" <=> a = NoCaller
         /\ a.op = "start" => a.master \in Masters /\ a.old \in SUBSET Sessions
         /\ a.op = "switch" => a.from \in Sessions
         /\ a.op = "sign_out" => a.master \in Masters
  BY DEF CallerRow, NoCaller

LEMMA SupportRowType ==
  ASSUME NEW a \in SupportRow
  PROVE  /\ a.state \in {"none", "live", "revoked"}
         /\ a.state = "none" <=> a = Unopened
         /\ a # Unopened => a \in Opened /\ [a EXCEPT !.state = "revoked"] \in Opened
         /\ a # Unopened => [a EXCEPT !.state = "revoked"].state = "revoked"
  BY DEF SupportRow, Unopened, Opened

\* Revoking leaves the sessions outside the set, and ends those in it.
LEMMA RevokingRows ==
  ASSUME SupportTypes, NEW S \in SUBSET Sessions, \A z \in S : support[z] # Unopened
  PROVE  /\ Revoking(S) \in [Sessions -> SupportRow]
         /\ \A z \in Sessions : Revoking(S)[z].state = "live" => z \notin S /\ Revoking(S)[z] = support[z]
         /\ \A z \in Sessions : support[z] # Unopened => Revoking(S)[z] # Unopened
<1>1. ASSUME NEW z \in Sessions, z \in S
      PROVE  /\ Revoking(S)[z] \in SupportRow /\ Revoking(S)[z].state = "revoked" /\ Revoking(S)[z] # Unopened
  <2>1. support[z] \in SupportRow /\ support[z] # Unopened
    BY <1>1 DEF SupportTypes
  <2>2. Revoking(S)[z] = [support[z] EXCEPT !.state = "revoked"]
    BY <1>1 DEF Revoking
  <2> QED BY <2>1, <2>2, SupportRowType DEF SupportRow, Unopened
<1>2. ASSUME NEW z \in Sessions, z \notin S
      PROVE  Revoking(S)[z] = support[z] /\ Revoking(S)[z] \in SupportRow
  BY <1>2 DEF Revoking, SupportTypes
<1>3. Revoking(S) \in [Sessions -> SupportRow]
  BY <1>1, <1>2 DEF Revoking
<1>4. \A z \in Sessions : Revoking(S)[z].state = "live" => z \notin S /\ Revoking(S)[z] = support[z]
  BY <1>1, <1>2
<1>5. \A z \in Sessions : support[z] # Unopened => Revoking(S)[z] # Unopened
  BY <1>1, <1>2
<1> QED BY <1>3, <1>4, <1>5

\* No session begins: what holds of the live ones and of transactions is kept.
LEMMA SessionsOnlyEnd ==
  ASSUME SupportInv, support' \in [Sessions -> SupportRow],
         \A z \in Sessions : support'[z].state = "live" => support'[z] = support[z],
         \A z \in Sessions : support[z] # Unopened => support'[z] # Unopened,
         UNCHANGED <<master, failed, config, elapsed>>,
         caller' \in [Callers -> CallerRow],
         \A c \in Callers : caller'[c].op \in {"start", "switch"} => caller'[c] = caller[c]
  PROVE  SupportInv'
<1>1. SupportTypes'
  BY DEF SupportInv, SupportTypes
<1>2. OneChild'
  BY DEF SupportInv, OneChild, Live
<1>3. OneChange'
  <2>1. (\A b, c \in Callers : Changing(b) /\ Changing(c) => b = c)'
    BY DEF SupportInv, OneChange, Changing
  <2>2. ASSUME NEW c \in Callers, Starting(c)'
        PROVE  (/\ master[caller[c].master].state # "none"
                /\ ChildrenOf(caller[c].master) \subseteq caller[c].old
                /\ \A z \in caller[c].old : support[z] # Unopened)'
    <3>1. caller'[c] = caller[c] /\ Starting(c) /\ caller[c].old \in SUBSET Sessions
      BY <2>2, CallerRowType DEF Starting, SupportInv, SupportTypes
    <3>2. /\ master[caller[c].master].state # "none" /\ ChildrenOf(caller[c].master) \subseteq caller[c].old
          /\ \A z \in caller[c].old : support[z] # Unopened
      BY <3>1 DEF SupportInv, OneChange
    <3>3. (ChildrenOf(caller[c].master) \subseteq caller[c].old)'
      BY <3>1, <3>2 DEF ChildrenOf, Live
    <3> QED BY <3>1, <3>2, <3>3
  <2> QED BY <2>1, <2>2 DEF OneChange
<1>4. RoomForGuess'
  <2>1. \A c \in Callers : Starting(c)' => Starting(c)
    BY DEF Starting
  <2>2. \A t \in 0..MaxElapsed : GuessesAt(t)' = GuessesAt(t)
    BY DEF GuessesAt
  <2> QED BY <2>1, <2>2 DEF SupportInv, RoomForGuess, SupportTypes, GuessesAt
<1> QED BY <1>1, <1>2, <1>3, <1>4 DEF SupportInv

LEMMA SignInMasterStep ==
  ASSUME SupportInv, NEW m \in Masters, SignInMaster(m)
  PROVE  SupportInv'
<1>1. /\ master[m].state = "none" /\ master' = [master EXCEPT ![m] = [state |-> "live", since |-> elapsed]]
      /\ UNCHANGED <<support, caller, failed, config, elapsed>>
  BY DEF SignInMaster
<1>2. \A k \in Masters : master'[k] = IF k = m THEN [state |-> "live", since |-> elapsed] ELSE master[k]
  BY <1>1 DEF SupportInv, SupportTypes
<1>3. SupportTypes'
  BY <1>1, <1>2, SupportAssumption DEF SupportInv, SupportTypes
<1>4. \A s \in Sessions : Live(s) => support[s].parent \in Masters \ {m}
  BY <1>1, SupportRowType DEF SupportInv, OneChild, Live, SupportTypes, Opened
<1>5. OneChild'
  BY <1>1, <1>2, <1>4 DEF SupportInv, OneChild, Live
<1>6. OneChange'
  <2>1. \A c \in Callers : Starting(c) => caller[c].master \in Masters \ {m}
    BY <1>1, CallerRowType DEF SupportInv, OneChange, Starting, SupportTypes
  <2>2. \A c \in Callers : Starting(c)' <=> Starting(c)
    BY <1>1 DEF Starting
  <2>3. \A c \in Callers : Starting(c) =>
          (ChildrenOf(caller[c].master) \subseteq caller[c].old)' /\ (master[caller[c].master].state # "none")'
    BY <1>1, <1>2, <2>1 DEF SupportInv, OneChange, ChildrenOf, Live
  <2> QED BY <1>1, <2>2, <2>3 DEF SupportInv, OneChange, Changing
<1>7. RoomForGuess'
  BY <1>1 DEF SupportInv, RoomForGuess, Starting, GuessesAt
<1> QED BY <1>3, <1>5, <1>6, <1>7 DEF SupportInv

LEMMA BeginStartStep ==
  ASSUME SupportInv, NEW c \in Callers, NEW m \in Masters, BeginStart(c, m)
  PROVE  SupportInv'
<1> DEFINE a == [op |-> "start", master |-> m, old |-> ChildrenOf(m)]
<1>1. /\ Entitled(m) /\ SupportLock /\ Cardinality(RecentFailures) < FailureLimit
      /\ caller' = [caller EXCEPT ![c] = a]
      /\ UNCHANGED <<master, support, failed, config, elapsed>>
  BY DEF BeginStart
<1>2. a \in CallerRow
  BY DEF CallerRow, ChildrenOf
<1>3. caller' \in [Callers -> CallerRow] /\ \A b \in Callers : caller'[b] = IF b = c THEN a ELSE caller[b]
  BY <1>1, <1>2 DEF SupportInv, SupportTypes
<1>4. SupportTypes'
  BY <1>1, <1>3 DEF SupportInv, SupportTypes
<1>5. OneChild'
  BY <1>1 DEF SupportInv, OneChild, Live
<1>6. \A b \in Callers : (Changing(b)' => b = c) /\ (Starting(b)' => b = c)
  BY <1>1, <1>3 DEF SupportLock, Changing, Starting
<1>7. OneChange'
  <2>1. ChildrenOf(m)' = ChildrenOf(m) /\ \A z \in ChildrenOf(m) : support[z] # Unopened
    BY <1>1 DEF ChildrenOf, Live, Unopened
  <2>2. caller'[c].master = m /\ caller'[c].old = ChildrenOf(m)
    BY <1>3
  <2>3. (ChildrenOf(caller[c].master) \subseteq caller[c].old)'
    BY <1>1, <2>2 DEF ChildrenOf, Live
  <2>4. master'[m].state # "none"
    BY <1>1 DEF Entitled
  <2> QED BY <1>1, <1>6, <2>1, <2>2, <2>3, <2>4 DEF OneChange
<1>8. RoomForGuess'
  <2>1. Cardinality(GuessesAt(elapsed)) < FailureLimit
    <3>1. GuessesAt(elapsed) \subseteq RecentFailures
      BY SupportAssumption DEF GuessesAt, RecentFailures, SupportInv, SupportTypes, Guess
    <3>2. IsFiniteSet(RecentFailures)
      <4>1. RecentFailures \subseteq failed
        BY DEF RecentFailures
      <4> QED BY <4>1, FS_Subset DEF SupportInv, SupportTypes
    <3>3. IsFiniteSet(GuessesAt(elapsed)) /\ Cardinality(GuessesAt(elapsed)) <= Cardinality(RecentFailures)
      BY <3>1, <3>2, FS_Subset
    <3>4. Cardinality(GuessesAt(elapsed)) \in Nat /\ Cardinality(RecentFailures) \in Nat
      BY <3>2, <3>3, FS_CardinalityType
    <3> QED BY <1>1, <3>3, <3>4, SupportAssumption
  <2> QED BY <1>1, <2>1 DEF SupportInv, RoomForGuess, GuessesAt
<1> QED BY <1>4, <1>5, <1>7, <1>8 DEF SupportInv

LEMMA RecordWrongCodeStep ==
  ASSUME SupportInv, NEW c \in Callers, NEW g \in Attempts, RecordWrongCode(c, g)
  PROVE  SupportInv'
<1> DEFINE f == [id |-> g, at |-> elapsed]
<1>1. /\ caller[c].op = "start" /\ failed' = failed \cup {f}
      /\ caller' = [caller EXCEPT ![c] = NoCaller]
      /\ UNCHANGED <<master, support, config, elapsed>>
  BY DEF RecordWrongCode
<1>2. f \in Guess
  BY DEF Guess, SupportInv, SupportTypes
<1>3. caller' \in [Callers -> CallerRow] /\ \A b \in Callers : caller'[b] = IF b = c THEN NoCaller ELSE caller[b]
  BY <1>1 DEF SupportInv, SupportTypes, CallerRow
<1>4. SupportTypes'
  <2>1. IsFiniteSet(failed')
    BY <1>1, FS_AddElement DEF SupportInv, SupportTypes
  <2> QED BY <1>1, <1>2, <1>3, <2>1 DEF SupportInv, SupportTypes
<1>5. OneChild'
  BY <1>1 DEF SupportInv, OneChild, Live
<1>6. \A b \in Callers : ~ Starting(b)' /\ ~ Changing(b)'
  BY <1>1, <1>3 DEF SupportInv, OneChange, Changing, Starting, NoCaller
<1>7. OneChange'
  BY <1>6 DEF OneChange
<1>8. RoomForGuess'
  <2>1. ASSUME NEW t \in 0..MaxElapsed, t # elapsed PROVE GuessesAt(t)' = GuessesAt(t)
    BY <1>1, <2>1 DEF GuessesAt
  <2>2. GuessesAt(elapsed)' = GuessesAt(elapsed) \cup {f}
    BY <1>1 DEF GuessesAt
  <2>3. IsFiniteSet(GuessesAt(elapsed))
    <3>1. GuessesAt(elapsed) \subseteq failed
      BY DEF GuessesAt
    <3> QED BY <3>1, FS_Subset DEF SupportInv, SupportTypes
  <2>4. Cardinality(GuessesAt(elapsed)') <= Cardinality(GuessesAt(elapsed)) + 1
        /\ Cardinality(GuessesAt(elapsed)) \in Nat /\ Cardinality(GuessesAt(elapsed)') \in Nat
    <3>1. Cardinality(GuessesAt(elapsed)) \in Nat
      BY <2>3, FS_CardinalityType
    <3>2. IsFiniteSet(GuessesAt(elapsed)')
      BY <2>2, <2>3, FS_AddElement
    <3>3. Cardinality(GuessesAt(elapsed) \cup {f}) \in {Cardinality(GuessesAt(elapsed)), Cardinality(GuessesAt(elapsed)) + 1}
      BY <2>3, FS_AddElement
    <3> HIDE DEF f
    <3> QED BY <2>2, <3>1, <3>3
  <2>5. Cardinality(GuessesAt(elapsed)) < FailureLimit
    BY <1>1 DEF SupportInv, RoomForGuess, Starting
  <2>6. \A h \in failed' : h.at <= elapsed'
    BY <1>1, SupportAssumption DEF SupportInv, RoomForGuess, SupportTypes
  <2>7. \A t \in 0..MaxElapsed : Cardinality(GuessesAt(t)') <= FailureLimit
    BY <2>1, <2>4, <2>5, SupportAssumption, <1>1 DEF SupportInv, RoomForGuess
  <2> QED BY <1>6, <2>6, <2>7 DEF RoomForGuess
<1> QED BY <1>4, <1>5, <1>7, <1>8 DEF SupportInv

\* One session takes the place of those that are revoked with it.
LEMMA SessionBegins ==
  ASSUME SupportInv, NEW c \in Callers, Changing(c), caller' = [caller EXCEPT ![c] = NoCaller],
         NEW s \in Sessions, support[s] = Unopened,
         NEW S \in SUBSET Sessions, \A z \in S : support[z] # Unopened,
         NEW a \in Opened, support' = [Revoking(S) EXCEPT ![s] = a],
         \A z \in Sessions : Live(z) /\ support[z].parent = a.parent => z \in S,
         master[a.parent].state # "none", a.until <= master[a.parent].since + 2,
         UNCHANGED <<master, failed, config, elapsed>>
  PROVE  SupportInv'
<1>1. /\ Revoking(S) \in [Sessions -> SupportRow]
      /\ \A z \in Sessions : Revoking(S)[z].state = "live" => z \notin S /\ Revoking(S)[z] = support[z]
  BY RevokingRows DEF SupportInv
<1>2. support' \in [Sessions -> SupportRow]
  BY <1>1 DEF SupportRow
<1>3. \A z \in Sessions : Live(z)' => \/ z = s /\ support'[z] = a
                                      \/ z \notin S /\ support'[z] = support[z] /\ Live(z)
  BY <1>1 DEF Live
<1>4. caller' \in [Callers -> CallerRow] /\ \A b \in Callers : caller'[b] = IF b = c THEN NoCaller ELSE caller[b]
  BY DEF SupportInv, SupportTypes, CallerRow
<1>5. SupportTypes'
  BY <1>2, <1>4 DEF SupportInv, SupportTypes
<1>6. OneChild'
  BY <1>3 DEF SupportInv, OneChild
<1>7. \A b \in Callers : ~ Starting(b)' /\ ~ Changing(b)'
  BY <1>4 DEF SupportInv, OneChange, Changing, Starting, NoCaller
<1>8. OneChange' /\ RoomForGuess'
  BY <1>7 DEF SupportInv, OneChange, RoomForGuess, GuessesAt
<1> QED BY <1>5, <1>6, <1>8 DEF SupportInv

LEMMA CommitStartStep ==
  ASSUME SupportInv, NEW c \in Callers, NEW s \in Sessions, CommitStart(c, s)
  PROVE  SupportInv'
<1> DEFINE m == caller[c].master
           a == [state |-> "live", parent |-> m, policy |-> config,
                 until |-> Earlier(elapsed + 1, master[m].since + 2)]
<1>1. /\ Starting(c) /\ support[s] = Unopened /\ support' = [Revoking(caller[c].old) EXCEPT ![s] = a]
      /\ caller' = [caller EXCEPT ![c] = NoCaller]
      /\ UNCHANGED <<master, failed, config, elapsed>>
  BY DEF CommitStart, Starting
<1>2. m \in Masters /\ caller[c].old \in SUBSET Sessions
  BY <1>1, CallerRowType DEF Starting, SupportInv, SupportTypes
<1>3. master[m].state # "none" /\ ChildrenOf(m) \subseteq caller[c].old /\ \A z \in caller[c].old : support[z] # Unopened
  BY <1>1 DEF SupportInv, OneChange
<1>4. a \in Opened /\ a.parent = m /\ a.until <= master[m].since + 2
  BY <1>2, SupportAssumption DEF Opened, Earlier, SupportInv, SupportTypes
<1>5. \A z \in Sessions : Live(z) /\ support[z].parent = m => z \in caller[c].old
  BY <1>3 DEF ChildrenOf
<1>6. Changing(c)
  BY <1>1 DEF Starting, Changing
<1> HIDE DEF m, a
<1> QED BY <1>1, <1>2, <1>3, <1>4, <1>5, <1>6, SessionBegins

LEMMA BeginSwitchStep ==
  ASSUME SupportInv, NEW c \in Callers, NEW s \in Sessions, BeginSwitch(c, s)
  PROVE  SupportInv'
<1> DEFINE a == [op |-> "switch", from |-> s]
<1>1. /\ SupportLock /\ caller' = [caller EXCEPT ![c] = a]
      /\ UNCHANGED <<master, support, failed, config, elapsed>>
  BY DEF BeginSwitch
<1>2. caller' \in [Callers -> CallerRow] /\ \A b \in Callers : caller'[b] = IF b = c THEN a ELSE caller[b]
  BY <1>1 DEF SupportInv, SupportTypes, CallerRow
<1>3. \A b \in Callers : ~ Starting(b)' /\ (Changing(b)' => b = c)
  BY <1>1, <1>2 DEF SupportLock, Starting, Changing
<1>4. SupportTypes' /\ OneChild'
  BY <1>1, <1>2 DEF SupportInv, SupportTypes, OneChild, Live
<1>5. OneChange' /\ RoomForGuess'
  BY <1>1, <1>3 DEF SupportInv, OneChange, RoomForGuess, GuessesAt
<1> QED BY <1>4, <1>5 DEF SupportInv

LEMMA CommitSwitchStep ==
  ASSUME SupportInv, NEW c \in Callers, NEW s \in Sessions, CommitSwitch(c, s)
  PROVE  SupportInv'
<1> DEFINE f == caller[c].from
<1>1. /\ caller[c].op = "switch" /\ support[s] = Unopened
      /\ caller' = [caller EXCEPT ![c] = NoCaller]
      /\ UNCHANGED <<master, failed, config, elapsed>>
  BY DEF CommitSwitch
<1>2. f \in Sessions
  BY <1>1, CallerRowType DEF SupportInv, SupportTypes
<1>3. CASE ~ Live(f)
  <2>1. UNCHANGED support
    BY <1>3 DEF CommitSwitch
  <2>2. \A b \in Callers : caller'[b] = IF b = c THEN NoCaller ELSE caller[b]
    BY <1>1 DEF SupportInv, SupportTypes
  <2>3. caller' \in [Callers -> CallerRow]
    BY <1>1 DEF SupportInv, SupportTypes, CallerRow
  <2>4. \A b \in Callers : caller'[b].op \in {"start", "switch"} => caller'[b] = caller[b]
    BY <2>2 DEF NoCaller
  <2> QED BY <1>1, <2>1, <2>3, <2>4, SessionsOnlyEnd DEF SupportInv, SupportTypes
<1>4. CASE Live(f)
  <2>1. support' = [Revoking({f}) EXCEPT ![s] = support[f]]
    BY <1>4 DEF CommitSwitch, Successor
  <2>2. support[f] # Unopened /\ support[f] \in Opened
    BY <1>2, <1>4, SupportRowType DEF SupportInv, SupportTypes, Live, Unopened
  <2>3. \A z \in Sessions : Live(z) /\ support[z].parent = support[f].parent => z \in {f}
    BY <1>2, <1>4 DEF SupportInv, OneChild
  <2>4. master[support[f].parent].state # "none" /\ support[f].until <= master[support[f].parent].since + 2
    BY <1>2, <1>4 DEF SupportInv, OneChild
  <2>5. {f} \in SUBSET Sessions /\ \A z \in {f} : support[z] # Unopened
    BY <1>2, <2>2
  <2>6. Changing(c)
    BY <1>1 DEF Changing
  <2> HIDE DEF f
  <2> QED BY <1>1, <2>1, <2>2, <2>3, <2>4, <2>5, <2>6, SessionBegins
<1> QED BY <1>3, <1>4

LEMMA RevokingChildren ==
  ASSUME SupportInv, NEW m \in Masters, support' = Revoking(ChildrenOf(m))
  PROVE  /\ support' \in [Sessions -> SupportRow]
         /\ \A z \in Sessions : support'[z].state = "live" => support'[z] = support[z]
         /\ \A z \in Sessions : support[z] # Unopened => support'[z] # Unopened
<1>1. ChildrenOf(m) \in SUBSET Sessions /\ \A z \in ChildrenOf(m) : support[z] # Unopened
  BY DEF ChildrenOf, Live, Unopened
<1> QED BY <1>1, RevokingRows DEF SupportInv

LEMMA StopSupportStep ==
  ASSUME SupportInv, NEW m \in Masters, StopSupport(m)
  PROVE  SupportInv'
<1>1. support' = Revoking(ChildrenOf(m)) /\ UNCHANGED <<master, caller, failed, config, elapsed>>
  BY DEF StopSupport
<1>2. caller' \in [Callers -> CallerRow]
  BY <1>1 DEF SupportInv, SupportTypes
<1> QED BY <1>1, <1>2, RevokingChildren, SessionsOnlyEnd

LEMMA SignOutStep ==
  ASSUME SupportInv, NEW c \in Callers, NEW m \in Masters, SignOut(c, m)
  PROVE  SupportInv'
<1> DEFINE a == [op |-> "sign_out", master |-> m]
<1>1. /\ caller[c] = NoCaller /\ master[m].state = "live"
      /\ master' = [master EXCEPT ![m].state = "ended"]
      /\ caller' = [caller EXCEPT ![c] = a]
      /\ UNCHANGED <<support, failed, config, elapsed>>
  BY DEF SignOut
<1>2. /\ master' \in [Masters -> [state : {"none", "live", "ended"}, since : 0..MaxElapsed]]
      /\ \A k \in Masters : master'[k].since = master[k].since /\ (master[k].state # "none" => master'[k].state # "none")
  BY <1>1 DEF SupportInv, SupportTypes
<1>3. caller' \in [Callers -> CallerRow] /\ \A b \in Callers : caller'[b] = IF b = c THEN a ELSE caller[b]
  BY <1>1 DEF SupportInv, SupportTypes, CallerRow
<1>4. \A b \in Callers : (Starting(b)' \/ Changing(b)') => b # c /\ caller'[b] = caller[b]
  BY <1>3 DEF Starting, Changing
<1>5. SupportTypes'
  BY <1>1, <1>2, <1>3 DEF SupportInv, SupportTypes
<1>6. OneChild'
  <2>1. \A z \in Sessions : Live(z) => support[z].parent \in Masters
    BY SupportRowType DEF SupportInv, SupportTypes, Live, Unopened, Opened
  <2> QED BY <1>1, <1>2, <2>1 DEF SupportInv, OneChild, Live
<1>7. OneChange'
  <2>1. (\A b, d \in Callers : Changing(b) /\ Changing(d) => b = d)'
    BY <1>4 DEF SupportInv, OneChange, Changing
  <2>2. ASSUME NEW b \in Callers, Starting(b)'
        PROVE  (/\ master[caller[b].master].state # "none"
                /\ ChildrenOf(caller[b].master) \subseteq caller[b].old
                /\ \A z \in caller[b].old : support[z] # Unopened)'
    <3>1. caller'[b] = caller[b] /\ Starting(b) /\ caller[b].master \in Masters
      BY <1>4, <2>2, CallerRowType DEF Starting, SupportInv, SupportTypes
    <3>2. (ChildrenOf(caller[b].master) \subseteq caller[b].old)'
      BY <1>1, <3>1 DEF SupportInv, OneChange, ChildrenOf, Live
    <3> QED BY <1>1, <1>2, <3>1, <3>2 DEF SupportInv, OneChange
  <2> QED BY <2>1, <2>2 DEF OneChange
<1>8. RoomForGuess'
  BY <1>1, <1>4 DEF SupportInv, RoomForGuess, Starting, GuessesAt
<1> QED BY <1>5, <1>6, <1>7, <1>8 DEF SupportInv

LEMMA EndChildrenStep ==
  ASSUME SupportInv, NEW c \in Callers, EndChildren(c) \/ DropCaller(c)
  PROVE  SupportInv'
<1>1. caller' = [caller EXCEPT ![c] = NoCaller] /\ UNCHANGED <<master, failed, config, elapsed>>
  BY DEF EndChildren, DropCaller
<1>2. caller' \in [Callers -> CallerRow] /\ \A b \in Callers : caller'[b] = IF b = c THEN NoCaller ELSE caller[b]
  BY <1>1 DEF SupportInv, SupportTypes, CallerRow
<1>3. \A b \in Callers : caller'[b].op \in {"start", "switch"} => caller'[b] = caller[b]
  BY <1>2 DEF NoCaller
<1>4. CASE EndChildren(c)
  <2>1. support' = Revoking(ChildrenOf(caller[c].master)) /\ caller[c].master \in Masters
    BY <1>4, CallerRowType DEF EndChildren, SupportInv, SupportTypes
  <2> QED BY <1>1, <1>2, <1>3, <2>1, RevokingChildren, SessionsOnlyEnd
<1>5. CASE DropCaller(c)
  BY <1>1, <1>2, <1>3, <1>5, SessionsOnlyEnd DEF DropCaller, SupportInv, SupportTypes
<1> QED BY <1>4, <1>5

LEMMA ChangeConfigStep ==
  ASSUME SupportInv, ChangeConfig
  PROVE  SupportInv'
<1>1. config' = 2 /\ caller' = [c \in Callers |-> NoCaller] /\ UNCHANGED <<master, support, failed, elapsed>>
  BY DEF ChangeConfig
<1>2. \A b \in Callers : ~ Starting(b)' /\ ~ Changing(b)'
  BY <1>1 DEF Starting, Changing, NoCaller
<1>3. SupportTypes' /\ OneChild'
  BY <1>1 DEF SupportInv, SupportTypes, OneChild, Live, CallerRow
<1>4. OneChange' /\ RoomForGuess'
  BY <1>1, <1>2 DEF SupportInv, OneChange, RoomForGuess, GuessesAt
<1> QED BY <1>3, <1>4 DEF SupportInv

LEMMA SupportTickStep ==
  ASSUME SupportInv, SupportTick
  PROVE  SupportInv'
<1>1. /\ elapsed < MaxElapsed /\ elapsed' = elapsed + 1
      /\ \A c \in Callers : caller[c].op \in {"none", "sign_out"}
      /\ UNCHANGED <<master, support, caller, failed, config>>
  BY DEF SupportTick
<1>2. \A b \in Callers : ~ Starting(b)' /\ ~ Changing(b)'
  BY <1>1 DEF Starting, Changing
<1>3. SupportTypes'
  BY <1>1, SupportAssumption DEF SupportInv, SupportTypes
<1>4. OneChild'
  BY <1>1 DEF SupportInv, OneChild, Live
<1>5. RoomForGuess'
  <2>1. \A f \in failed : f.at <= elapsed + 1
    BY SupportAssumption DEF SupportInv, SupportTypes, RoomForGuess, Guess
  <2> QED BY <1>1, <1>2, <2>1 DEF SupportInv, RoomForGuess, GuessesAt
<1> QED BY <1>2, <1>3, <1>4, <1>5 DEF SupportInv, OneChange

LEMMA SupportInvStep == SupportInv /\ [SupportNext]_supportVars => SupportInv'
<1> SUFFICES ASSUME SupportInv, [SupportNext]_supportVars PROVE SupportInv'
  OBVIOUS
<1>1. ASSUME NEW m \in Masters, SignInMaster(m) \/ StopSupport(m) PROVE SupportInv'
  BY <1>1, SignInMasterStep, StopSupportStep
<1>2. ASSUME NEW c \in Callers, NEW m \in Masters, BeginStart(c, m) \/ SignOut(c, m) PROVE SupportInv'
  BY <1>2, BeginStartStep, SignOutStep
<1>3. ASSUME NEW c \in Callers, NEW a \in Attempts, RecordWrongCode(c, a) PROVE SupportInv'
  BY <1>3, RecordWrongCodeStep
<1>4. ASSUME NEW c \in Callers, NEW s \in Sessions, CommitStart(c, s) \/ BeginSwitch(c, s) \/ CommitSwitch(c, s)
      PROVE  SupportInv'
  BY <1>4, CommitStartStep, BeginSwitchStep, CommitSwitchStep
<1>5. ASSUME NEW c \in Callers, EndChildren(c) \/ DropCaller(c) PROVE SupportInv'
  BY <1>5, EndChildrenStep
<1>6. CASE ChangeConfig
  BY <1>6, ChangeConfigStep
<1>7. CASE SupportTick
  BY <1>7, SupportTickStep
<1>8. CASE UNCHANGED supportVars
  BY <1>8 DEF supportVars, SupportInv, SupportTypes, OneChild, OneChange, RoomForGuess, Live, ChildrenOf,
              Starting, Changing, GuessesAt
<1> QED BY <1>1, <1>2, <1>3, <1>4, <1>5, <1>6, <1>7, <1>8 DEF SupportNext

LEMMA SupportInvImplies == SupportInv => SupportTypeOK /\ SupportGuarded
<1> SUFFICES ASSUME SupportInv PROVE SupportTypeOK /\ SupportGuarded
  OBVIOUS
<1>1. SupportTypeOK
  BY CallerRowType, SupportRowType DEF SupportInv, SupportTypes, SupportTypeOK, Guess
<1>2. OneSupportSession
  <2> SUFFICES ASSUME NEW s \in Sessions, Usable(s)
               PROVE  /\ Entitled(support[s].parent)
                      /\ \A z \in Sessions : Usable(z) /\ support[z].parent = support[s].parent => z = s
    BY DEF OneSupportSession
  <2>1. Live(s) /\ elapsed < support[s].until /\ master[support[s].parent].state = "live"
    BY DEF Usable, Valid
  <2>2. support[s] \in Opened
    BY <2>1, SupportRowType DEF SupportInv, SupportTypes, Live, Unopened
  <2>3. Entitled(support[s].parent)
    BY <2>1, <2>2, SupportAssumption DEF Entitled, SupportInv, SupportTypes, OneChild, Opened
  <2> QED BY <2>1, <2>3 DEF SupportInv, OneChild, Usable, Valid
<1>3. GuessesLimited
  BY DEF SupportInv, RoomForGuess, GuessesAt, GuessesLimited
<1> QED BY <1>1, <1>2, <1>3 DEF SupportGuarded

\* Any number of sign-ins of the master, requests and wrong codes: one support
\* session per sign-in that answers, none after it ended, guesses limited.
THEOREM SupportIsGuarded == SupportSpec => [](SupportTypeOK /\ SupportGuarded)
<1>1. SupportSpec => []SupportInv
  BY SupportInvInit, SupportInvStep, PTL DEF SupportSpec
<1> QED BY <1>1, SupportInvImplies, PTL

-----------------------------------------------------------------------------
(* Signing up. *)

Person == [mobile : Mobiles, mail : Mails \cup {NoMail}]
OpenWindow ==
  [at : {"check", "name", "checked", "founded"}, ticket : Tickets \cup {NoTicket},
   mobile : Mobiles, mail : Mails \cup {NoMail}, name : Names]

SignUpTypes ==
  /\ people \subseteq Person /\ founded \subseteq [name : Names, owner : people]
  /\ ticket \in [Tickets -> {"unused", "stored", "held", "spent", "expired"}]
  /\ window \in [Browsers -> {NoWindow} \cup OpenWindow]
  /\ resolving \in [Tickets -> {"idle", "looking", "opening"}] /\ dropped \subseteq Tickets
  /\ \A w \in Browsers : window[w].at = "check" => window[w].ticket \in Tickets

\* What the locks on both contacts give: a sign-up that holds them founds the
\* first organization of its mobile.
FirstOfItsMobile ==
  /\ \A w \in Browsers : window[w].at = "checked" => \A o \in founded : o.owner.mobile # window[w].mobile
  /\ \A v, w \in Browsers : v # w /\ window[v].at = "checked" /\ window[w].at = "checked" =>
       window[v].mobile # window[w].mobile

\* A ticket is held by one window, which carries the address that it proves.
HolderOf(t) == {w \in Browsers : window[w] # NoWindow /\ window[w].ticket = t}
OneHolder ==
  /\ \A t \in Tickets : ticket[t] = "held" <=> HolderOf(t) # {}
  /\ \A t \in Tickets, v, w \in Browsers : v \in HolderOf(t) /\ w \in HolderOf(t) => v = w
  /\ \A t \in Tickets, w \in Browsers : w \in HolderOf(t) => window[w].mail = MailOf[t]
  /\ \A t \in Tickets : ticket[t] = "spent" => WithMail(MailOf[t]) # {} \/ t \in dropped
\* A sign-up that has founded an organization has left a login with its address.
FounderKnown ==
  \A w \in Browsers : window[w].at = "founded" /\ window[w].mail # NoMail => \E p \in people : p.mail = window[w].mail

SignUpInv == SignUpTypes /\ OneOrganizationPerPerson /\ FirstOfItsMobile /\ OneHolder /\ FounderKnown

LEMMA SignUpInvInit == SignUpInit => SignUpInv
<1> SUFFICES ASSUME SignUpInit PROVE SignUpInv
  OBVIOUS
<1>1. SignUpTypes /\ OneOrganizationPerPerson /\ FirstOfItsMobile
  BY DEF SignUpInit, SignUpTypes, OneOrganizationPerPerson, FirstOfItsMobile, NoWindow
<1>2. OneHolder
  BY DEF SignUpInit, OneHolder, HolderOf
<1>3. FounderKnown
  BY DEF SignUpInit, FounderKnown, NoWindow
<1> QED BY <1>1, <1>2, <1>3 DEF SignUpInv

LEMMA WindowRowType ==
  ASSUME NEW a \in {NoWindow} \cup OpenWindow
  PROVE  /\ a.at \in {"idle", "check", "name", "checked", "founded"}
         /\ a.at = "idle" <=> a = NoWindow
         /\ a # NoWindow => a \in OpenWindow
  BY DEF NoWindow, OpenWindow

\* A step of the tickets alone.
LEMMA TicketStep ==
  ASSUME SignUpInv, NEW t \in Tickets, ticket[t] # "held",
         NEW s \in {"stored", "spent", "expired"}, s = "spent" => WithMail(MailOf[t]) # {},
         ticket' = [ticket EXCEPT ![t] = s], resolving' \in [Tickets -> {"idle", "looking", "opening"}],
         UNCHANGED <<people, founded, window, dropped>>
  PROVE  SignUpInv'
<1>1. SignUpTypes'
  BY DEF SignUpInv, SignUpTypes
<1>2. OneOrganizationPerPerson' /\ FirstOfItsMobile'
  BY DEF SignUpInv, OneOrganizationPerPerson, FirstOfItsMobile
<1>3. \A u \in Tickets : HolderOf(u)' = HolderOf(u)
  BY DEF HolderOf
<1>4. \A u \in Tickets : WithMail(MailOf[u])' = WithMail(MailOf[u])
  BY DEF WithMail
<1>5. \A u \in Tickets : ticket'[u] = IF u = t THEN s ELSE ticket[u]
  BY DEF SignUpInv, SignUpTypes
<1>6. OneHolder'
  BY <1>3, <1>4, <1>5 DEF SignUpInv, OneHolder
<1>7. FounderKnown'
  BY DEF SignUpInv, FounderKnown, WithMail
<1> QED BY <1>1, <1>2, <1>6, <1>7 DEF SignUpInv

LEMMA TicketActions ==
  ASSUME SignUpInv, NEW t \in Tickets, \/ StoreTicket(t) \/ TicketExpires(t)
                                       \/ Resolve(t) \/ FindNobody(t) \/ TakeTicket(t) \/ EndSignIn(t)
  PROVE  SignUpInv'
<1>1. CASE StoreTicket(t)
  BY <1>1, TicketStep DEF StoreTicket, SignUpInv, SignUpTypes
<1>2. CASE TicketExpires(t)
  BY <1>2, TicketStep DEF TicketExpires, SignUpInv, SignUpTypes
<1>3. ASSUME UNCHANGED <<people, founded, ticket, window, dropped>>,
             resolving' \in [Tickets -> {"idle", "looking", "opening"}]
      PROVE  SignUpInv'
  BY <1>3 DEF SignUpInv, SignUpTypes, OneOrganizationPerPerson, FirstOfItsMobile, OneHolder, HolderOf, WithMail, FounderKnown
<1>4. CASE Resolve(t) \/ FindNobody(t) \/ EndSignIn(t)
  BY <1>3, <1>4 DEF Resolve, FindNobody, EndSignIn, SignUpInv, SignUpTypes
<1>5. CASE TakeTicket(t)
  <2>1. resolving' \in [Tickets -> {"idle", "looking", "opening"}] /\ UNCHANGED <<people, founded, window, dropped>>
    BY <1>5 DEF TakeTicket, SignUpInv, SignUpTypes
  <2>2. CASE ticket[t] = "stored"
    <3>1. ticket' = [ticket EXCEPT ![t] = "spent"] /\ WithMail(MailOf[t]) # {}
      BY <1>5, <2>2 DEF TakeTicket
    <3> QED BY <2>1, <2>2, <3>1, TicketStep
  <2>3. CASE ticket[t] # "stored"
    <3>1. ticket' = ticket
      BY <1>5, <2>3 DEF TakeTicket, SignUpInv, SignUpTypes
    <3> QED BY <1>3, <2>1, <3>1
  <2> QED BY <2>2, <2>3
<1> QED BY <1>1, <1>2, <1>4, <1>5

\* A window moves on, with the ticket and the contacts it has.
LEMMA WindowMoves ==
  ASSUME SignUpInv, NEW w \in Browsers, window[w] # NoWindow, NEW a \in OpenWindow,
         a.ticket = window[w].ticket, a.mobile = window[w].mobile, a.mail = window[w].mail,
         window' = [window EXCEPT ![w] = a],
         a.at \in {"name", "checked"}, a.at = "checked" => ContactsFree(w) /\ ~Taken(a.mobile, a.mail),
         UNCHANGED <<people, founded, ticket, resolving, dropped>>
  PROVE  SignUpInv'
<1>1. \A v \in Browsers : window'[v] = IF v = w THEN a ELSE window[v]
  BY DEF SignUpInv, SignUpTypes
<1>2. SignUpTypes' /\ OneOrganizationPerPerson'
  BY <1>1 DEF SignUpInv, SignUpTypes, OneOrganizationPerPerson
<1>3. \A t \in Tickets : HolderOf(t)' = HolderOf(t)
  BY <1>1 DEF HolderOf, NoWindow, OpenWindow
<1>4. OneHolder'
  BY <1>1, <1>3 DEF SignUpInv, OneHolder, HolderOf, WithMail
<1>5. FirstOfItsMobile'
  <2>1. a.at = "checked" => \A o \in founded : o.owner.mobile # a.mobile
    BY DEF Taken, WithMobile, SignUpInv, SignUpTypes
  <2>2. a.at = "checked" => \A v \in Browsers \ {w} : window[v].at = "checked" => window[v].mobile # a.mobile
    BY DEF ContactsFree
  <2> QED BY <1>1, <2>1, <2>2 DEF SignUpInv, FirstOfItsMobile
<1>6. FounderKnown'
  BY <1>1 DEF SignUpInv, FounderKnown, WithMail
<1> QED BY <1>2, <1>4, <1>5, <1>6 DEF SignUpInv

LEMMA NameActions ==
  ASSUME SignUpInv, NEW w \in Browsers,
         CheckMail(w) \/ LockContacts(w) \/ SkipTakenName(w) \/ RetryName(w)
  PROVE  SignUpInv'
<1> DEFINE x == window[w]
<1>1. x # NoWindow /\ x \in OpenWindow
  BY WindowRowType DEF CheckMail, LockContacts, SkipTakenName, RetryName, NoWindow, SignUpInv, SignUpTypes
<1>2. UNCHANGED <<people, founded, ticket, resolving, dropped>>
  BY DEF CheckMail, LockContacts, SkipTakenName, RetryName, NextName
<1>3. CASE CheckMail(w)
  <2> DEFINE a == [x EXCEPT !.at = "name"]
  <2>1. window' = [window EXCEPT ![w] = a]
    BY <1>3 DEF CheckMail, SignUpInv, SignUpTypes
  <2>2. a \in OpenWindow /\ a.ticket = x.ticket /\ a.mobile = x.mobile /\ a.mail = x.mail /\ a.at = "name"
    BY <1>1 DEF OpenWindow
  <2> HIDE DEF a
  <2> QED BY <1>1, <1>2, <2>1, <2>2, WindowMoves
<1>4. CASE LockContacts(w)
  <2> DEFINE a == [x EXCEPT !.at = "checked"]
  <2>1. window' = [window EXCEPT ![w] = a] /\ ContactsFree(w) /\ ~Taken(x.mobile, x.mail)
    BY <1>4 DEF LockContacts, SignUpInv, SignUpTypes
  <2>2. a \in OpenWindow /\ a.ticket = x.ticket /\ a.mobile = x.mobile /\ a.mail = x.mail /\ a.at = "checked"
    BY <1>1 DEF OpenWindow
  <2> HIDE DEF a
  <2> QED BY <1>1, <1>2, <2>1, <2>2, WindowMoves
<1>5. CASE SkipTakenName(w) \/ RetryName(w)
  <2> DEFINE a == [x EXCEPT !.at = "name", !.name = x.name + 1]
  <2>1. window' = [window EXCEPT ![w] = a] /\ x.name + 1 \in Names
    <3>1. NextName(w)
      BY <1>5 DEF SkipTakenName, RetryName
    <3> QED BY <3>1 DEF NextName
  <2>2. a \in OpenWindow /\ a.ticket = x.ticket /\ a.mobile = x.mobile /\ a.mail = x.mail /\ a.at = "name"
    BY <1>1, <2>1 DEF OpenWindow
  <2> HIDE DEF a
  <2> QED BY <1>1, <1>2, <2>1, <2>2, WindowMoves
<1> QED BY <1>3, <1>4, <1>5

\* A window opens, with a ticket that was in the store or without one.
LEMMA WindowOpens ==
  ASSUME SignUpInv, NEW w \in Browsers, window[w] = NoWindow,
         NEW t \in Tickets \cup {NoTicket}, NEW mobile \in Mobiles, NEW mail \in Mails \cup {NoMail},
         NEW at \in {"check", "name"}, Start(w, t, mobile, mail, at), at = "check" => t \in Tickets,
         t \in Tickets => ticket[t] = "stored" /\ mail = MailOf[t],
         ticket' = IF t \in Tickets THEN [ticket EXCEPT ![t] = "held"] ELSE ticket,
         UNCHANGED <<people, founded, resolving, dropped>>
  PROVE  SignUpInv'
<1>1. PICK n \in Names :
        window' = [window EXCEPT ![w] = [at |-> at, ticket |-> t, mobile |-> mobile, mail |-> mail, name |-> n]]
  BY DEF Start
<1> DEFINE a == [at |-> at, ticket |-> t, mobile |-> mobile, mail |-> mail, name |-> n]
<1>2. a \in OpenWindow /\ a # NoWindow /\ a.at = at /\ a.ticket = t /\ a.mail = mail
  BY DEF OpenWindow, NoWindow
<1>3. \A v \in Browsers : window'[v] = IF v = w THEN a ELSE window[v]
  BY <1>1 DEF SignUpInv, SignUpTypes
<1> HIDE DEF a
<1>4. SignUpTypes' /\ OneOrganizationPerPerson'
  <2>1. window' \in [Browsers -> {NoWindow} \cup OpenWindow]
    BY <1>1, <1>2 DEF SignUpInv, SignUpTypes, a
  <2> QED BY <1>2, <1>3, <2>1 DEF SignUpInv, SignUpTypes, OneOrganizationPerPerson
<1>5. FirstOfItsMobile'
  BY <1>2, <1>3 DEF SignUpInv, FirstOfItsMobile
<1>6. \A u \in Tickets : HolderOf(u)' = IF u = t THEN HolderOf(u) \cup {w} ELSE HolderOf(u)
  BY <1>2, <1>3 DEF HolderOf
<1>7. t \in Tickets => HolderOf(t) = {}
  BY DEF SignUpInv, OneHolder
<1>8. \A u \in Tickets : ticket'[u] = IF u = t THEN "held" ELSE ticket[u]
  BY DEF SignUpInv, SignUpTypes
<1>9. OneHolder'
  <2>1. \A u \in Tickets : WithMail(MailOf[u])' = WithMail(MailOf[u])
    BY DEF WithMail
  <2>2. \A u \in Tickets : ticket'[u] = "held" <=> HolderOf(u)' # {}
    BY <1>6, <1>8 DEF SignUpInv, OneHolder
  <2>3. \A u \in Tickets, x, y \in Browsers : x \in HolderOf(u)' /\ y \in HolderOf(u)' => x = y
    BY <1>6, <1>7 DEF SignUpInv, OneHolder
  <2>4. \A u \in Tickets, x \in Browsers : x \in HolderOf(u)' => window'[x].mail = MailOf[u]
    BY <1>2, <1>3, <1>6, <1>7 DEF SignUpInv, OneHolder, HolderOf
  <2>5. \A u \in Tickets : ticket'[u] = "spent" => WithMail(MailOf[u])' # {} \/ u \in dropped'
    BY <1>8, <2>1 DEF SignUpInv, OneHolder
  <2> QED BY <2>2, <2>3, <2>4, <2>5 DEF OneHolder
<1>10. FounderKnown'
  BY <1>2, <1>3 DEF SignUpInv, FounderKnown, WithMail
<1> QED BY <1>4, <1>5, <1>9, <1>10 DEF SignUpInv

LEMMA StartActions ==
  ASSUME SignUpInv, NEW w \in Browsers, NEW mobile \in Mobiles,
         \/ \E mail \in Mails \cup {NoMail} : StartSignUp(w, mobile, mail)
         \/ \E t \in Tickets : StartWithTicket(w, t, mobile)
  PROVE  SignUpInv'
<1>1. ASSUME NEW mail \in Mails \cup {NoMail}, StartSignUp(w, mobile, mail) PROVE SignUpInv'
  BY <1>1, WindowOpens, SignUpAssumption DEF StartSignUp
<1>2. ASSUME NEW t \in Tickets, StartWithTicket(w, t, mobile) PROVE SignUpInv'
  <2>1. MailOf[t] \in Mails
    BY SignUpAssumption
  <2> QED BY <1>2, <2>1, WindowOpens DEF StartWithTicket
<1> QED BY <1>1, <1>2

\* A window closes, and its ticket gets another state.
LEMMA WindowCloses ==
  ASSUME SignUpInv, NEW w \in Browsers, window[w] # NoWindow,
         NEW s \in {"stored", "spent"}, NEW mail, mail = window[w].mail,
         ticket' = IF window[w].ticket = NoTicket THEN ticket ELSE [ticket EXCEPT ![window[w].ticket] = s],
         s = "spent" /\ mail # NoMail => WithMail(mail) # {} \/ window[w].ticket \in dropped',
         dropped \subseteq dropped', UNCHANGED people, window' = [window EXCEPT ![w] = NoWindow]
  PROVE  OneHolder'
<1>1. window[w] \in OpenWindow
  BY WindowRowType DEF SignUpInv, SignUpTypes
<1>2. \A v \in Browsers : window'[v] = IF v = w THEN NoWindow ELSE window[v]
  BY DEF SignUpInv, SignUpTypes
<1>3. \A u \in Tickets : HolderOf(u)' = HolderOf(u) \ {w}
  BY <1>2 DEF HolderOf
<1>4. \A u \in Tickets : w \in HolderOf(u) <=> u = window[w].ticket
  BY DEF HolderOf
<1>5. \A u \in Tickets : ticket'[u] = IF u = window[w].ticket THEN s ELSE ticket[u]
  BY SignUpAssumption DEF SignUpInv, SignUpTypes
<1>6. \A u \in Tickets : WithMail(MailOf[u])' = WithMail(MailOf[u])
  BY DEF WithMail
<1>7. \A u \in Tickets : ticket'[u] = "held" <=> HolderOf(u)' # {}
  <2> TAKE u \in Tickets
  <2>1. CASE u = window[w].ticket
    <3>1. HolderOf(u)' = {}
      BY <1>3, <1>4, <2>1 DEF SignUpInv, OneHolder, HolderOf
    <3> QED BY <1>5, <2>1, <3>1
  <2>2. CASE u # window[w].ticket
    <3>1. HolderOf(u)' = HolderOf(u)
      BY <1>3, <1>4, <2>2
    <3> QED BY <1>5, <2>2, <3>1 DEF SignUpInv, OneHolder
  <2> QED BY <2>1, <2>2
<1>8. \A u \in Tickets : ticket'[u] = "spent" => WithMail(MailOf[u])' # {} \/ u \in dropped'
  <2> SUFFICES ASSUME NEW u \in Tickets, ticket'[u] = "spent" PROVE WithMail(MailOf[u])' # {} \/ u \in dropped'
    OBVIOUS
  <2>1. CASE u = window[w].ticket
    <3>1. mail = MailOf[u] /\ MailOf[u] # NoMail /\ s = "spent"
      BY <1>4, <1>5, <2>1, SignUpAssumption DEF SignUpInv, OneHolder
    <3> QED BY <1>6, <2>1, <3>1
  <2>2. CASE u # window[w].ticket
    BY <1>5, <1>6, <2>2 DEF SignUpInv, OneHolder
  <2> QED BY <2>1, <2>2
<1>9. \A u \in Tickets, x, y \in Browsers : x \in HolderOf(u)' /\ y \in HolderOf(u)' => x = y
  BY <1>3 DEF SignUpInv, OneHolder
<1>10. \A u \in Tickets, x \in Browsers : x \in HolderOf(u)' => window'[x].mail = MailOf[u]
  BY <1>2, <1>3 DEF SignUpInv, OneHolder
<1> QED BY <1>7, <1>8, <1>9, <1>10 DEF OneHolder

LEMMA CloseActions ==
  ASSUME SignUpInv, NEW w \in Browsers, FailSignUp(w) \/ FailLookUp(w) \/ Conclude(w)
  PROVE  SignUpInv'
<1>1. /\ window[w] # NoWindow /\ window' = [window EXCEPT ![w] = NoWindow]
      /\ UNCHANGED <<people, founded, resolving>>
  BY DEF FailSignUp, FailLookUp, Conclude, NoWindow
<1>2. window[w] \in OpenWindow
  BY <1>1, WindowRowType DEF SignUpInv, SignUpTypes
<1>3. PICK mail : mail = window[w].mail
  OBVIOUS
<1>4. OneHolder' /\ dropped' \subseteq Tickets /\ ticket' \in [Tickets -> {"unused", "stored", "held", "spent", "expired"}]
  <2>1. CASE FailSignUp(w)
    <3>1. TicketBecomes(w, "stored") /\ dropped' = dropped
      BY <2>1 DEF FailSignUp
    <3> QED BY <1>1, <1>2, <3>1, WindowCloses DEF TicketBecomes, SignUpInv, SignUpTypes
  <2>2. CASE FailLookUp(w)
    <3>1. window[w].ticket \in Tickets /\ window[w].ticket # NoTicket
      BY <2>2, SignUpAssumption DEF FailLookUp, SignUpInv, SignUpTypes
    <3>2. ticket' = [ticket EXCEPT ![window[w].ticket] = "spent"] /\ dropped' = dropped \cup {window[w].ticket}
      BY <2>2 DEF FailLookUp
    <3> QED BY <1>1, <1>3, <3>1, <3>2, WindowCloses DEF SignUpInv, SignUpTypes
  <2>3. CASE Conclude(w)
    <3>1. TicketBecomes(w, "spent") /\ dropped' = dropped /\ window[w].at = "founded"
      BY <2>3 DEF Conclude
    <3>2. mail # NoMail => WithMail(mail) # {}
      BY <1>3, <3>1 DEF SignUpInv, FounderKnown, WithMail
    <3> QED BY <1>1, <1>2, <1>3, <3>1, <3>2, WindowCloses DEF TicketBecomes, SignUpInv, SignUpTypes
  <2> QED BY <2>1, <2>2, <2>3
<1>5. \A v \in Browsers : window'[v] = IF v = w THEN NoWindow ELSE window[v]
  BY <1>1 DEF SignUpInv, SignUpTypes
<1>6. SignUpTypes' /\ OneOrganizationPerPerson'
  BY <1>1, <1>4, <1>5 DEF SignUpInv, SignUpTypes, OneOrganizationPerPerson, NoWindow
<1>7. FirstOfItsMobile' /\ FounderKnown'
  BY <1>1, <1>5 DEF SignUpInv, FirstOfItsMobile, FounderKnown, WithMail, NoWindow
<1> QED BY <1>4, <1>6, <1>7 DEF SignUpInv

\* One more login with contacts that were free.
LEMMA PersonAdded ==
  ASSUME SignUpInv, NEW mobile \in Mobiles, NEW mail \in Mails \cup {NoMail}, ~Taken(mobile, mail)
  PROVE  LET p == [mobile |-> mobile, mail |-> mail] IN
         /\ p \in Person
         /\ \A q \in people : ~(p.mobile = q.mobile \/ (p.mail = q.mail /\ p.mail # NoMail))
  BY DEF Taken, WithMail, WithMobile, Person, SignUpInv, SignUpTypes

LEMMA ProvisionStep ==
  ASSUME SignUpInv, NEW w \in Browsers, Provision(w)
  PROVE  SignUpInv'
<1> DEFINE x == window[w]
<1>1. x \in OpenWindow /\ x # NoWindow /\ x.at = "checked"
  BY WindowRowType DEF Provision, NoWindow, SignUpInv, SignUpTypes
<1>2. PICK p \in OwnerFor(x.mobile, x.mail) :
        people' = people \cup {p} /\ founded' = founded \cup {[name |-> x.name, owner |-> p]}
  BY DEF Provision
<1> DEFINE a == [x EXCEPT !.at = "founded"]
<1>3. window' = [window EXCEPT ![w] = a] /\ UNCHANGED <<ticket, resolving, dropped>>
  BY DEF Provision
<1>12. a \in OpenWindow /\ a # NoWindow /\ a.at = "founded" /\ a.ticket = x.ticket /\ a.mail = x.mail
  BY <1>1 DEF OpenWindow, NoWindow
<1>4. /\ p \in Person /\ p.mobile = x.mobile /\ (x.mail # NoMail => p.mail = x.mail)
      /\ \A q \in people : p.mobile = q.mobile \/ (p.mail = q.mail /\ p.mail # NoMail) => p = q
  <2>1. CASE ~Taken(x.mobile, x.mail)
    <3>1. p = [mobile |-> x.mobile, mail |-> x.mail]
      BY <1>2, <2>1 DEF OwnerFor
    <3>2. x.mobile \in Mobiles /\ x.mail \in Mails \cup {NoMail}
      BY <1>1 DEF OpenWindow
    <3> QED BY <2>1, <3>1, <3>2, PersonAdded
  <2>2. CASE Taken(x.mobile, x.mail)
    <3>1. p \in people /\ p.mobile = x.mobile /\ x.mail \in {NoMail, p.mail}
      BY <1>2, <2>2 DEF OwnerFor
    <3> QED BY <3>1 DEF SignUpInv, SignUpTypes, OneOrganizationPerPerson
  <2> QED BY <2>1, <2>2
<1>5. \A o \in founded : o.owner \in people /\ o.owner.mobile # x.mobile
  BY <1>1 DEF SignUpInv, SignUpTypes, FirstOfItsMobile
<1>6. \A o \in founded : o.owner # p /\ ~(o.owner.mobile = p.mobile \/ (o.owner.mail = p.mail /\ p.mail # NoMail))
  BY <1>4, <1>5
<1> HIDE DEF a
<1>7. \A v \in Browsers : window'[v] = IF v = w THEN a ELSE window[v]
  BY <1>3 DEF SignUpInv, SignUpTypes
<1>8. SignUpTypes'
  <2>1. x.name \in Names /\ x.ticket \in Tickets \cup {NoTicket}
    BY <1>1 DEF OpenWindow
  <2>2. people' \subseteq Person /\ founded' \subseteq [name : Names, owner : people']
    BY <1>2, <1>4, <2>1 DEF SignUpInv, SignUpTypes
  <2> QED BY <1>3, <1>7, <1>12, <2>1, <2>2 DEF SignUpInv, SignUpTypes
<1>9. OneOrganizationPerPerson'
  <2> DEFINE n == [name |-> x.name, owner |-> p]
  <2>1. n.owner = p
    OBVIOUS
  <2> HIDE DEF n
  <2>2. founded' = founded \cup {n}
    BY <1>2 DEF n
  <2>3. \A o, q \in founded' :
          o.owner.mobile = q.owner.mobile \/ (o.owner.mail = q.owner.mail /\ o.owner.mail # NoMail) => o = q
    BY <1>6, <2>1, <2>2 DEF SignUpInv, OneOrganizationPerPerson
  <2>4. \A r, q \in people' : r.mobile = q.mobile \/ (r.mail = q.mail /\ r.mail # NoMail) => r = q
    BY <1>2, <1>4 DEF SignUpInv, OneOrganizationPerPerson
  <2> QED BY <2>3, <2>4 DEF OneOrganizationPerPerson
<1>10. FirstOfItsMobile'
  <2>1. \A v \in Browsers : window'[v].at = "checked" =>
          v # w /\ window'[v] = window[v] /\ window[v].mobile # x.mobile
    BY <1>1, <1>7, <1>12 DEF SignUpInv, FirstOfItsMobile
  <2>2. \A o \in founded' : o \in founded \/ o.owner.mobile = x.mobile
    BY <1>2, <1>4
  <2> QED BY <2>1, <2>2 DEF SignUpInv, FirstOfItsMobile
<1>11. OneHolder'
  <2>1. \A u \in Tickets : HolderOf(u)' = HolderOf(u)
    BY <1>1, <1>7, <1>12 DEF HolderOf
  <2>2. \A u \in Tickets : WithMail(MailOf[u]) # {} => WithMail(MailOf[u])' # {}
    BY <1>2 DEF WithMail
  <2> QED BY <1>3, <1>7, <1>12, <2>1, <2>2 DEF SignUpInv, OneHolder
<1>13. FounderKnown'
  BY <1>2, <1>4, <1>7, <1>12 DEF SignUpInv, FounderKnown
<1> QED BY <1>8, <1>9, <1>10, <1>11, <1>13 DEF SignUpInv

LEMMA EnlistStep ==
  ASSUME SignUpInv, NEW mobile \in Mobiles, NEW mail \in Mails \cup {NoMail}, Enlist(mobile, mail)
  PROVE  SignUpInv'
<1> DEFINE p == [mobile |-> mobile, mail |-> mail]
<1>1. people' = people \cup {p} /\ ~Taken(mobile, mail) /\ UNCHANGED <<founded, ticket, window, resolving, dropped>>
  BY DEF Enlist
<1>2. p \in Person /\ \A q \in people : ~(p.mobile = q.mobile \/ (p.mail = q.mail /\ p.mail # NoMail))
  BY <1>1, PersonAdded
<1> HIDE DEF p
<1>3. SignUpTypes'
  BY <1>1, <1>2 DEF SignUpInv, SignUpTypes
<1>4. OneOrganizationPerPerson'
  BY <1>1, <1>2 DEF SignUpInv, OneOrganizationPerPerson
<1>5. FirstOfItsMobile'
  BY <1>1 DEF SignUpInv, FirstOfItsMobile
<1>6. OneHolder'
  BY <1>1 DEF SignUpInv, OneHolder, HolderOf, WithMail
<1>7. FounderKnown'
  BY <1>1 DEF SignUpInv, FounderKnown, WithMail
<1> QED BY <1>3, <1>4, <1>5, <1>6, <1>7 DEF SignUpInv

LEMMA SignUpInvStep == SignUpInv /\ [SignUpNext]_signUpVars => SignUpInv'
<1> SUFFICES ASSUME SignUpInv, [SignUpNext]_signUpVars PROVE SignUpInv'
  OBVIOUS
<1>1. ASSUME NEW t \in Tickets, \/ StoreTicket(t) \/ TicketExpires(t)
                                \/ Resolve(t) \/ FindNobody(t) \/ TakeTicket(t) \/ EndSignIn(t)
      PROVE  SignUpInv'
  BY <1>1, TicketActions
<1>2. ASSUME NEW w \in Browsers, NEW mobile \in Mobiles, NEW mail \in Mails \cup {NoMail}, StartSignUp(w, mobile, mail)
      PROVE  SignUpInv'
  BY <1>2, StartActions
<1>3. ASSUME NEW w \in Browsers, NEW t \in Tickets, NEW mobile \in Mobiles, StartWithTicket(w, t, mobile)
      PROVE  SignUpInv'
  BY <1>3, StartActions
<1>4. ASSUME NEW w \in Browsers, \/ CheckMail(w) \/ FailLookUp(w) \/ LockContacts(w) \/ SkipTakenName(w)
                                 \/ Provision(w) \/ RetryName(w) \/ Conclude(w) \/ FailSignUp(w)
      PROVE  SignUpInv'
  BY <1>4, NameActions, ProvisionStep, CloseActions
<1>5. ASSUME NEW mobile \in Mobiles, NEW mail \in Mails \cup {NoMail}, Enlist(mobile, mail) PROVE SignUpInv'
  BY <1>5, EnlistStep
<1>6. CASE UNCHANGED signUpVars
  BY <1>6 DEF signUpVars, SignUpInv, SignUpTypes, OneOrganizationPerPerson, FirstOfItsMobile, OneHolder, HolderOf, WithMail, FounderKnown
<1> QED BY <1>1, <1>2, <1>3, <1>4, <1>5, <1>6 DEF SignUpNext

LEMMA SignUpInvImplies == SignUpInv => SignUpTypeOK /\ SignUpHolds
<1> SUFFICES ASSUME SignUpInv PROVE SignUpTypeOK /\ SignUpHolds
  OBVIOUS
<1>1. SignUpTypeOK
  BY WindowRowType DEF SignUpInv, SignUpTypes, SignUpTypeOK, Person
<1>2. TicketsAccounted
  BY DEF SignUpInv, OneHolder, HolderOf, TicketsAccounted
<1> QED BY <1>1, <1>2 DEF SignUpHolds, SignUpInv

\* Any number of people, windows, names and tickets: one organization per
\* person, contacts unique among logins, and a ticket is used up only by a
\* person with a login or by a look-up that fails.
THEOREM SignUpIsSafe == SignUpSpec => [](SignUpTypeOK /\ SignUpHolds)
<1>1. SignUpSpec => []SignUpInv
  BY SignUpInvInit, SignUpInvStep, PTL DEF SignUpSpec
<1> QED BY <1>1, SignUpInvImplies, PTL

-----------------------------------------------------------------------------
(* The erasure of an account. *)

ErasureRequest ==
  [status : {"none", "pending", "in_review", "needs_information", "processing", "processing_failed", "completed"},
   lease : Runs \cup {NoRun}, expired : BOOLEAN]
ErasureRun ==
  {NotRunning} \cup [at : {"files"}, account : Accounts, todo : SUBSET Papers, purged : SUBSET Papers]
               \cup [at : {"identity", "delete", "looked"}, account : Accounts]

ErasureTypes ==
  /\ erasure \in [Accounts -> ErasureRequest]
  /\ account \in [Accounts -> {"active", "suspended", "gone"}]
  /\ papers \in [Accounts -> SUBSET Papers] /\ kept \in [Accounts -> SUBSET Papers]
  /\ unrecorded \in [Accounts -> SUBSET Papers] /\ late \in [Accounts -> SUBSET Papers]
  /\ elsewhere \subseteq Accounts /\ provider \subseteq Accounts
  /\ run \in [Runs -> ErasureRun]

\* A file in storage has a record, or waits for it; the run that holds the lease drops records
\* of files it has taken from storage, and no others.
RecordsLast ==
  /\ \A a \in Accounts : kept[a] \subseteq papers[a] \cup unrecorded[a]
  /\ \A r \in Runs : run[r].at = "files" /\ Holds(r) =>
       /\ run[r].todo \subseteq papers[run[r].account] /\ run[r].purged \subseteq run[r].todo
       /\ run[r].purged \cap kept[run[r].account] = {}

SomeoneActs == \E a \in Accounts : account[a] = "active"
GoneForGood ==
  \A a \in Accounts : account[a] = "gone" =>
    erasure[a].status = "completed" /\ erasure[a].lease = NoRun /\ papers[a] \subseteq late[a]
\* A lease suspends the account; who has looked holds it, and files recorded
\* since are late.
LooksLast ==
  /\ \A a \in Accounts : erasure[a].lease # NoRun => account[a] = "suspended"
  /\ \A r \in Runs : run[r].at = "looked" =>
       Holds(r) /\ papers[run[r].account] \subseteq late[run[r].account]

ErasureInv == ErasureTypes /\ RecordsLast /\ SomeoneActs /\ GoneForGood /\ LooksLast

LEMMA ErasureInvInit == ErasureInit => ErasureInv
<1> SUFFICES ASSUME ErasureInit PROVE ErasureInv
  OBVIOUS
<1>1. ErasureTypes
  BY DEF ErasureInit, ErasureTypes, ErasureRequest, ErasureRun
<1>2. RecordsLast
  BY DEF ErasureInit, RecordsLast, NotRunning
<1>3. SomeoneActs /\ GoneForGood
  BY ErasureAssumption DEF ErasureInit, SomeoneActs, GoneForGood
<1>4. LooksLast
  BY DEF ErasureInit, LooksLast, NotRunning
<1> QED BY <1>1, <1>2, <1>3, <1>4 DEF ErasureInv

LEMMA ErasureRowType ==
  ASSUME NEW x \in ErasureRun
  PROVE  /\ x.at \in {"idle", "files", "identity", "delete", "looked"}
         /\ x.at = "idle" <=> x = NotRunning
         /\ x # NotRunning => x.account \in Accounts
         /\ x.at = "files" =>
              x \in [at : {"files"}, account : Accounts, todo : SUBSET Papers, purged : SUBSET Papers]
         /\ x.at \in {"identity", "delete", "looked"} => x \in [at : {"identity", "delete", "looked"}, account : Accounts]
  BY DEF ErasureRun, NotRunning

\* A run stops purging; leases may end, but nothing else happens to files.
LEMMA RunStops ==
  ASSUME ErasureInv, NEW r \in Runs, NEW x \in ErasureRun, x.at \notin {"files", "looked"},
         run' = [run EXCEPT ![r] = x], erasure' \in [Accounts -> ErasureRequest],
         \A a \in Accounts : erasure'[a].lease \in {erasure[a].lease, NoRun},
         \A q \in Runs \ {r} : run[q].at = "looked" => erasure'[run[q].account].lease = erasure[run[q].account].lease,
         UNCHANGED <<papers, kept, elsewhere, unrecorded, late>>, provider' \subseteq Accounts, UNCHANGED account,
         \A a \in Accounts : account[a] = "gone" => erasure'[a] = erasure[a]
  PROVE  ErasureInv'
<1>1. ErasureTypes'
  BY DEF ErasureInv, ErasureTypes
<1>2. \A q \in Runs : run'[q].at \in {"files", "looked"} => q # r /\ run'[q] = run[q]
  BY DEF ErasureInv, ErasureTypes
<1>3. \A q \in Runs : run'[q].at = "files" /\ Holds(q)' => Holds(q)
  <2> SUFFICES ASSUME NEW q \in Runs, run'[q].at = "files", Holds(q)' PROVE Holds(q)
    OBVIOUS
  <2>1. run'[q] = run[q] /\ run[q].account \in Accounts
    BY <1>2, ErasureRowType DEF ErasureInv, ErasureTypes, NotRunning
  <2> QED BY <2>1, ErasureAssumption DEF Holds
<1>4. RecordsLast'
  BY <1>2, <1>3 DEF ErasureInv, RecordsLast
<1>5. SomeoneActs' /\ GoneForGood'
  BY DEF ErasureInv, SomeoneActs, GoneForGood
<1>6. LooksLast'
  <2>1. \A a \in Accounts : erasure'[a].lease # NoRun => account'[a] = "suspended"
    BY DEF ErasureInv, LooksLast
  <2>2. ASSUME NEW q \in Runs, run'[q].at = "looked"
        PROVE  Holds(q)' /\ papers'[run'[q].account] \subseteq late'[run'[q].account]
    <3>1. run'[q] = run[q] /\ q \in Runs \ {r} /\ run[q].at = "looked"
      BY <1>2, <2>2
    <3> QED BY <3>1 DEF ErasureInv, LooksLast, Holds
  <2> QED BY <2>1, <2>2 DEF LooksLast
<1> QED BY <1>1, <1>4, <1>5, <1>6 DEF ErasureInv

LEMMA StopActions ==
  ASSUME ErasureInv, NEW r \in Runs,
         LeaveRest(r) \/ FilesDone(r) \/ DropIdentity(r) \/ FailErasure(r) \/ DieErasing(r)
  PROVE  ErasureInv'
<1> DEFINE a == run[r].account
<1>1. /\ UNCHANGED <<account, papers, kept, elsewhere, unrecorded, late>> /\ run[r] # NotRunning /\ a \in Accounts
  BY ErasureRowType DEF LeaveRest, FilesDone, DropIdentity, FailErasure, DieErasing, NotRunning, ErasureInv, ErasureTypes
<1>2. NotRunning \in ErasureRun /\ NotRunning.at = "idle"
  BY DEF NotRunning, ErasureRun
<1>3. erasure[a] \in ErasureRequest /\ erasure \in [Accounts -> ErasureRequest]
  BY <1>1 DEF ErasureInv, ErasureTypes
<1>9. \A q \in Runs : run[q].at = "looked" => run[q].account \in Accounts
  BY ErasureRowType DEF ErasureInv, ErasureTypes, NotRunning
<1>4. CASE LeaveRest(r)
  <2>1. erasure' = [erasure EXCEPT ![a] = [erasure[a] EXCEPT !.lease = NoRun]]
        /\ account[a] # "gone" /\ run' = [run EXCEPT ![r] = NotRunning] /\ UNCHANGED provider
    BY <1>4 DEF LeaveRest
  <2>2. [erasure[a] EXCEPT !.lease = NoRun] \in ErasureRequest /\ [erasure[a] EXCEPT !.lease = NoRun].lease = NoRun
    BY <1>3 DEF ErasureRequest
  <2>3. account[a] # "gone"
    BY <2>1
  <2>4. /\ erasure' \in [Accounts -> ErasureRequest]
        /\ \A b \in Accounts : erasure'[b].lease \in {erasure[b].lease, NoRun}
        /\ \A b \in Accounts : account[b] = "gone" => erasure'[b] = erasure[b]
        /\ \A b \in Accounts : b # a => erasure'[b] = erasure[b]
    BY <1>1, <1>3, <2>1, <2>2, <2>3
  <2>5. \A q \in Runs \ {r} : run[q].at = "looked" => erasure'[run[q].account].lease = erasure[run[q].account].lease
    BY <1>4, <1>9, <2>4 DEF LeaveRest, Locked
  <2> QED BY <1>1, <1>2, <2>1, <2>4, <2>5, RunStops DEF ErasureInv, ErasureTypes
<1>5. CASE FailErasure(r) /\ Holds(r)
  <2> DEFINE e == [erasure[a] EXCEPT !.status = "processing_failed", !.lease = NoRun]
  <2>1. erasure' = [erasure EXCEPT ![a] = e] /\ run' = [run EXCEPT ![r] = NotRunning] /\ UNCHANGED provider
    BY <1>5 DEF FailErasure
  <2>2. e \in ErasureRequest /\ e.lease = NoRun
    BY <1>3 DEF ErasureRequest
  <2>3. account[a] # "gone"
    BY <1>1, <1>5, ErasureAssumption DEF ErasureInv, GoneForGood, Holds
  <2> HIDE DEF e
  <2>4. /\ erasure' \in [Accounts -> ErasureRequest]
        /\ \A b \in Accounts : erasure'[b].lease \in {erasure[b].lease, NoRun}
        /\ \A b \in Accounts : account[b] = "gone" => erasure'[b] = erasure[b]
        /\ \A b \in Accounts : b # a => erasure'[b] = erasure[b]
    BY <1>1, <1>3, <2>1, <2>2, <2>3
  <2>5. \A q \in Runs \ {r} : run[q].at = "looked" => erasure'[run[q].account].lease = erasure[run[q].account].lease
    BY <1>5, <1>9, <2>4 DEF ErasureInv, LooksLast, Holds
  <2> QED BY <1>1, <1>2, <2>1, <2>4, <2>5, RunStops DEF ErasureInv, ErasureTypes
<1>6. CASE (FailErasure(r) /\ ~Holds(r)) \/ DieErasing(r)
  <2>1. erasure' = erasure /\ run' = [run EXCEPT ![r] = NotRunning] /\ UNCHANGED provider
    BY <1>6 DEF FailErasure, DieErasing
  <2> QED BY <1>1, <1>2, <1>3, <2>1, RunStops DEF ErasureInv, ErasureTypes
<1>7. CASE FilesDone(r)
  <2> DEFINE x == [at |-> IF a \in elsewhere THEN "delete" ELSE "identity", account |-> a]
  <2>1. run' = [run EXCEPT ![r] = x] /\ UNCHANGED <<erasure, provider>>
    BY <1>7 DEF FilesDone
  <2>2. x \in ErasureRun /\ x.at \notin {"files", "looked"}
    BY <1>1 DEF ErasureRun
  <2> QED BY <1>1, <1>3, <2>1, <2>2, RunStops DEF ErasureInv, ErasureTypes
<1>8. CASE DropIdentity(r)
  <2> DEFINE x == [run[r] EXCEPT !.at = "delete"]
  <2>1. run' = [run EXCEPT ![r] = x] /\ UNCHANGED erasure /\ provider' \subseteq Accounts /\ run[r].at = "identity"
    BY <1>8 DEF DropIdentity, ErasureInv, ErasureTypes
  <2>2. x \in ErasureRun /\ x.at \notin {"files", "looked"}
    <3>1. run[r] \in [at : {"identity", "delete", "looked"}, account : Accounts]
      BY <2>1, ErasureRowType DEF ErasureInv, ErasureTypes
    <3> QED BY <3>1 DEF ErasureRun
  <2> QED BY <1>1, <1>3, <2>1, <2>2, RunStops
<1> QED BY <1>4, <1>5, <1>6, <1>7, <1>8

\* A request moves on while its lease, if it has one, stays.
LEMMA RequestMoves ==
  ASSUME ErasureInv, NEW a \in Accounts, account[a] # "gone", NEW e \in ErasureRequest, e.lease = erasure[a].lease,
         erasure' = [erasure EXCEPT ![a] = e],
         UNCHANGED <<account, papers, kept, elsewhere, provider, run, unrecorded, late>>
  PROVE  ErasureInv'
<1>1. ErasureTypes'
  BY DEF ErasureInv, ErasureTypes
<1>2. \A b \in Accounts : erasure'[b].lease = erasure[b].lease /\ (account[b] = "gone" => erasure'[b] = erasure[b])
  BY DEF ErasureInv, ErasureTypes
<1>3. \A q \in Runs : run[q].at = "files" => (Holds(q)' <=> Holds(q))
  BY <1>2, ErasureRowType DEF Holds, ErasureInv, ErasureTypes, NotRunning
<1>4. RecordsLast'
  BY <1>3 DEF ErasureInv, RecordsLast
<1>5. SomeoneActs' /\ GoneForGood'
  BY <1>2 DEF ErasureInv, SomeoneActs, GoneForGood
<1>6. LooksLast'
  BY <1>2, ErasureRowType DEF Holds, ErasureInv, ErasureTypes, LooksLast, NotRunning
<1> QED BY <1>1, <1>4, <1>5, <1>6 DEF ErasureInv

LEMMA RequestActions ==
  ASSUME ErasureInv, NEW a \in Accounts,
         \/ RequestErasure(a) \/ ErasureLeaseEnds(a)
         \/ \E to \in {"in_review", "needs_information"} : ReviewErasure(a, to)
  PROVE  ErasureInv'
<1>1. erasure[a] \in ErasureRequest
  BY DEF ErasureInv, ErasureTypes
<1>2. UNCHANGED <<account, papers, kept, elsewhere, provider, run, unrecorded, late>>
  BY DEF RequestErasure, ErasureLeaseEnds, ReviewErasure
<1>3. ASSUME NEW to \in {"pending", "in_review", "needs_information"}, account[a] # "gone",
             erasure' = [erasure EXCEPT ![a].status = to]
      PROVE  ErasureInv'
  <2> DEFINE e == [erasure[a] EXCEPT !.status = to]
  <2>1. e \in ErasureRequest /\ e.lease = erasure[a].lease
    BY <1>1 DEF ErasureRequest
  <2> QED BY <1>2, <1>3, <2>1, RequestMoves
<1>4. CASE RequestErasure(a)
  BY <1>3, <1>4 DEF RequestErasure
<1>5. ASSUME NEW to \in {"in_review", "needs_information"}, ReviewErasure(a, to)
      PROVE  ErasureInv'
  <2>1. account[a] # "gone"
    BY <1>5 DEF ReviewErasure, ErasureInv, GoneForGood
  <2> QED BY <1>3, <1>5, <2>1 DEF ReviewErasure
<1>6. CASE ErasureLeaseEnds(a)
  <2> DEFINE e == [erasure[a] EXCEPT !.expired = TRUE]
  <2>1. e \in ErasureRequest /\ e.lease = erasure[a].lease
    BY <1>1 DEF ErasureRequest
  <2>2. account[a] # "gone" /\ erasure' = [erasure EXCEPT ![a] = e]
    BY <1>6 DEF ErasureLeaseEnds, ErasureInv, GoneForGood
  <2> QED BY <1>2, <2>1, <2>2, RequestMoves
<1> QED BY <1>4, <1>5, <1>6

\* Files come and go; requests, accounts and runs stay.
LEMMA FilesMove ==
  ASSUME ErasureInv, UNCHANGED <<erasure, account, elsewhere, provider, run>>,
         papers' \in [Accounts -> SUBSET Papers], kept' \in [Accounts -> SUBSET Papers],
         unrecorded' \in [Accounts -> SUBSET Papers], late' \in [Accounts -> SUBSET Papers],
         \A b \in Accounts : papers[b] \subseteq papers'[b],
         \A b \in Accounts : kept'[b] \subseteq papers'[b] \cup unrecorded'[b],
         \A b \in Accounts : papers[b] \cap kept'[b] \subseteq kept[b],
         \A b \in Accounts : (Locked(b) \/ account[b] = "gone") => (papers[b] \subseteq late[b] => papers'[b] \subseteq late'[b])
  PROVE  ErasureInv'
<1>1. ErasureTypes'
  BY DEF ErasureInv, ErasureTypes
<1>2. RecordsLast'
  <2>1. ASSUME NEW r \in Runs, run'[r].at = "files", Holds(r)'
        PROVE  /\ run'[r].todo \subseteq papers'[run'[r].account] /\ run'[r].purged \subseteq run'[r].todo
               /\ run'[r].purged \cap kept'[run'[r].account] = {}
    <3>1. run'[r] = run[r] /\ run[r].account \in Accounts /\ Holds(r)
      BY <2>1, ErasureRowType DEF Holds, ErasureInv, ErasureTypes, NotRunning
    <3>2. /\ run[r].todo \subseteq papers[run[r].account] /\ run[r].purged \subseteq run[r].todo
          /\ run[r].purged \cap kept[run[r].account] = {}
      BY <2>1, <3>1 DEF ErasureInv, RecordsLast
    <3> QED BY <3>1, <3>2
  <2> QED BY <2>1 DEF RecordsLast
<1>3. SomeoneActs' /\ GoneForGood'
  BY DEF ErasureInv, SomeoneActs, GoneForGood
<1>4. LooksLast'
  <2>1. ASSUME NEW r \in Runs, run[r].at = "looked"
        PROVE  Holds(r)' /\ papers'[run[r].account] \subseteq late'[run[r].account]
    <3>1. run[r].account \in Accounts
      BY <2>1, ErasureRowType DEF ErasureInv, ErasureTypes, NotRunning
    <3>2. Locked(run[r].account)
      BY <2>1 DEF Locked
    <3> QED BY <2>1, <3>1, <3>2 DEF ErasureInv, LooksLast, Holds
  <2> QED BY <2>1 DEF ErasureInv, LooksLast
<1> QED BY <1>1, <1>2, <1>3, <1>4 DEF ErasureInv

LEMMA UploadStep ==
  ASSUME ErasureInv, NEW a \in Accounts, NEW p \in Papers, StorePaper(a, p) \/ RecordPaper(a, p) \/ FailUpload(a, p)
  PROVE  ErasureInv'
<1>0. /\ papers \in [Accounts -> SUBSET Papers] /\ kept \in [Accounts -> SUBSET Papers]
      /\ unrecorded \in [Accounts -> SUBSET Papers] /\ late \in [Accounts -> SUBSET Papers]
      /\ \A b \in Accounts : kept[b] \subseteq papers[b] \cup unrecorded[b]
  BY DEF ErasureInv, ErasureTypes, RecordsLast
<1>1. CASE StorePaper(a, p)
  <2>1. /\ \A b \in Accounts : p \notin papers[b] \cup kept[b]
        /\ kept' = [kept EXCEPT ![a] = kept[a] \cup {p}]
        /\ unrecorded' = [unrecorded EXCEPT ![a] = unrecorded[a] \cup {p}]
        /\ UNCHANGED <<erasure, account, papers, elsewhere, provider, run, late>>
    BY <1>1 DEF StorePaper
  <2>2. /\ kept' \in [Accounts -> SUBSET Papers] /\ unrecorded' \in [Accounts -> SUBSET Papers]
        /\ \A b \in Accounts : /\ kept'[b] \subseteq papers'[b] \cup unrecorded'[b]
                                /\ papers[b] \cap kept'[b] \subseteq kept[b]
    BY <1>0, <2>1
  <2> QED BY <1>0, <2>1, <2>2, FilesMove
<1>2. CASE RecordPaper(a, p)
  <2>1. /\ unrecorded' = [unrecorded EXCEPT ![a] = unrecorded[a] \ {p}]
        /\ papers' = [papers EXCEPT ![a] = papers[a] \cup {p}]
        /\ late' = IF Locked(a) \/ account[a] = "gone" THEN [late EXCEPT ![a] = late[a] \cup {p}] ELSE late
        /\ UNCHANGED <<erasure, account, kept, elsewhere, provider, run>>
    BY <1>2 DEF RecordPaper
  <2>2. /\ papers' \in [Accounts -> SUBSET Papers] /\ unrecorded' \in [Accounts -> SUBSET Papers]
        /\ late' \in [Accounts -> SUBSET Papers]
        /\ \A b \in Accounts : /\ papers[b] \subseteq papers'[b] /\ kept'[b] \subseteq papers'[b] \cup unrecorded'[b]
                                /\ papers[b] \cap kept'[b] \subseteq kept[b]
    BY <1>0, <2>1
  <2>4. \A b \in Accounts : (Locked(b) \/ account[b] = "gone") => (papers[b] \subseteq late[b] => papers'[b] \subseteq late'[b])
    BY <1>0, <2>1
  <2>3. kept' \in [Accounts -> SUBSET Papers]
    BY <1>0, <2>1
  <2> QED BY <2>1, <2>2, <2>3, <2>4, FilesMove
<1>3. CASE FailUpload(a, p)
  <2>1. /\ kept' = [kept EXCEPT ![a] = kept[a] \ {p}]
        /\ unrecorded' = [unrecorded EXCEPT ![a] = unrecorded[a] \ {p}]
        /\ UNCHANGED <<erasure, account, papers, elsewhere, provider, run, late>>
    BY <1>3 DEF FailUpload
  <2>2. /\ kept' \in [Accounts -> SUBSET Papers] /\ unrecorded' \in [Accounts -> SUBSET Papers]
        /\ \A b \in Accounts : /\ kept'[b] \subseteq papers'[b] \cup unrecorded'[b]
                                /\ papers[b] \cap kept'[b] \subseteq kept[b]
    BY <1>0, <2>1
  <2> QED BY <1>0, <2>1, <2>2, FilesMove
<1> QED BY <1>1, <1>2, <1>3

LEMMA ClaimErasureStep ==
  ASSUME ErasureInv, NEW r \in Runs, NEW a \in Accounts, ClaimErasure(r, a)
  PROVE  ErasureInv'
<1> DEFINE e == [status |-> "processing", lease |-> r, expired |-> FALSE]
<1>1. /\ OtherOwnerActive(a) /\ account' = [account EXCEPT ![a] = "suspended"]
      /\ erasure' = [erasure EXCEPT ![a] = e]
      /\ erasure[a].status \in {"in_review", "processing", "processing_failed"}
      /\ UNCHANGED <<papers, kept, elsewhere, provider, unrecorded, late>> /\ ~Locked(a)
  BY DEF ClaimErasure
<1>2. PICK P \in SUBSET papers[a] :
        run' = [run EXCEPT ![r] = [at |-> "files", account |-> a, todo |-> P, purged |-> {}]]
  BY DEF ClaimErasure
<1> DEFINE x == [at |-> "files", account |-> a, todo |-> P, purged |-> {}]
<1>3. x \in ErasureRun /\ e \in ErasureRequest
  BY DEF ErasureRun, ErasureRequest, ErasureInv, ErasureTypes
<1>4. ErasureTypes'
  BY <1>1, <1>2, <1>3 DEF ErasureInv, ErasureTypes
<1>5. /\ \A q \in Runs : run'[q] = IF q = r THEN x ELSE run[q]
      /\ \A b \in Accounts : erasure'[b] = IF b = a THEN e ELSE erasure[b]
      /\ \A b \in Accounts : account'[b] = IF b = a THEN "suspended" ELSE account[b]
  BY <1>1, <1>2 DEF ErasureInv, ErasureTypes
<1>6. RecordsLast'
  <2>1. ASSUME NEW q \in Runs, q # r, run'[q].at = "files", Holds(q)'
        PROVE  run'[q] = run[q] /\ Holds(q)
    <3>1. run'[q] = run[q] /\ run[q].account \in Accounts
      BY <1>5, <2>1, ErasureRowType DEF ErasureInv, ErasureTypes, NotRunning
    <3> QED BY <1>5, <2>1, <3>1 DEF Holds
  <2>2. run'[r].todo \subseteq papers[a] /\ run'[r].purged = {} /\ run'[r].account = a
    BY <1>5
  <2>3. ASSUME NEW q \in Runs, run'[q].at = "files", Holds(q)'
        PROVE  /\ run'[q].todo \subseteq papers'[run'[q].account] /\ run'[q].purged \subseteq run'[q].todo
               /\ run'[q].purged \cap kept'[run'[q].account] = {}
    <3>1. CASE q = r
      BY <1>1, <2>2, <3>1
    <3>2. CASE q # r
      BY <1>1, <2>1, <2>3, <3>2 DEF ErasureInv, RecordsLast
    <3> QED BY <3>1, <3>2
  <2> QED BY <1>1, <2>3 DEF ErasureInv, RecordsLast
<1>7. SomeoneActs'
  BY <1>1, <1>5 DEF OtherOwnerActive, SomeoneActs
<1>8. GoneForGood'
  BY <1>1, <1>5 DEF ErasureInv, GoneForGood
<1>9. LooksLast'
  <2>1. \A b \in Accounts : erasure'[b].lease # NoRun => account'[b] = "suspended"
    BY <1>5 DEF ErasureInv, LooksLast
  <2>2. ASSUME NEW q \in Runs, run'[q].at = "looked"
        PROVE  Holds(q)' /\ papers'[run'[q].account] \subseteq late'[run'[q].account]
    <3>1. run'[q] = run[q]
      BY <1>5, <2>2
    <3>2. run[q].account \in Accounts /\ run[q].account # a
      BY <1>1, <2>2, <3>1, ErasureRowType DEF Locked, ErasureInv, ErasureTypes, NotRunning
    <3> QED BY <1>1, <1>5, <2>2, <3>1, <3>2 DEF ErasureInv, LooksLast, Holds
  <2> QED BY <2>1, <2>2 DEF LooksLast
<1> QED BY <1>4, <1>6, <1>7, <1>8, <1>9 DEF ErasureInv

\* The run that purges, and what it holds.
LEMMA PurgingRun ==
  ASSUME ErasureInv, NEW r \in Runs, run[r].at = "files"
  PROVE  /\ run[r].account \in Accounts
         /\ run[r] \in [at : {"files"}, account : Accounts, todo : SUBSET Papers, purged : SUBSET Papers]
  BY ErasureRowType DEF ErasureInv, ErasureTypes, NotRunning

LEMMA PurgePaperStep ==
  ASSUME ErasureInv, NEW r \in Runs, NEW p \in Papers, PurgePaper(r, p)
  PROVE  ErasureInv'
<1>0. PICK a \in Accounts : a = run[r].account
  BY PurgingRun DEF PurgePaper
<1> DEFINE x == [run[r] EXCEPT !.purged = run[r].purged \cup {p}]
<1>1. /\ run[r].at = "files" /\ p \in run[r].todo \ run[r].purged
      /\ kept' = [kept EXCEPT ![a] = kept[a] \ {p}] /\ run' = [run EXCEPT ![r] = x]
      /\ UNCHANGED <<erasure, account, papers, elsewhere, provider, unrecorded, late>>
  BY <1>0 DEF PurgePaper
<1>2. x \in ErasureRun /\ x.at = "files" /\ x.account = a /\ x.todo = run[r].todo /\ x.purged = run[r].purged \cup {p}
  BY <1>0, <1>1, PurgingRun DEF ErasureRun
<1>3. \A q \in Runs : run'[q] = IF q = r THEN x ELSE run[q]
  BY <1>1 DEF ErasureInv, ErasureTypes
<1>4. \A b \in Accounts : kept'[b] = IF b = a THEN kept[a] \ {p} ELSE kept[b]
  BY <1>1 DEF ErasureInv, ErasureTypes
<1> HIDE DEF x
<1>5. ErasureTypes'
  BY <1>1, <1>2 DEF ErasureInv, ErasureTypes
<1>6. RecordsLast'
  <2>1. \A q \in Runs : Holds(q)' <=> Holds(q)
    BY <1>0, <1>1, <1>2, <1>3 DEF Holds
  <2>2. ASSUME NEW q \in Runs, run'[q].at = "files", Holds(q)'
        PROVE  /\ run'[q].todo \subseteq papers'[run'[q].account] /\ run'[q].purged \subseteq run'[q].todo
               /\ run'[q].purged \cap kept'[run'[q].account] = {}
    <3>1. run[q].at = "files" /\ Holds(q) /\ run'[q].account = run[q].account /\ run[q].account \in Accounts
      BY <1>0, <1>1, <1>2, <1>3, <2>1, <2>2, PurgingRun
    <3>2. /\ run[q].todo \subseteq papers[run[q].account] /\ run[q].purged \subseteq run[q].todo
          /\ run[q].purged \cap kept[run[q].account] = {}
      BY <3>1 DEF ErasureInv, RecordsLast
    <3>3. kept'[run[q].account] \subseteq kept[run[q].account]
      BY <1>4, <3>1
    <3>4. CASE q # r
      BY <1>1, <1>3, <3>1, <3>2, <3>3, <3>4
    <3>5. CASE q = r
      BY <1>0, <1>1, <1>2, <1>3, <1>4, <3>1, <3>2, <3>5
    <3> QED BY <3>4, <3>5
  <2>3. \A b \in Accounts : kept'[b] \subseteq papers'[b] \cup unrecorded'[b]
    BY <1>1, <1>4 DEF ErasureInv, RecordsLast
  <2> QED BY <2>2, <2>3 DEF RecordsLast
<1>7. SomeoneActs' /\ GoneForGood'
  BY <1>1 DEF ErasureInv, SomeoneActs, GoneForGood
<1>8. LooksLast'
  <2>1. \A q \in Runs : run'[q].at = "looked" => run'[q] = run[q]
    BY <1>2, <1>3
  <2> QED BY <1>1, <2>1 DEF ErasureInv, LooksLast, Holds
<1> QED BY <1>5, <1>6, <1>7, <1>8 DEF ErasureInv

LEMMA DropRecordStep ==
  ASSUME ErasureInv, NEW r \in Runs, NEW p \in Papers, DropRecord(r, p)
  PROVE  ErasureInv'
<1>0. PICK a \in Accounts : a = run[r].account
  BY PurgingRun DEF DropRecord
<1> DEFINE x == [run[r] EXCEPT !.todo = run[r].todo \ {p}, !.purged = run[r].purged \ {p}]
<1>1. /\ run[r].at = "files" /\ p \in run[r].purged /\ Holds(r)
      /\ papers' = [papers EXCEPT ![a] = papers[a] \ {p}] /\ run' = [run EXCEPT ![r] = x]
      /\ UNCHANGED <<erasure, account, kept, elsewhere, provider, unrecorded, late>>
  BY <1>0 DEF DropRecord
<1>2. /\ x \in ErasureRun /\ x.at = "files" /\ x.account = a /\ x.todo = run[r].todo \ {p}
      /\ x.purged = run[r].purged \ {p}
  BY <1>0, <1>1, PurgingRun DEF ErasureRun
<1>3. \A q \in Runs : run'[q] = IF q = r THEN x ELSE run[q]
  BY <1>1 DEF ErasureInv, ErasureTypes
<1>4. \A b \in Accounts : papers'[b] = IF b = a THEN papers[a] \ {p} ELSE papers[b]
  BY <1>1 DEF ErasureInv, ErasureTypes
<1> HIDE DEF x
<1>5. ErasureTypes'
  BY <1>1, <1>2 DEF ErasureInv, ErasureTypes
<1>6. RecordsLast'
  <2>1. \A q \in Runs : Holds(q)' <=> Holds(q)
    BY <1>0, <1>1, <1>2, <1>3 DEF Holds
  <2>2. ASSUME NEW q \in Runs, run'[q].at = "files", Holds(q)'
        PROVE  /\ run'[q].todo \subseteq papers'[run'[q].account] /\ run'[q].purged \subseteq run'[q].todo
               /\ run'[q].purged \cap kept'[run'[q].account] = {}
    <3>1. run[q].at = "files" /\ Holds(q) /\ run'[q].account = run[q].account /\ run[q].account \in Accounts
      BY <1>0, <1>1, <1>2, <1>3, <2>1, <2>2, PurgingRun
    <3>2. /\ run[q].todo \subseteq papers[run[q].account] /\ run[q].purged \subseteq run[q].todo
          /\ run[q].purged \cap kept[run[q].account] = {}
      BY <3>1 DEF ErasureInv, RecordsLast
    <3>3. CASE q # r
      <4>1. run[q].account # a
        BY <1>0, <1>1, <3>1, <3>3 DEF Holds
      <4> QED BY <1>1, <1>3, <1>4, <3>1, <3>2, <3>3, <4>1
    <3>4. CASE q = r
      BY <1>0, <1>1, <1>2, <1>3, <1>4, <3>1, <3>2, <3>4
    <3> QED BY <3>3, <3>4
  <2>3. p \notin kept[a]
    BY <1>0, <1>1 DEF ErasureInv, RecordsLast
  <2>4. \A b \in Accounts : kept'[b] \subseteq papers'[b] \cup unrecorded'[b]
    BY <1>1, <1>4, <2>3 DEF ErasureInv, RecordsLast
  <2> QED BY <2>2, <2>4 DEF RecordsLast
<1>7. SomeoneActs' /\ GoneForGood'
  BY <1>1, <1>4 DEF ErasureInv, SomeoneActs, GoneForGood
<1>8. LooksLast'
  <2>1. ASSUME NEW q \in Runs, run'[q].at = "looked"
        PROVE  run'[q] = run[q] /\ run[q].account \in Accounts
    BY <1>2, <1>3, <2>1, ErasureRowType DEF ErasureInv, ErasureTypes, NotRunning
  <2>2. \A b \in Accounts : papers'[b] \subseteq papers[b]
    BY <1>4
  <2> QED BY <1>1, <2>1, <2>2 DEF ErasureInv, LooksLast, Holds
<1> QED BY <1>5, <1>6, <1>7, <1>8 DEF ErasureInv

LEMMA LookAgainStep ==
  ASSUME ErasureInv, NEW r \in Runs, LookAgain(r)
  PROVE  ErasureInv'
<1>0. PICK a \in Accounts : a = run[r].account
  BY ErasureRowType DEF LookAgain, ErasureInv, ErasureTypes, NotRunning
<1> DEFINE x == [run[r] EXCEPT !.at = "looked"]
<1>1. /\ run[r].at = "delete" /\ Holds(r) /\ papers[a] = {} /\ run' = [run EXCEPT ![r] = x]
      /\ late' = [late EXCEPT ![a] = {}]
      /\ UNCHANGED <<erasure, account, papers, kept, elsewhere, provider, unrecorded>>
  BY <1>0 DEF LookAgain, NoFiles
<1>2. x \in ErasureRun /\ x.at = "looked" /\ x.account = a
  <2>1. run[r] \in [at : {"identity", "delete", "looked"}, account : Accounts]
    BY <1>1, ErasureRowType DEF ErasureInv, ErasureTypes
  <2> QED BY <1>0, <2>1 DEF ErasureRun
<1>3. \A q \in Runs : run'[q] = IF q = r THEN x ELSE run[q]
  BY <1>1 DEF ErasureInv, ErasureTypes
<1>4. \A b \in Accounts : late'[b] = IF b = a THEN {} ELSE late[b]
  BY <1>1 DEF ErasureInv, ErasureTypes
<1> HIDE DEF x
<1>5. ErasureTypes'
  BY <1>1, <1>2 DEF ErasureInv, ErasureTypes
<1>6. RecordsLast'
  <2>1. \A q \in Runs : run'[q].at = "files" => run'[q] = run[q]
    BY <1>2, <1>3
  <2> QED BY <1>1, <2>1 DEF ErasureInv, RecordsLast, Holds
<1>7. SomeoneActs' /\ GoneForGood'
  BY <1>1, <1>4 DEF ErasureInv, SomeoneActs, GoneForGood
<1>8. LooksLast'
  <2>1. ASSUME NEW q \in Runs, run'[q].at = "looked"
        PROVE  Holds(q)' /\ papers'[run'[q].account] \subseteq late'[run'[q].account]
    <3>1. CASE q = r
      BY <1>0, <1>1, <1>2, <1>3, <1>4, <3>1 DEF Holds
    <3>2. CASE q # r
      <4>1. run'[q] = run[q] /\ run[q].account \in Accounts
        BY <1>3, <2>1, <3>2, ErasureRowType DEF ErasureInv, ErasureTypes, NotRunning
      <4> QED BY <1>1, <1>4, <2>1, <4>1 DEF ErasureInv, LooksLast, Holds
    <3> QED BY <3>1, <3>2
  <2> QED BY <1>1, <2>1 DEF ErasureInv, LooksLast
<1> QED BY <1>5, <1>6, <1>7, <1>8 DEF ErasureInv

LEMMA DeleteAccountStep ==
  ASSUME ErasureInv, NEW r \in Runs, DeleteAccount(r)
  PROVE  ErasureInv'
<1>0. PICK a \in Accounts : a = run[r].account
  BY ErasureRowType DEF DeleteAccount, ErasureInv, ErasureTypes, NotRunning
<1> DEFINE e == [status |-> "completed", lease |-> NoRun, expired |-> FALSE]
<1>1. /\ account' = [account EXCEPT ![a] = "gone"] /\ erasure' = [erasure EXCEPT ![a] = e]
      /\ run' = [run EXCEPT ![r] = NotRunning] /\ run[r].at = "looked"
      /\ UNCHANGED <<papers, kept, elsewhere, provider, unrecorded, late>>
  BY <1>0 DEF DeleteAccount
<1>2. /\ \A q \in Runs : run'[q] = IF q = r THEN NotRunning ELSE run[q]
      /\ \A b \in Accounts : erasure'[b] = IF b = a THEN e ELSE erasure[b]
      /\ \A b \in Accounts : account'[b] = IF b = a THEN "gone" ELSE account[b]
  BY <1>1 DEF ErasureInv, ErasureTypes
<1>7. erasure[a].lease = r /\ account[a] = "suspended" /\ papers[a] \subseteq late[a]
  BY <1>0, <1>1, ErasureAssumption DEF ErasureInv, LooksLast, Holds
<1>3. ErasureTypes'
  <2>1. e \in ErasureRequest /\ NotRunning \in ErasureRun
    BY DEF ErasureRequest, ErasureRun
  <2> QED BY <1>1, <2>1 DEF ErasureInv, ErasureTypes
<1>4. RecordsLast'
  <2>1. ASSUME NEW q \in Runs, run'[q].at = "files", Holds(q)'
        PROVE  run'[q] = run[q] /\ Holds(q)
    <3>1. run'[q] = run[q] /\ run[q].account \in Accounts
      BY <1>2, <2>1, PurgingRun DEF NotRunning
    <3>2. CASE run[q].account = a
      BY <1>2, <2>1, <3>1, <3>2, ErasureAssumption DEF Holds
    <3>3. CASE run[q].account # a
      BY <1>2, <2>1, <3>1, <3>3 DEF Holds
    <3> QED BY <3>1, <3>2, <3>3
  <2> QED BY <1>1, <2>1 DEF ErasureInv, RecordsLast
<1>5. SomeoneActs'
  BY <1>2, <1>7 DEF ErasureInv, SomeoneActs
<1>6. GoneForGood'
  BY <1>1, <1>2, <1>7 DEF ErasureInv, GoneForGood
<1>8. LooksLast'
  <2>1. \A b \in Accounts : erasure'[b].lease # NoRun => account'[b] = "suspended"
    BY <1>2 DEF ErasureInv, LooksLast
  <2>2. ASSUME NEW q \in Runs, run'[q].at = "looked"
        PROVE  Holds(q)' /\ papers'[run'[q].account] \subseteq late'[run'[q].account]
    <3>1. q # r /\ run'[q] = run[q]
      BY <1>2, <2>2 DEF NotRunning
    <3>2. run[q].account \in Accounts /\ erasure[run[q].account].lease = q
      BY <2>2, <3>1, ErasureRowType DEF ErasureInv, ErasureTypes, NotRunning, LooksLast, Holds
    <3>3. run[q].account # a
      BY <1>7, <3>1, <3>2
    <3> QED BY <1>1, <1>2, <2>2, <3>1, <3>2, <3>3 DEF ErasureInv, LooksLast, Holds
  <2> QED BY <2>1, <2>2 DEF LooksLast
<1> QED BY <1>3, <1>4, <1>5, <1>6, <1>8 DEF ErasureInv

LEMMA ErasureInvStep == ErasureInv /\ [ErasureNext]_erasureVars => ErasureInv'
<1> SUFFICES ASSUME ErasureInv, [ErasureNext]_erasureVars PROVE ErasureInv'
  OBVIOUS
<1>1. ASSUME NEW a \in Accounts, RequestErasure(a) \/ ErasureLeaseEnds(a) PROVE ErasureInv'
  BY <1>1, RequestActions
<1>2. ASSUME NEW a \in Accounts, NEW to \in {"in_review", "needs_information"}, ReviewErasure(a, to) PROVE ErasureInv'
  BY <1>2, RequestActions
<1>3. ASSUME NEW a \in Accounts, JoinElsewhere(a) PROVE ErasureInv'
  BY <1>3 DEF JoinElsewhere, ErasureInv, ErasureTypes, RecordsLast, SomeoneActs, GoneForGood, LooksLast, Holds
<1>4. ASSUME NEW a \in Accounts, NEW p \in Papers, StorePaper(a, p) \/ RecordPaper(a, p) \/ FailUpload(a, p)
      PROVE  ErasureInv'
  BY <1>4, UploadStep
<1>5. ASSUME NEW r \in Runs, NEW a \in Accounts, ClaimErasure(r, a) PROVE ErasureInv'
  BY <1>5, ClaimErasureStep
<1>6. ASSUME NEW r \in Runs, NEW p \in Papers, PurgePaper(r, p) \/ DropRecord(r, p) PROVE ErasureInv'
  BY <1>6, PurgePaperStep, DropRecordStep
<1>7. ASSUME NEW r \in Runs, \/ LeaveRest(r) \/ FilesDone(r) \/ DropIdentity(r) \/ LookAgain(r) \/ DeleteAccount(r)
                             \/ FailErasure(r) \/ DieErasing(r)
      PROVE  ErasureInv'
  BY <1>7, StopActions, LookAgainStep, DeleteAccountStep
<1>8. CASE UNCHANGED erasureVars
  BY <1>8 DEF erasureVars, ErasureInv, ErasureTypes, RecordsLast, SomeoneActs, GoneForGood, LooksLast, Holds
<1> QED BY <1>1, <1>2, <1>3, <1>4, <1>5, <1>6, <1>7, <1>8 DEF ErasureNext

LEMMA ErasureInvImplies == ErasureInv => ErasureTypeOK /\ ErasureIsClean
<1> SUFFICES ASSUME ErasureInv PROVE ErasureTypeOK /\ ErasureIsClean
  OBVIOUS
<1>1. ErasureTypeOK
  BY ErasureRowType DEF ErasureInv, ErasureTypes, ErasureTypeOK, ErasureRequest
<1>2. ErasureIsClean
  BY DEF ErasureInv, RecordsLast, SomeoneActs, GoneForGood, ErasureIsClean
<1> QED BY <1>1, <1>2

\* Any number of owners, files and runs: an owner who can act remains, and an
\* account that is gone has left no file that its last transaction could see.
THEOREM ErasureIsSafe == ErasureSpec => [](ErasureTypeOK /\ ErasureIsClean)
<1>1. ErasureSpec => []ErasureInv
  BY ErasureInvInit, ErasureInvStep, PTL DEF ErasureSpec
<1> QED BY <1>1, ErasureInvImplies, PTL

-----------------------------------------------------------------------------
(* The subscription. *)

Approved == {i \in Invoices : invoice[i].status = "approved"}
Payments == Cardinality(Approved) + Cardinality(manual)

SubscriptionTypes == SubscriptionTypeOK /\ IsFiniteSet(Approved) /\ IsFiniteSet(manual)

Terms ==
  /\ paidTill <= Payments + calendar
  /\ calendar = 0 => paidTill = Payments
  /\ Payments > 0 => paidTill >= Payments

\* A call has its receipt in storage from its upload until it ends, and the
\* call whose payment an invoice holds never drops it.
ReceiptsKept ==
  /\ \A c \in Calls : call[c] \in {"stored", "kept", "dropped"} => c \in objects
  /\ \A i \in Invoices : invoice[i].status \in {"submitted", "approved"} =>
       invoice[i].by \in Calls /\ call[invoice[i].by] = "kept"

SubscriptionInv == SubscriptionTypes /\ Terms /\ ReceiptsKept /\ PaidDocumentsStay

LEMMA SubscriptionInvInit == SubscriptionInit => SubscriptionInv
<1> SUFFICES ASSUME SubscriptionInit PROVE SubscriptionInv
  OBVIOUS
<1>1. Approved = {} /\ manual = {}
  BY DEF SubscriptionInit, Approved
<1>2. SubscriptionTypes
  <2>1. [status |-> "none", by |-> NoCall] \in Invoice
    BY DEF Invoice
  <2>2. invoice \in [Invoices -> Invoice]
    BY <2>1 DEF SubscriptionInit
  <2>3. calendar = 0 /\ paidTill = 0 /\ cleaner = FALSE
    BY DEF SubscriptionInit
  <2>7. calendar \in 0..MaxClock /\ paidTill \in Nat
    BY <2>3, SubscriptionAssumption
  <2>8. cleaner \in BOOLEAN
    BY <2>3
  <2>4. call \in [Calls -> {"new", "stored", "kept", "dropped", "ended"}]
    BY DEF SubscriptionInit
  <2>5. objects \subseteq Calls /\ manual \subseteq Manual /\ uploads \subseteq StoredFiles /\ wronged \subseteq StoredFiles
    BY DEF SubscriptionInit
  <2>6. IsFiniteSet(Approved) /\ IsFiniteSet(manual)
    BY <1>1, FS_EmptySet
  <2> QED BY <2>2, <2>4, <2>5, <2>6, <2>7, <2>8 DEF SubscriptionTypes, SubscriptionTypeOK
<1>3. Payments = 0
  BY <1>1, FS_EmptySet DEF Payments
<1>4. Terms /\ ReceiptsKept /\ PaidDocumentsStay
  BY <1>3 DEF SubscriptionInit, Terms, ReceiptsKept, PaidDocumentsStay
<1> QED BY <1>2, <1>4 DEF SubscriptionInv

LEMMA InvoiceRow ==
  ASSUME SubscriptionInv, NEW i \in Invoices
  PROVE  /\ invoice[i] \in Invoice
         /\ \A s \in {"none", "open", "submitted", "rejected", "approved"} :
              /\ [invoice[i] EXCEPT !.status = s] \in Invoice
              /\ [invoice[i] EXCEPT !.status = s].status = s
              /\ [invoice[i] EXCEPT !.status = s].by = invoice[i].by
  BY DEF SubscriptionInv, SubscriptionTypes, SubscriptionTypeOK, Invoice

LEMMA PaymentCount ==
  ASSUME SubscriptionInv
  PROVE  Cardinality(Approved) \in Nat /\ Cardinality(manual) \in Nat /\ Payments \in Nat /\ paidTill \in Nat /\ calendar \in Nat
  BY FS_CardinalityType, SubscriptionAssumption DEF SubscriptionInv, SubscriptionTypes, SubscriptionTypeOK, Payments

\* A step that approves nothing leaves the payments.
LEMMA NothingApproved ==
  ASSUME SubscriptionInv, Approved' = Approved, UNCHANGED <<manual, paidTill, calendar>>, SubscriptionTypeOK'
  PROVE  SubscriptionTypes' /\ Terms'
<1>1. Payments' = Payments
  BY DEF Payments
<1> QED BY <1>1 DEF SubscriptionInv, SubscriptionTypes, Terms

\* One payment more, one term more.
LEMMA OnePaymentMore ==
  ASSUME SubscriptionInv, Payments' = Payments + 1, paidTill' = Renewed, UNCHANGED calendar
  PROVE  Terms' /\ paidTill' \in Nat
  BY PaymentCount DEF Renewed, SubscriptionInv, Terms

LEMMA StatusMoves ==
  ASSUME SubscriptionInv, NEW i \in Invoices, NEW s \in {"open", "rejected"}, invoice[i].status # "approved",
         invoice' = [invoice EXCEPT ![i].status = s],
         UNCHANGED <<call, objects, paidTill, calendar, manual, cleaner, uploads, wronged>>
  PROVE  SubscriptionInv'
<1> DEFINE x == [invoice[i] EXCEPT !.status = s]
<1>1. x \in Invoice /\ x.status = s
  BY InvoiceRow
<1>2. invoice' \in [Invoices -> Invoice] /\ \A j \in Invoices : invoice'[j] = IF j = i THEN x ELSE invoice[j]
  BY <1>1 DEF SubscriptionInv, SubscriptionTypes, SubscriptionTypeOK
<1> HIDE DEF x
<1>3. Approved' = Approved
  BY <1>1, <1>2 DEF Approved
<1>4. SubscriptionTypeOK'
  BY <1>2 DEF SubscriptionInv, SubscriptionTypes, SubscriptionTypeOK
<1>5. SubscriptionTypes' /\ Terms'
  BY <1>3, <1>4, NothingApproved
<1>6. ReceiptsKept' /\ PaidDocumentsStay'
  BY <1>1, <1>2 DEF SubscriptionInv, ReceiptsKept, PaidDocumentsStay
<1> QED BY <1>5, <1>6 DEF SubscriptionInv

LEMMA SubmitPaymentStep ==
  ASSUME SubscriptionInv, NEW c \in Calls, NEW i \in Invoices, SubmitPayment(c, i)
  PROVE  SubscriptionInv'
<1> DEFINE x == [status |-> "submitted", by |-> c]
<1>1. call[c] = "stored" /\ UNCHANGED <<objects, paidTill, calendar, manual, cleaner, uploads, wronged>>
  BY DEF SubmitPayment
<1>2. ASSUME NEW d \in Calls, call[d] = "kept" PROVE call'[d] = "kept"
  BY <1>1, <1>2 DEF SubmitPayment, SubscriptionInv, SubscriptionTypes, SubscriptionTypeOK
<1>3. CASE KeyOn(i) # KeyOf[c] /\ invoice[i].status \in {"open", "rejected"}
  <2>1. invoice' = [invoice EXCEPT ![i] = x] /\ call' = [call EXCEPT ![c] = "kept"]
    BY <1>3 DEF SubmitPayment
  <2>2. x \in Invoice
    BY DEF Invoice
  <2>3. /\ invoice' \in [Invoices -> Invoice] /\ \A j \in Invoices : invoice'[j] = IF j = i THEN x ELSE invoice[j]
        /\ \A d \in Calls : call'[d] = IF d = c THEN "kept" ELSE call[d]
    BY <2>1, <2>2 DEF SubscriptionInv, SubscriptionTypes, SubscriptionTypeOK
  <2>4. Approved' = Approved
    BY <1>3, <2>3 DEF Approved
  <2>5. SubscriptionTypeOK'
    BY <1>1, <2>1, <2>3 DEF SubscriptionInv, SubscriptionTypes, SubscriptionTypeOK
  <2>6. SubscriptionTypes' /\ Terms'
    BY <1>1, <2>4, <2>5, NothingApproved
  <2>7. ReceiptsKept'
    BY <1>1, <1>2, <2>3 DEF SubscriptionInv, ReceiptsKept
  <2> QED BY <1>1, <2>6, <2>7 DEF SubscriptionInv, PaidDocumentsStay
<1>4. CASE ~(KeyOn(i) # KeyOf[c] /\ invoice[i].status \in {"open", "rejected"})
  <2>1. invoice' = invoice /\ call' = [call EXCEPT ![c] = "dropped"]
    BY <1>4 DEF SubmitPayment
  <2>2. Approved' = Approved
    BY <2>1 DEF Approved
  <2>3. SubscriptionTypeOK'
    BY <1>1, <2>1 DEF SubscriptionInv, SubscriptionTypes, SubscriptionTypeOK
  <2>4. SubscriptionTypes' /\ Terms'
    BY <1>1, <2>2, <2>3, NothingApproved
  <2>5. ReceiptsKept'
    BY <1>1, <1>2, <2>1 DEF SubscriptionInv, ReceiptsKept, SubscriptionTypes, SubscriptionTypeOK
  <2> QED BY <1>1, <2>4, <2>5 DEF SubscriptionInv, PaidDocumentsStay
<1> QED BY <1>3, <1>4

LEMMA ReceiptActions ==
  ASSUME SubscriptionInv, NEW c \in Calls, StoreReceipt(c) \/ DropReceipt(c) \/ DieSubmitting(c)
  PROVE  SubscriptionInv'
<1>1. UNCHANGED <<invoice, paidTill, calendar, manual, cleaner, uploads, wronged>>
  BY DEF StoreReceipt, DropReceipt, DieSubmitting
<1>2. call[c] \in {"new", "stored", "dropped"} /\ \E s \in {"stored", "ended"} : call' = [call EXCEPT ![c] = s]
  BY DEF StoreReceipt, DropReceipt, DieSubmitting, Unkept
<1>3. SubscriptionTypeOK'
  BY <1>1, <1>2 DEF StoreReceipt, DropReceipt, DieSubmitting, SubscriptionInv, SubscriptionTypes, SubscriptionTypeOK
<1>4. Approved' = Approved
  BY <1>1 DEF Approved
<1>5. SubscriptionTypes' /\ Terms'
  BY <1>1, <1>3, <1>4, NothingApproved
<1>6. ReceiptsKept'
  <2>1. \A d \in Calls : call[d] = "kept" => call'[d] = "kept"
    BY <1>2 DEF SubscriptionInv, SubscriptionTypes, SubscriptionTypeOK
  <2>2. ASSUME NEW d \in Calls, call'[d] \in {"stored", "kept", "dropped"} PROVE d \in objects'
    BY <2>2 DEF StoreReceipt, DropReceipt, DieSubmitting, SubscriptionInv, SubscriptionTypes, SubscriptionTypeOK, ReceiptsKept
  <2> QED BY <1>1, <2>1, <2>2 DEF SubscriptionInv, ReceiptsKept
<1> QED BY <1>1, <1>5, <1>6 DEF SubscriptionInv, PaidDocumentsStay

LEMMA ApproveStep ==
  ASSUME SubscriptionInv, NEW i \in Invoices, NEW key, Approve(i, key)
  PROVE  SubscriptionInv'
<1> DEFINE x == [invoice[i] EXCEPT !.status = "approved"]
<1>1. /\ invoice[i].status = "submitted" /\ invoice' = [invoice EXCEPT ![i] = x] /\ paidTill' = Renewed
      /\ UNCHANGED <<call, objects, calendar, manual, cleaner, uploads, wronged>>
  BY DEF Approve, Reviewable
<1>2. x \in Invoice /\ x.status = "approved" /\ x.by = invoice[i].by
  BY InvoiceRow
<1>3. invoice' \in [Invoices -> Invoice] /\ \A j \in Invoices : invoice'[j] = IF j = i THEN x ELSE invoice[j]
  BY <1>1, <1>2 DEF SubscriptionInv, SubscriptionTypes, SubscriptionTypeOK
<1> HIDE DEF x
<1>4. Approved' = Approved \cup {i} /\ i \notin Approved
  BY <1>1, <1>2, <1>3 DEF Approved
<1>5. IsFiniteSet(Approved') /\ Cardinality(Approved') = Cardinality(Approved) + 1
  BY <1>4, FS_AddElement DEF SubscriptionInv, SubscriptionTypes
<1>6. Payments' = Payments + 1
  BY <1>1, <1>5, PaymentCount DEF Payments
<1>7. Terms' /\ paidTill' \in Nat
  BY <1>1, <1>6, OnePaymentMore
<1>8. SubscriptionTypes'
  BY <1>1, <1>3, <1>5, <1>7 DEF SubscriptionInv, SubscriptionTypes, SubscriptionTypeOK
<1>9. ReceiptsKept' /\ PaidDocumentsStay'
  BY <1>1, <1>2, <1>3 DEF SubscriptionInv, ReceiptsKept, PaidDocumentsStay
<1> QED BY <1>7, <1>8, <1>9 DEF SubscriptionInv

LEMMA RecordManualPaymentStep ==
  ASSUME SubscriptionInv, NEW k \in Manual, RecordManualPayment(k)
  PROVE  SubscriptionInv'
<1>1. /\ k \notin manual /\ manual' = manual \cup {k} /\ paidTill' = Renewed
      /\ UNCHANGED <<invoice, call, objects, calendar, cleaner, uploads, wronged>>
  BY DEF RecordManualPayment
<1>2. Approved' = Approved
  BY <1>1 DEF Approved
<1>3. IsFiniteSet(manual') /\ Cardinality(manual') = Cardinality(manual) + 1
  BY <1>1, FS_AddElement DEF SubscriptionInv, SubscriptionTypes
<1>4. Payments' = Payments + 1
  BY <1>2, <1>3, PaymentCount DEF Payments
<1>5. Terms' /\ paidTill' \in Nat
  BY <1>1, <1>4, OnePaymentMore
<1>6. SubscriptionTypes'
  BY <1>1, <1>2, <1>3, <1>5 DEF SubscriptionInv, SubscriptionTypes, SubscriptionTypeOK
<1>7. ReceiptsKept' /\ PaidDocumentsStay'
  BY <1>1 DEF SubscriptionInv, ReceiptsKept, PaidDocumentsStay
<1> QED BY <1>5, <1>6, <1>7 DEF SubscriptionInv

LEMMA CleanUpActions ==
  ASSUME SubscriptionInv, FindCandidate \/ PurgeDocuments
  PROVE  SubscriptionInv'
<1>1. UNCHANGED <<invoice, call, objects, paidTill, calendar, manual>>
  BY DEF FindCandidate, PurgeDocuments
<1>2. wronged' = {} /\ uploads' \subseteq uploads /\ cleaner' \in BOOLEAN
  <2>1. CASE FindCandidate
    BY <2>1 DEF FindCandidate, SubscriptionInv, PaidDocumentsStay
  <2>2. CASE PurgeDocuments /\ ~StillFree
    BY <2>2 DEF PurgeDocuments, SubscriptionInv, PaidDocumentsStay
  <2>3. CASE PurgeDocuments /\ StillFree
    <3>1. ~(paidTill > calendar)
      BY <2>3, PaymentCount DEF StillFree, Free
    <3> QED BY <2>3, <3>1 DEF PurgeDocuments, SubscriptionInv, PaidDocumentsStay
  <2> QED BY <2>1, <2>2, <2>3
<1>3. SubscriptionTypeOK'
  BY <1>1, <1>2 DEF SubscriptionInv, SubscriptionTypes, SubscriptionTypeOK
<1>4. Approved' = Approved
  BY <1>1 DEF Approved
<1>5. SubscriptionTypes' /\ Terms'
  BY <1>1, <1>3, <1>4, NothingApproved
<1> QED BY <1>1, <1>2, <1>5 DEF SubscriptionInv, ReceiptsKept, PaidDocumentsStay

LEMMA TermPassesStep ==
  ASSUME SubscriptionInv, TermPasses
  PROVE  SubscriptionInv'
<1>1. /\ calendar < MaxClock /\ calendar' = calendar + 1
      /\ UNCHANGED <<invoice, call, objects, paidTill, manual, cleaner, uploads, wronged>>
  BY DEF TermPasses
<1>2. Approved' = Approved /\ Payments' = Payments
  BY <1>1 DEF Approved, Payments
<1>3. SubscriptionTypes'
  BY <1>1, <1>2, SubscriptionAssumption DEF SubscriptionInv, SubscriptionTypes, SubscriptionTypeOK
<1>4. Terms'
  BY <1>1, <1>2, PaymentCount DEF SubscriptionInv, Terms
<1> QED BY <1>1, <1>3, <1>4 DEF SubscriptionInv, ReceiptsKept, PaidDocumentsStay

LEMMA SubscriptionInvStep == SubscriptionInv /\ [SubscriptionNext]_subscriptionVars => SubscriptionInv'
<1> SUFFICES ASSUME SubscriptionInv, [SubscriptionNext]_subscriptionVars PROVE SubscriptionInv'
  OBVIOUS
<1>1. ASSUME NEW i \in Invoices, IssueInvoice(i) PROVE SubscriptionInv'
  BY <1>1, StatusMoves DEF IssueInvoice
<1>2. ASSUME NEW i \in Invoices, SelectPackage(i) PROVE SubscriptionInv'
  BY <1>1, <1>2 DEF SelectPackage
<1>3. ASSUME NEW i \in Invoices, NEW key, Approve(i, key) PROVE SubscriptionInv'
  BY <1>3, ApproveStep
<1>4. ASSUME NEW i \in Invoices, NEW key, Reject(i, key) PROVE SubscriptionInv'
  BY <1>4, StatusMoves DEF Reject
<1>5. ASSUME NEW c \in Calls, NEW i \in Invoices, SubmitPayment(c, i) PROVE SubscriptionInv'
  BY <1>5, SubmitPaymentStep
<1>6. ASSUME NEW c \in Calls, StoreReceipt(c) \/ DropReceipt(c) \/ DieSubmitting(c) PROVE SubscriptionInv'
  BY <1>6, ReceiptActions
<1>7. ASSUME NEW k \in Manual, RecordManualPayment(k) PROVE SubscriptionInv'
  BY <1>7, RecordManualPaymentStep
<1>8. CASE FindCandidate \/ PurgeDocuments
  BY <1>8, CleanUpActions
<1>9. CASE TermPasses
  BY <1>9, TermPassesStep
<1>10. CASE UNCHANGED subscriptionVars
  <2>1. Approved' = Approved /\ SubscriptionTypeOK'
    BY <1>10 DEF subscriptionVars, Approved, SubscriptionInv, SubscriptionTypes, SubscriptionTypeOK
  <2>2. SubscriptionTypes' /\ Terms'
    BY <1>10, <2>1, NothingApproved DEF subscriptionVars
  <2> QED BY <1>10, <2>2 DEF subscriptionVars, SubscriptionInv, ReceiptsKept, PaidDocumentsStay
<1> QED BY <1>1, <1>2, <1>3, <1>4, <1>5, <1>6, <1>7, <1>8, <1>9, <1>10 DEF SubscriptionNext

LEMMA SubscriptionInvImplies == SubscriptionInv => SubscriptionTypeOK /\ PaymentsHonoured
<1> SUFFICES ASSUME SubscriptionInv PROVE SubscriptionTypeOK /\ PaymentsHonoured
  OBVIOUS
<1>1. TermPerPayment
  BY DEF SubscriptionInv, Terms, Payments, Approved, TermPerPayment
<1>2. ReceiptOnFile
  BY DEF SubscriptionInv, ReceiptsKept, ReceiptOnFile
<1> QED BY <1>1, <1>2 DEF SubscriptionInv, SubscriptionTypes, PaymentsHonoured

\* Any number of invoices, calls, manual payments and files: one term per
\* payment, the receipt of a payment on file, documents of a payer not purged.
THEOREM SubscriptionIsSafe == SubscriptionSpec => [](SubscriptionTypeOK /\ PaymentsHonoured)
<1>1. SubscriptionSpec => []SubscriptionInv
  BY SubscriptionInvInit, SubscriptionInvStep, PTL DEF SubscriptionSpec
<1> QED BY <1>1, SubscriptionInvImplies, PTL

-----------------------------------------------------------------------------
(* Payment reminders. *)

Moves == {"before", "after", "skip"}
Kinds == {"before", "due", "after"}
Days == 0..LastDay
ReminderRound ==
  {Resting}
    \cup [stage : {"filter"}, day : Days, hours : SUBSET Hours, wanted : SUBSET (Debtors \X Kinds)]
    \cup [stage : {"send", "deliver"}, day : Days, hours : SUBSET Hours, left : SUBSET Debtors, seen : SUBSET Debtors]
Asking == {Resting} \cup [stage : {"write"}, slot : RuleSlots, form : Forms, new : BOOLEAN]
RemindersTypes ==
  /\ RemindersTypeOK
  /\ asked \in [Managers -> Asking]
  /\ policy \in [off : OffDays, move : Moves, pause : BOOLEAN]
  /\ sender \in [Senders -> ReminderRound]
  /\ told \in [Debtors -> [Days -> Nat]]

\* The row of a member and a day comes before its notice, and is claimed by
\* one process, which has not delivered yet.
Delivering(p, m, d) == sender[p].stage = "deliver" /\ sender[p].day = d /\ m \in sender[p].seen
DaysClaimed ==
  /\ \A m \in Debtors : \A d \in Days : told[m][d] \in 0..1 /\ (told[m][d] = 1 => <<m, d>> \in reminded)
  /\ \A p \in Senders : \A m \in Debtors : \A d \in Days :
       Delivering(p, m, d) => <<m, d>> \in reminded /\ told[m][d] = 0
  /\ \A p, q \in Senders : \A m \in Debtors : \A d \in Days :
       Delivering(p, m, d) /\ Delivering(q, m, d) => p = q

RemindersInv == RemindersTypes /\ DaysClaimed

-----------------------------------------------------------------------------
(* The plan of a rule. *)

LEMMA FirstNumber ==
  ASSUME NEW T \in SUBSET Nat, T # {}
  PROVE  \E x \in T : \A y \in T : x <= y
<1>1. PICK x \in T : \A y \in T : ~ (<<y, x>> \in OpToRel(<, Nat))
  BY NatLessThanWellFounded, WFMin
<1>2. \A y \in T : ~(y < x)
  BY <1>1 DEF OpToRel
<1> QED BY <1>2

LEMMA FirstDay ==
  ASSUME NEW S \in SUBSET Int, NEW low \in Int, \A x \in S : low <= x, S # {}
  PROVE  Min(S) \in S
<1> DEFINE T == {n \in Nat : \E x \in S : n = x - low}
<1>1. \A x \in S : x - low \in T
  OBVIOUS
<1>2. PICK n \in T : \A k \in T : n <= k
  <2>1. T # {} /\ T \in SUBSET Nat
    BY <1>1
  <2> QED BY <2>1, FirstNumber
<1>3. PICK x \in S : n = x - low
  BY <1>2
<1>4. \A y \in S : x =< y
  BY <1>1, <1>2, <1>3
<1> QED BY <1>4 DEF Min

LEMMA LastOfDays ==
  ASSUME NEW S \in SUBSET Int, NEW high \in Int, \A x \in S : x <= high, S # {}
  PROVE  Max(S) \in S
<1> DEFINE T == {n \in Nat : \E x \in S : n = high - x}
<1>1. \A x \in S : high - x \in T
  OBVIOUS
<1>2. PICK n \in T : \A k \in T : n <= k
  <2>1. T # {} /\ T \in SUBSET Nat
    BY <1>1
  <2> QED BY <2>1, FirstNumber
<1>3. PICK x \in S : n = high - x
  BY <1>2
<1>4. \A y \in S : x >= y
  BY <1>1, <1>2, <1>3
<1> QED BY <1>4 DEF Max

\* The days a step may find are open and in the direction of the step.
LEMMA LaterIsOpen ==
  ASSUME NEW d \in Int, Later(d) # Never
  PROVE  Later(d) \in Int /\ Later(d) > d /\ Open(Later(d))
<1> DEFINE S == {e \in OneDay : e > d /\ Open(e)}
<1>1. S \cup {Never} \in SUBSET Int /\ -LastDay \in Int /\ \A x \in S \cup {Never} : -LastDay <= x
  BY RemindersAssumption DEF OneDay, Never
<1>2. Min(S \cup {Never}) \in S \cup {Never}
  <2> HIDE DEF S
  <2> QED BY <1>1, FirstDay
<1>3. Later(d) = Min(S \cup {Never})
  BY DEF Later
<1>4. Later(d) \in S
  BY <1>2, <1>3
<1> QED BY <1>4, RemindersAssumption DEF OneDay

LEMMA SoonerIsOpen ==
  ASSUME NEW d \in Int, Sooner(d) # Never
  PROVE  Sooner(d) \in Int /\ Sooner(d) < d /\ Open(Sooner(d))
<1> DEFINE S == {e \in OneDay : e < d /\ Open(e)}
<1>1. S \in SUBSET Int /\ 2 * LastDay \in Int /\ \A x \in S : x <= 2 * LastDay
  BY RemindersAssumption DEF OneDay
<1>2. S # {} /\ Sooner(d) = Max(S)
  BY DEF Sooner
<1>3. Max(S) \in S
  <2> HIDE DEF S
  <2> QED BY <1>1, <1>2, LastOfDays
<1> QED BY <1>2, <1>3, RemindersAssumption DEF OneDay

\* Whatever the policy: a planned day is never, or open and on its side.
LEMMA PlannedSide ==
  ASSUME policy.move \in Moves, NEW rule \in Forms, NEW d \in Int,
         rule.kind # "after" => d <= Deadline, rule.kind = "after" => d > Deadline,
         PlannedDay(rule, d) # Never
  PROVE  Open(PlannedDay(rule, d)) /\ (PlannedDay(rule, d) <= Deadline <=> rule.kind # "after")
<1> DEFINE e == CASE policy.move = "skip" -> Never
                  [] policy.move = "after" -> NextDay(rule, d)
                  [] policy.move = "before" -> Sooner(d)
<1>1. PlannedDay(rule, d) = IF rule.kind = "after" /\ e <= Deadline THEN Later(d) ELSE e
  BY DEF PlannedDay
<1>2. e \in {Never, NextDay(rule, d), Sooner(d)}
  BY DEF Moves
<1>3. Never \in Int /\ Never > Deadline /\ Deadline \in Int
  BY RemindersAssumption DEF Never
<1>4. CASE rule.kind = "after"
  <2>1. NextDay(rule, d) = Later(d)
    BY <1>4 DEF NextDay
  <2>2. CASE PlannedDay(rule, d) = Later(d)
    BY <1>3, <1>4, <2>2, LaterIsOpen
  <2>3. CASE PlannedDay(rule, d) # Later(d)
    <3>1. PlannedDay(rule, d) = Sooner(d) /\ ~(Sooner(d) <= Deadline)
      BY <1>1, <1>2, <1>4, <2>1, <2>3
    <3> QED BY <1>3, <1>4, <3>1, SoonerIsOpen
  <2> QED BY <2>2, <2>3
<1>5. CASE rule.kind # "after"
  <2>1. PlannedDay(rule, d) \in {NextDay(rule, d), Sooner(d)}
    BY <1>1, <1>2, <1>5
  <2>2. CASE PlannedDay(rule, d) = Sooner(d)
    BY <1>3, <1>5, <2>2, SoonerIsOpen
  <2>3. CASE PlannedDay(rule, d) # Sooner(d)
    <3>1. PlannedDay(rule, d) = Later(d) /\ ~(Later(d) > Deadline)
      BY <2>1, <2>3, <1>5 DEF NextDay
    <3> QED BY <1>3, <1>5, <3>1, LaterIsOpen
  <2> QED BY <2>2, <2>3
<1> QED BY <1>4, <1>5

LEMMA PlanOnTime ==
  ASSUME policy.move \in Moves, NEW rule \in Forms, NEW d \in Dates(rule)
  PROVE  Open(d) /\ (d <= Deadline <=> rule.kind # "after")
<1>1. PICK k \in 0..rule.count - 1 :
        LET o == Deadline + Offset(rule) + k * rule.every
        IN  d = IF Open(o) THEN o ELSE PlannedDay(rule, o)
  BY DEF Dates
<1> DEFINE o == Deadline + Offset(rule) + k * rule.every
<1>2. d # Never /\ d = IF Open(o) THEN o ELSE PlannedDay(rule, o)
  BY <1>1 DEF Dates
<1>3. /\ rule.kind \in Kinds /\ rule.days \in Nat /\ (rule.kind = "due" <=> rule.days = 0)
      /\ rule.every \in Nat /\ rule.count \in Nat /\ Deadline \in Nat
      /\ (rule.kind # "after" => rule.count = 1)
  BY RemindersAssumption DEF Kinds
<1>4. k \in Nat /\ k * rule.every \in Nat /\ (rule.kind # "after" => k = 0)
  <2>1. k \in Nat
    BY <1>3
  <2>2. \A x, y \in Nat : x * y \in Nat
    OBVIOUS
  <2>3. k * rule.every \in Nat
    BY <1>3, <2>1, <2>2
  <2> QED BY <1>3, <2>1, <2>3
<1>5. CASE rule.kind = "after"
  <2>1. Offset(rule) = rule.days /\ rule.days >= 1
    BY <1>3, <1>5 DEF Offset
  <2>2. o \in Int /\ o > Deadline
    BY <1>3, <1>4, <2>1
  <2> HIDE DEF o
  <2> QED BY <1>2, <1>3, <1>5, <2>2, PlannedSide
<1>6. CASE rule.kind # "after"
  <2>1. Offset(rule) \in Int /\ Offset(rule) <= 0
    BY <1>3, <1>6 DEF Offset, Kinds
  <2>2. k * rule.every = 0
    BY <1>3, <1>4, <1>6
  <2>3. o \in Int /\ o <= Deadline
    BY <1>3, <2>1, <2>2
  <2> HIDE DEF o
  <2> QED BY <1>2, <1>3, <1>6, <2>3, PlannedSide
<1> QED BY <1>5, <1>6
-----------------------------------------------------------------------------
(* Reminders, once a day. *)

LEMMA RemindersInvInit == RemindersInit => RemindersInv
<1> SUFFICES ASSUME RemindersInit PROVE RemindersInv
  OBVIOUS
<1>1. \A p \in Senders : sender[p] = Resting
  BY DEF RemindersInit
<1>2. RemindersTypes
  <2>1. RemindersTypeOK
    <3>1. clock \in [day : 0..LastDay, hour : {0} \cup Hours]
      BY RemindersAssumption DEF RemindersInit
    <3>2. rules \in [RuleSlots -> Forms \cup {Absent}] /\ done \in [Senders -> SUBSET Hours]
      BY DEF RemindersInit
    <3>3. \A p \in Senders : sender[p].stage \in {"resting", "filter", "send", "deliver"}
      BY <1>1 DEF Resting
    <3> QED BY <3>1, <3>2, <3>3 DEF RemindersInit, RemindersTypeOK
  <2>2. asked \in [Managers -> Asking] /\ sender \in [Senders -> ReminderRound]
    BY DEF RemindersInit, Asking, ReminderRound
  <2>3. told \in [Debtors -> [Days -> Nat]] /\ policy \in [off : OffDays, move : Moves, pause : BOOLEAN]
    BY DEF RemindersInit, Days, Moves
  <2> QED BY <2>1, <2>2, <2>3 DEF RemindersTypes
<1>3. DaysClaimed
  BY <1>1 DEF RemindersInit, DaysClaimed, Delivering, Resting, Days
<1> QED BY <1>2, <1>3 DEF RemindersInv

LEMMA RoundType ==
  ASSUME NEW r \in ReminderRound
  PROVE  /\ r.stage \in {"resting", "filter", "send", "deliver"}
         /\ r.stage = "filter" => r \in [stage : {"filter"}, day : Days, hours : SUBSET Hours, wanted : SUBSET (Debtors \X Kinds)]
         /\ r.stage \in {"send", "deliver"} =>
              r \in [stage : {"send", "deliver"}, day : Days, hours : SUBSET Hours, left : SUBSET Debtors, seen : SUBSET Debtors]
  BY DEF ReminderRound, Resting

\* A round that ends or goes on without delivering.
LEMMA NobodyTold ==
  ASSUME RemindersInv, RemindersTypes', UNCHANGED told, reminded \subseteq reminded',
         \A p \in Senders : sender'[p] = sender[p] \/ sender'[p].stage # "deliver"
  PROVE  RemindersInv'
<1>1. \A p \in Senders : \A m \in Debtors : \A d \in Days : Delivering(p, m, d)' => Delivering(p, m, d)
  BY DEF Delivering
<1> QED BY <1>1 DEF RemindersInv, DaysClaimed

LEMMA QuietSteps ==
  ASSUME RemindersInv,
         \/ \E a \in Managers : WriteRule(a) \/ \E s \in RuleSlots, form \in Forms : AskRule(a, s, form)
         \/ \E s \in RuleSlots : DeleteRule(s)
         \/ ChangePolicy \/ Pass
         \/ \E m \in Debtors : PayUp(m) \/ Pledge(m)
  PROVE  RemindersInv'
<1> USE DEF RemindersInv
<1>1. ASSUME NEW a \in Managers, WriteRule(a) PROVE RemindersInv'
  <2>1. asked[a].stage = "write" /\ asked[a] \in Asking
    BY <1>1 DEF WriteRule, RemindersTypes
  <2>2. asked[a].slot \in RuleSlots /\ asked[a].form \in Forms
    BY <2>1 DEF Asking, Resting
  <2>3. rules' \in [RuleSlots -> Forms \cup {Absent}] /\ asked' \in [Managers -> Asking]
    BY <1>1, <2>2 DEF WriteRule, RemindersTypes, RemindersTypeOK, Asking
  <2> QED BY <1>1, <2>3, NobodyTold DEF WriteRule, RemindersTypes, RemindersTypeOK
<1>2. ASSUME NEW a \in Managers, NEW s \in RuleSlots, NEW form \in Forms, AskRule(a, s, form) PROVE RemindersInv'
  <2>1. [stage |-> "write", slot |-> s, form |-> form, new |-> rules[s] = Absent] \in Asking
    BY DEF Asking
  <2>2. asked' \in [Managers -> Asking]
    BY <1>2, <2>1 DEF AskRule, RemindersTypes
  <2> QED BY <1>2, <2>2, NobodyTold DEF AskRule, RemindersTypes, RemindersTypeOK
<1>3. ASSUME NEW s \in RuleSlots, DeleteRule(s) PROVE RemindersInv'
  BY <1>3, NobodyTold DEF DeleteRule, RemindersTypes, RemindersTypeOK
<1>4. CASE ChangePolicy
  <2>1. policy' \in [off : OffDays, move : Moves, pause : BOOLEAN]
    BY <1>4 DEF ChangePolicy, RemindersTypes, Moves
  <2> QED BY <1>4, <2>1, NobodyTold DEF ChangePolicy, RemindersTypes, RemindersTypeOK
<1>5. CASE Pass
  <2>1. clock.hour \in {0} \cup Hours /\ clock.day \in 0..LastDay /\ Cardinality(Hours) \in Nat
    BY RemindersAssumption, FS_CardinalityType DEF RemindersTypes, RemindersTypeOK
  <2>2. clock' \in [day : 0..LastDay, hour : {0} \cup Hours]
    <3>1. CASE clock.hour < Cardinality(Hours)
      <4>1. clock' = [clock EXCEPT !.hour = clock.hour + 1]
        BY <1>5, <3>1 DEF Pass
      <4>2. clock.hour + 1 \in Hours
        BY <2>1, <3>1, RemindersAssumption
      <4> QED BY <4>1, <4>2 DEF RemindersTypes, RemindersTypeOK
    <3>2. CASE ~(clock.hour < Cardinality(Hours))
      BY <1>5, <2>1, <3>2, RemindersAssumption DEF Pass
    <3> QED BY <3>1, <3>2
  <2>3. done' \in [Senders -> SUBSET Hours]
    BY <1>5 DEF Pass, RemindersTypes, RemindersTypeOK
  <2> QED BY <1>5, <2>2, <2>3, NobodyTold DEF Pass, RemindersTypes, RemindersTypeOK
<1>6. ASSUME NEW m \in Debtors, PayUp(m) PROVE RemindersInv'
  BY <1>6, NobodyTold DEF PayUp, PromiseKept, RemindersTypes, RemindersTypeOK
<1>7. ASSUME NEW m \in Debtors, Pledge(m) PROVE RemindersInv'
  BY <1>7, NobodyTold DEF Pledge, RemindersTypes, RemindersTypeOK
<1> QED BY <1>1, <1>2, <1>3, <1>4, <1>5, <1>6, <1>7

LEMMA RemindByHandStep ==
  ASSUME RemindersInv, NEW m \in Debtors, RemindByHand(m)
  PROVE  RemindersInv'
<1>1. clock.day \in Days /\ <<m, clock.day>> \notin reminded
  BY DEF RemindByHand, Unclaimed, RemindersInv, RemindersTypes, RemindersTypeOK, Days
<1>2. told[m][clock.day] = 0
  BY <1>1 DEF RemindersInv, RemindersTypes, DaysClaimed
<1>3. told' = [told EXCEPT ![m][clock.day] = told[m][clock.day] + 1] /\ reminded' = reminded \cup {<<m, clock.day>>}
  BY DEF RemindByHand, Tell
<1>4. told' \in [Debtors -> [Days -> Nat]] /\ told'[m][clock.day] = 1
  BY <1>1, <1>2, <1>3 DEF RemindersInv, RemindersTypes
<1>5. \A n \in Debtors : \A d \in Days : <<n, d>> # <<m, clock.day>> => told'[n][d] = told[n][d]
  BY <1>3 DEF RemindersInv, RemindersTypes
<1>6. RemindersTypes'
  BY <1>1, <1>3, <1>4 DEF RemindByHand, RemindersInv, RemindersTypes, RemindersTypeOK, Days
<1>7. \A p \in Senders : \A n \in Debtors : \A d \in Days : Delivering(p, n, d)' <=> Delivering(p, n, d)
  BY DEF RemindByHand, Delivering
<1>8. \A p \in Senders : ~Delivering(p, m, clock.day)
  BY <1>1 DEF RemindersInv, DaysClaimed
<1>9. DaysClaimed'
  BY <1>1, <1>3, <1>4, <1>5, <1>7, <1>8 DEF RemindersInv, DaysClaimed
<1> QED BY <1>6, <1>9 DEF RemindersInv

LEMMA RoundSteps ==
  ASSUME RemindersInv, NEW p \in Senders,
         StartRound(p) \/ FilterRound(p) \/ EndRound(p) \/ FailRound(p)
  PROVE  RemindersInv'
<1> USE DEF RemindersInv
<1>1. CASE StartRound(p)
  <2> DEFINE hours == {rules[s].hour : s \in Ripe}
  <2> DEFINE wanted == {<<m, rules[s].kind>> : m \in owing, s \in {t \in Ripe : clock.day \in Dates(rules[t])}}
  <2>1. sender' = [sender EXCEPT ![p] = [stage |-> "filter", day |-> clock.day, hours |-> hours, wanted |-> wanted]]
    BY <1>1 DEF StartRound, Set
  <2>2. \A s \in Ripe : rules[s] \in Forms
    BY DEF Ripe, Filed, RemindersTypes, RemindersTypeOK
  <2>3. hours \subseteq Hours /\ wanted \subseteq Debtors \X Kinds
    BY <2>2, RemindersAssumption DEF Kinds, RemindersTypes, RemindersTypeOK
  <2> HIDE DEF hours, wanted
  <2>4. [stage |-> "filter", day |-> clock.day, hours |-> hours, wanted |-> wanted] \in ReminderRound
    BY <2>3 DEF ReminderRound, RemindersTypes, RemindersTypeOK, Days
  <2>5. sender' \in [Senders -> ReminderRound] /\ sender'[p].stage = "filter"
    BY <2>1, <2>4 DEF RemindersTypes
  <2>6. \A q \in Senders : sender'[q] = sender[q] \/ sender'[q].stage # "deliver"
    BY <2>1, <2>5 DEF RemindersTypes
  <2>7. RemindersTypes'
    BY <1>1, <2>5, RoundType DEF StartRound, RemindersTypes, RemindersTypeOK
  <2> QED BY <1>1, <2>6, <2>7, NobodyTold DEF StartRound
<1>2. CASE FilterRound(p)
  <2>1. PICK due, seen :
          /\ seen = {m \in Debtors : <<m, sender[p].day>> \in reminded}
          /\ due = {c[1] : c \in {c \in sender[p].wanted : c[1] \notin seen
                                     /\ ~(policy.pause /\ c[2] = "after" /\ c[1] \in pledged)}}
          /\ sender' = [sender EXCEPT ![p] = [stage |-> "send", day |-> sender[p].day, hours |-> sender[p].hours,
                                              left |-> due, seen |-> seen]]
    BY <1>2 DEF FilterRound, Set
  <2>2. sender[p] \in [stage : {"filter"}, day : Days, hours : SUBSET Hours, wanted : SUBSET (Debtors \X Kinds)]
    BY <1>2, RoundType DEF FilterRound, RemindersTypes
  <2>3. due \subseteq Debtors /\ seen \subseteq Debtors
    BY <2>1, <2>2
  <2>4. [stage |-> "send", day |-> sender[p].day, hours |-> sender[p].hours, left |-> due, seen |-> seen] \in ReminderRound
    BY <2>2, <2>3 DEF ReminderRound
  <2>5. sender' \in [Senders -> ReminderRound] /\ sender'[p].stage = "send"
    BY <2>1, <2>4 DEF RemindersTypes
  <2>6. \A q \in Senders : sender'[q] = sender[q] \/ sender'[q].stage # "deliver"
    BY <2>1, <2>5 DEF RemindersTypes
  <2>7. RemindersTypes'
    BY <1>2, <2>5, RoundType DEF FilterRound, RemindersTypes, RemindersTypeOK
  <2> QED BY <1>2, <2>6, <2>7, NobodyTold DEF FilterRound
<1>3. CASE EndRound(p) \/ FailRound(p)
  <2>1. sender' = [sender EXCEPT ![p] = Resting]
    BY <1>3 DEF EndRound, FailRound, Set
  <2>2. sender' \in [Senders -> ReminderRound] /\ sender'[p].stage = "resting"
    BY <2>1 DEF RemindersTypes, ReminderRound, Resting
  <2>3. \A q \in Senders : sender'[q] = sender[q] \/ sender'[q].stage # "deliver"
    BY <2>1, <2>2 DEF RemindersTypes
  <2>4. done' \in [Senders -> SUBSET Hours]
    <3>1. CASE EndRound(p)
      <4>1. sender[p].hours \subseteq Hours
        BY <3>1, RoundType DEF EndRound, RemindersTypes
      <4> QED BY <3>1, <4>1 DEF EndRound, RemindersTypes, RemindersTypeOK
    <3>2. CASE FailRound(p)
      BY <3>2 DEF FailRound, RemindersTypes, RemindersTypeOK
    <3> QED BY <1>3, <3>1, <3>2
  <2>5. RemindersTypes'
    BY <1>3, <2>2, <2>4, RoundType DEF EndRound, FailRound, RemindersTypes, RemindersTypeOK
  <2> QED BY <1>3, <2>3, <2>5, NobodyTold DEF EndRound, FailRound
<1> QED BY <1>1, <1>2, <1>3

LEMMA ClaimDayStep ==
  ASSUME RemindersInv, NEW p \in Senders, NEW m \in Debtors, ClaimDay(p, m)
  PROVE  RemindersInv'
<1> USE DEF RemindersInv
<1>1. PICK r : r = sender[p]
  OBVIOUS
<1>2. r \in [stage : {"send", "deliver"}, day : Days, hours : SUBSET Hours, left : SUBSET Debtors, seen : SUBSET Debtors]
  BY <1>1, RoundType DEF ClaimDay, RemindersTypes
<1>3. /\ r.stage = "send" /\ reminded' = reminded \cup {<<m, r.day>>}
      /\ UNCHANGED <<rules, asked, policy, clock, owing, pledged, done, told>>
  BY <1>1 DEF ClaimDay
<1>4. CASE Unclaimed(m, r.day, r.seen)
  <2>1. PICK c : c = [r EXCEPT !.stage = "deliver", !.left = r.left \ {m}, !.seen = {m}]
    OBVIOUS
  <2>2. sender' = [sender EXCEPT ![p] = c]
    BY <1>1, <1>4, <2>1 DEF ClaimDay, Set
  <2>3. /\ c \in [stage : {"send", "deliver"}, day : Days, hours : SUBSET Hours, left : SUBSET Debtors, seen : SUBSET Debtors]
        /\ c.stage = "deliver" /\ c.day = r.day /\ c.seen = {m}
    BY <1>2, <2>1
  <2>4. sender' \in [Senders -> ReminderRound] /\ sender'[p] = c /\ \A q \in Senders \ {p} : sender'[q] = sender[q]
    BY <2>2, <2>3 DEF RemindersTypes, ReminderRound
  <2>5. RemindersTypes'
    BY <1>2, <1>3, <2>4, RoundType DEF RemindersTypes, RemindersTypeOK, Days
  <2>6. \A n \in Debtors : \A d \in Days : Delivering(p, n, d)' <=> n = m /\ d = r.day
    BY <2>3, <2>4 DEF Delivering
  <2>7. \A q \in Senders \ {p} : \A n \in Debtors : \A d \in Days : Delivering(q, n, d)' <=> Delivering(q, n, d)
    BY <2>4 DEF Delivering
  <2>8. <<m, r.day>> \notin reminded /\ r.day \in Days
    BY <1>2, <1>4 DEF Unclaimed
  <2>9. told[m][r.day] = 0 /\ \A q \in Senders : ~Delivering(q, m, r.day)
    BY <2>8 DEF DaysClaimed
  <2>10. DaysClaimed'
    <3>1. (\A n \in Debtors : \A d \in Days : told[n][d] \in 0..1 /\ (told[n][d] = 1 => <<n, d>> \in reminded))'
      BY <1>3 DEF DaysClaimed
    <3>2. (\A q \in Senders : \A n \in Debtors : \A d \in Days :
             Delivering(q, n, d) => <<n, d>> \in reminded /\ told[n][d] = 0)'
      BY <1>3, <2>6, <2>7, <2>9 DEF DaysClaimed
    <3>3. (\A q, s \in Senders : \A n \in Debtors : \A d \in Days :
             Delivering(q, n, d) /\ Delivering(s, n, d) => q = s)'
      BY <2>6, <2>7, <2>9 DEF DaysClaimed
    <3> QED BY <3>1, <3>2, <3>3 DEF DaysClaimed
  <2> QED BY <2>5, <2>10
<1>5. CASE ~Unclaimed(m, r.day, r.seen)
  <2>1. PICK c : c = [r EXCEPT !.left = r.left \ {m}]
    OBVIOUS
  <2>2. sender' = [sender EXCEPT ![p] = c]
    BY <1>1, <1>5, <2>1 DEF ClaimDay, Set
  <2>3. c \in [stage : {"send", "deliver"}, day : Days, hours : SUBSET Hours, left : SUBSET Debtors, seen : SUBSET Debtors]
        /\ c.stage = "send"
    BY <1>2, <1>3, <2>1
  <2>4. sender' \in [Senders -> ReminderRound] /\ sender'[p] = c /\ \A q \in Senders \ {p} : sender'[q] = sender[q]
    BY <2>2, <2>3 DEF RemindersTypes, ReminderRound
  <2>5. RemindersTypes'
    BY <1>2, <1>3, <2>4, RoundType DEF RemindersTypes, RemindersTypeOK, Days
  <2>6. \A q \in Senders : sender'[q] = sender[q] \/ sender'[q].stage # "deliver"
    BY <2>3, <2>4
  <2> QED BY <1>3, <2>5, <2>6, NobodyTold
<1> QED BY <1>4, <1>5

LEMMA DeliverStep ==
  ASSUME RemindersInv, NEW p \in Senders, Deliver(p)
  PROVE  RemindersInv'
<1> USE DEF RemindersInv
<1>1. PICK r : r = sender[p]
  OBVIOUS
<1>2. r \in [stage : {"send", "deliver"}, day : Days, hours : SUBSET Hours, left : SUBSET Debtors, seen : SUBSET Debtors]
  BY <1>1, RoundType DEF Deliver, RemindersTypes
<1>3. /\ r.stage = "deliver" /\ sender' = [sender EXCEPT ![p] = [r EXCEPT !.stage = "send"]]
      /\ (\E m \in r.seen : Tell(m, r.day)) \/ UNCHANGED told
      /\ UNCHANGED <<rules, asked, policy, clock, owing, pledged, reminded, done>>
  BY <1>1 DEF Deliver, Set
<1>4. PICK c : c = [r EXCEPT !.stage = "send"]
  OBVIOUS
<1>5. c \in [stage : {"send", "deliver"}, day : Days, hours : SUBSET Hours, left : SUBSET Debtors, seen : SUBSET Debtors]
      /\ c.stage = "send"
  BY <1>2, <1>4
<1>6. sender' \in [Senders -> ReminderRound] /\ sender'[p] = c /\ \A q \in Senders \ {p} : sender'[q] = sender[q]
  BY <1>3, <1>4, <1>5 DEF RemindersTypes, ReminderRound
<1>7. \A q \in Senders : sender'[q] = sender[q] \/ sender'[q].stage # "deliver"
  BY <1>5, <1>6
<1>8. CASE UNCHANGED told
  <2>1. RemindersTypes'
    BY <1>3, <1>6, <1>8, RoundType DEF RemindersTypes, RemindersTypeOK
  <2> QED BY <1>3, <1>7, <1>8, <2>1, NobodyTold
<1>9. ASSUME NEW m \in r.seen, Tell(m, r.day) PROVE RemindersInv'
  <2>1. m \in Debtors /\ r.day \in Days /\ Delivering(p, m, r.day)
    BY <1>1, <1>2, <1>3, <1>9 DEF Delivering
  <2>2. <<m, r.day>> \in reminded /\ told[m][r.day] = 0
    BY <2>1 DEF DaysClaimed
  <2>3. told' \in [Debtors -> [Days -> Nat]] /\ told'[m][r.day] = 1
    BY <1>9, <2>1, <2>2 DEF Tell, RemindersTypes
  <2>4. \A n \in Debtors : \A d \in Days : <<n, d>> # <<m, r.day>> => told'[n][d] = told[n][d]
    BY <1>9, <2>1 DEF Tell, RemindersTypes
  <2>5. RemindersTypes'
    BY <1>3, <1>6, <2>3, RoundType DEF RemindersTypes, RemindersTypeOK
  <2>6. \A n \in Debtors : \A d \in Days : ~Delivering(p, n, d)'
    BY <1>5, <1>6 DEF Delivering
  <2>7. \A q \in Senders \ {p} : \A n \in Debtors : \A d \in Days : Delivering(q, n, d)' <=> Delivering(q, n, d)
    BY <1>6 DEF Delivering
  <2>8. \A q \in Senders \ {p} : ~Delivering(q, m, r.day)
    BY <2>1 DEF DaysClaimed
  <2>9. DaysClaimed'
    <3>1. (\A n \in Debtors : \A d \in Days : told[n][d] \in 0..1 /\ (told[n][d] = 1 => <<n, d>> \in reminded))'
      <4> SUFFICES ASSUME NEW n \in Debtors, NEW d \in Days
                   PROVE  told'[n][d] \in 0..1 /\ (told'[n][d] = 1 => <<n, d>> \in reminded)
        BY <1>3 DEF Days
      <4>1. CASE <<n, d>> = <<m, r.day>>
        BY <2>2, <2>3, <4>1
      <4>2. CASE <<n, d>> # <<m, r.day>>
        BY <2>4, <4>2 DEF DaysClaimed
      <4> QED BY <4>1, <4>2
    <3>2. (\A q \in Senders : \A n \in Debtors : \A d \in Days :
             Delivering(q, n, d) => <<n, d>> \in reminded /\ told[n][d] = 0)'
      BY <1>3, <2>4, <2>6, <2>7, <2>8 DEF DaysClaimed
    <3>3. (\A q, s \in Senders : \A n \in Debtors : \A d \in Days :
             Delivering(q, n, d) /\ Delivering(s, n, d) => q = s)'
      BY <2>6, <2>7 DEF DaysClaimed
    <3> QED BY <3>1, <3>2, <3>3 DEF DaysClaimed
  <2> QED BY <2>5, <2>9
<1> QED BY <1>3, <1>8, <1>9

LEMMA RemindersInvStep == RemindersInv /\ [RemindersNext]_reminderVars => RemindersInv'
<1> SUFFICES ASSUME RemindersInv, [RemindersNext]_reminderVars PROVE RemindersInv'
  OBVIOUS
<1>1. ASSUME NEW m \in Debtors, RemindByHand(m) PROVE RemindersInv'
  BY <1>1, RemindByHandStep
<1>2. ASSUME NEW p \in Senders, NEW m \in Debtors, ClaimDay(p, m) PROVE RemindersInv'
  BY <1>2, ClaimDayStep
<1>3. ASSUME NEW p \in Senders, Deliver(p) PROVE RemindersInv'
  BY <1>3, DeliverStep
<1>4. CASE UNCHANGED reminderVars
  BY <1>4 DEF reminderVars, RemindersInv, RemindersTypes, RemindersTypeOK, DaysClaimed, Delivering
<1> QED BY <1>1, <1>2, <1>3, <1>4, QuietSteps, RoundSteps DEF RemindersNext

\* Whatever the rules, the days off and the processes: a planned day is open
\* and on its side of the deadline, and nobody is reminded twice on one day.
LEMMA RemindersFollow == RemindersInv => RemindersTypeOK /\ RemindersHold
<1> SUFFICES ASSUME RemindersInv PROVE RemindersTypeOK /\ RemindersHold
  OBVIOUS
<1>1. \A s \in Filed : rules[s] \in Forms
  BY DEF Filed, RemindersInv, RemindersTypes, RemindersTypeOK
<1>2. PlanKeepsDeadline
  BY <1>1, PlanOnTime DEF PlanKeepsDeadline, RemindersInv, RemindersTypes
<1>3. RemindedOnceADay
  <2>1. \A m \in Debtors : \A d \in 0..LastDay : told[m][d] \in 0..1
    BY DEF RemindersInv, DaysClaimed, Days
  <2> QED BY <2>1 DEF RemindedOnceADay
<1> QED BY <1>2, <1>3 DEF RemindersHold, RemindersInv, RemindersTypes

\* Any number of debtors, rules, processes and clock steps: a reminder keeps to
\* its side of the deadline, and a debtor gets at most one a day
\* (reminders.service.ts).
THEOREM RemindersAreSafe == RemindersSpec => [](RemindersTypeOK /\ RemindersHold)
<1>1. RemindersInit => RemindersInv
  BY RemindersInvInit
<1>2. RemindersInv /\ [RemindersNext]_reminderVars => RemindersInv'
  BY RemindersInvStep
<1>3. RemindersInv => RemindersTypeOK /\ RemindersHold
  BY RemindersFollow
<1> QED BY <1>1, <1>2, <1>3, PTL DEF RemindersSpec

-----------------------------------------------------------------------------
(* Polls and events. *)

CommunityRound ==
  {NoRound} \cup [at : {"poll"}, now : 0..MaxTime] \cup [at : {"event"}, now : 0..MaxTime, kind : Reminders]
CommunityTypes ==
  /\ time \in 0..MaxTime
  /\ poll \in [expires : Nat, closed : BOOLEAN, last : 0..MaxTime]
  /\ vote \in [Voters -> {"none", "voting", "voted"}]
  /\ event \in [start : Starts, cancelled : BOOLEAN, sent : SUBSET Reminders]
  /\ round \in [Workers -> CommunityRound]
  /\ replans \in Nat

\* The poll's row has the time of its last reminder; each has a number.
PollRemindersApart ==
  /\ pollReminders \subseteq [now : 0..MaxTime, nth : Nat] /\ IsFiniteSet(pollReminders)
  /\ \A a \in pollReminders : a.now <= poll.last /\ a.nth < Cardinality(pollReminders)
  /\ \A a, b \in pollReminders : a.nth < b.nth => a.now + Interval <= b.now

\* The event's row has the marks of what was sent for its current start.
NoticesMarked ==
  /\ \A a \in noticed : a.plan \in Nat /\ a.plan <= replans /\ (a.plan = replans => a.kind \in event.sent)
  /\ \A a, b \in noticed : a.plan = b.plan /\ a.kind = b.kind => a = b

CommunityInv == CommunityTypes /\ PollRemindersApart /\ NoticesMarked

LEMMA CommunityInvInit == CommunityInit => CommunityInv
<1> SUFFICES ASSUME CommunityInit PROVE CommunityInv
  OBVIOUS
<1>1. CommunityTypes
  BY CommunityAssumption DEF CommunityInit, CommunityTypes, CommunityRound
<1>2. PollRemindersApart /\ NoticesMarked
  BY FS_EmptySet DEF CommunityInit, PollRemindersApart, NoticesMarked
<1> QED BY <1>1, <1>2 DEF CommunityInv

LEMMA CommunityRoundType ==
  ASSUME NEW x \in CommunityRound
  PROVE  /\ x.at \in {"rest", "poll", "event"}
         /\ x.at = "poll" => x.now \in 0..MaxTime
         /\ x.at = "event" => x.now \in 0..MaxTime /\ x.kind \in Reminders
  BY DEF CommunityRound, NoRound

\* Steps that send nothing and forget no mark.
LEMMA NothingSent ==
  ASSUME CommunityInv, CommunityTypes', poll'.last = poll.last, event'.sent = event.sent,
         UNCHANGED <<pollReminders, noticed, replans>>
  PROVE  CommunityInv'
  BY DEF CommunityInv, PollRemindersApart, NoticesMarked

LEMMA QuietActions ==
  ASSUME CommunityInv,
         \/ TimePasses \/ ClosePoll \/ CancelEvent
         \/ \E v \in Voters : StartVote(v) \/ CastVote(v)
         \/ \E w \in Workers : ReadPoll(w) \/ ReadEvent(w) \/ WorkerStops(w)
  PROVE  CommunityInv'
<1>1. CASE TimePasses
  BY <1>1, NothingSent, CommunityAssumption DEF TimePasses, CommunityInv, CommunityTypes
<1>2. CASE ClosePoll
  BY <1>2, NothingSent DEF ClosePoll, CommunityInv, CommunityTypes
<1>3. CASE CancelEvent
  BY <1>3, NothingSent DEF CancelEvent, CommunityInv, CommunityTypes
<1>4. ASSUME NEW v \in Voters, StartVote(v) \/ CastVote(v) PROVE CommunityInv'
  BY <1>4, NothingSent DEF StartVote, CastVote, CommunityInv, CommunityTypes
<1>5. ASSUME NEW w \in Workers, ReadPoll(w) \/ ReadEvent(w) \/ WorkerStops(w) PROVE CommunityInv'
  <2>1. PICK x \in CommunityRound : round' = [round EXCEPT ![w] = x]
    BY <1>5 DEF ReadPoll, ReadEvent, WorkerStops, CommunityRound, CommunityInv, CommunityTypes
  <2>2. UNCHANGED <<time, poll, vote, event, pollReminders, noticed, replans>>
    BY <1>5 DEF ReadPoll, ReadEvent, WorkerStops
  <2> QED BY <2>1, <2>2, NothingSent DEF CommunityInv, CommunityTypes
<1> QED BY <1>1, <1>2, <1>3, <1>4, <1>5

LEMMA ClaimPollStep ==
  ASSUME CommunityInv, NEW w \in Workers, ClaimPoll(w)
  PROVE  CommunityInv'
<1>1. PICK t \in 0..MaxTime : t = round[w].now
  BY CommunityRoundType DEF ClaimPoll, CommunityInv, CommunityTypes
<1>2. round' = [round EXCEPT ![w] = NoRound] /\ UNCHANGED <<time, vote, event, noticed, replans>>
  BY DEF ClaimPoll
<1>3. round' \in [Workers -> CommunityRound]
  BY <1>2 DEF CommunityInv, CommunityTypes, CommunityRound
<1>4. NoticesMarked'
  BY <1>2 DEF CommunityInv, NoticesMarked
<1>5. CASE ~PollDue(t)
  BY <1>1, <1>2, <1>3, <1>5, NothingSent DEF ClaimPoll, PollClaimable, CommunityInv, CommunityTypes
<1>6. CASE PollDue(t)
  <2>1. poll' = [poll EXCEPT !.last = t] /\ poll.last + Interval <= t /\ poll.last \in 0..MaxTime
    BY <1>1, <1>6 DEF ClaimPoll, PollClaimable, PollDue, CommunityInv, CommunityTypes
  <2>2. poll'.last = t /\ poll.last <= t
    BY <2>1, CommunityAssumption DEF CommunityInv, CommunityTypes
  <2>3. CommunityTypes'
    BY <1>2, <1>3, <2>1 DEF CommunityInv, CommunityTypes
  <2>4. \A a \in pollReminders : a.now \in 0..MaxTime /\ a.nth \in Nat /\ a.now <= t /\ a.now + Interval <= t
    BY <2>1, <2>2, CommunityAssumption DEF CommunityInv, PollRemindersApart
  <2>5. CASE \A v \in Voters : vote[v] = "voted"
    <3>1. pollReminders' = pollReminders
      BY <1>1, <1>6, <2>5 DEF ClaimPoll, PollClaimable
    <3> QED BY <1>4, <2>2, <2>3, <2>4, <3>1 DEF CommunityInv, PollRemindersApart
  <2>6. CASE ~\A v \in Voters : vote[v] = "voted"
    <3> DEFINE N == Cardinality(pollReminders)
               a == [now |-> t, nth |-> N]
    <3>1. pollReminders' = pollReminders \cup {a}
      BY <1>1, <1>6, <2>6 DEF ClaimPoll, PollClaimable
    <3>2. N \in Nat /\ a \in [now : 0..MaxTime, nth : Nat] /\ a.now = t /\ a.nth = N
      BY FS_CardinalityType DEF CommunityInv, PollRemindersApart
    <3> HIDE DEF a
    <3>3. a \notin pollReminders /\ \A b \in pollReminders : b.nth < N
      BY <3>2 DEF CommunityInv, PollRemindersApart
    <3>4. IsFiniteSet(pollReminders') /\ Cardinality(pollReminders') = N + 1
      BY <3>1, <3>3, FS_AddElement DEF CommunityInv, PollRemindersApart
    <3>5. pollReminders' \subseteq [now : 0..MaxTime, nth : Nat]
      BY <3>1, <3>2 DEF CommunityInv, PollRemindersApart
    <3>6. \A b \in pollReminders' : b.now <= poll'.last /\ b.nth < Cardinality(pollReminders')
      BY <2>2, <2>4, <3>1, <3>2, <3>3, <3>4
    <3>7. \A b, c \in pollReminders' : b.nth < c.nth => b.now + Interval <= c.now
      <4> SUFFICES ASSUME NEW b \in pollReminders', NEW c \in pollReminders', b.nth < c.nth
                   PROVE  b.now + Interval <= c.now
        OBVIOUS
      <4>1. CASE b \in pollReminders /\ c \in pollReminders
        BY <4>1 DEF CommunityInv, PollRemindersApart
      <4>2. CASE b \in pollReminders /\ c = a
        BY <2>4, <3>2, <4>2
      <4>3. CASE b = a
        <5>1. c.nth \in Nat /\ c.nth <= N
          BY <2>4, <3>1, <3>2, <3>3
        <5> QED BY <3>2, <4>3, <5>1
      <4> QED BY <3>1, <4>1, <4>2, <4>3
    <3>8. PollRemindersApart'
      BY <3>4, <3>5, <3>6, <3>7 DEF PollRemindersApart
    <3> QED BY <1>4, <2>3, <3>8 DEF CommunityInv
  <2> QED BY <2>5, <2>6
<1> QED BY <1>5, <1>6

LEMMA ClaimEventStep ==
  ASSUME CommunityInv, NEW w \in Workers, ClaimEvent(w)
  PROVE  CommunityInv'
<1> DEFINE k == round[w].kind
<1>1. k \in Reminders
  BY CommunityRoundType DEF ClaimEvent, CommunityInv, CommunityTypes
<1>2. round' = [round EXCEPT ![w] = NoRound] /\ UNCHANGED <<time, poll, vote, pollReminders, replans>>
  BY DEF ClaimEvent
<1>3. round' \in [Workers -> CommunityRound]
  BY <1>2 DEF CommunityInv, CommunityTypes, CommunityRound
<1>4. CASE ~EventClaimable(w)
  BY <1>2, <1>3, <1>4, NothingSent DEF ClaimEvent, CommunityInv, CommunityTypes
<1>5. CASE EventClaimable(w)
  <2> DEFINE n == [start |-> event.start, plan |-> replans, kind |-> k,
                   now |-> round[w].now, nth |-> Cardinality(noticed)]
  <2>1. event' = [event EXCEPT !.sent = event.sent \cup {k}] /\ noticed' = noticed \cup {n} /\ k \notin event.sent
    BY <1>5 DEF ClaimEvent, EventClaimable
  <2>2. CommunityTypes' /\ event'.sent = event.sent \cup {k}
    BY <1>1, <1>2, <1>3, <2>1 DEF CommunityInv, CommunityTypes
  <2>3. n.plan = replans /\ n.kind = k
    OBVIOUS
  <2> HIDE DEF n
  <2>4. \A a \in noticed : ~(a.plan = replans /\ a.kind = k)
    BY <2>1 DEF CommunityInv, NoticesMarked
  <2>5. NoticesMarked'
    BY <1>2, <2>1, <2>2, <2>3, <2>4 DEF CommunityInv, CommunityTypes, NoticesMarked
  <2>6. PollRemindersApart'
    BY <1>2 DEF CommunityInv, PollRemindersApart
  <2> QED BY <2>2, <2>5, <2>6 DEF CommunityInv
<1> QED BY <1>4, <1>5

LEMMA ReplanStep ==
  ASSUME CommunityInv, NEW s \in Starts, Replan(s)
  PROVE  CommunityInv'
<1>1. /\ event' = [event EXCEPT !.start = s, !.sent = {}] /\ replans' = replans + 1
      /\ UNCHANGED <<time, poll, vote, round, pollReminders, noticed>>
  BY DEF Replan
<1>2. CommunityTypes'
  <2>1. s \in Starts /\ event \in [start : Starts, cancelled : BOOLEAN, sent : SUBSET Reminders]
    BY DEF CommunityInv, CommunityTypes
  <2>2. event' \in [start : Starts, cancelled : BOOLEAN, sent : SUBSET Reminders]
    BY <1>1, <2>1
  <2>3. replans' \in Nat
    BY <1>1 DEF CommunityInv, CommunityTypes
  <2> QED BY <1>1, <2>2, <2>3 DEF CommunityInv, CommunityTypes
<1>3. NoticesMarked'
  <2>1. \A a \in noticed : a.plan \in Nat /\ a.plan <= replans' /\ a.plan # replans'
    BY <1>1 DEF CommunityInv, CommunityTypes, NoticesMarked
  <2> QED BY <1>1, <2>1 DEF CommunityInv, NoticesMarked
<1>4. PollRemindersApart'
  BY <1>1 DEF CommunityInv, PollRemindersApart
<1> QED BY <1>2, <1>3, <1>4 DEF CommunityInv

LEMMA CommunityInvStep == CommunityInv /\ [CommunityNext]_communityVars => CommunityInv'
<1> SUFFICES ASSUME CommunityInv, [CommunityNext]_communityVars PROVE CommunityInv'
  OBVIOUS
<1>1. CASE TimePasses \/ ClosePoll \/ CancelEvent
  BY <1>1, QuietActions
<1>2. ASSUME NEW v \in Voters, StartVote(v) \/ CastVote(v) PROVE CommunityInv'
  BY <1>2, QuietActions
<1>3. ASSUME NEW w \in Workers, ReadPoll(w) \/ ReadEvent(w) \/ WorkerStops(w) PROVE CommunityInv'
  BY <1>3, QuietActions
<1>4. ASSUME NEW w \in Workers, ClaimPoll(w) \/ ClaimEvent(w) PROVE CommunityInv'
  BY <1>4, ClaimPollStep, ClaimEventStep
<1>5. ASSUME NEW s \in Starts, Replan(s) PROVE CommunityInv'
  BY <1>5, ReplanStep
<1>6. CASE UNCHANGED communityVars
  BY <1>6, NothingSent DEF communityVars, CommunityInv, CommunityTypes
<1> QED BY <1>1, <1>2, <1>3, <1>4, <1>5, <1>6 DEF CommunityNext

LEMMA CommunityInvImplies == CommunityInv => CommunityTypeOK /\ RemindersNotRepeated
<1> SUFFICES ASSUME CommunityInv PROVE CommunityTypeOK /\ RemindersNotRepeated
  OBVIOUS
<1>1. CommunityTypeOK
  BY CommunityRoundType DEF CommunityInv, CommunityTypes, CommunityTypeOK
<1> QED BY <1>1 DEF CommunityInv, PollRemindersApart, NoticesMarked, RemindersNotRepeated

\* Any number of workers and voters, distances and changes of plan: reminders
\* of a poll keep their distance, and one of an event is sent once per plan.
THEOREM CommunityIsSafe == CommunitySpec => [](CommunityTypeOK /\ RemindersNotRepeated)
<1>1. CommunitySpec => []CommunityInv
  BY CommunityInvInit, CommunityInvStep, PTL DEF CommunitySpec
<1> QED BY <1>1, CommunityInvImplies, PTL
-----------------------------------------------------------------------------
(* The composition: a step of it is a step of each component, or leaves that *)
(* component alone.                                                          *)

LEMMA CodesComposed == AccessSpec => CodesSpec
<1>1. AccessInit => CodesInit
  BY DEF AccessInit
<1>2. [AccessNext]_AccessVars => [CodesNext]_codeVars
  BY DEF AccessNext, AccessVars, CodesMoves, SignUpMoves, SupportMoves, ErasureMoves, SubscriptionMoves, RemindersMoves, CommunityMoves
<1> QED BY <1>1, <1>2, PTL DEF AccessSpec, CodesSpec

LEMMA SignUpComposed == AccessSpec => SignUpSpec
<1>1. AccessInit => SignUpInit
  BY DEF AccessInit
<1>2. [AccessNext]_AccessVars => [SignUpNext]_signUpVars
  BY DEF AccessNext, AccessVars, CodesMoves, SignUpMoves, SupportMoves, ErasureMoves, SubscriptionMoves, RemindersMoves, CommunityMoves
<1> QED BY <1>1, <1>2, PTL DEF AccessSpec, SignUpSpec

LEMMA SupportComposed == AccessSpec => SupportSpec
<1>1. AccessInit => SupportInit
  BY DEF AccessInit
<1>2. [AccessNext]_AccessVars => [SupportNext]_supportVars
  BY DEF AccessNext, AccessVars, CodesMoves, SignUpMoves, SupportMoves, ErasureMoves, SubscriptionMoves, RemindersMoves, CommunityMoves
<1> QED BY <1>1, <1>2, PTL DEF AccessSpec, SupportSpec

LEMMA ErasureComposed == AccessSpec => ErasureSpec
<1>1. AccessInit => ErasureInit
  BY DEF AccessInit
<1>2. [AccessNext]_AccessVars => [ErasureNext]_erasureVars
  BY DEF AccessNext, AccessVars, CodesMoves, SignUpMoves, SupportMoves, ErasureMoves, SubscriptionMoves, RemindersMoves, CommunityMoves
<1> QED BY <1>1, <1>2, PTL DEF AccessSpec, ErasureSpec

LEMMA SubscriptionComposed == AccessSpec => SubscriptionSpec
<1>1. AccessInit => SubscriptionInit
  BY DEF AccessInit
<1>2. [AccessNext]_AccessVars => [SubscriptionNext]_subscriptionVars
  BY DEF AccessNext, AccessVars, CodesMoves, SignUpMoves, SupportMoves, ErasureMoves, SubscriptionMoves, RemindersMoves, CommunityMoves
<1> QED BY <1>1, <1>2, PTL DEF AccessSpec, SubscriptionSpec

LEMMA RemindersComposed == AccessSpec => RemindersSpec
<1>1. AccessInit => RemindersInit
  BY DEF AccessInit
<1>2. [AccessNext]_AccessVars => [RemindersNext]_reminderVars
  BY DEF AccessNext, AccessVars, CodesMoves, SignUpMoves, SupportMoves, ErasureMoves, SubscriptionMoves, RemindersMoves, CommunityMoves
<1> QED BY <1>1, <1>2, PTL DEF AccessSpec, RemindersSpec

LEMMA CommunityComposed == AccessSpec => CommunitySpec
<1>1. AccessInit => CommunityInit
  BY DEF AccessInit
<1>2. [AccessNext]_AccessVars => [CommunityNext]_communityVars
  BY DEF AccessNext, AccessVars, CodesMoves, SignUpMoves, SupportMoves, ErasureMoves, SubscriptionMoves, RemindersMoves, CommunityMoves
<1> QED BY <1>1, <1>2, PTL DEF AccessSpec, CommunitySpec

\* All rows of codes, sign-ups, sessions, erasures, payments and reminders keep
\* their types, for any constants (modules/auth, subscription, community, ...).
THEOREM AccessTypes == AccessSpec => []AccessTypeOK
<1>1. AccessSpec => [](CodesTypeOK /\ SignUpTypeOK /\ SupportTypeOK /\ ErasureTypeOK)
  BY CodesComposed, SignUpComposed, SupportComposed, ErasureComposed, CodesAreSafe, SignUpIsSafe, SupportIsGuarded, ErasureIsSafe, PTL
<1>2. AccessSpec => [](SubscriptionTypeOK /\ RemindersTypeOK /\ CommunityTypeOK)
  BY SubscriptionComposed, RemindersComposed, CommunityComposed, SubscriptionIsSafe, RemindersAreSafe, CommunityIsSafe, PTL
<1>3. CodesTypeOK /\ SignUpTypeOK /\ SupportTypeOK /\ ErasureTypeOK /\ SubscriptionTypeOK /\ RemindersTypeOK
        /\ CommunityTypeOK => AccessTypeOK
  BY DEF AccessTypeOK
<1> QED BY <1>1, <1>2, <1>3, PTL

\* A code opens one session and texts stay within the allowance; support works
\* in one session at a time and guesses are limited (otp-delivery.service.ts,
\* auth.service.ts, impersonation.service.ts).
THEOREM EntriesAreGuarded == AccessSpec => []EntryGuarded
<1>1. AccessSpec => [](CodesHold /\ SupportGuarded)
  BY CodesComposed, SupportComposed, CodesAreSafe, SupportIsGuarded, PTL
<1>2. CodesHold /\ SupportGuarded => EntryGuarded
  BY DEF EntryGuarded
<1> QED BY <1>1, <1>2, PTL

\* One organization for each person, whatever happens to the pages in between
\* (onboarding.routes.ts, google-oauth.service.ts, tenants.service.ts).
THEOREM PeopleSignUpOnce == AccessSpec => []SignUpHolds
  BY SignUpComposed, SignUpIsSafe, PTL

\* A project keeps an owner who can act, and an erased account leaves no file
\* (account-deletion.service.ts).
THEOREM ErasuresAreClean == AccessSpec => []ErasureIsClean
  BY ErasureComposed, ErasureIsSafe, PTL

\* A term for each payment, one payment for each key, its receipt kept
\* (subscription/billing.service.ts).
THEOREM PaymentsAreHonoured == AccessSpec => []PaymentsHonoured
  BY SubscriptionComposed, SubscriptionIsSafe, PTL

\* On the right side of the deadline, once a day (reminders.service.ts).
THEOREM RemindersAreKept == AccessSpec => []RemindersHold
  BY RemindersComposed, RemindersAreSafe, PTL

\* Every poll and every event reminds once for each interval and each start
\* (community-reminders.service.ts).
THEOREM NobodyIsNagged == AccessSpec => []RemindersNotRepeated
  BY CommunityComposed, CommunityIsSafe, PTL
=============================================================================
