---------------------------- MODULE OneTimeCodes ----------------------------
(***************************************************************************)
(* Signing in with a one-time code (otp-delivery.service.ts, the codes of  *)
(* auth.service.ts, account-selection.service.ts): the daily allowance of  *)
(* text messages, codes that replace each other, their redemption, and the *)
(* choice of an organization when several accounts share the contact.      *)
(*                                                                         *)
(* A code is a number in order of issue; a text message's own code is the  *)
(* provider's and not modelled.  Within one day of the allowance.          *)
(***************************************************************************)
EXTENDS Naturals, Sequences

CONSTANTS
  Contacts, Phones, \* the contacts that are phones can get text messages
  Tenants,
  ScopesOf,         \* the organizations whose accounts have the contact
  CodeRequests, Logins, Choosers, \* concurrent requests
  SmsLimit,
  MaxCodes,         \* bound: codes issued
  Nobody

ASSUME CodesAssumption ==
  /\ Phones \subseteq Contacts /\ Nobody \notin Logins
  /\ \A c \in Contacts : ScopesOf[c] \subseteq Tenants /\ ScopesOf[c] # {}
  /\ SmsLimit \in Nat \ {0} /\ MaxCodes \in Nat

VARIABLES
  usage, texts, \* reserved per organization; history: messages the provider took
  ask,          \* progress of requests for a code
  codes,
  login,        \* progress of redemptions
  selections,   \* logins whose choice of an account is pending, in memory
  chooser,      \* completions of a choice in progress
  sessionsOf    \* history: sessions handed out per code
codeVars == <<usage, texts, ask, codes, login, selections, chooser, sessionsOf>>

NoAsk == [at |-> "idle"]
NoLogin == [at |-> "idle"]

CodesInit ==
  /\ usage = [o \in Tenants |-> 0] /\ texts = usage
  /\ ask = [r \in CodeRequests |-> NoAsk]
  /\ codes = <<>>
  /\ login = [l \in Logins |-> NoLogin]
  /\ selections = {} /\ chooser = [k \in Choosers |-> Nobody]
  /\ sessionsOf = [n \in 1..MaxCodes |-> 0]

OpenCodes(c) == {n \in DOMAIN codes : codes[n].to = c /\ codes[n].state = "open"}

-----------------------------------------------------------------------------
\* requestLoginOtp and requestEmailOtp: a phone gets a text message while its
\* organizations have allowance left, else the code goes by mail.
Ask(r, c) ==
  /\ ask[r] = NoAsk
  /\ \E at \in {"issue"} \cup (IF c \in Phones /\ \A o \in ScopesOf[c] : usage[o] < SmsLimit
                               THEN {"reserve"} ELSE {}) :
       ask' = [ask EXCEPT ![r] = [at |-> at, to |-> c]]
  /\ UNCHANGED <<usage, texts, codes, login, selections, chooser, sessionsOf>>

\* reserveSms: all of the organizations or none.
Reserve(r) ==
  /\ ask[r].at = "reserve"
  /\ LET scopes == ScopesOf[ask[r].to]
     IN  IF \A o \in scopes : usage[o] < SmsLimit
         THEN /\ usage' = [o \in Tenants |-> usage[o] + IF o \in scopes THEN 1 ELSE 0]
              /\ ask' = [ask EXCEPT ![r].at = "send"]
         ELSE UNCHANGED usage /\ ask' = [ask EXCEPT ![r].at = "issue"]
  /\ UNCHANGED <<texts, codes, login, selections, chooser, sessionsOf>>

UsageAfter(r, answered) == usage

\* The provider takes the message or not, and answers or not; without an
\* answer the code goes by mail.
CallProvider(r, taken, answered) ==
  /\ ask[r].at = "send"
  /\ texts' = [o \in Tenants |-> texts[o] + IF taken /\ o \in ScopesOf[ask[r].to] THEN 1 ELSE 0]
  /\ usage' = UsageAfter(r, answered)
  /\ ask' = [ask EXCEPT ![r] = IF taken /\ answered THEN NoAsk ELSE [@ EXCEPT !.at = "issue"]]
  /\ UNCHANGED <<codes, login, selections, chooser, sessionsOf>>

ContactLock(r) == \A q \in CodeRequests : ask[q].at = "locked" => ask[q].to # ask[r].to

\* createOtp: under the contact's lock the open codes are consumed and one is
\* created; both become visible together.
LockContact(r) ==
  /\ ask[r].at = "issue" /\ ContactLock(r)
  /\ ask' = [ask EXCEPT ![r] = [at |-> "locked", to |-> @.to, old |-> OpenCodes(@.to)]]
  /\ UNCHANGED <<usage, texts, codes, login, selections, chooser, sessionsOf>>
CommitCode(r) ==
  /\ ask[r].at = "locked" /\ Len(codes) < MaxCodes
  /\ codes' = Append([n \in DOMAIN codes |-> IF n \in ask[r].old THEN [codes[n] EXCEPT !.state = "consumed"]
                                             ELSE codes[n]],
                     [to |-> ask[r].to, state |-> "open"])
  /\ ask' = [ask EXCEPT ![r] = NoAsk]
  /\ UNCHANGED <<usage, texts, login, selections, chooser, sessionsOf>>

\* The request fails: no mail address, an error, the process dies.
EndAsk(r) ==
  /\ ask[r] # NoAsk /\ ask' = [ask EXCEPT ![r] = NoAsk]
  /\ UNCHANGED <<usage, texts, codes, login, selections, chooser, sessionsOf>>

CodeExpires(n) ==
  /\ n \in DOMAIN codes /\ codes[n].state = "open"
  /\ codes' = [codes EXCEPT ![n].state = "expired"]
  /\ UNCHANGED <<usage, texts, ask, login, selections, chooser, sessionsOf>>

-----------------------------------------------------------------------------
\* verifyOtp reads the latest open code and compares it with what was typed,
\* which takes time.
TypeCode(l, n) ==
  /\ login[l] = NoLogin /\ n \in DOMAIN codes
  /\ n \in OpenCodes(codes[n].to) /\ \A k \in OpenCodes(codes[n].to) : k <= n
  /\ login' = [login EXCEPT ![l] = [at |-> "compared", code |-> n]]
  /\ UNCHANGED <<usage, texts, ask, codes, selections, chooser, sessionsOf>>

Claimable(n) == codes[n].state = "open"

\* The claim waits for a transaction that is consuming the code, and needs the
\* code still open.  Several accounts: the choice is kept in memory.
ClaimCode(l, several) ==
  /\ login[l].at = "compared"
  /\ LET n == login[l].code IN
     /\ \A r \in CodeRequests : ask[r].at = "locked" => n \notin ask[r].old
     /\ IF Claimable(n)
        THEN /\ codes' = [codes EXCEPT ![n].state = "consumed"]
             /\ login' = [login EXCEPT ![l].at = IF several THEN "choice" ELSE "session"]
             /\ selections' = IF several THEN selections \cup {l} ELSE selections
        ELSE login' = [login EXCEPT ![l] = NoLogin] /\ UNCHANGED <<codes, selections>>
  /\ UNCHANGED <<usage, texts, ask, chooser, sessionsOf>>

\* issueLoginSession for the only account; or an error after the claim.
OpenSession(l, fine) ==
  /\ login[l].at = "session"
  /\ sessionsOf' = [sessionsOf EXCEPT ![login[l].code] = @ + IF fine THEN 1 ELSE 0]
  /\ login' = [login EXCEPT ![l] = NoLogin]
  /\ UNCHANGED <<usage, texts, ask, codes, selections, chooser>>

\* Fault: the choice is taken off only when the session is there.
KeepsChoice(l) == selections
TakeChoice(l) == selections \ {l}

\* completeAccountSelection claims the choice before it waits for anything,
\* and puts it back when the session could not be opened.
Choose(k, l) ==
  /\ chooser[k] = Nobody /\ l \in selections
  /\ selections' = TakeChoice(l) /\ chooser' = [chooser EXCEPT ![k] = l]
  /\ UNCHANGED <<usage, texts, ask, codes, login, sessionsOf>>
FinishChoice(k, fine) ==
  /\ chooser[k] # Nobody
  /\ LET l == chooser[k] IN
     IF fine
     THEN /\ sessionsOf' = [sessionsOf EXCEPT ![login[l].code] = @ + 1]
          /\ UNCHANGED selections
     ELSE selections' = selections \cup {l} /\ UNCHANGED sessionsOf
  /\ chooser' = [chooser EXCEPT ![k] = Nobody]
  /\ UNCHANGED <<usage, texts, ask, codes, login>>

\* The choice expires; nothing else refers to the login any more.
ChoiceExpires(l) ==
  /\ login[l].at = "choice" /\ \A k \in Choosers : chooser[k] # l
  /\ selections' = selections \ {l} /\ login' = [login EXCEPT ![l] = NoLogin]
  /\ UNCHANGED <<usage, texts, ask, codes, chooser, sessionsOf>>

CodesNext ==
  \/ \E r \in CodeRequests, c \in Contacts : Ask(r, c)
  \/ \E r \in CodeRequests : Reserve(r) \/ LockContact(r) \/ CommitCode(r) \/ EndAsk(r)
  \/ \E r \in CodeRequests, taken, answered \in BOOLEAN : CallProvider(r, taken, answered)
  \/ \E n \in 1..MaxCodes : CodeExpires(n)
  \/ \E l \in Logins, n \in 1..MaxCodes : TypeCode(l, n)
  \/ \E l \in Logins, several \in BOOLEAN : ClaimCode(l, several)
  \/ \E l \in Logins, fine \in BOOLEAN : OpenSession(l, fine)
  \/ \E k \in Choosers, l \in Logins : Choose(k, l)
  \/ \E k \in Choosers, fine \in BOOLEAN : FinishChoice(k, fine)
  \/ \E l \in Logins : ChoiceExpires(l)

CodesSpec == CodesInit /\ [][CodesNext]_codeVars

-----------------------------------------------------------------------------
CodesTypeOK ==
  /\ usage \in [Tenants -> Nat] /\ texts \in [Tenants -> Nat]
  /\ \A r \in CodeRequests : ask[r].at \in {"idle", "reserve", "send", "issue", "locked"}
  /\ codes \in Seq([to : Contacts, state : {"open", "consumed", "expired"}]) /\ Len(codes) <= MaxCodes
  /\ \A l \in Logins : login[l].at \in {"idle", "compared", "choice", "session"}
  /\ selections \subseteq Logins /\ chooser \in [Choosers -> Logins \cup {Nobody}]
  /\ sessionsOf \in [1..MaxCodes -> Nat]

\* A code opens one session at most, although it may be typed in two windows,
\* replaced while it is compared, and its choice completed twice; and a contact
\* has one open code at most, the one that was issued last.
OneSessionPerCode ==
  /\ \A n \in DOMAIN sessionsOf : sessionsOf[n] <= 1
  /\ \A c \in Contacts, m, n \in DOMAIN codes : m \in OpenCodes(c) /\ n \in OpenCodes(c) => m = n

\* The provider takes no more messages for an organization than its allowance,
\* whoever asks at the same time and whatever the provider leaves unanswered.
TextsWithinAllowance == \A o \in Tenants : texts[o] <= SmsLimit

\* What sign-in by code promises: one session per code, and no more messages
\* than an organization may send.
CodesHold == OneSessionPerCode /\ TextsWithinAllowance
=============================================================================
