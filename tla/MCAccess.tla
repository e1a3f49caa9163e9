------------------------------ MODULE MCAccess ------------------------------
(***************************************************************************)
(* Small instances of what concerns people: signing in by code, signing    *)
(* up, the support team's sessions, the erasure of an account, paying the  *)
(* subscription, and the reminders that are sent.  They share no state     *)
(* that is modelled, so every behaviour of one is checked with the others  *)
(* at rest: focus names the one at work.                                   *)
(*                                                                         *)
(* Interchangeable values of different components have the same names, so  *)
(* that one small group of permutations serves all of them.                *)
(***************************************************************************)
EXTENDS OneTimeCodes, SignUp, SupportSessions, AccountErasure, Subscription,
        PaymentReminders, Community, TLC

CONSTANTS x1, x2, y1, y2, z1, z2,
          phone, email, o1, o2, ta, tb, mailA, c1, c2, c3, ka, kb

Sym == Permutations({x1, x2}) \cup Permutations({y1, y2}) \cup Permutations({z1, z2})

\* The phone belongs to accounts of two organizations.
PhoneOfTwo == phone :> {o1, o2} @@ email :> {o1}
\* Two proofs of one address.
SameMail == ta :> mailA @@ tb :> mailA
\* A submission that is repeated, and another one.
OneRepeated == c1 :> ka @@ c2 :> ka @@ c3 :> kb

\* On the day of the deadline, and twice after it.
TwoRules == {[kind |-> "due", days |-> 0, every |-> 0, count |-> 1, hour |-> 1],
             [kind |-> "after", days |-> 1, every |-> 1, count |-> 2, hour |-> 1]}
OneHour == {1}
DeadlineOff == {{0}}

VARIABLE focus
Parts == {"codes", "sign-up", "support", "erasure", "subscription", "reminders", "community"}

\* Components that start in several ways do so when it is their turn.
AccessInit ==
  /\ focus \in Parts
  /\ CodesInit /\ SignUpInit /\ SupportInit /\ ErasureInit /\ SubscriptionInit
  /\ RemindersInit /\ CommunityInit
  /\ focus # "erasure" => elsewhere = {}
  /\ focus # "reminders" => policy.move = "skip" /\ ~policy.pause
  /\ focus # "community" => event.start = 1

Turn(part) == focus = part /\ UNCHANGED focus
CodesMoves == Turn("codes") /\ CodesNext
  /\ UNCHANGED <<signUpVars, supportVars, erasureVars, subscriptionVars, reminderVars, communityVars>>
SignUpMoves == Turn("sign-up") /\ SignUpNext
  /\ UNCHANGED <<codeVars, supportVars, erasureVars, subscriptionVars, reminderVars, communityVars>>
SupportMoves == Turn("support") /\ SupportNext
  /\ UNCHANGED <<codeVars, signUpVars, erasureVars, subscriptionVars, reminderVars, communityVars>>
ErasureMoves == Turn("erasure") /\ ErasureNext
  /\ UNCHANGED <<codeVars, signUpVars, supportVars, subscriptionVars, reminderVars, communityVars>>
SubscriptionMoves == Turn("subscription") /\ SubscriptionNext
  /\ UNCHANGED <<codeVars, signUpVars, supportVars, erasureVars, reminderVars, communityVars>>
RemindersMoves == Turn("reminders") /\ RemindersNext
  /\ UNCHANGED <<codeVars, signUpVars, supportVars, erasureVars, subscriptionVars, communityVars>>
CommunityMoves == Turn("community") /\ CommunityNext
  /\ UNCHANGED <<codeVars, signUpVars, supportVars, erasureVars, subscriptionVars, reminderVars>>

AccessNext ==
  \/ CodesMoves \/ SignUpMoves \/ SupportMoves \/ ErasureMoves
  \/ SubscriptionMoves \/ RemindersMoves \/ CommunityMoves
AccessVars == <<focus, codeVars, signUpVars, supportVars, erasureVars, subscriptionVars,
                reminderVars, communityVars>>
AccessSpec == AccessInit /\ [][AccessNext]_AccessVars

AccessTypeOK ==
  /\ CodesTypeOK /\ SignUpTypeOK /\ SupportTypeOK /\ ErasureTypeOK /\ SubscriptionTypeOK
  /\ RemindersTypeOK /\ CommunityTypeOK

\* The two ways into the system that rest on a code or a token: a code opens
\* one session and texts stay within the allowance; one administrator works as
\* support in one session, and guesses at a token are limited.
EntryGuarded == CodesHold /\ SupportGuarded
=============================================================================
