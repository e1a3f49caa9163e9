--------------------------- MODULE PaymentReminders ---------------------------
(***************************************************************************)
(* Automatic payment reminders (modules/payment-reminders, its cron job)   *)
(* and the reminder a person sends by hand (followups.routes.ts).  Rules   *)
(* name days around the deadline of what a member owes; off days move      *)
(* them.  Every process looks each minute for rules whose hour has come,   *)
(* and claims a member's day by the row it writes for it.                  *)
(*                                                                         *)
(* The model has one project and one deadline.  Hours are the hours rules  *)
(* are set to; a process compares them with its clock.                     *)
(***************************************************************************)
EXTENDS Integers, FiniteSets, FiniteSetsExt

CONSTANTS
  Debtors,
  RuleSlots,    \* request slots: rules an administrator may add
  Managers,     \* requests of administrators
  Senders,      \* processes that send
  Forms,        \* the rules that may be asked for
  Deadline, LastDay,
  Hours,        \* 1..n
  OffDays,      \* the sets of days off that may be configured
  MaxSends      \* MAX_SENDS_PER_DUE

\* ruleSchema: no offset on the due date and one of a day or more otherwise;
\* only overdue reminders repeat.
ASSUME RemindersAssumption ==
  /\ Deadline \in 0..LastDay /\ LastDay \in Nat \ {0}
  /\ IsFiniteSet(Hours) /\ Hours = 1..Cardinality(Hours)
  /\ \A form \in Forms :
       /\ form.kind \in {"before", "due", "after"} /\ form.hour \in Hours
       /\ form.days \in Nat /\ (form.kind = "due" <=> form.days = 0)
       /\ form.every \in Nat /\ form.count \in Nat \ {0} /\ (form.kind # "after" => form.count = 1)

VARIABLES
  rules,     \* PaymentReminderRule rows
  asked,     \* what each request of an administrator has read
  policy,    \* PaymentReminderSettings
  clock,
  owing,     \* members with something unpaid
  pledged,   \* members with a promise that is open
  reminded,  \* MemberReminder rows: member and day
  sender,    \* each process: its round
  done,      \* each process: the hours it has served today
  told       \* history: reminders delivered to a member on a day
reminderVars == <<rules, asked, policy, clock, owing, pledged, reminded, sender, done, told>>

Absent == [kind |-> "none"]
Resting == [stage |-> "resting"]
Filed == {s \in RuleSlots : rules[s] # Absent}
OneDay == -LastDay..2 * LastDay

RemindersInit ==
  /\ rules = [s \in RuleSlots |-> Absent]
  /\ asked = [a \in Managers |-> Resting]
  /\ policy \in [off : OffDays, move : {"before", "after", "skip"}, pause : BOOLEAN]
  /\ clock = [day |-> 0, hour |-> 0]
  /\ owing = Debtors /\ pledged = {} /\ reminded = {}
  /\ sender = [p \in Senders |-> Resting]
  /\ done = [p \in Senders |-> {}]
  /\ told = [m \in Debtors |-> [d \in 0..LastDay |-> 0]]

-----------------------------------------------------------------------------
(* planRule: the days a rule sends on. *)

Never == 3 * LastDay
Open(d) == d \notin policy.off
Later(d) == Min({e \in OneDay : e > d /\ Open(e)} \cup {Never})
Sooner(d) == IF \E e \in OneDay : e < d /\ Open(e) THEN Max({e \in OneDay : e < d /\ Open(e)}) ELSE Never

\* "The next sending day" falls back to the day before when that is late.
NextDay(rule, d) == IF rule.kind # "after" /\ Later(d) > Deadline THEN Sooner(d) ELSE Later(d)
PlannedDay(rule, d) ==
  LET e == CASE policy.move = "skip" -> Never
             [] policy.move = "after" -> NextDay(rule, d)
             [] policy.move = "before" -> Sooner(d)
  IN IF rule.kind = "after" /\ e <= Deadline THEN Later(d) ELSE e
Offset(rule) == IF rule.kind = "before" THEN -rule.days ELSE rule.days
Dates(rule) ==
  {IF Open(d) THEN d ELSE PlannedDay(rule, d) :
     d \in {Deadline + Offset(rule) + k * rule.every : k \in 0..rule.count - 1}} \ {Never}

-----------------------------------------------------------------------------
(* Administrators. *)

TotalSends(S) == MapThenSumSet(LAMBDA s : rules[s].count, S)
\* POST and PUT of a rule read the rules and count the sends; the row is
\* written afterwards, in a statement of its own.
AskRule(a, s, form) ==
  /\ asked[a] = Resting /\ TotalSends(Filed \ {s}) + form.count <= MaxSends
  /\ asked' = [asked EXCEPT ![a] = [stage |-> "write", slot |-> s, form |-> form, new |-> rules[s] = Absent]]
  /\ UNCHANGED <<rules, policy, clock, owing, pledged, reminded, sender, done, told>>
\* One rule for each kind and number of days (P2002); a row deleted meanwhile fails too.
WriteRule(a) ==
  LET q == asked[a]
      free == /\ q.new = (rules[q.slot] = Absent)
              /\ \A s \in Filed \ {q.slot} : rules[s].kind # q.form.kind \/ rules[s].days # q.form.days
  IN /\ q.stage = "write" /\ asked' = [asked EXCEPT ![a] = Resting]
     /\ rules' = IF free THEN [rules EXCEPT ![q.slot] = q.form] ELSE rules
     /\ UNCHANGED <<policy, clock, owing, pledged, reminded, sender, done, told>>
DeleteRule(s) ==
  /\ s \in Filed /\ rules' = [rules EXCEPT ![s] = Absent]
  /\ UNCHANGED <<asked, policy, clock, owing, pledged, reminded, sender, done, told>>
\* PUT /payment-reminders/settings
ChangePolicy ==
  /\ \E off \in OffDays, move \in {"before", "after", "skip"} :
       policy' = [policy EXCEPT !.off = off, !.move = move]
  /\ UNCHANGED <<rules, asked, clock, owing, pledged, reminded, sender, done, told>>

-----------------------------------------------------------------------------
(* Members, and reminders by hand. *)

Pass ==
  /\ clock' = IF clock.hour < Cardinality(Hours) THEN [clock EXCEPT !.hour = @ + 1]
                                                   ELSE [day |-> clock.day + 1, hour |-> 0]
  /\ clock'.day <= LastDay
  /\ done' = IF clock'.day = clock.day THEN done ELSE [p \in Senders |-> {}]
  /\ UNCHANGED <<rules, asked, policy, owing, pledged, reminded, sender, told>>
\* Fault: paying leaves the promise open.
PromiseStays(m) == pledged
\* resolveCommitmentsForDeposit, when nothing is outstanding.
PromiseKept(m) == pledged \ {m}
PayUp(m) ==
  /\ m \in owing /\ owing' = owing \ {m} /\ pledged' = PromiseKept(m)
  /\ UNCHANGED <<rules, asked, policy, clock, reminded, sender, done, told>>
Pledge(m) ==
  /\ m \in owing \ pledged /\ pledged' = pledged \cup {m}
  /\ UNCHANGED <<rules, asked, policy, clock, owing, reminded, sender, done, told>>

\* Fault: only the rows read beforehand are looked at.
NotSeen(m, d, seen) == m \notin seen
\* @@unique([projectId, memberId, reminderDate])
Unclaimed(m, d, seen) == <<m, d>> \notin reminded
Tell(m, d) == told' = [told EXCEPT ![m][d] = @ + 1]
\* POST /members/:id/reminders
RemindByHand(m) ==
  /\ m \in owing /\ Unclaimed(m, clock.day, {})
  /\ reminded' = reminded \cup {<<m, clock.day>>} /\ Tell(m, clock.day)
  /\ UNCHANGED <<rules, asked, policy, clock, owing, pledged, sender, done>>

-----------------------------------------------------------------------------
(* runPaymentReminders: a round. *)

Set(p, r) == sender' = [sender EXCEPT ![p] = r]
Ripe == {s \in Filed : rules[s].hour <= clock.hour}
\* The rules whose hour has come, if one of the hours is not served yet, and
\* what is owed by then.
StartRound(p) ==
  LET hours == {rules[s].hour : s \in Ripe}
      wanted == {<<m, rules[s].kind>> : m \in owing, s \in {t \in Ripe : clock.day \in Dates(rules[t])}}
  IN /\ sender[p] = Resting /\ hours \ done[p] # {}
     /\ Set(p, [stage |-> "filter", day |-> clock.day, hours |-> hours, wanted |-> wanted])
     /\ UNCHANGED <<rules, asked, policy, clock, owing, pledged, reminded, done, told>>
\* sendProject: without those reminded already and, while a promise is open,
\* without overdue reminders.
FilterRound(p) ==
  LET r == sender[p]
      seen == {m \in Debtors : <<m, r.day>> \in reminded}
      due == {c[1] : c \in {c \in r.wanted : c[1] \notin seen
                                             /\ ~(policy.pause /\ c[2] = "after" /\ c[1] \in pledged)}}
  IN /\ r.stage = "filter"
     /\ Set(p, [stage |-> "send", day |-> r.day, hours |-> r.hours, left |-> due, seen |-> seen])
     /\ UNCHANGED <<rules, asked, policy, clock, owing, pledged, reminded, done, told>>
\* The row claims the day; a duplicate is passed over.
ClaimDay(p, m) ==
  LET r == sender[p] IN
  /\ r.stage = "send" /\ m \in r.left /\ UNCHANGED <<rules, asked, policy, clock, owing, pledged, done, told>>
  /\ reminded' = reminded \cup {<<m, r.day>>}
  /\ Set(p, IF Unclaimed(m, r.day, r.seen)
              THEN [r EXCEPT !.stage = "deliver", !.left = @ \ {m}, !.seen = {m}]
              ELSE [r EXCEPT !.left = @ \ {m}])
\* The notice is delivered, or its delivery fails and is only logged.
Deliver(p) ==
  LET r == sender[p] IN
  /\ r.stage = "deliver" /\ Set(p, [r EXCEPT !.stage = "send"])
  /\ (\E m \in r.seen : Tell(m, r.day)) \/ UNCHANGED told
  /\ UNCHANGED <<rules, asked, policy, clock, owing, pledged, reminded, done>>
\* The hours are served; a new day has emptied them.
EndRound(p) ==
  LET r == sender[p] IN
  /\ r.stage = "send" /\ r.left = {} /\ Set(p, Resting)
  /\ done' = IF r.day = clock.day THEN [done EXCEPT ![p] = @ \cup r.hours] ELSE done
  /\ UNCHANGED <<rules, asked, policy, clock, owing, pledged, reminded, told>>
\* A failure ends the round, a restart forgets the hours served.
FailRound(p) ==
  /\ sender[p] # Resting /\ Set(p, Resting) /\ done' \in {done, [done EXCEPT ![p] = {}]}
  /\ UNCHANGED <<rules, asked, policy, clock, owing, pledged, reminded, told>>

RemindersNext ==
  \/ \E a \in Managers : WriteRule(a) \/ \E s \in RuleSlots, form \in Forms : AskRule(a, s, form)
  \/ \E s \in RuleSlots : DeleteRule(s)
  \/ ChangePolicy \/ Pass
  \/ \E m \in Debtors : PayUp(m) \/ Pledge(m) \/ RemindByHand(m)
  \/ \E p \in Senders :
       StartRound(p) \/ FilterRound(p) \/ Deliver(p) \/ EndRound(p) \/ FailRound(p)
         \/ \E m \in Debtors : ClaimDay(p, m)

RemindersSpec == RemindersInit /\ [][RemindersNext]_reminderVars

-----------------------------------------------------------------------------
RemindersTypeOK ==
  /\ rules \in [RuleSlots -> Forms \cup {Absent}]
  /\ clock \in [day : 0..LastDay, hour : {0} \cup Hours]
  /\ pledged \subseteq owing /\ owing \subseteq Debtors /\ reminded \subseteq Debtors \X (0..LastDay)
  /\ done \in [Senders -> SUBSET Hours]
  /\ \A p \in Senders : sender[p].stage \in {"resting", "filter", "send", "deliver"}

\* Whatever days are off and wherever they move a reminder: one before the
\* deadline or on it is never late, an overdue one is never early
\* (planRule, reminders.policy.ts).
PlanKeepsDeadline ==
  \A s \in Filed : \A d \in Dates(rules[s]) :
    Open(d) /\ (d <= Deadline <=> rules[s].kind # "after")

\* A member is reminded at most once a day, by whichever processes and
\* people look at the same time, restart or try again
\* (sendProject, reminders.service.ts; followups.routes.ts).
RemindedOnceADay == \A m \in Debtors : \A d \in 0..LastDay : told[m][d] <= 1

\* The rules on file send at most MAX_SENDS_PER_DUE times for one due
\* (assertSendLimit, reminders.service.ts).  Two administrators break this who
\* each count the rules before the other's is written.
SendLimitKept == TotalSends(Filed) <= MaxSends

\* Members are reminded on the right side of the deadline, once a day.
RemindersHold == PlanKeepsDeadline /\ RemindedOnceADay
=============================================================================
