----------------------------- MODULE Community -----------------------------
(***************************************************************************)
(* A poll and an event of a project (community.routes.ts) and the workers  *)
(* of all processes that remind people of them                             *)
(* (community-reminders.service.ts).  A round takes the time when it       *)
(* starts, reads what is due, and claims each reminder with a conditional  *)
(* update before it sends it.                                              *)
(***************************************************************************)
EXTENDS Naturals, FiniteSets

CONSTANTS
  Voters, Workers,
  Interval, Long, Short, \* between poll reminders; before an event, its two reminders
  MaxTime,     \* bound: time that passes
  MaxReplans   \* bound: changes of the event's start

ASSUME CommunityAssumption ==
  Interval \in Nat \ {0} /\ Short \in Nat \ {0} /\ Long \in Nat /\ Short < Long /\ MaxTime \in Nat
  /\ MaxReplans \in Nat

VARIABLES
  time,
  poll,    \* expiry, whether closed, last reminder
  vote,    \* who has voted, or is about to
  event,   \* start, whether cancelled, reminders marked as sent
  round,   \* round of each worker
  pollReminders, \* history: times of poll reminders
  noticed, \* history: event reminders, with the start of the event then
  replans
communityVars == <<time, poll, vote, event, round, pollReminders, noticed, replans>>

NoRound == [at |-> "rest"]
Starts == 1..MaxTime + Long + 1
Reminders == {"long", "short"}

CommunityInit ==
  /\ time = 0
  /\ poll = [expires |-> MaxTime, closed |-> FALSE, last |-> 0]
  /\ vote = [v \in Voters |-> "none"]
  /\ \E s \in Starts : event = [start |-> s, cancelled |-> FALSE, sent |-> {}]
  /\ round = [w \in Workers |-> NoRound]
  /\ pollReminders = {} /\ noticed = {} /\ replans = 0

TimePasses == time < MaxTime /\ time' = time + 1
              /\ UNCHANGED <<poll, vote, event, round, pollReminders, noticed, replans>>

-----------------------------------------------------------------------------
(* Polls. *)
Voting == ~poll.closed /\ poll.expires > time

\* POST /:id/vote looks at the poll and then writes the vote, a first one or
\* another one.
StartVote(v) ==
  /\ Voting /\ vote[v] # "voting" /\ vote' = [vote EXCEPT ![v] = "voting"]
  /\ UNCHANGED <<time, poll, event, round, pollReminders, noticed, replans>>
CastVote(v) ==
  /\ vote[v] = "voting" /\ vote' = [vote EXCEPT ![v] = "voted"]
  /\ UNCHANGED <<time, poll, event, round, pollReminders, noticed, replans>>
ClosePoll ==
  /\ ~poll.closed /\ poll' = [poll EXCEPT !.closed = TRUE]
  /\ UNCHANGED <<time, vote, event, round, pollReminders, noticed, replans>>

\* sendPollReminders at the time of the round.
PollDue(t) == ~poll.closed /\ poll.expires > t /\ poll.last + Interval <= t
ReadPoll(w) ==
  /\ round[w] = NoRound /\ PollDue(time)
  /\ round' = [round EXCEPT ![w] = [at |-> "poll", now |-> time]]
  /\ UNCHANGED <<time, poll, vote, event, pollReminders, noticed, replans>>

\* Fault: the claim does not look at the last reminder again.
StillOpen(t) == ~poll.closed /\ poll.expires > t
\* The condition of the claim.
PollClaimable(t) == PollDue(t)

ClaimPoll(w) ==
  /\ round[w].at = "poll"
  /\ LET t == round[w].now
     IN  IF PollClaimable(t)
         THEN /\ poll' = [poll EXCEPT !.last = t]
              \* Nobody is told when everyone has voted.
              /\ pollReminders' = IF \A v \in Voters : vote[v] = "voted" THEN pollReminders
                         ELSE pollReminders \cup {[now |-> t, nth |-> Cardinality(pollReminders)]}
         ELSE UNCHANGED <<poll, pollReminders>>
  /\ round' = [round EXCEPT ![w] = NoRound]
  /\ UNCHANGED <<time, vote, event, noticed, replans>>

-----------------------------------------------------------------------------
(* Events. *)
\* dueEventReminder: the short reminder near the start, the long one before.
DueReminder(kind, t) ==
  /\ ~event.cancelled /\ event.start > t /\ kind \notin event.sent
  /\ IF kind = "short" THEN event.start <= t + Short
                       ELSE event.start > t + Short /\ event.start <= t + Long
ReadEvent(w) ==
  /\ round[w] = NoRound
  /\ \E kind \in Reminders :
       /\ DueReminder(kind, time)
       /\ round' = [round EXCEPT ![w] = [at |-> "event", now |-> time, kind |-> kind]]
  /\ UNCHANGED <<time, poll, vote, event, pollReminders, noticed, replans>>

\* Fault: the claim does not look at the marks again.
Upcoming(w) == ~event.cancelled /\ event.start > round[w].now
\* The condition of the claim.
EventClaimable(w) == Upcoming(w) /\ round[w].kind \notin event.sent

ClaimEvent(w) ==
  /\ round[w].at = "event"
  /\ IF EventClaimable(w)
     THEN /\ event' = [event EXCEPT !.sent = @ \cup {round[w].kind}]
          /\ noticed' = noticed \cup {[start |-> event.start, plan |-> replans, kind |-> round[w].kind,
                                       now |-> round[w].now, nth |-> Cardinality(noticed)]}
     ELSE UNCHANGED <<event, noticed>>
  /\ round' = [round EXCEPT ![w] = NoRound]
  /\ UNCHANGED <<time, poll, vote, pollReminders, replans>>

\* PATCH /:id : the start moves, and its reminders are due again.
Replan(s) ==
  /\ ~event.cancelled /\ s > time /\ replans < MaxReplans
  /\ event' = [event EXCEPT !.start = s, !.sent = {}] /\ replans' = replans + 1
  /\ UNCHANGED <<time, poll, vote, round, pollReminders, noticed>>
CancelEvent ==
  /\ ~event.cancelled /\ event' = [event EXCEPT !.cancelled = TRUE]
  /\ UNCHANGED <<time, poll, vote, round, pollReminders, noticed, replans>>
WorkerStops(w) ==
  /\ round[w] # NoRound /\ round' = [round EXCEPT ![w] = NoRound]
  /\ UNCHANGED <<time, poll, vote, event, pollReminders, noticed, replans>>

CommunityNext ==
  \/ TimePasses \/ ClosePoll \/ CancelEvent
  \/ \E v \in Voters : StartVote(v) \/ CastVote(v)
  \/ \E w \in Workers : ReadPoll(w) \/ ClaimPoll(w) \/ ReadEvent(w) \/ ClaimEvent(w) \/ WorkerStops(w)
  \/ \E s \in Starts : Replan(s)

CommunitySpec == CommunityInit /\ [][CommunityNext]_communityVars

-----------------------------------------------------------------------------
CommunityTypeOK ==
  /\ time \in 0..MaxTime /\ poll.last \in 0..MaxTime /\ poll.closed \in BOOLEAN
  /\ vote \in [Voters -> {"none", "voting", "voted"}]
  /\ event.start \in Starts /\ event.sent \subseteq Reminders
  /\ \A w \in Workers : round[w].at \in {"rest", "poll", "event"}

\* Whichever processes run, the reminders of a poll keep their distance, and
\* each reminder of an event is sent once for a start it was planned for.
RemindersNotRepeated ==
  /\ \A a, b \in pollReminders : a.nth < b.nth => a.now + Interval <= b.now
  /\ \A a, b \in noticed : a.plan = b.plan /\ a.kind = b.kind => a = b

\* A reminder tells when the event starts: in the long or the short time.
\* This fails if the event is moved after a round has read it: the claim
\* compares the marks of what was sent, and not the start.
ReminderTellsTheTime ==
  \A a \in noticed : a.start <= a.now + (IF a.kind = "short" THEN Short ELSE Long)
=============================================================================
