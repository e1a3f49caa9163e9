------------------------- MODULE RecurringSchedules -------------------------
(***************************************************************************)
(* A rule that creates a payment schedule on each of its run days          *)
(* (recurring-schedules.service.ts, recurring-schedules.routes.ts), and    *)
(* the editing of the schedules it created (schedules.routes.ts).          *)
(*                                                                         *)
(* Every process runs the worker: a round reads the rules that are due,    *)
(* and then, rule by rule, creates the schedule of the run day it has read *)
(* and writes the next one, worked out from the frequency and first day it *)
(* has read.  An edit reads the rule, works out a next run day from today  *)
(* on, and writes it; neither looks at what the other wrote.  The database *)
(* keeps the due dates of a rule's schedules distinct.                     *)
(***************************************************************************)
EXTENDS Naturals, FiniteSets

CONSTANTS
  Processes,
  Frequencies,
  Following, \* the run day after a run day, by frequency and first day
  MaxDay,    \* bound: days that pass
  LastDay,   \* bound: days of the calendar
  MaxEdits,  \* bound: edits of the rule and of its schedules
  MayMove    \* whether due dates of schedules are edited

Days == 0..LastDay

\* A frequency leads to a later day, and not earlier from a later one: a week
\* or two later, or to the first day's place in a later month or year.
ASSUME RecurringAssumption ==
  /\ MaxDay \in Nat /\ LastDay \in Nat /\ MaxEdits \in Nat /\ MayMove \in BOOLEAN
  /\ MaxDay < LastDay
  /\ Following \in [Frequencies -> [Days -> [Days -> Nat]]]
  /\ \A f \in Frequencies : \A a, d, e \in Days :
       d < Following[f][a][d] /\ (d <= e => Following[f][a][d] <= Following[f][a][e])

VARIABLES
  day,       \* today
  rule,      \* whether it is active, its first day, frequency and next run day
  made,      \* schedules: the run day each was created for, and its due date
  process,   \* round of each process
  edit,      \* an edit that has read the rule
  edits,
  first,     \* history: the next run day that the last edit wrote
  attempted, \* history: run days dealt with since then
  readBefore,    \* history: rounds that read the rule before then
  overtaken  \* history: whether such a round has moved the rule on
recurringVars == <<day, rule, made, process, edit, edits, first, attempted, readBefore, overtaken>>

NoRound == [at |-> "waiting"]
NoEdit == [start |-> 0]

\* The days that a frequency leads to from a first day.
FollowsOn(C, f, a) == a \in C /\ \A d \in C : Following[f][a][d] \in Days => Following[f][a][d] \in C
Calendar == [f \in Frequencies |-> [a \in Days |->
               {n \in Days : \A C \in SUBSET Days : FollowsOn(C, f, a) => n \in C}]]

\* resolveInitialNextRunAt: the first of them that is not in the past.
FirstFromToday(n, f, a) ==
  n \in Calendar[f][a] /\ day <= n /\ \A m \in Calendar[f][a] : day <= m => n <= m

\* POST /
RecurringInit ==
  /\ day = 0 /\ made = {} /\ edit = NoEdit /\ edits = 0
  /\ \E f \in Frequencies, s \in {0, 1} :
       rule = [active |-> TRUE, start |-> s, freq |-> f, next |-> s] /\ first = s
  /\ process = [w \in Processes |-> NoRound]
  /\ attempted = {} /\ readBefore = {} /\ overtaken = FALSE

NewDay ==
  /\ day < MaxDay /\ day' = day + 1
  /\ UNCHANGED <<rule, made, process, edit, edits, first, attempted, readBefore, overtaken>>

\* A round reads the rule when it is due; computeNextRunAt of what it read.
ReadRule(w) ==
  /\ process[w] = NoRound /\ rule.active /\ rule.next <= day
  /\ process' = [process EXCEPT ![w] =
       [at |-> "due", run |-> rule.next, next |-> Following[rule.freq][rule.start][rule.next]]]
  /\ UNCHANGED <<day, rule, made, edit, edits, first, attempted, readBefore, overtaken>>

\* The unique key of the rule and the due date.
DateFree(d) == \A s \in made : s.due # d

Dealt(w) ==
  /\ process[w].at = "due" /\ process' = [process EXCEPT ![w].at = "handled"]
  /\ attempted' = attempted \cup {process[w].run}
  /\ UNCHANGED <<day, rule, edit, edits, first, readBefore, overtaken>>
\* processRecurringSchedule: the schedule is created or found to exist.
CreateSchedule(w) ==
  /\ Dealt(w)
  /\ made' = IF DateFree(process[w].run)
             THEN made \cup {[for |-> process[w].run, due |-> process[w].run, nth |-> Cardinality(made)]}
             ELSE made
\* The subscription has ended, no member is active, or the database failed.
FailRun(w) == Dealt(w) /\ made' = made

\* Fault: the rule moves on from where it is now.
NextOfRow(w) == Following[rule.freq][rule.start][rule.next]
NextRun(w) == process[w].next

\* The rule moves on, whatever the result was and whatever was written since.
MoveOn(w) ==
  /\ process[w].at = "handled" /\ NextRun(w) \in Days
  /\ rule' = [rule EXCEPT !.next = NextRun(w)]
  /\ process' = [process EXCEPT ![w] = NoRound]
  /\ overtaken' = (overtaken \/ w \in readBefore) /\ readBefore' = readBefore \ {w}
  /\ UNCHANGED <<day, made, edit, edits, first, attempted>>
ProcessDies(w) ==
  /\ process[w] # NoRound /\ process' = [process EXCEPT ![w] = NoRound]
  /\ readBefore' = readBefore \ {w}
  /\ UNCHANGED <<day, rule, made, edit, edits, first, attempted, overtaken>>

\* PATCH /:id reads the rule and works out the next run day of the frequency
\* and first day it names, or of those it has read.
OpenEdit(start, freq, n) ==
  /\ edit = NoEdit /\ edits < MaxEdits /\ FirstFromToday(n, freq, start)
  /\ edit' = [start |-> start, freq |-> freq, next |-> n] /\ edits' = edits + 1
  /\ UNCHANGED <<day, rule, made, process, first, attempted, readBefore, overtaken>>
\* It writes all three, and whether the rule is active if it names that.
SaveEdit(active) ==
  /\ edit # NoEdit /\ edit' = NoEdit
  /\ rule' = [active |-> active, start |-> edit.start, freq |-> edit.freq, next |-> edit.next]
  /\ first' = edit.next /\ attempted' = {} /\ overtaken' = FALSE
  /\ readBefore' = {w \in Processes : process[w] # NoRound}
  /\ UNCHANGED <<day, made, process, edits>>
\* DELETE /:id
StopRule ==
  /\ rule.active /\ rule' = [rule EXCEPT !.active = FALSE]
  /\ UNCHANGED <<day, made, process, edit, edits, first, attempted, readBefore, overtaken>>
\* PATCH /v1/schedules/:id with a due date.
MoveSchedule(s, d) ==
  /\ MayMove /\ edits < MaxEdits /\ d # s.due /\ DateFree(d)
  /\ made' = (made \ {s}) \cup {[s EXCEPT !.due = d]}
  /\ edits' = edits + 1
  /\ UNCHANGED <<day, rule, process, edit, first, attempted, readBefore, overtaken>>

RecurringNext ==
  \/ NewDay \/ StopRule
  \/ \E w \in Processes : ReadRule(w) \/ CreateSchedule(w) \/ FailRun(w) \/ MoveOn(w) \/ ProcessDies(w)
  \/ \E start, n \in Days, freq \in Frequencies : OpenEdit(start, freq, n)
  \/ \E active \in BOOLEAN : SaveEdit(active)
  \/ \E s \in made, d \in Days : MoveSchedule(s, d)

RecurringSpec == RecurringInit /\ [][RecurringNext]_recurringVars

-----------------------------------------------------------------------------
RecurringTypeOK ==
  /\ day \in 0..MaxDay /\ edits \in 0..MaxEdits
  /\ rule \in [active : BOOLEAN, start : Days, freq : Frequencies, next : Days]
  /\ \A s \in made : s.for \in Days /\ s.due \in Days
  /\ \A w \in Processes : process[w].at \in {"waiting", "due", "handled"}
  /\ edit \in {NoEdit} \cup [start : Days, freq : Frequencies, next : Days]
  /\ first \in Days /\ attempted \subseteq Days /\ readBefore \subseteq Processes /\ overtaken \in BOOLEAN

\* However many rounds overlap, die, or see the rule edited, it stands on a run
\* day of its frequency, and every run day it has left behind since the last
\* edit was dealt with.  A round that read the rule before that edit and writes
\* after it (overtaken) puts back a next run day of the earlier frequency.
NoPeriodLost ==
  \/ overtaken
  \/ LET runs == Calendar[rule.freq][rule.start]
     IN  rule.next \in runs /\ \A d \in runs : first <= d /\ d < rule.next => d \in attempted

\* A round that reads the rule after its last edit takes up a run day of the
\* rule's frequency and first day, never one that an edit has done away with.
RunsOnIntendedDays ==
  \A w \in Processes :
    process[w].at # "waiting" /\ w \notin readBefore => process[w].run \in Calendar[rule.freq][rule.start]

\* The members are charged once for a run day of the rule.  This holds while
\* due dates of the rule's schedules are not edited (MayMove is FALSE): a
\* process that read the rule earlier finds the date of its run day free again.
ChargedOncePerRun == \A s, t \in made : s.for = t.for => s = t
=============================================================================
