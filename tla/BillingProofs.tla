---------------------------- MODULE BillingProofs ----------------------------
(***************************************************************************)
(* Proofs about what falls due again and again: recurring schedules and    *)
(* recurring bills miss no period and handle none twice, the runs that     *)
(* make customers' invoices account for every customer, whatever is        *)
(* collected, allocated, released, refunded and adjusted, a customer's     *)
(* money is on an invoice, an advance or a request - for any customers,    *)
(* invoices, payments, adjustments, workers and sums - and payroll pays    *)
(* what was reviewed, and a bill once, for any staff, bills and months.    *)
(***************************************************************************)
EXTENDS RecurringSchedules, RecurringBills, CustomerBilling, Payroll,
        DueAllocationProofs, SequenceTheorems

-----------------------------------------------------------------------------
(* Recurring schedules. *)

\* The days that a frequency leads to from a first day: the first day, then
\* wherever it leads, and nothing else.
LEMMA CalendarFollows ==
  ASSUME NEW f \in Frequencies, NEW a \in Days
  PROVE  /\ Calendar[f][a] \subseteq Days /\ a \in Calendar[f][a]
         /\ \A d \in Calendar[f][a] : Following[f][a][d] \in Days => Following[f][a][d] \in Calendar[f][a]
         /\ \A C \in SUBSET Days : FollowsOn(C, f, a) => Calendar[f][a] \subseteq C
<1>1. Calendar[f][a] = {n \in Days : \A C \in SUBSET Days : FollowsOn(C, f, a) => n \in C}
  BY DEF Calendar
<1>2. ASSUME NEW d \in Calendar[f][a], Following[f][a][d] \in Days
      PROVE  Following[f][a][d] \in Calendar[f][a]
  <2>1. \A C \in SUBSET Days : FollowsOn(C, f, a) => d \in C
    BY <1>1, <1>2
  <2>2. \A C \in SUBSET Days : FollowsOn(C, f, a) => Following[f][a][d] \in C
    BY <2>1, <1>2 DEF FollowsOn
  <2> QED BY <1>1, <1>2, <2>2
<1>3. a \in Calendar[f][a]
  BY <1>1 DEF FollowsOn
<1> QED BY <1>1, <1>2, <1>3

\* No run day lies between a run day and the one that follows it: first of the
\* first day, then of each day it leads to.
LEMMA NoRunBetween ==
  ASSUME NEW f \in Frequencies, NEW a \in Days, NEW n \in Calendar[f][a], NEW d \in Calendar[f][a]
  PROVE  d <= n \/ Following[f][a][n] <= d
<1> DEFINE K == Calendar[f][a]  F(m) == Following[f][a][m]  Next(m) == \A e \in K : e <= m \/ F(m) <= e
<1>1. K \subseteq Days /\ a \in K /\ \A C \in SUBSET Days : FollowsOn(C, f, a) => K \subseteq C
  BY CalendarFollows
<1>2. \A e \in K : F(e) \in Days => F(e) \in K
  BY CalendarFollows
<1>3. \A e \in Days : F(e) \in Nat /\ e < F(e)
  BY RecurringAssumption
<1>4. \A e, g \in Days : e <= g => F(e) <= F(g)
  BY RecurringAssumption
<1>5. \A e \in Days : e \in Nat
  BY DEF Days
<1>6. FollowsOn({e \in K : e = a \/ F(a) <= e}, f, a)
  <2>1. ASSUME NEW e \in K, e = a \/ F(a) <= e, F(e) \in Days PROVE F(a) <= F(e)
    BY <2>1, <1>1, <1>3, <1>5
  <2> QED BY <1>1, <1>2, <2>1 DEF FollowsOn
<1>7. Next(a) /\ \A e \in K : a <= e
  <2>1. \A e \in K : e = a \/ F(a) <= e
    BY <1>1, <1>6
  <2> QED BY <2>1, <1>1, <1>3, <1>5
<1>8. ASSUME NEW m \in K, Next(m), F(m) \in Days PROVE Next(F(m))
  <2> DEFINE C == {e \in K : e <= F(m) \/ F(F(m)) <= e}
  <2>1. a \in C
    BY <1>1, <1>3, <1>5, <1>7, <1>8
  <2>2. ASSUME NEW e \in C, F(e) \in Days PROVE F(e) <= F(m) \/ F(F(m)) <= F(e)
    <3>1. CASE e <= m
      BY <3>1, <1>1, <1>4
    <3>2. CASE e = F(m)
      BY <3>2, <1>1, <1>3, <1>5
    <3>3. CASE F(F(m)) <= e
      BY <3>3, <1>1, <1>3, <1>5, <1>8
    <3>4. e <= m \/ F(m) <= e
      BY <1>8
    <3> QED BY <3>1, <3>2, <3>3, <3>4, <1>1, <1>3, <1>5, <1>8
  <2>3. FollowsOn(C, f, a)
    BY <1>2, <2>1, <2>2 DEF FollowsOn
  <2> QED BY <1>1, <2>3
<1>9. FollowsOn({m \in K : Next(m)}, f, a)
  BY <1>1, <1>2, <1>7, <1>8 DEF FollowsOn
<1>10. K \subseteq {m \in K : Next(m)}
  BY <1>1, <1>9
<1> QED BY <1>10

-----------------------------------------------------------------------------
RuleRow == [active : BOOLEAN, start : Days, freq : Frequencies, next : Days]
Round == [at : {"waiting"}] \cup [at : {"due", "handled"}, run : Days, next : Nat]
Edit == [start : Days, freq : Frequencies, next : Days]

\* The rule may stand on the day: a run day of its frequency that left none
\* behind since the last edit.
InTurn(n) ==
  /\ n \in Calendar[rule.freq][rule.start]
  /\ \A d \in Calendar[rule.freq][rule.start] : first <= d /\ d < n => d \in attempted

\* What a round that read the rule since its last edit has read.
ReadInTurn(w) ==
  /\ process[w].next = Following[rule.freq][rule.start][process[w].run]
  /\ overtaken \/ InTurn(process[w].run)
  /\ process[w].at = "handled" => process[w].run \in attempted

RuleInv ==
  /\ day \in 0..MaxDay /\ rule \in RuleRow /\ first \in Days
  /\ process \in [Processes -> Round]
  /\ edit \in {NoEdit} \cup Edit
  /\ edit # NoEdit => edit.next \in Calendar[edit.freq][edit.start]
  /\ overtaken \/ InTurn(rule.next)
  /\ \A w \in Processes : process[w] # NoRound /\ w \notin readBefore => ReadInTurn(w)

LEMMA RuleInvInit == RecurringInit => RuleInv
<1> SUFFICES ASSUME RecurringInit PROVE RuleInv
  OBVIOUS
<1> USE RecurringAssumption
<1>1. PICK f \in Frequencies, s \in {0, 1} :
        rule = [active |-> TRUE, start |-> s, freq |-> f, next |-> s] /\ first = s
  BY DEF RecurringInit
<1>2. s \in Days /\ day = 0 /\ 0 \in 0..MaxDay /\ edit = NoEdit
  BY DEF RecurringInit, Days
<1>3. process \in [Processes -> Round] /\ \A w \in Processes : process[w] = NoRound
  BY DEF RecurringInit, Round, NoRound
<1>4. s \in Calendar[f][s] /\ \A d \in Calendar[f][s] : d \in Nat
  BY <1>2, CalendarFollows DEF Days
<1>5. InTurn(rule.next)
  BY <1>1, <1>4 DEF InTurn
<1> QED BY <1>1, <1>2, <1>3, <1>5 DEF RuleInv, RuleRow

\* Rounds keep what they read while the rule and what was dealt with stay.
LEMMA RoundsUnmoved ==
  ASSUME RuleInv, NEW x \in Processes, process[x] # NoRound, x \notin readBefore,
         process'[x] = process[x], UNCHANGED <<overtaken, first, attempted>>,
         rule'.freq = rule.freq, rule'.start = rule.start
  PROVE  ReadInTurn(x)'
  BY DEF RuleInv, ReadInTurn, InTurn

\* A round takes up the run day of a rule that is due.
LEMMA ReadKeepsRule == ASSUME RuleInv, NEW w \in Processes, ReadRule(w) PROVE RuleInv'
<1> DEFINE q == [at |-> "due", run |-> rule.next, next |-> Following[rule.freq][rule.start][rule.next]]
<1>1. q \in Round /\ q.at = "due" /\ q.run = rule.next /\ q.next = Following[rule.freq][rule.start][rule.next]
  BY RecurringAssumption DEF RuleInv, RuleRow, Round
<1>2. process' = [process EXCEPT ![w] = q]
      /\ UNCHANGED <<day, rule, made, edit, edits, first, attempted, readBefore, overtaken>>
  BY DEF ReadRule
<1> HIDE DEF q
<1>3. process' \in [Processes -> Round] /\ process'[w] = q
      /\ \A x \in Processes : x # w => process'[x] = process[x]
  BY <1>1, <1>2 DEF RuleInv
<1>4. \A n : InTurn(n) => InTurn(n)'
  BY <1>2 DEF InTurn
<1>5. ReadInTurn(w)'
  <2>1. /\ process'[w].at = "due" /\ process'[w].run = rule.next
        /\ process'[w].next = Following[rule'.freq][rule'.start][rule.next]
    BY <1>1, <1>2, <1>3
  <2>2. overtaken' \/ InTurn(rule.next)'
    BY <1>2, <1>4 DEF RuleInv
  <2>3. rule' = rule
    BY <1>2
  <2> QED BY <1>4, <2>1, <2>2, <2>3 DEF ReadInTurn, InTurn
<1>6. \A x \in Processes : process'[x] # NoRound /\ x \notin readBefore' => ReadInTurn(x)'
  BY <1>2, <1>3, <1>5, RoundsUnmoved DEF RuleInv
<1>7. (overtaken \/ InTurn(rule.next))'
  BY <1>2 DEF RuleInv, InTurn
<1> QED BY <1>2, <1>3, <1>6, <1>7 DEF RuleInv

\* A run day is dealt with, whether or not a schedule is created.
LEMMA DealingKeepsRule == ASSUME RuleInv, NEW w \in Processes, Dealt(w) PROVE RuleInv'
<1>1. process[w].at = "due" /\ process' = [process EXCEPT ![w].at = "handled"]
      /\ attempted' = attempted \cup {process[w].run}
      /\ UNCHANGED <<day, rule, edit, edits, first, readBefore, overtaken>>
  BY DEF Dealt
<1>2. process[w] \in [at : {"due", "handled"}, run : Days, next : Nat] /\ process[w] # NoRound
  BY <1>1 DEF RuleInv, Round, NoRound
<1>3. process'[w] \in Round /\ process'[w].at = "handled" /\ process'[w].run = process[w].run
      /\ process'[w].next = process[w].next
  BY <1>1, <1>2 DEF RuleInv, Round
<1>4. process' \in [Processes -> Round] /\ \A x \in Processes : x # w => process'[x] = process[x]
  BY <1>1, <1>3 DEF RuleInv
<1>5. \A n : InTurn(n) => InTurn(n)'
  BY <1>1 DEF InTurn
<1>6. ASSUME NEW x \in Processes, process[x] # NoRound, x \notin readBefore PROVE ReadInTurn(x)'
  <2>1. ReadInTurn(x)
    BY <1>6 DEF RuleInv
  <2> QED BY <1>1, <1>3, <1>4, <1>5, <2>1 DEF ReadInTurn
<1>7. \A x \in Processes : process'[x] # NoRound => process[x] # NoRound
  BY <1>2, <1>4
<1> QED BY <1>1, <1>4, <1>5, <1>6, <1>7 DEF RuleInv

\* The rule moves on to the day that follows the one the round dealt with.
LEMMA MovingKeepsRule == ASSUME RuleInv, NEW w \in Processes, MoveOn(w) PROVE RuleInv'
<1> USE RecurringAssumption
<1>1. process' = [process EXCEPT ![w] = NoRound] /\ UNCHANGED <<day, edit, first, attempted>>
      /\ rule' = [rule EXCEPT !.next = process[w].next] /\ process[w].next \in Days /\ process[w].at = "handled"
      /\ overtaken' = (overtaken \/ w \in readBefore) /\ readBefore' = readBefore \ {w}
  BY DEF MoveOn, NextRun
<1>2. process' \in [Processes -> Round] /\ process'[w] = NoRound
      /\ \A x \in Processes : x # w => process'[x] = process[x]
  BY <1>1 DEF RuleInv, Round, NoRound
<1>3. rule' \in RuleRow /\ rule'.next = process[w].next /\ rule'.freq = rule.freq /\ rule'.start = rule.start
  BY <1>1 DEF RuleInv, RuleRow
<1>4. process[w].run \in Days /\ process[w] # NoRound /\ rule.freq \in Frequencies /\ rule.start \in Days
  BY <1>1 DEF RuleInv, Round, NoRound, RuleRow
<1>5. ASSUME ~overtaken' PROVE InTurn(rule.next)'
  <2> DEFINE r == process[w].run  n == process[w].next  K == Calendar[rule.freq][rule.start]
  <2>1. ReadInTurn(w) /\ ~overtaken
    BY <1>1, <1>4, <1>5 DEF RuleInv
  <2>2. InTurn(r) /\ r \in attempted /\ n = Following[rule.freq][rule.start][r]
    BY <1>1, <2>1 DEF ReadInTurn
  <2>3. r \in K /\ n \in Days
    BY <1>1, <2>2 DEF InTurn
  <2>4. n \in K /\ K \subseteq Days
    BY <1>4, <2>2, <2>3, CalendarFollows
  <2>5. \A d \in K : d <= r \/ n <= d
    BY <1>4, <2>2, <2>3, NoRunBetween
  <2>6. \A d \in K : first <= d /\ d < r => d \in attempted
    BY <2>2 DEF InTurn
  <2> HIDE DEF r, n, K
  <2>7. r \in Nat /\ n \in Nat /\ \A d \in K : d \in Nat
    BY <2>3, <2>4 DEF Days
  <2>8. \A d \in K : first <= d /\ d < n => d \in attempted
    <3> SUFFICES ASSUME NEW d \in K, first <= d, d < n PROVE d \in attempted
      OBVIOUS
    <3>1. d < r \/ d = r
      BY <2>5, <2>7
    <3> QED BY <2>2, <2>6, <3>1
  <2> QED BY <1>1, <1>3, <2>4, <2>8 DEF InTurn, K, n
<1>6. ASSUME NEW x \in Processes, process[x] # NoRound, x \notin readBefore PROVE x # w => ReadInTurn(x)'
  <2>1. ReadInTurn(x)
    BY <1>6 DEF RuleInv
  <2> QED BY <1>1, <1>2, <1>3, <2>1 DEF ReadInTurn, InTurn
<1>7. \A x \in Processes : process'[x] # NoRound /\ x \notin readBefore'
        => x # w /\ process[x] # NoRound /\ x \notin readBefore
  BY <1>1, <1>2
<1> QED BY <1>1, <1>2, <1>3, <1>5, <1>6, <1>7 DEF RuleInv

LEMMA DeathKeepsRule == ASSUME RuleInv, NEW w \in Processes, ProcessDies(w) PROVE RuleInv'
<1>1. process' = [process EXCEPT ![w] = NoRound] /\ readBefore' = readBefore \ {w}
      /\ UNCHANGED <<day, rule, edit, first, attempted, overtaken>>
  BY DEF ProcessDies
<1>2. process' \in [Processes -> Round] /\ process'[w] = NoRound
      /\ \A x \in Processes : x # w => process'[x] = process[x]
  BY <1>1 DEF RuleInv, Round, NoRound
<1>3. \A x \in Processes : process'[x] # NoRound /\ x \notin readBefore'
        => process'[x] = process[x] /\ process[x] # NoRound /\ x \notin readBefore
  BY <1>1, <1>2
<1>4. \A x \in Processes : process'[x] # NoRound /\ x \notin readBefore' => ReadInTurn(x)'
  BY <1>1, <1>3, RoundsUnmoved
<1> QED BY <1>1, <1>2, <1>4 DEF RuleInv, InTurn

\* An edit sets the rule on a run day of the new frequency, and all rounds are
\* of before it.
LEMMA SavingKeepsRule == ASSUME RuleInv, NEW active \in BOOLEAN, SaveEdit(active) PROVE RuleInv'
<1>1. edit # NoEdit /\ edit' = NoEdit /\ first' = edit.next /\ UNCHANGED <<day, process>>
      /\ rule' = [active |-> active, start |-> edit.start, freq |-> edit.freq, next |-> edit.next]
      /\ readBefore' = {w \in Processes : process[w] # NoRound}
  BY DEF SaveEdit
<1>2. edit \in Edit /\ edit.next \in Calendar[edit.freq][edit.start]
  BY <1>1 DEF RuleInv
<1>3. rule' \in RuleRow /\ first' \in Days
  BY <1>1, <1>2 DEF RuleRow, Edit
<1>4. \A d \in Calendar[edit.freq][edit.start] : d \in Nat
  BY <1>2, CalendarFollows DEF Edit, Days
<1>5. edit.next \in Nat
  BY <1>2 DEF Edit, Days
<1>6. InTurn(rule.next)'
  BY <1>1, <1>2, <1>4, <1>5 DEF InTurn
<1> QED BY <1>1, <1>3, <1>6 DEF RuleInv

LEMMA RuleInvStep == RuleInv /\ [RecurringNext]_recurringVars => RuleInv'
<1> SUFFICES ASSUME RuleInv, [RecurringNext]_recurringVars PROVE RuleInv'
  OBVIOUS
<1>1. ASSUME day' \in 0..MaxDay, rule' \in RuleRow, rule'.next = rule.next, rule'.freq = rule.freq,
             rule'.start = rule.start, edit' \in {NoEdit} \cup Edit,
             edit' # NoEdit => edit'.next \in Calendar[edit'.freq][edit'.start],
             UNCHANGED <<process, first, attempted, readBefore, overtaken>>
      PROVE  RuleInv'
  <2>1. \A x \in Processes : process'[x] # NoRound /\ x \notin readBefore' => ReadInTurn(x)'
    BY <1>1, RoundsUnmoved
  <2> QED BY <1>1, <2>1 DEF RuleInv, InTurn
<1>2. CASE NewDay
  BY <1>1, <1>2, RecurringAssumption DEF NewDay, RuleInv
<1>3. CASE StopRule
  <2>1. rule' = [rule EXCEPT !.active = FALSE]
        /\ UNCHANGED <<day, process, edit, first, attempted, readBefore, overtaken>>
    BY <1>3 DEF StopRule
  <2>2. rule' \in RuleRow /\ rule'.next = rule.next /\ rule'.freq = rule.freq /\ rule'.start = rule.start
    BY <2>1 DEF RuleInv, RuleRow
  <2> QED BY <1>1, <2>1, <2>2 DEF RuleInv
<1>4. ASSUME NEW w \in Processes,
             ReadRule(w) \/ CreateSchedule(w) \/ FailRun(w) \/ MoveOn(w) \/ ProcessDies(w)
      PROVE  RuleInv'
  BY <1>4, ReadKeepsRule, DealingKeepsRule, MovingKeepsRule, DeathKeepsRule DEF CreateSchedule, FailRun
<1>5. ASSUME NEW start \in Days, NEW n \in Days, NEW freq \in Frequencies, OpenEdit(start, freq, n)
      PROVE  RuleInv'
  <2>1. edit' = [start |-> start, freq |-> freq, next |-> n] /\ n \in Calendar[freq][start]
        /\ UNCHANGED <<day, rule, process, first, attempted, readBefore, overtaken>>
    BY <1>5 DEF OpenEdit, FirstFromToday
  <2>2. edit' \in Edit /\ edit'.next \in Calendar[edit'.freq][edit'.start]
    BY <2>1 DEF Edit
  <2> QED BY <1>1, <2>1, <2>2 DEF RuleInv
<1>6. ASSUME NEW active \in BOOLEAN, SaveEdit(active) PROVE RuleInv'
  BY <1>6, SavingKeepsRule
<1>7. ASSUME NEW s \in made, NEW d \in Days, MoveSchedule(s, d) PROVE RuleInv'
  BY <1>1, <1>7 DEF MoveSchedule, RuleInv
<1>8. CASE UNCHANGED recurringVars
  BY <1>1, <1>8 DEF recurringVars, RuleInv
<1> QED BY <1>2, <1>3, <1>4, <1>5, <1>6, <1>7, <1>8 DEF RecurringNext

\* However many processes run a rule, die in it, and whenever it is edited, the
\* rule stands on a run day of its frequency and first day and has left none
\* behind since its last edit that no round dealt with, unless a round that had
\* read it before that edit moved it on afterwards.
THEOREM NoPeriodMissed == RecurringSpec => []NoPeriodLost
<1>1. RuleInv => NoPeriodLost
  BY DEF RuleInv, InTurn, NoPeriodLost
<1> QED BY <1>1, RuleInvInit, RuleInvStep, PTL DEF RecurringSpec

\* Schedules that were created carry the run day they were created for.
Charged(S) == \A s \in S : \E f, u \in Days : \E n : s = [for |-> f, due |-> u, nth |-> n]
RuleTyped == RuleInv /\ RecurringTypeOK /\ Charged(made)

LEMMA RuleTypedInit == RecurringInit => RuleTyped
<1> SUFFICES ASSUME RecurringInit PROVE RuleTyped
  OBVIOUS
<1>1. RuleInv
  BY RuleInvInit
<1>2. edits \in 0..MaxEdits /\ made = {} /\ attempted = {} /\ readBefore = {} /\ overtaken = FALSE
  BY RecurringAssumption DEF RecurringInit
<1>3. \A w \in Processes : process[w].at \in {"waiting", "due", "handled"}
  BY <1>1 DEF RuleInv, Round
<1> QED BY <1>1, <1>2, <1>3 DEF RuleTyped, RuleInv, RuleRow, Edit, RecurringTypeOK, Charged

LEMMA RuleTypedStep == RuleTyped /\ [RecurringNext]_recurringVars => RuleTyped'
<1> SUFFICES ASSUME RuleTyped, [RecurringNext]_recurringVars PROVE RuleTyped'
  OBVIOUS
<1> USE RecurringAssumption
<1>1. RuleInv'
  BY RuleInvStep DEF RuleTyped
<1>2. /\ day' \in 0..MaxDay /\ rule' \in RuleRow /\ first' \in Days /\ edit' \in {NoEdit} \cup Edit
      /\ \A w \in Processes : process'[w].at \in {"waiting", "due", "handled"}
  BY <1>1 DEF RuleInv, Round
<1>3. /\ edits \in 0..MaxEdits /\ Charged(made) /\ attempted \subseteq Days
      /\ readBefore \subseteq Processes /\ overtaken \in BOOLEAN
  BY DEF RuleTyped, RecurringTypeOK
<1>4. \A w \in Processes : process[w].at = "due" => process[w].run \in Days
  BY DEF RuleTyped, RuleInv, Round
<1>5. ASSUME edits' \in 0..MaxEdits, Charged(made'), attempted' \subseteq Days,
             readBefore' \subseteq Processes, overtaken' \in BOOLEAN
      PROVE  RuleTyped'
  <2>1. \A t \in made' : t.for \in Days /\ t.due \in Days
    BY <1>5 DEF Charged
  <2> QED BY <1>1, <1>2, <1>5, <2>1 DEF RuleTyped, RecurringTypeOK, Charged, RuleRow, Edit
<1>6. CASE NewDay \/ StopRule \/ UNCHANGED recurringVars
  BY <1>3, <1>5, <1>6 DEF NewDay, StopRule, recurringVars
<1>7. ASSUME NEW w \in Processes, ReadRule(w) \/ MoveOn(w) \/ ProcessDies(w) PROVE RuleTyped'
  BY <1>3, <1>5, <1>7 DEF ReadRule, MoveOn, ProcessDies
<1>8. ASSUME NEW w \in Processes, FailRun(w) PROVE RuleTyped'
  BY <1>3, <1>4, <1>5, <1>8 DEF FailRun, Dealt
<1>9. ASSUME NEW w \in Processes, CreateSchedule(w) PROVE RuleTyped'
  <2>1. process[w].run \in Days /\ attempted' = attempted \cup {process[w].run}
        /\ UNCHANGED <<edits, readBefore, overtaken>>
    BY <1>4, <1>9 DEF CreateSchedule, Dealt
  <2>2. made' = made \/ made' = made \cup {[for |-> process[w].run, due |-> process[w].run, nth |-> Cardinality(made)]}
    BY <1>9 DEF CreateSchedule
  <2>3. Charged(made')
    BY <1>3, <2>1, <2>2 DEF Charged
  <2> QED BY <1>3, <1>5, <2>1, <2>3
<1>10. ASSUME NEW start \in Days, NEW n \in Days, NEW freq \in Frequencies, OpenEdit(start, freq, n)
       PROVE  RuleTyped'
  BY <1>3, <1>5, <1>10 DEF OpenEdit
<1>11. ASSUME NEW active \in BOOLEAN, SaveEdit(active) PROVE RuleTyped'
  BY <1>3, <1>5, <1>11 DEF SaveEdit
<1>12. ASSUME NEW s \in made, NEW d \in Days, MoveSchedule(s, d) PROVE RuleTyped'
  <2>1. edits' \in 0..MaxEdits /\ UNCHANGED <<attempted, readBefore, overtaken>>
    BY <1>3, <1>12 DEF MoveSchedule
  <2>2. made' = (made \ {s}) \cup {[s EXCEPT !.due = d]}
    BY <1>12 DEF MoveSchedule
  <2>0. PICK f \in Days, u \in Days : \E n : s = [for |-> f, due |-> u, nth |-> n]
    BY <1>3 DEF Charged
  <2>3. PICK n : s = [for |-> f, due |-> u, nth |-> n]
    BY <2>0
  <2>4. [s EXCEPT !.due = d] = [for |-> f, due |-> d, nth |-> n]
    BY <2>3
  <2>5. Charged(made')
    BY <1>3, <2>2, <2>4 DEF Charged
  <2> QED BY <1>3, <1>5, <2>1, <2>5
<1> QED BY <1>6, <1>7, <1>8, <1>9, <1>10, <1>11, <1>12 DEF RecurringNext

LEMMA RuleKeepsTypes == RecurringSpec => []RecurringTypeOK
<1>1. RuleTyped => RecurringTypeOK
  BY DEF RuleTyped
<1> QED BY <1>1, RuleTypedInit, RuleTypedStep, PTL DEF RecurringSpec

-----------------------------------------------------------------------------
(* Recurring bills. *)

RecurringBill == [next : Nat, auto : BOOLEAN, end : Nat, paused : BOOLEAN, deleted : BOOLEAN,
            reminded : Nat, revision : Nat]

\* Whoever has the bill's lock has read it as it is, and is alone.  A period is
\* announced only while it is due, and the bill remembers it until it moves on.
BillInv ==
  /\ bill \in RecurringBill /\ handled \subseteq Periods
  /\ announced \in [Periods -> 0..1]
  /\ DueAfterHandled
  /\ \A p \in Periods : announced[p] > 0 => p < bill.next \/ (p = bill.next /\ bill.reminded = p)
  /\ tx = [a \in Actors |-> tx[a]] /\ DOMAIN tx = Actors
  /\ \A a \in Actors : tx[a].open => tx[a].row = bill /\ tx[a].handled = handled
  /\ \A a, b \in Actors : tx[a].open /\ tx[b].open => a = b

\* What the changes of a bill leave of its row.
LEMMA ChangedRow ==
  ASSUME NEW r \in RecurringBill
  PROVE  LET c == [r EXCEPT !.revision = @ + 1]
         IN  c \in RecurringBill /\ c.next = r.next /\ c.reminded = r.reminded
BY DEF RecurringBill

\* A transaction that closes was the only one open.
LEMMA ClosingLeavesNone ==
  ASSUME BillInv, NEW a \in Actors, tx[a].open, CloseTx(a)
  PROVE  /\ tx' = [b \in Actors |-> tx'[b]] /\ DOMAIN tx' = Actors
         /\ \A b \in Actors : ~tx'[b].open
<1>1. tx' = [tx EXCEPT ![a] = Closed]
  BY DEF CloseTx
<1>2. DOMAIN tx' = Actors /\ tx' = [b \in Actors |-> tx'[b]] /\ tx'[a] = Closed
  BY <1>1 DEF BillInv
<1>3. \A b \in Actors : b # a => tx'[b] = tx[b]
  BY <1>1 DEF BillInv
<1>4. \A b \in Actors : b # a => ~tx[b].open
  BY DEF BillInv
<1> QED BY <1>2, <1>3, <1>4 DEF Closed

LEMMA BillInvInit == BillsInit => BillInv
<1> SUFFICES ASSUME BillsInit PROVE BillInv
  OBVIOUS
<1>1. NoPeriod \in Nat /\ 0 \in Periods
  BY BillsAssumption DEF NoPeriod, Periods
<1>2. bill \in RecurringBill
  BY <1>1 DEF BillsInit, RecurringBill
<1>3. announced \in [Periods -> 0..1] /\ \A p \in Periods : announced[p] = 0
  BY DEF BillsInit
<1>4. DOMAIN tx = Actors /\ tx = [a \in Actors |-> tx[a]] /\ \A a \in Actors : ~tx[a].open
  BY DEF BillsInit, Closed
<1>5. handled = {}
  BY DEF BillsInit
<1> QED BY <1>2, <1>3, <1>4, <1>5 DEF BillInv, DueAfterHandled

LEMMA OpeningKeepsBill == ASSUME BillInv, NEW a \in Actors, OpenTx(a) PROVE BillInv'
<1> DEFINE t == [open |-> TRUE, row |-> bill, handled |-> handled]
<1>1. tx' = [tx EXCEPT ![a] = t] /\ UNCHANGED <<date, bill, handled, expenses, announced>>
      /\ \A b \in Actors \ {a} : ~tx[b].open
  BY DEF OpenTx, BillFree
<1>2. t.open /\ t.row = bill /\ t.handled = handled
  OBVIOUS
<1> HIDE DEF t
<1>3. DOMAIN tx' = Actors /\ tx' = [b \in Actors |-> tx'[b]] /\ tx'[a] = t
      /\ \A b \in Actors : b # a => tx'[b] = tx[b]
  BY <1>1 DEF BillInv
<1> QED BY <1>1, <1>2, <1>3 DEF BillInv, DueAfterHandled

LEMMA AdvanceKeepsBill ==
  ASSUME BillInv, NEW a \in Actors, NEW skip \in BOOLEAN, Advance(a, skip) PROVE BillInv'
<1>1. tx[a].open /\ CloseTx(a) /\ announced' = announced
  BY DEF Advance, Running
<1>2. tx[a].row = bill
  BY <1>1 DEF BillInv
<1>3. bill.next \in Periods /\ bill.next \in Nat /\ handled' = handled \cup {bill.next}
      /\ bill' = [Changed EXCEPT !.next = bill.next + 1, !.reminded = NoPeriod]
  BY <1>2 DEF Advance, BillInv, RecurringBill
<1>4. NoPeriod \in Nat
  BY BillsAssumption DEF NoPeriod
<1>5. bill' \in RecurringBill /\ bill'.next = bill.next + 1
  <2>1. Changed \in RecurringBill
    BY ChangedRow DEF Changed, BillInv
  <2>2. bill.next + 1 \in Nat
    BY <1>3
  <2> QED BY <1>3, <1>4, <2>1, <2>2 DEF RecurringBill
<1>6. \A p \in Periods : p \in Nat
  BY DEF Periods
<1>7. DueAfterHandled' /\ handled' \subseteq Periods
  BY <1>3, <1>5, <1>6 DEF BillInv, DueAfterHandled
<1>8. \A p \in Periods : announced'[p] > 0 => p < bill'.next
  BY <1>1, <1>3, <1>5, <1>6 DEF BillInv
<1> QED BY <1>1, <1>5, <1>7, <1>8, ClosingLeavesNone DEF BillInv

LEMMA RemindingKeepsBill ==
  ASSUME BillInv, NEW a \in Actors, RemindPeriod(a) PROVE BillInv'
<1> DEFINE p == bill.next
<1>1. tx[a].open /\ CloseTx(a) /\ handled' = handled /\ tx[a].row = bill
  BY DEF RemindPeriod, Running, BillInv
<1>2. bill.reminded # p /\ bill' = [bill EXCEPT !.reminded = p]
      /\ announced' = [announced EXCEPT ![p] = @ + 1]
  BY <1>1 DEF RemindPeriod
<1>3. p \in Nat /\ bill' \in RecurringBill /\ bill'.next = p /\ bill'.reminded = p
  BY <1>2 DEF BillInv, RecurringBill
<1>4. \A q \in Periods : q \in Nat
  BY DEF Periods
<1>5. p \in Periods => announced[p] = 0
  BY <1>2, <1>3, <1>4 DEF BillInv
<1>6. announced' \in [Periods -> 0..1] /\ \A q \in Periods : q # p => announced'[q] = announced[q]
  <2>1. announced \in [Periods -> 0..1]
    BY DEF BillInv
  <2> HIDE DEF p
  <2>2. CASE p \in Periods
    <3>1. announced[p] + 1 = 1
      BY <1>5, <2>2
    <3> QED BY <1>2, <2>1, <2>2, <3>1
  <2>3. CASE p \notin Periods
    BY <1>2, <2>1, <2>3
  <2> QED BY <2>2, <2>3
<1>7. DueAfterHandled'
  BY <1>1, <1>3 DEF BillInv, DueAfterHandled
<1>8. \A q \in Periods : announced'[q] > 0 => q < bill'.next \/ (q = bill'.next /\ bill'.reminded = q)
  BY <1>3, <1>6 DEF BillInv
<1> QED BY <1>1, <1>3, <1>6, <1>7, <1>8, ClosingLeavesNone DEF BillInv

LEMMA EditKeepsBill ==
  ASSUME BillInv, NEW a \in Actors, NEW p \in Periods, NEW auto \in BOOLEAN, EditBill(a, p, auto)
  PROVE  BillInv'
<1>1. tx[a].open /\ CloseTx(a) /\ handled' = handled /\ AfterHandled(a, p) /\ tx[a].handled = handled
      /\ bill' = [Changed EXCEPT !.next = p, !.auto = auto, !.reminded = NoPeriod]
      /\ announced' = [q \in Periods |-> 0]
  BY DEF EditBill, BillInv
<1>2. NoPeriod \in Nat /\ p \in Nat
  BY BillsAssumption DEF NoPeriod, Periods
<1>3. bill' \in RecurringBill /\ bill'.next = p
  <2>1. Changed \in RecurringBill
    BY ChangedRow DEF Changed, BillInv
  <2> QED BY <1>1, <1>2, <2>1 DEF RecurringBill
<1>4. DueAfterHandled'
  BY <1>1, <1>3 DEF AfterHandled, DueAfterHandled
<1>5. announced' \in [Periods -> 0..1] /\ \A q \in Periods : announced'[q] = 0
  BY <1>1
<1> QED BY <1>1, <1>3, <1>4, <1>5, ClosingLeavesNone DEF BillInv

\* Pausing and deleting leave the due date and its announcement alone.
LEMMA MarkingKeepsBill ==
  ASSUME BillInv, NEW a \in Actors, PauseBill(a) \/ DeleteBill(a) PROVE BillInv'
<1>1. tx[a].open /\ CloseTx(a) /\ handled' = handled /\ announced' = announced /\ tx[a].row = bill
  BY DEF PauseBill, DeleteBill, BillInv
<1>2. bill' \in RecurringBill /\ bill'.next = bill.next /\ bill'.reminded = bill.reminded
  <2>1. Changed \in RecurringBill /\ Changed.next = bill.next /\ Changed.reminded = bill.reminded
    BY ChangedRow DEF Changed, BillInv
  <2>2. CASE PauseBill(a)
    <3>1. bill' = [Changed EXCEPT !.paused = ~bill.paused]
      BY <1>1, <2>2 DEF PauseBill
    <3> QED BY <2>1, <3>1, Zenon DEF RecurringBill
  <2>3. CASE DeleteBill(a)
    <3>1. bill' = [Changed EXCEPT !.deleted = TRUE]
      BY <2>3 DEF DeleteBill
    <3> QED BY <2>1, <3>1 DEF RecurringBill
  <2> QED BY <1>1, <2>2, <2>3
<1> QED BY <1>1, <1>2, ClosingLeavesNone DEF BillInv, DueAfterHandled

LEMMA BillInvStep == BillInv /\ [BillsNext]_billVars => BillInv'
<1> SUFFICES ASSUME BillInv, [BillsNext]_billVars PROVE BillInv'
  OBVIOUS
<1>1. CASE NextDate
  BY <1>1 DEF NextDate, BillInv, DueAfterHandled
<1>2. ASSUME NEW a \in Actors, OpenTx(a) PROVE BillInv'
  BY <1>2, OpeningKeepsBill
<1>3. ASSUME NEW a \in Actors, Rollback(a) PROVE BillInv'
  BY <1>3, ClosingLeavesNone DEF Rollback, BillInv, DueAfterHandled
<1>4. ASSUME NEW a \in Actors, RecordPeriod(a) \/ SkipPeriod(a) \/ AutoRecord(a) PROVE BillInv'
  BY <1>4, AdvanceKeepsBill DEF RecordPeriod, SkipPeriod, AutoRecord
<1>5. ASSUME NEW a \in Actors, RemindPeriod(a) PROVE BillInv'
  BY <1>5, RemindingKeepsBill
<1>6. ASSUME NEW a \in Actors, PauseBill(a) \/ DeleteBill(a) PROVE BillInv'
  BY <1>6, MarkingKeepsBill
<1>7. ASSUME NEW a \in Actors, NEW p \in Periods, NEW auto \in BOOLEAN, EditBill(a, p, auto)
      PROVE  BillInv'
  BY <1>7, EditKeepsBill
<1>8. CASE UNCHANGED billVars
  BY <1>8 DEF billVars, BillInv, DueAfterHandled
<1> QED BY <1>1, <1>2, <1>3, <1>4, <1>5, <1>6, <1>7, <1>8 DEF BillsNext

\* Any number of people and workers record, skip and announce each period of a
\* bill once, and never leave the bill due at a period that is handled.
THEOREM BillsHandledOnce == BillsSpec => []BillHandledOnce
<1>1. BillInv => BillHandledOnce
  BY DEF BillInv, BillHandledOnce, DueAfterHandled, AnnouncedOnce
<1> QED BY <1>1, BillInvInit, BillInvStep, PTL DEF BillsSpec

BillTyped == BillInv /\ BillsTypeOK

LEMMA BillTypedInit == BillsInit => BillTyped
<1> SUFFICES ASSUME BillsInit PROVE BillTyped
  OBVIOUS
<1> USE BillsAssumption
<1>1. BillInv
  BY BillInvInit
<1>2. bill.next = 0 /\ bill.reminded = NoPeriod /\ bill.revision = 1 /\ date = 0 /\ handled = {} /\ expenses = {}
  BY DEF BillsInit
<1>3. NoPeriod \in Nat
  BY DEF NoPeriod
<1>4. \A a \in Actors : tx[a].open \in BOOLEAN
  BY DEF BillsInit, Closed
<1>5. announced \in [Periods -> 0..2]
  BY DEF BillsInit
<1> QED BY <1>1, <1>2, <1>3, <1>4, <1>5 DEF BillTyped, BillsTypeOK

\* A row whose due date and last announcement are periods, within its revisions.
RowInRange(r) == r.next \in 0..NoPeriod /\ r.reminded \in 0..NoPeriod /\ r.revision \in 1..MaxRevision

\* A change of the row that keeps it in range keeps the types of the tables.
LEMMA WrittenInRange ==
  ASSUME BillTyped, NEW a \in Actors, tx[a].open, CloseTx(a) \/ tx' = tx, RowInRange(bill'), date' = date,
         handled' \subseteq Periods, expenses' \subseteq handled', announced' \in [Periods -> 0..2]
  PROVE  BillsTypeOK'
  <1>1. CloseTx(a) => \A b \in Actors : tx'[b].open \in BOOLEAN
    <2> SUFFICES ASSUME CloseTx(a), NEW b \in Actors PROVE tx'[b].open \in BOOLEAN
      OBVIOUS
    <2>1. tx' = [tx EXCEPT ![a] = Closed] /\ DOMAIN tx = Actors
      BY DEF CloseTx, BillTyped, BillInv
    <2>2. CASE b = a
      <3>1. tx'[b] = Closed
        BY <2>1, <2>2
      <3> QED BY <3>1 DEF Closed
    <2>3. CASE b # a
      <3>1. tx'[b] = tx[b]
        BY <2>1, <2>3
      <3> QED BY <3>1 DEF BillTyped, BillsTypeOK
    <2> QED BY <2>2, <2>3
  <1>2. \A b \in Actors : tx'[b].open \in BOOLEAN
    BY <1>1 DEF BillTyped, BillsTypeOK
  <1> QED BY <1>2 DEF BillTyped, BillsTypeOK, RowInRange

LEMMA BillTypedStep == BillTyped /\ [BillsNext]_billVars => BillTyped'
<1> SUFFICES ASSUME BillTyped, [BillsNext]_billVars PROVE BillTyped'
  OBVIOUS
<1> USE BillsAssumption
<1>1. BillInv'
  BY BillInvStep DEF BillTyped
<1> SUFFICES BillsTypeOK'
  BY <1>1 DEF BillTyped
<1>2. /\ bill \in RecurringBill /\ RowInRange(bill) /\ date \in 0..LastBillDay
      /\ handled \subseteq Periods /\ expenses \subseteq handled /\ announced \in [Periods -> 0..2]
  BY DEF BillTyped, BillsTypeOK, BillInv, RowInRange
<1>3. \A a \in Actors : tx[a].open => tx[a].row = bill
  BY DEF BillTyped, BillInv
<1>4. NoPeriod \in Nat /\ \A p \in Periods : p \in 0..NoPeriod /\ p + 1 \in 0..NoPeriod
  BY DEF NoPeriod, Periods
<1>5. announced' \in [Periods -> 0..2]
  BY <1>1 DEF BillInv
<1>6. ASSUME bill.revision < MaxRevision
      PROVE  \E c \in RecurringBill : c = Changed /\ RowInRange(c)
  <2>1. Changed \in RecurringBill /\ Changed.next = bill.next /\ Changed.reminded = bill.reminded
    BY <1>2, ChangedRow DEF Changed
  <2>2. Changed.revision = bill.revision + 1
    BY <1>2 DEF Changed, RecurringBill
  <2>3. RowInRange(Changed)
    BY <1>2, <1>6, <2>1, <2>2 DEF RowInRange
  <2> QED BY <2>1, <2>3
<1>7. CASE NextDate
  BY <1>2, <1>7 DEF NextDate, BillTyped, BillsTypeOK
<1>8. ASSUME NEW a \in Actors, OpenTx(a) PROVE BillsTypeOK'
  <2>1. tx' = [tx EXCEPT ![a] = [open |-> TRUE, row |-> bill, handled |-> handled]]
        /\ UNCHANGED <<date, bill, handled, expenses, announced>>
    BY <1>8 DEF OpenTx
  <2>2. DOMAIN tx = Actors
    BY DEF BillTyped, BillInv
  <2>3. \A b \in Actors : tx'[b].open \in BOOLEAN
    BY <2>1, <2>2 DEF BillTyped, BillsTypeOK
  <2> QED BY <2>1, <2>3 DEF BillTyped, BillsTypeOK
<1>9. ASSUME NEW a \in Actors, Rollback(a) PROVE BillsTypeOK'
  BY <1>2, <1>9, WrittenInRange DEF Rollback
<1>10. ASSUME NEW a \in Actors, NEW skip \in BOOLEAN, Advance(a, skip) PROVE BillsTypeOK'
  <2>1. tx[a].open /\ CloseTx(a) /\ UNCHANGED <<date, announced>> /\ tx[a].row = bill /\ bill.revision < MaxRevision
    BY <1>3, <1>10 DEF Advance, Running
  <2>2. /\ bill.next \in Periods /\ handled' = handled \cup {bill.next}
        /\ expenses' \subseteq expenses \cup {bill.next}
        /\ bill' = [Changed EXCEPT !.next = bill.next + 1, !.reminded = NoPeriod]
    BY <1>10, <2>1 DEF Advance
  <2>3. PICK c \in RecurringBill : c = Changed /\ RowInRange(c)
    BY <1>6, <2>1
  <2>4. RowInRange(bill')
    BY <1>4, <2>2, <2>3 DEF RowInRange, RecurringBill
  <2> QED BY <1>2, <1>5, <2>1, <2>2, <2>4, WrittenInRange
<1>11. ASSUME NEW a \in Actors, RemindPeriod(a) PROVE BillsTypeOK'
  <2>1. /\ tx[a].open /\ CloseTx(a) /\ UNCHANGED <<date, handled, expenses>> /\ tx[a].row = bill
        /\ bill' = [bill EXCEPT !.reminded = bill.next]
    BY <1>3, <1>11 DEF RemindPeriod, Running
  <2>2. RowInRange(bill')
    BY <1>2, <2>1 DEF RowInRange, RecurringBill
  <2> QED BY <1>2, <1>5, <2>1, <2>2, WrittenInRange
<1>12. ASSUME NEW a \in Actors, NEW p \in Periods, NEW auto \in BOOLEAN, EditBill(a, p, auto) PROVE BillsTypeOK'
  <2>1. /\ tx[a].open /\ CloseTx(a) /\ UNCHANGED <<date, handled, expenses>> /\ bill.revision < MaxRevision
        /\ bill' = [Changed EXCEPT !.next = p, !.auto = auto, !.reminded = NoPeriod]
    BY <1>12 DEF EditBill
  <2>2. PICK c \in RecurringBill : c = Changed /\ RowInRange(c)
    BY <1>6, <2>1
  <2>3. RowInRange(bill')
    BY <1>4, <2>1, <2>2 DEF RowInRange, RecurringBill
  <2> QED BY <1>2, <1>5, <2>1, <2>3, WrittenInRange
<1>13. ASSUME NEW a \in Actors, PauseBill(a) \/ DeleteBill(a) PROVE BillsTypeOK'
  <2>1. /\ tx[a].open /\ CloseTx(a) /\ UNCHANGED <<date, handled, expenses>> /\ bill.revision < MaxRevision
        /\ \/ bill' = [Changed EXCEPT !.paused = ~tx[a].row.paused]
           \/ bill' = [Changed EXCEPT !.deleted = TRUE]
    BY <1>13 DEF PauseBill, DeleteBill
  <2>2. PICK c \in RecurringBill : c = Changed /\ RowInRange(c)
    BY <1>6, <2>1
  <2>3. RowInRange(bill')
    BY <2>1, <2>2 DEF RowInRange, RecurringBill
  <2> QED BY <1>2, <1>5, <2>1, <2>3, WrittenInRange
<1>14. CASE UNCHANGED billVars
  BY <1>14 DEF billVars, BillTyped, BillsTypeOK
<1>15. ASSUME NEW a \in Actors, RecordPeriod(a) \/ SkipPeriod(a) \/ AutoRecord(a) PROVE BillsTypeOK'
  BY <1>10, <1>15 DEF RecordPeriod, SkipPeriod, AutoRecord
<1> QED BY <1>7, <1>8, <1>9, <1>11, <1>12, <1>13, <1>14, <1>15 DEF BillsNext

LEMMA BillKeepsTypes == BillsSpec => []BillsTypeOK
<1>1. BillTyped => BillsTypeOK
  BY DEF BillTyped
<1> QED BY <1>1, BillTypedInit, BillTypedStep, PTL DEF BillsSpec

-----------------------------------------------------------------------------
(* Invoice runs.  The argument: a run's row never loses what it counted,   *)
(* and a worker that kept a refusal in hand while the cursor is still the  *)
(* one it read has seen that very assignment refused, so that what it      *)
(* writes is true whoever else worked on the run.                          *)

Batch ==
  [status : {"none", "queued", "running", "completed"}, cycle : Cycles \cup {0},
   ids : Seq(Assignments), cursor : Nat,
   results : Seq([of : Assignments, outcome : {"invoiced", "refused"}])]
InHand ==
  {AtRest} \cup [stage : {"next"}, run : Batches]
           \cup [stage : {"next", "step", "failed"}, run : Batches, cursor : Nat]

RunsTyped ==
  /\ plan \in [Assignments -> [mode : {"none", "fixed", "usage", "one_time"}, from : Cycles \cup {0}, open : BOOLEAN]]
  /\ meter \in [Assignments -> SUBSET Cycles]
  /\ cycles \in [Assignments -> [Cycles -> BOOLEAN]]
  /\ queue \in [Batches -> Batch]
  /\ hand \in [BillingWorkers -> InHand]

\* A run's row by itself, given what is invoiced and what was refused.
RowAccounts(r, row, done, no) ==
  /\ IF row.status = "none" THEN row.cursor = 0 ELSE row.cycle \in Cycles
  /\ row.cursor = Len(row.results) /\ row.cursor <= Len(row.ids)
  /\ \A k \in 1..Len(row.results) :
       /\ row.results[k].of = row.ids[k]
       /\ row.results[k].outcome = "invoiced" => done[row.ids[k]][row.cycle]
       /\ row.results[k].outcome = "refused" => <<r, row.ids[k]>> \in no
  /\ row.status = "completed" <=> (row.status # "none" /\ row.cursor = Len(row.ids))
\* A worker works on a queued run and has read no later cursor; if nobody
\* moved on since, what it holds as refused is the next assignment.
Holds(h, q, no) ==
  h # AtRest =>
    /\ q[h.run].status # "none"
    /\ h.stage \in {"step", "failed"} => h.cursor <= q[h.run].cursor
    /\ h.stage = "failed" /\ h.cursor = q[h.run].cursor =>
         /\ h.cursor < Len(q[h.run].ids)
         /\ <<h.run, q[h.run].ids[h.cursor + 1]>> \in no

RunsInv ==
  /\ RunsTyped
  /\ \A r \in Batches : RowAccounts(r, queue[r], cycles, refused)
  /\ \A w \in BillingWorkers : Holds(hand[w], queue, refused)

LEMMA SelectionTyped ==
  ASSUME NEW S \in SUBSET Assignments
  PROVE  SetToSeq(S) \in Seq(Assignments)
  <1>1. IsFiniteSet(S)
    BY RunsAssumption, FS_Subset
  <1>2. ExistsBijection(1..Cardinality(S), S) /\ Cardinality(S) \in Nat
    BY <1>1, FS_CardinalityType
  <1>3. \E f \in [1..Cardinality(S) -> S] : IsInjective(f)
    BY <1>2 DEF ExistsBijection, Bijection, Injection, IsInjective
  <1>4. SetToSeq(S) \in [1..Cardinality(S) -> S]
    BY <1>3 DEF SetToSeq
  <1>5. SetToSeq(S) \in [1..Cardinality(S) -> Assignments]
    BY <1>4
  <1> QED BY <1>2, <1>5, SeqDef

RowMoved(row, cu, st, re) == [row EXCEPT !.cursor = cu, !.status = st, !.results = re]
RowOf(st, cy, ids, cu, re) == [status |-> st, cycle |-> cy, ids |-> ids, cursor |-> cu, results |-> re]
LEMMA RowMoves ==
  ASSUME NEW st, NEW cy, NEW ids, NEW cu, NEW re, NEW st2, NEW cu2, NEW re2
  PROVE  RowMoved(RowOf(st, cy, ids, cu, re), cu2, st2, re2) = RowOf(st2, cy, ids, cu2, re2)
  <1>1. [[status |-> st, cycle |-> cy, ids |-> ids, cursor |-> cu, results |-> re] EXCEPT !.cursor = cu2]
          = [status |-> st, cycle |-> cy, ids |-> ids, cursor |-> cu2, results |-> re]
    OBVIOUS
  <1>2. [[status |-> st, cycle |-> cy, ids |-> ids, cursor |-> cu2, results |-> re] EXCEPT !.status = st2]
          = [status |-> st2, cycle |-> cy, ids |-> ids, cursor |-> cu2, results |-> re]
    OBVIOUS
  <1>3. [[status |-> st2, cycle |-> cy, ids |-> ids, cursor |-> cu2, results |-> re] EXCEPT !.results = re2]
          = [status |-> st2, cycle |-> cy, ids |-> ids, cursor |-> cu2, results |-> re2]
    OBVIOUS
  <1> QED BY <1>1, <1>2, <1>3 DEF RowMoved, RowOf

\* What a step writes to a run's row when it counts the next assignment.
LEMMA CountedAccounts ==
  ASSUME NEW r \in Batches, NEW row \in Batch, NEW done, NEW no, RowAccounts(r, row, done, no),
         row.status \in {"queued", "running"}, NEW outcome \in {"invoiced", "refused"},
         outcome = "invoiced" => done[row.ids[row.cursor + 1]][row.cycle],
         outcome = "refused" => <<r, row.ids[row.cursor + 1]>> \in no
  PROVE  /\ Counted(row, outcome) \in Batch /\ RowAccounts(r, Counted(row, outcome), done, no)
         /\ Counted(row, outcome).status # "none" /\ Counted(row, outcome).cursor = row.cursor + 1
         /\ Counted(row, outcome).ids = row.ids
  <1>1. PICK st, cy, ids, cu, re :
          row = [status |-> st, cycle |-> cy, ids |-> ids, cursor |-> cu, results |-> re]
    BY DEF Batch
  <1>2. /\ st \in {"queued", "running"} /\ cy \in Cycles /\ ids \in Seq(Assignments) /\ cu \in Nat
        /\ re \in Seq([of : Assignments, outcome : {"invoiced", "refused"}])
        /\ cu = Len(re) /\ cu <= Len(ids) /\ cu # Len(ids)
    BY <1>1 DEF RowAccounts, Batch
  <1>3. \A k \in 1..Len(re) :
          /\ re[k].of = ids[k]
          /\ re[k].outcome = "invoiced" => done[ids[k]][cy]
          /\ re[k].outcome = "refused" => <<r, ids[k]>> \in no
    BY <1>1 DEF RowAccounts
  <1>4. /\ outcome = "invoiced" => done[ids[cu + 1]][cy]
        /\ outcome = "refused" => <<r, ids[cu + 1]>> \in no
    BY <1>1
  <1> DEFINE new == [of |-> ids[cu + 1], outcome |-> outcome]
             st2 == IF cu + 1 = Len(ids) THEN "completed" ELSE "running"
             re2 == Append(re, new)
             row2 == [status |-> st2, cycle |-> cy, ids |-> ids, cursor |-> cu + 1, results |-> re2]
  <1>5. Counted(row, outcome) = row2
    <2>1. row.cursor = cu /\ row.ids = ids /\ row.results = re
      BY <1>1
    <2>2. Counted(row, outcome) = RowMoved(row, cu + 1, st2, re2)
      BY <2>1, Zenon DEF Counted, RowMoved
    <2> HIDE DEF st2, re2, new
    <2>3. row = RowOf(st, cy, ids, cu, re) /\ row2 = RowOf(st2, cy, ids, cu + 1, re2)
      BY <1>1 DEF RowOf
    <2> HIDE DEF row2
    <2> QED BY <2>2, <2>3, RowMoves
  <1>6. ids[cu + 1] \in Assignments
    <2>1. cu + 1 \in 1..Len(ids)
      BY <1>2
    <2> QED BY <1>2, <2>1
  <1>7. new \in [of : Assignments, outcome : {"invoiced", "refused"}]
    BY <1>6
  <1>8. new.of = ids[cu + 1] /\ new.outcome = outcome
    OBVIOUS
  <1> HIDE DEF new
  <1>9. /\ re2 \in Seq([of : Assignments, outcome : {"invoiced", "refused"}]) /\ Len(re2) = cu + 1
        /\ re2[cu + 1] = new /\ \A k \in 1..cu : re2[k] = re[k]
    BY <1>2, <1>7
  <1> HIDE DEF re2
  <1>10. \A k \in 1..Len(re2) :
           /\ re2[k].of = ids[k]
           /\ re2[k].outcome = "invoiced" => done[ids[k]][cy]
           /\ re2[k].outcome = "refused" => <<r, ids[k]>> \in no
    <2> TAKE k \in 1..Len(re2)
    <2>1. CASE k = cu + 1
      BY <1>4, <1>8, <1>9, <2>1
    <2>2. CASE k # cu + 1
      <3>1. k \in 1..cu /\ k \in 1..Len(re)
        BY <1>2, <1>9, <2>2
      <3> QED BY <1>3, <1>9, <3>1
    <2> QED BY <2>1, <2>2
  <1>11. row2 \in Batch
    <2>1. cu + 1 \in Nat /\ st2 \in {"none", "queued", "running", "completed"}
      BY <1>2
    <2> HIDE DEF st2
    <2> QED BY <1>2, <1>9, <2>1 DEF Batch
  <1>12. st2 = "completed" <=> cu + 1 = Len(ids)
    OBVIOUS
  <1>13. st2 # "none" /\ cu + 1 <= Len(ids)
    BY <1>2
  <1> HIDE DEF st2
  <1>14. RowAccounts(r, row2, done, no)
    BY <1>2, <1>9, <1>10, <1>12, <1>13 DEF RowAccounts
  <1> QED BY <1>1, <1>5, <1>11, <1>13, <1>14

\* More is invoiced and refused as time goes by.
LEMMA AccountsGrow ==
  ASSUME NEW r, NEW row \in Batch, NEW done, NEW no, RowAccounts(r, row, done, no), NEW done2, NEW no2, no \subseteq no2,
         \A a \in Assignments, m \in Cycles : done[a][m] => done2[a][m]
  PROVE  RowAccounts(r, row, done2, no2)
  <1>1. ASSUME NEW k \in 1..Len(row.results), row.results[k].outcome = "invoiced"
        PROVE  done2[row.ids[k]][row.cycle]
    <2>1. row.ids \in Seq(Assignments) /\ Len(row.results) <= Len(row.ids)
      BY DEF Batch, RowAccounts
    <2>2. k \in 1..Len(row.ids)
      BY <2>1 DEF Batch
    <2>3. row.ids[k] \in Assignments
      BY <2>1, <2>2
    <2>4. row.status # "none"
      BY <1>1 DEF RowAccounts, Batch
    <2> QED BY <1>1, <2>3, <2>4 DEF RowAccounts
  <1> QED BY <1>1 DEF RowAccounts

-----------------------------------------------------------------------------
(* The queue and the workers' hands, one written at a time. *)

Queued(q) == q \in [Batches -> Batch]
Accounted(q, done, no) == \A r \in Batches : RowAccounts(r, q[r], done, no)
Held(hs, q, no) == \A w \in BillingWorkers : Holds(hs[w], q, no)

\* Nothing of the runs moves, and more is invoiced and refused.
LEMMA RunsGrow ==
  ASSUME NEW q, Queued(q), NEW hs, NEW done, NEW no, NEW done2, NEW no2, Accounted(q, done, no), Held(hs, q, no),
         no \subseteq no2, \A a \in Assignments, m \in Cycles : done[a][m] => done2[a][m]
  PROVE  Accounted(q, done2, no2) /\ Held(hs, q, no2)
  <1>1. ASSUME NEW r \in Batches PROVE RowAccounts(r, q[r], done2, no2)
    <2>1. q[r] \in Batch /\ RowAccounts(r, q[r], done, no)
      BY DEF Queued, Accounted
    <2> QED BY <2>1, AccountsGrow
  <1>2. ASSUME NEW w \in BillingWorkers PROVE Holds(hs[w], q, no2)
    <2>1. Holds(hs[w], q, no)
      BY DEF Held
    <2> QED BY <2>1 DEF Holds
  <1> QED BY <1>1, <1>2 DEF Accounted, Held

\* A run's row moves on, or comes into being.
QueueMoved(q, r, row) == [q EXCEPT ![r] = row]
LEMMA QueueMoves ==
  ASSUME NEW q, Queued(q), NEW done, NEW no, Accounted(q, done, no), NEW r \in Batches, NEW row \in Batch,
         RowAccounts(r, row, done, no)
  PROVE  Queued(QueueMoved(q, r, row)) /\ Accounted(QueueMoved(q, r, row), done, no)
  BY DEF Queued, Accounted, QueueMoved

\* What a worker holds stays true when a run moves on.
LEMMA HoldsOn ==
  ASSUME NEW q, Queued(q), NEW no, NEW hs, hs \in [BillingWorkers -> InHand], Held(hs, q, no),
         NEW r \in Batches, NEW row \in Batch, row.status # "none",
         q[r].status # "none" => row.cursor > q[r].cursor
  PROVE  Held(hs, QueueMoved(q, r, row), no)
  <1> DEFINE q2 == QueueMoved(q, r, row)
  <1>1. q2[r] = row /\ \A s \in Batches \ {r} : q2[s] = q[s]
    BY DEF Queued, QueueMoved
  <1> HIDE DEF q2
  <1>2. ASSUME NEW w \in BillingWorkers PROVE Holds(hs[w], q2, no)
    <2>1. hs[w] \in InHand /\ Holds(hs[w], q, no)
      BY DEF Held
    <2>2. CASE hs[w] = AtRest
      BY <2>2 DEF Holds
    <2>3. CASE hs[w] # AtRest
      <3>1. hs[w].run \in Batches
        BY <2>1, <2>3 DEF InHand
      <3>2. CASE hs[w].run # r
        BY <1>1, <2>1, <3>1, <3>2 DEF Holds
      <3>3. CASE hs[w].run = r
        <4>1. row.cursor > q[r].cursor
          BY <2>1, <2>3, <3>3 DEF Holds
        <4>2. q[r] \in Batch /\ q[r].cursor \in Nat /\ row.cursor \in Nat
          BY DEF Queued, Batch
        <4>3. ASSUME hs[w].stage \in {"step", "failed"}
              PROVE  hs[w].cursor < row.cursor
          <5>1. hs[w].cursor <= q[r].cursor
            BY <2>1, <2>3, <3>3, <4>3 DEF Holds
          <5>2. hs[w].cursor \in Nat
            BY <2>1, <2>3, <4>3 DEF InHand
          <5> QED BY <4>1, <4>2, <5>1, <5>2
        <4>4. ASSUME hs[w].stage \in {"step", "failed"}
              PROVE  hs[w].cursor <= row.cursor /\ hs[w].cursor # row.cursor
          <5>1. hs[w].cursor \in Nat
            BY <2>1, <2>3, <4>4 DEF InHand
          <5> QED BY <4>2, <4>3, <4>4, <5>1
        <4> QED BY <1>1, <3>3, <4>4 DEF Holds
      <3> QED BY <3>2, <3>3
    <2> QED BY <2>2, <2>3
  <1> QED BY <1>2 DEF Held, q2

\* A worker takes something else in hand.
HandMoved(hs, w, h) == [hs EXCEPT ![w] = h]
LEMMA HandMoves ==
  ASSUME NEW q, NEW no, NEW hs, hs \in [BillingWorkers -> InHand], Held(hs, q, no),
         NEW w \in BillingWorkers, NEW h \in InHand, Holds(h, q, no)
  PROVE  HandMoved(hs, w, h) \in [BillingWorkers -> InHand] /\ Held(HandMoved(hs, w, h), q, no)
  BY DEF Held, HandMoved

LEMMA RestHolds ==
  ASSUME NEW q, NEW no
  PROVE  AtRest \in InHand /\ Holds(AtRest, q, no)
  BY DEF InHand, Holds

RunsKept(q, hs, done, no) ==
  Queued(q) /\ hs \in [BillingWorkers -> InHand] /\ Accounted(q, done, no) /\ Held(hs, q, no)
LEMMA RunsParts ==
  RunsInv <=> /\ plan \in [Assignments -> [mode : {"none", "fixed", "usage", "one_time"}, from : Cycles \cup {0}, open : BOOLEAN]]
              /\ meter \in [Assignments -> SUBSET Cycles]
              /\ cycles \in [Assignments -> [Cycles -> BOOLEAN]]
              /\ RunsKept(queue, hand, cycles, refused)
  BY DEF RunsInv, RunsTyped, RunsKept, Queued, Accounted, Held

-----------------------------------------------------------------------------
(* The steps. *)

LEMMA RunsStart == RunsInit => RunsInv
  <1> SUFFICES ASSUME RunsInit PROVE RunsInv
    OBVIOUS
  <1>1. NoBatch \in Batch /\ NoBatch.status = "none"
    BY DEF NoBatch, Batch
  <1>2. ASSUME NEW r \in Batches PROVE RowAccounts(r, NoBatch, cycles, refused)
    BY DEF NoBatch, RowAccounts
  <1>3. \A w \in BillingWorkers : hand[w] = AtRest
    BY DEF RunsInit
  <1>4. RunsTyped
    BY <1>1, RestHolds DEF RunsInit, RunsTyped, Unplanned
  <1> QED BY <1>2, <1>3, <1>4, RestHolds DEF RunsInv, RunsInit

\* Plans and readings are nobody's but the generations'.
LEMMA PlansMove ==
  ASSUME RunsInv, NEW a \in Assignments, NEW m \in Cycles,
         \/ \E mode \in {"fixed", "usage", "one_time"} : Assign(a, mode, m)
         \/ RecordReading(a, m)
  PROVE  RunsInv'
  <1>1. RunsKept(queue, hand, cycles, refused) /\ cycles \in [Assignments -> [Cycles -> BOOLEAN]]
    BY RunsParts
  <1>2. UNCHANGED <<cycles, queue, hand, refused>>
    BY DEF Assign, RecordReading
  <1>3. RunsKept(queue, hand, cycles, refused)' /\ (cycles \in [Assignments -> [Cycles -> BOOLEAN]])'
    BY <1>1, <1>2
  <1>4. /\ plan \in [Assignments -> [mode : {"none", "fixed", "usage", "one_time"}, from : Cycles \cup {0}, open : BOOLEAN]]
        /\ meter \in [Assignments -> SUBSET Cycles]
    BY RunsParts
  <1>5. /\ plan' \in [Assignments -> [mode : {"none", "fixed", "usage", "one_time"}, from : Cycles \cup {0}, open : BOOLEAN]]
        /\ meter' \in [Assignments -> SUBSET Cycles]
    <2>1. CASE \E mode \in {"fixed", "usage", "one_time"} : Assign(a, mode, m)
      BY <1>4, <2>1 DEF Assign
    <2>2. CASE RecordReading(a, m)
      BY <1>4, <2>2 DEF RecordReading
    <2> QED BY <2>1, <2>2
  <1> QED BY <1>3, <1>5, RunsParts DEF RunsInv, RunsTyped, RunsKept, Queued, Accounted, Held

LEMMA SwitchKeeps ==
  ASSUME RunsInv, NEW a \in Assignments, Switch(a)
  PROVE  RunsInv'
  <1> DEFINE P == [mode : {"none", "fixed", "usage", "one_time"}, from : Cycles \cup {0}, open : BOOLEAN]
  <1>1. plan \in [Assignments -> P] /\ plan[a] \in P
    BY DEF RunsInv, RunsTyped
  <1>2. [plan[a] EXCEPT !.open = ~plan[a].open] \in P
    BY <1>1
  <1>3. plan' = [plan EXCEPT ![a] = [plan[a] EXCEPT !.open = ~plan[a].open]]
    BY <1>1 DEF Switch
  <1>4. plan' \in [Assignments -> P]
    BY <1>1, <1>2, <1>3
  <1>5. UNCHANGED <<meter, cycles, queue, hand, refused>>
    BY DEF Switch
  <1> QED BY <1>4, <1>5 DEF RunsInv, RunsTyped

\* An invoice of a cycle is made.
InvoicedIn(cs, a, m) == [cs EXCEPT ![a][m] = TRUE]
LEMMA CycleInvoiced ==
  ASSUME NEW cs, cs \in [Assignments -> [Cycles -> BOOLEAN]], NEW a \in Assignments, NEW m \in Cycles,
         NEW cs2, cs2 = InvoicedIn(cs, a, m)
  PROVE  /\ cs2 \in [Assignments -> [Cycles -> BOOLEAN]] /\ cs2[a][m]
         /\ \A b \in Assignments, n \in Cycles : cs[b][n] => cs2[b][n]
  BY DEF InvoicedIn

LEMMA GenerateKeeps ==
  ASSUME RunsInv, NEW a \in Assignments, NEW m \in Cycles, GenerateOne(a, m)
  PROVE  RunsInv'
  <1>1. RunsKept(queue, hand, cycles, refused) /\ cycles \in [Assignments -> [Cycles -> BOOLEAN]]
    BY RunsParts
  <1>2. /\ cycles' = InvoicedIn(cycles, a, m)
        /\ UNCHANGED <<plan, meter, queue, hand, refused>>
    BY DEF GenerateOne, Invoiced, InvoicedIn
  <1>3. /\ cycles' \in [Assignments -> [Cycles -> BOOLEAN]]
        /\ \A b \in Assignments, n \in Cycles : cycles[b][n] => cycles'[b][n]
    BY <1>1, <1>2, CycleInvoiced
  <1>4. RunsKept(queue, hand, cycles', refused)
    BY <1>1, <1>3, RunsGrow DEF RunsKept
  <1> QED BY <1>2, <1>3, <1>4 DEF RunsInv, RunsTyped, RunsKept, Queued, Accounted, Held

Started(st, cy, ids) == [NoBatch EXCEPT !.status = st, !.cycle = cy, !.ids = ids]
LEMMA RunStarts ==
  ASSUME NEW st, NEW cy, NEW ids
  PROVE  Started(st, cy, ids) = [status |-> st, cycle |-> cy, ids |-> ids, cursor |-> 0, results |-> <<>>]
  <1>1. [NoBatch EXCEPT !.status = st] = [status |-> st, cycle |-> 0, ids |-> <<>>, cursor |-> 0, results |-> <<>>]
    BY DEF NoBatch
  <1>2. [[status |-> st, cycle |-> 0, ids |-> <<>>, cursor |-> 0, results |-> <<>>] EXCEPT !.cycle = cy]
          = [status |-> st, cycle |-> cy, ids |-> <<>>, cursor |-> 0, results |-> <<>>]
    OBVIOUS
  <1>3. [[status |-> st, cycle |-> cy, ids |-> <<>>, cursor |-> 0, results |-> <<>>] EXCEPT !.ids = ids]
          = [status |-> st, cycle |-> cy, ids |-> ids, cursor |-> 0, results |-> <<>>]
    OBVIOUS
  <1> QED BY <1>1, <1>2, <1>3 DEF Started

LEMMA QueueKeeps ==
  ASSUME RunsInv, NEW r \in Batches, NEW m \in Cycles, NEW ids \in Selections, QueueRun(r, m, ids)
  PROVE  RunsInv'
  <1> DEFINE st == IF ids = <<>> THEN "completed" ELSE "queued"
             row == [status |-> st, cycle |-> m, ids |-> ids, cursor |-> 0, results |-> <<>>]
  <1>1. RunsKept(queue, hand, cycles, refused) /\ queue[r] = NoBatch
    BY RunsParts DEF QueueRun
  <1>2. queue' = QueueMoved(queue, r, row) /\ UNCHANGED <<plan, meter, cycles, hand, refused>>
    <2>1. Started(st, m, ids) = row
      BY RunStarts
    <2> HIDE DEF row
    <2> QED BY <2>1 DEF QueueRun, QueueMoved, Started
  <1>3. ids \in Seq(Assignments)
    BY SelectionTyped DEF Selections
  <1>4. row \in Batch
    BY <1>3 DEF Batch
  <1>5. RowAccounts(r, row, cycles, refused)
    BY <1>3 DEF RowAccounts
  <1>6. row.status # "none"
    OBVIOUS
  <1>7. queue[r].status = "none"
    BY <1>1 DEF NoBatch
  <1> HIDE DEF row
  <1>8. RunsKept(queue', hand, cycles, refused)
    BY <1>1, <1>2, <1>4, <1>5, <1>6, <1>7, QueueMoves, HoldsOn DEF RunsKept
  <1> QED BY <1>2, <1>8 DEF RunsInv, RunsTyped, RunsKept, Queued, Accounted, Held

LEMMA TakeKeeps ==
  ASSUME RunsInv, NEW w \in BillingWorkers, NEW r \in Batches, TakeUp(w, r)
  PROVE  RunsInv'
  <1> DEFINE h == [stage |-> "next", run |-> r]
  <1>1. RunsKept(queue, hand, cycles, refused) /\ queue[r].status # "none"
    BY RunsParts DEF TakeUp, Pending
  <1>2. hand' = HandMoved(hand, w, h) /\ UNCHANGED <<plan, meter, cycles, queue, refused>>
    BY DEF TakeUp, HandMoved
  <1>3. h \in InHand /\ Holds(h, queue, refused)
    BY <1>1 DEF InHand, Holds
  <1> HIDE DEF h
  <1>4. RunsKept(queue, hand', cycles, refused)
    BY <1>1, <1>2, <1>3, HandMoves DEF RunsKept
  <1> QED BY <1>2, <1>4 DEF RunsInv, RunsTyped, RunsKept, Queued, Accounted, Held

LEMMA RestKeeps ==
  ASSUME RunsInv, NEW w \in BillingWorkers, Rest(w), UNCHANGED <<plan, meter, cycles, queue, refused>>
  PROVE  RunsInv'
  <1>1. RunsKept(queue, hand, cycles, refused)
    BY RunsParts
  <1>2. hand' = HandMoved(hand, w, AtRest)
    BY DEF Rest, HandMoved
  <1>3. RunsKept(queue, hand', cycles, refused)
    BY <1>1, <1>2, RestHolds, HandMoves DEF RunsKept
  <1> QED BY <1>3 DEF RunsInv, RunsTyped, RunsKept, Queued, Accounted, Held

\* What a worker that is at work holds.
LEMMA AtWork ==
  ASSUME RunsInv, NEW w \in BillingWorkers, hand[w].stage \in {"next", "step", "failed"}
  PROVE  /\ hand[w] \in InHand /\ hand[w] # AtRest /\ hand[w].run \in Batches
         /\ queue[hand[w].run] \in Batch /\ queue[hand[w].run].status # "none"
         /\ RowAccounts(hand[w].run, queue[hand[w].run], cycles, refused)
         /\ Holds(hand[w], queue, refused)
  <1>1. hand[w] \in InHand /\ Holds(hand[w], queue, refused)
    BY DEF RunsInv, RunsTyped
  <1>2. hand[w] # AtRest
    BY DEF AtRest
  <1>3. hand[w].run \in Batches
    BY <1>1, <1>2 DEF InHand
  <1> QED BY <1>1, <1>2, <1>3 DEF RunsInv, RunsTyped, Holds

LEMMA LookKeeps ==
  ASSUME RunsInv, NEW w \in BillingWorkers, LookAtRun(w)
  PROVE  RunsInv'
  <1>1. CASE Rest(w)
    BY <1>1, RestKeeps DEF LookAtRun
  <1>2. CASE ~Rest(w)
    <2> DEFINE r == hand[w].run
               h == [stage |-> "step", run |-> r, cursor |-> queue[r].cursor]
    <2>1. r \in Batches /\ queue[r] \in Batch /\ queue[r].status # "none"
      BY AtWork DEF LookAtRun
    <2>2. hand' = HandMoved(hand, w, h) /\ UNCHANGED <<plan, meter, cycles, queue, refused>>
      BY <1>2, Zenon DEF LookAtRun, HandMoved
    <2>3. queue[r].cursor \in Nat
      BY <2>1 DEF Batch
    <2> HIDE DEF r
    <2>4. h \in InHand /\ Holds(h, queue, refused)
      BY <2>1, <2>3 DEF InHand, Holds, AtRest
    <2> HIDE DEF h
    <2>5. RunsKept(queue, hand, cycles, refused)
      BY RunsParts
    <2>6. RunsKept(queue, hand', cycles, refused)
      BY <2>2, <2>4, <2>5, HandMoves DEF RunsKept
    <2> QED BY <2>2, <2>6 DEF RunsInv, RunsTyped, RunsKept, Queued, Accounted, Held
  <1> QED BY <1>1, <1>2

\* A worker that has read a cursor goes on with it in hand.
LEMMA GoesOn ==
  ASSUME RunsInv, NEW w \in BillingWorkers, hand[w].stage \in {"step", "failed"},
         NEW stage \in {"next", "failed"}, Go(w, stage)
  PROVE  \E h \in InHand : /\ h = [stage |-> stage, run |-> hand[w].run, cursor |-> hand[w].cursor]
                           /\ hand' = HandMoved(hand, w, h)
  <1>1. hand[w] \in InHand /\ hand \in [BillingWorkers -> InHand]
    BY DEF RunsInv, RunsTyped
  <1>2. PICK s, r, c : hand[w] = [stage |-> s, run |-> r, cursor |-> c] /\ r \in Batches /\ c \in Nat
    BY <1>1 DEF InHand, AtRest
  <1> DEFINE h == [stage |-> stage, run |-> r, cursor |-> c]
  <1>3. [[stage |-> s, run |-> r, cursor |-> c] EXCEPT !.stage = stage] = h
    OBVIOUS
  <1>4. hand' = [hand EXCEPT ![w] = [hand[w] EXCEPT !.stage = stage]]
    BY <1>1 DEF Go
  <1>5. hand' = HandMoved(hand, w, h)
    BY <1>2, <1>3, <1>4 DEF HandMoved
  <1>6. h \in InHand
    BY <1>2 DEF InHand
  <1> QED BY <1>2, <1>5, <1>6

\* A run that is not completed has an assignment next.
LEMMA NextOfRun ==
  ASSUME NEW r, NEW row \in Batch, NEW done, NEW no, RowAccounts(r, row, done, no),
         row.status # "none", row.status # "completed"
  PROVE  /\ row.status \in {"queued", "running"} /\ row.cycle \in Cycles
         /\ row.cursor \in Nat /\ row.cursor < Len(row.ids) /\ row.ids[row.cursor + 1] \in Assignments
  <1>1. row.cursor \in Nat /\ row.ids \in Seq(Assignments) /\ Len(row.ids) \in Nat
    BY DEF Batch
  <1>2. row.cursor < Len(row.ids)
    BY <1>1 DEF RowAccounts
  <1>3. row.cursor + 1 \in 1..Len(row.ids)
    BY <1>1, <1>2
  <1> QED BY <1>1, <1>2, <1>3 DEF RowAccounts, Batch

LEMMA StepKeeps ==
  ASSUME RunsInv, NEW w \in BillingWorkers, StepRun(w)
  PROVE  RunsInv'
  <1> DEFINE r == hand[w].run
             row == queue[r]
             a == row.ids[row.cursor + 1]
  <1>1. /\ hand[w].stage = "step" /\ r \in Batches /\ row \in Batch /\ row.status # "none"
        /\ RowAccounts(r, row, cycles, refused)
    BY AtWork DEF StepRun
  <1>2. /\ RunsKept(queue, hand, cycles, refused) /\ cycles \in [Assignments -> [Cycles -> BOOLEAN]]
        /\ UNCHANGED <<plan, meter>>
    BY RunsParts DEF StepRun
  <1>3. CASE row.status = "completed"
    BY <1>3, RestKeeps DEF StepRun
  <1>4. ASSUME row.status # "completed", Generates(a, row.cycle), Invoiced(a, row.cycle), UNCHANGED refused,
               queue' = [queue EXCEPT ![r] = Counted(row, "invoiced")], Rest(w) \/ Go(w, "next")
        PROVE  RunsInv'
    <2>1. row.status \in {"queued", "running"} /\ row.cycle \in Cycles /\ row.cursor \in Nat /\ a \in Assignments
      BY <1>1, <1>4, NextOfRun
    <2>2. /\ cycles' \in [Assignments -> [Cycles -> BOOLEAN]] /\ cycles'[a][row.cycle]
          /\ \A b \in Assignments, n \in Cycles : cycles[b][n] => cycles'[b][n]
      <3>1. cycles' = InvoicedIn(cycles, a, row.cycle)
        BY <1>4 DEF Invoiced, InvoicedIn
      <3> HIDE DEF row, a
      <3> QED BY <1>2, <2>1, <3>1, CycleInvoiced
    <2>3. RunsKept(queue, hand, cycles', refused)
      BY <1>2, <2>2, RunsGrow DEF RunsKept
    <2>4. RowAccounts(r, row, cycles', refused)
      BY <1>1, <2>3 DEF RunsKept, Accounted
    <2> DEFINE row2 == Counted(row, "invoiced")
    <2>5. /\ row2 \in Batch /\ RowAccounts(r, row2, cycles', refused)
          /\ row2.status # "none" /\ row2.cursor = row.cursor + 1
      BY <1>1, <2>1, <2>2, <2>4, CountedAccounts
    <2>6. queue' = QueueMoved(queue, r, row2)
      BY <1>4 DEF QueueMoved
    <2> HIDE DEF row2
    <2>7. row2.cursor > row.cursor
      BY <2>1, <2>5
    <2>8. RunsKept(queue', hand, cycles', refused)
      BY <1>1, <2>3, <2>5, <2>6, <2>7, QueueMoves, HoldsOn DEF RunsKept
    <2>9. queue'[r].status # "none"
      BY <1>1, <1>2, <2>5, <2>6 DEF QueueMoved, RunsKept, Queued
    <2>10. \E h \in InHand : hand' = HandMoved(hand, w, h) /\ Holds(h, queue', refused)
      <3>1. CASE Rest(w)
        BY <3>1, RestHolds DEF Rest, HandMoved
      <3>2. CASE Go(w, "next")
        <4>1. PICK h \in InHand : /\ h = [stage |-> "next", run |-> r, cursor |-> hand[w].cursor]
                                  /\ hand' = HandMoved(hand, w, h)
          BY <1>1, <3>2, GoesOn
        <4>2. h.stage = "next" /\ h.run = r
          BY <4>1
        <4>3. Holds(h, queue', refused)
          BY <2>9, <4>2 DEF Holds
        <4> QED BY <4>1, <4>3
      <3> QED BY <1>4, <3>1, <3>2
    <2>11. RunsKept(queue', hand', cycles', refused)
      BY <2>8, <2>10, HandMoves DEF RunsKept
    <2> QED BY <1>2, <1>4, <2>2, <2>11 DEF RunsInv, RunsTyped, RunsKept, Queued, Accounted, Held
  <1>5. ASSUME row.status # "completed", refused' = refused \cup {<<r, a>>}, Go(w, "failed"),
               UNCHANGED <<cycles, queue>>
        PROVE  RunsInv'
    <2>1. row.cursor \in Nat /\ row.cursor < Len(row.ids)
      BY <1>1, <1>5, NextOfRun
    <2>2. RunsKept(queue, hand, cycles, refused')
      BY <1>2, <1>5, RunsGrow DEF RunsKept
    <2>3. PICK h \in InHand : /\ h = [stage |-> "failed", run |-> r, cursor |-> hand[w].cursor]
                              /\ hand' = HandMoved(hand, w, h)
      BY <1>1, <1>5, GoesOn
    <2>4. h.stage = "failed" /\ h.run = r /\ h.cursor = hand[w].cursor
      BY <2>3
    <2>5. hand[w].cursor <= row.cursor
      BY <1>1, AtWork DEF Holds
    <2>6. Holds(h, queue, refused')
      BY <1>1, <1>5, <2>1, <2>4, <2>5 DEF Holds
    <2>7. RunsKept(queue, hand', cycles, refused')
      BY <2>2, <2>3, <2>6, HandMoves DEF RunsKept
    <2> QED BY <1>2, <1>5, <2>7 DEF RunsInv, RunsTyped, RunsKept, Queued, Accounted, Held
  <1> QED BY <1>3, <1>4, <1>5 DEF StepRun

LEMMA RefusalKeeps ==
  ASSUME RunsInv, NEW w \in BillingWorkers, RecordRefusal(w)
  PROVE  RunsInv'
  <1> DEFINE r == hand[w].run
             row == queue[r]
             row2 == Counted(row, "refused")
  <1>1. /\ hand[w].stage = "failed" /\ r \in Batches /\ row \in Batch /\ row.status # "none"
        /\ RowAccounts(r, row, cycles, refused) /\ Holds(hand[w], queue, refused) /\ hand[w] # AtRest
    BY AtWork DEF RecordRefusal
  <1>2. RunsKept(queue, hand, cycles, refused) /\ UNCHANGED <<plan, meter, cycles, refused>>
    BY RunsParts DEF RecordRefusal
  <1>3. PICK h \in InHand : /\ h = [stage |-> "next", run |-> r, cursor |-> hand[w].cursor]
                            /\ hand' = HandMoved(hand, w, h)
    BY <1>1, GoesOn DEF RecordRefusal
  <1>4. h.stage = "next" /\ h.run = r
    BY <1>3
  <1>5. RunsKept(queue', hand, cycles, refused) /\ queue'[r].status # "none"
    <2>1. CASE ~SameCursor(w)
      BY <1>1, <1>2, <2>1 DEF RecordRefusal
    <2>2. CASE SameCursor(w)
      <3>1. /\ hand[w].cursor = row.cursor /\ row.cursor < Len(row.ids)
            /\ <<r, row.ids[row.cursor + 1]>> \in refused
        BY <1>1, <2>2 DEF SameCursor, Holds
      <3>2. row.cursor \in Nat /\ row.status # "completed"
        <4>1. row.cursor \in Nat /\ Len(row.ids) \in Nat
          BY <1>1 DEF Batch
        <4>2. row.cursor # Len(row.ids)
          BY <3>1, <4>1
        <4> HIDE DEF row
        <4> QED BY <1>1, <4>1, <4>2 DEF RowAccounts
      <3>3. row.status \in {"queued", "running"}
        BY <1>1, <3>2, NextOfRun
      <3>4. /\ row2 \in Batch /\ RowAccounts(r, row2, cycles, refused)
            /\ row2.status # "none" /\ row2.cursor = row.cursor + 1
        BY <1>1, <3>1, <3>3, CountedAccounts
      <3>5. queue' = QueueMoved(queue, r, row2)
        BY <1>1, <2>2 DEF RecordRefusal, QueueMoved
      <3> HIDE DEF row2
      <3>6. row2.cursor > row.cursor
        BY <3>2, <3>4
      <3>7. RunsKept(queue', hand, cycles, refused)
        BY <1>1, <1>2, <3>4, <3>5, <3>6, QueueMoves, HoldsOn DEF RunsKept
      <3> QED BY <1>1, <1>2, <3>4, <3>5, <3>7 DEF QueueMoved, RunsKept, Queued
    <2> QED BY <2>1, <2>2
  <1>6. Holds(h, queue', refused)
    BY <1>4, <1>5 DEF Holds
  <1>7. RunsKept(queue', hand', cycles, refused)
    BY <1>3, <1>5, <1>6, HandMoves DEF RunsKept
  <1> QED BY <1>2, <1>7, RunsParts DEF RunsInv, RunsTyped, RunsKept, Queued, Accounted, Held

LEMMA RunsStep == RunsInv /\ [RunsNext]_runVars => RunsInv'
  <1> SUFFICES ASSUME RunsInv, [RunsNext]_runVars PROVE RunsInv'
    OBVIOUS
  <1>1. CASE UNCHANGED runVars \/ SwitchAccess
    BY <1>1 DEF runVars, SwitchAccess, RunsInv, RunsTyped
  <1>2. ASSUME NEW a \in Assignments, NEW m \in Cycles,
               \/ GenerateOne(a, m) \/ RecordReading(a, m)
               \/ \E mode \in {"fixed", "usage", "one_time"} : Assign(a, mode, m)
        PROVE  RunsInv'
    BY <1>2, GenerateKeeps, PlansMove
  <1>3. ASSUME NEW a \in Assignments, Switch(a)
        PROVE  RunsInv'
    BY <1>3, SwitchKeeps
  <1>4. ASSUME NEW r \in Batches, NEW m \in Cycles, NEW ids \in Selections, QueueRun(r, m, ids)
        PROVE  RunsInv'
    BY <1>4, QueueKeeps
  <1>5. ASSUME NEW w \in BillingWorkers, NEW r \in Batches, TakeUp(w, r)
        PROVE  RunsInv'
    BY <1>5, TakeKeeps
  <1>6. ASSUME NEW w \in BillingWorkers, LookAtRun(w) \/ StepRun(w) \/ RecordRefusal(w) \/ BreakOff(w)
        PROVE  RunsInv'
    BY <1>6, LookKeeps, StepKeeps, RefusalKeeps, RestKeeps DEF BreakOff
  <1> QED BY <1>1, <1>2, <1>3, <1>4, <1>5, <1>6 DEF RunsNext

LEMMA RunsFollow == RunsInv => RunsTypeOK /\ RunAccountsForAll
  <1> SUFFICES ASSUME RunsInv PROVE RunsTypeOK /\ RunAccountsForAll
    OBVIOUS
  <1>1. RunsTypeOK
    BY DEF RunsInv, RunsTyped, RunsTypeOK, Batch, InHand
  <1>2. RunAccountsForAll
    BY DEF RunsInv, RowAccounts, RunAccountsForAll
  <1> QED BY <1>1, <1>2

\* An invoice run accounts for each of its assignments once and in order,
\* whichever workers processed it and died, and whatever was generated,
\* read and switched off meanwhile (processRun, billing.service.ts).
THEOREM RunsAreSound == RunsSpec => [](RunsTypeOK /\ RunAccountsForAll)
  <1>1. RunsInit => RunsInv
    BY RunsStart
  <1>2. RunsInv /\ [RunsNext]_runVars => RunsInv'
    BY RunsStep
  <1>3. RunsInv => RunsTypeOK /\ RunAccountsForAll
    BY RunsFollow
  <1> QED BY <1>1, <1>2, <1>3, PTL DEF RunsSpec

-----------------------------------------------------------------------------
(* Customers' money.  The argument: whatever is allocated, released,       *)
(* refunded or adjusted, what the statement says an invoice and a payment  *)
(* came to and what their rows say differ by sums that cancel out.         *)

BillRow ==
  [status : {"issued", "cancelled"}, customer : Customers, total : Sums, debit : Nat,
   late : {0, 1}, credit : Nat, paid : Nat, fee : {0, 1}, charged : BOOLEAN]
PaidRow ==
  [status : {"received"}, customer : Customers, amount : Sums, remaining : Nat, refunded : Nat]
AdjustedRow ==
  [status : {"pending", "approved", "rejected"}, by : Clerks, amount : 0..MaxMoney,
   kind : {"credit", "debit", "cancel", "refund"}, of : Bills \cup Collections]

GoodBill(b) ==
  /\ b \in BillRow /\ b.debit <= MaxMoney /\ b.credit <= MaxMoney
  /\ NetTotal(b) \in 0..MaxMoney /\ Outstanding(b) >= 0
  /\ b.status = "cancelled" => b.paid = 0
  /\ ~b.charged => b.late = 0
BillsOK(bi) == DOMAIN bi = Bills /\ \A i \in Bills : bi[i] = NoRow \/ GoodBill(bi[i])
PaidOK(re) == DOMAIN re = Collections /\ \A p \in Collections : re[p] = NoRow \/ re[p] \in PaidRow

\* Who a row is of, for the rows that are on file.
There(row) == row.status # "none"
OwnShare(bi, re, sh) ==
  /\ sh \in [Collections -> [Bills -> Nat]]
  /\ \A p \in Collections, i \in Bills :
       sh[p][i] > 0 => There(re[p]) /\ There(bi[i]) /\ re[p].customer = bi[i].customer
Column(sh, i) == [p \in Collections |-> sh[p][i]]
Parts1(re, sh) ==
  \A p \in Collections :
    There(re[p]) => re[p].amount = re[p].remaining + re[p].refunded + SumOver(sh[p], Bills)
Parts2(bi, sh) == \A i \in Bills : There(bi[i]) => bi[i].paid = SumOver(Column(sh, i), Collections)

KeptOf(row) == IF There(row) THEN row.amount - row.refunded ELSE 0
Kept(re) == [p \in Collections |-> KeptOf(re[p])]

\* What the entries of a row came to beyond what the row says today.
BillGapOf(row, c) ==
  IF There(row) /\ row.customer = c THEN row.total + row.late - Outstanding(row) ELSE 0
BillGap(bi, c) == [i \in Bills |-> BillGapOf(bi[i], c)]
PaidGapOf(row, c) == IF There(row) /\ row.customer = c THEN row.amount - row.remaining ELSE 0
PaidGap(re, c) == [p \in Collections |-> PaidGapOf(re[p], c)]

Owner(bi, re, row) == IF row.kind = "refund" THEN re[row.of].customer ELSE bi[row.of].customer
Aimed(bi, re, row) ==
  /\ row \in AdjustedRow
  /\ IF row.kind = "refund" THEN row.of \in Collections /\ There(re[row.of])
                            ELSE row.of \in Bills /\ There(bi[row.of])
AdjustedOK(bi, re, ad) ==
  DOMAIN ad = Adjustments /\ \A d \in Adjustments : ad[d] = NoRow \/ Aimed(bi, re, ad[d])
Signed(row) == IF row.kind \in {"refund", "debit"} THEN row.amount ELSE -row.amount
WorthOf(bi, re, row, c) ==
  IF row.status = "approved" /\ Owner(bi, re, row) = c THEN Signed(row) ELSE 0
Worth(bi, re, ad, c) == [d \in Adjustments |-> WorthOf(bi, re, ad[d], c)]

Agreed(bi, re, ad) ==
  \A c \in Customers :
    SumOver(BillGap(bi, c), Bills) + SumOver(Worth(bi, re, ad, c), Adjustments)
      = SumOver(PaidGap(re, c), Collections)

BooksOK(bi, re, sh, ad, t) ==
  /\ BillsOK(bi) /\ PaidOK(re) /\ OwnShare(bi, re, sh) /\ Parts1(re, sh) /\ Parts2(bi, sh)
  /\ t = SumOver(Kept(re), Collections) /\ AdjustedOK(bi, re, ad) /\ Agreed(bi, re, ad)
BillingInv ==
  automatic \in BOOLEAN /\ till \in 0..MaxMoney /\ BooksOK(billed, received, share, adjusted, till)

LEMMA BillingFacts ==
  /\ IsFiniteSet(Bills) /\ IsFiniteSet(Collections) /\ IsFiniteSet(Adjustments)
  /\ Sums \subseteq 1..MaxMoney /\ MaxMoney \in Nat /\ \A s \in Sums : s \in Nat /\ s > 0 /\ s <= MaxMoney
  BY BillingAssumption

LEMMA NoRowIsNone == NoRow.status = "none" /\ ~There(NoRow)
  BY DEF NoRow, There

LEMMA BillNumbers ==
  ASSUME NEW b, GoodBill(b)
  PROVE  /\ b.total \in Nat /\ b.debit \in Nat /\ b.late \in Nat /\ b.credit \in Nat /\ b.paid \in Nat
         /\ NetTotal(b) \in Nat /\ Outstanding(b) \in Nat /\ There(b) /\ b.customer \in Customers
         /\ b.status = "issued" => Outstanding(b) = NetTotal(b) - b.paid
         /\ b.status \in {"issued", "cancelled"}
  <1>1. /\ b.total \in Nat /\ b.debit \in Nat /\ b.late \in Nat /\ b.credit \in Nat /\ b.paid \in Nat
        /\ NetTotal(b) \in Nat /\ b.customer \in Customers /\ b.status \in {"issued", "cancelled"}
    <2>1. b \in BillRow /\ NetTotal(b) \in 0..MaxMoney
      BY DEF GoodBill
    <2>2. b.total \in Sums /\ b.late \in {0, 1}
      BY <2>1 DEF BillRow
    <2>3. b.total \in Nat
      BY <2>2, BillingFacts
    <2>4. NetTotal(b) \in Nat
      BY <2>1, BillingFacts
    <2>5. b.late \in Nat
      BY <2>2
    <2> QED BY <2>1, <2>3, <2>4, <2>5 DEF BillRow
  <1>2. Outstanding(b) = IF b.status = "issued" THEN NetTotal(b) - b.paid ELSE 0
    BY DEF Outstanding
  <1>3. Outstanding(b) \in Nat
    BY <1>1, <1>2 DEF GoodBill
  <1> QED BY <1>1, <1>2, <1>3 DEF There

\* How a bill's row may change.
PaidMore(b, n) == [b EXCEPT !.paid = @ + n]
LEMMA BillPaid ==
  ASSUME NEW b, GoodBill(b), b.status = "issued", NEW n \in Nat, n <= Outstanding(b)
  PROVE  /\ GoodBill(PaidMore(b, n)) /\ There(PaidMore(b, n)) /\ PaidMore(b, n).customer = b.customer
         /\ PaidMore(b, n).paid = b.paid + n /\ PaidMore(b, n).status = "issued"
         /\ Outstanding(PaidMore(b, n)) = Outstanding(b) - n
         /\ \A c : BillGapOf(PaidMore(b, n), c) = BillGapOf(b, c) + (IF b.customer = c THEN n ELSE 0)
  <1> DEFINE e == PaidMore(b, n)
  <1>1. /\ b.total \in Nat /\ b.debit \in Nat /\ b.late \in Nat /\ b.credit \in Nat /\ b.paid \in Nat
        /\ NetTotal(b) \in Nat /\ Outstanding(b) = NetTotal(b) - b.paid /\ Outstanding(b) \in Nat /\ b \in BillRow
    BY BillNumbers DEF GoodBill
  <1>2. b.paid + n \in Nat
    BY <1>1
  <1>3. e \in BillRow
    BY <1>1, <1>2 DEF BillRow, PaidMore
  <1>4. /\ e.status = b.status /\ e.customer = b.customer /\ e.total = b.total /\ e.debit = b.debit
        /\ e.late = b.late /\ e.credit = b.credit /\ e.paid = b.paid + n /\ e.charged = b.charged
    BY <1>1 DEF BillRow, PaidMore
  <1> HIDE DEF e
  <1>5. NetTotal(e) = NetTotal(b)
    BY <1>4 DEF NetTotal
  <1>6. Outstanding(e) = Outstanding(b) - n
    BY <1>1, <1>4, <1>5 DEF Outstanding
  <1>7. GoodBill(e)
    BY <1>1, <1>3, <1>4, <1>5, <1>6 DEF GoodBill
  <1>8. There(e) /\ There(b)
    BY <1>4 DEF There
  <1>9. ASSUME NEW c PROVE BillGapOf(e, c) = BillGapOf(b, c) + (IF b.customer = c THEN n ELSE 0)
    BY <1>1, <1>4, <1>6, <1>8 DEF BillGapOf
  <1> QED BY <1>4, <1>6, <1>7, <1>8, <1>9 DEF e

DebitedBy(b, n) == [b EXCEPT !.debit = @ + n]
LEMMA BillDebited ==
  ASSUME NEW b, GoodBill(b), b.status = "issued", NEW n \in Nat,
         NetTotal(b) + n <= MaxMoney, b.debit + n <= MaxMoney
  PROVE  /\ GoodBill(DebitedBy(b, n)) /\ There(DebitedBy(b, n)) /\ DebitedBy(b, n).customer = b.customer
         /\ DebitedBy(b, n).paid = b.paid
         /\ \A c : BillGapOf(DebitedBy(b, n), c) = BillGapOf(b, c) - (IF b.customer = c THEN n ELSE 0)
  <1> DEFINE e == DebitedBy(b, n)
  <1>1. /\ b.total \in Nat /\ b.debit \in Nat /\ b.late \in Nat /\ b.credit \in Nat /\ b.paid \in Nat
        /\ NetTotal(b) \in Nat /\ Outstanding(b) = NetTotal(b) - b.paid /\ Outstanding(b) \in Nat /\ b \in BillRow
    BY BillNumbers DEF GoodBill
  <1>2. b.debit + n \in Nat
    BY <1>1
  <1>3. e \in BillRow
    BY <1>1, <1>2 DEF BillRow, DebitedBy
  <1>4. /\ e.status = b.status /\ e.customer = b.customer /\ e.total = b.total /\ e.debit = b.debit + n
        /\ e.late = b.late /\ e.credit = b.credit /\ e.paid = b.paid /\ e.charged = b.charged
    BY <1>1 DEF BillRow, DebitedBy
  <1> HIDE DEF e
  <1>5. NetTotal(e) = NetTotal(b) + n
    BY <1>1, <1>4 DEF NetTotal
  <1>6. Outstanding(e) = Outstanding(b) + n
    BY <1>1, <1>4, <1>5 DEF Outstanding
  <1>7. NetTotal(e) \in 0..MaxMoney
    BY <1>1, <1>5, BillingFacts
  <1>8. GoodBill(e)
    BY <1>1, <1>3, <1>4, <1>6, <1>7 DEF GoodBill
  <1>9. There(e) /\ There(b)
    BY <1>4 DEF There
  <1>10. ASSUME NEW c PROVE BillGapOf(e, c) = BillGapOf(b, c) - (IF b.customer = c THEN n ELSE 0)
    BY <1>1, <1>4, <1>6, <1>9 DEF BillGapOf
  <1> QED BY <1>4, <1>8, <1>9, <1>10 DEF e

CreditedBy(b, n) == [b EXCEPT !.credit = @ + n]
LEMMA BillCredited ==
  ASSUME NEW b, GoodBill(b), b.status = "issued", NEW n \in Nat,
         n <= Outstanding(b), b.credit + n <= MaxMoney
  PROVE  /\ GoodBill(CreditedBy(b, n)) /\ There(CreditedBy(b, n)) /\ CreditedBy(b, n).customer = b.customer
         /\ CreditedBy(b, n).paid = b.paid
         /\ \A c : BillGapOf(CreditedBy(b, n), c) = BillGapOf(b, c) + (IF b.customer = c THEN n ELSE 0)
  <1> DEFINE e == CreditedBy(b, n)
  <1>1. /\ b.total \in Nat /\ b.debit \in Nat /\ b.late \in Nat /\ b.credit \in Nat /\ b.paid \in Nat
        /\ NetTotal(b) \in Nat /\ Outstanding(b) = NetTotal(b) - b.paid /\ Outstanding(b) \in Nat /\ b \in BillRow
    BY BillNumbers DEF GoodBill
  <1>2. b.credit + n \in Nat
    BY <1>1
  <1>3. e \in BillRow
    BY <1>1, <1>2 DEF BillRow, CreditedBy
  <1>4. /\ e.status = b.status /\ e.customer = b.customer /\ e.total = b.total /\ e.debit = b.debit
        /\ e.late = b.late /\ e.credit = b.credit + n /\ e.paid = b.paid /\ e.charged = b.charged
    BY <1>1 DEF BillRow, CreditedBy
  <1> HIDE DEF e
  <1>5. NetTotal(e) = NetTotal(b) - n
    BY <1>1, <1>4 DEF NetTotal
  <1>6. Outstanding(e) = Outstanding(b) - n
    BY <1>1, <1>4, <1>5 DEF Outstanding
  <1>7. NetTotal(e) \in 0..MaxMoney
    <2>1. NetTotal(b) <= MaxMoney
      BY DEF GoodBill
    <2> QED BY <1>1, <1>5, <2>1, BillingFacts
  <1>8. GoodBill(e)
    BY <1>1, <1>3, <1>4, <1>6, <1>7 DEF GoodBill
  <1>9. There(e) /\ There(b)
    BY <1>4 DEF There
  <1>10. ASSUME NEW c PROVE BillGapOf(e, c) = BillGapOf(b, c) + (IF b.customer = c THEN n ELSE 0)
    BY <1>1, <1>4, <1>6, <1>9 DEF BillGapOf
  <1> QED BY <1>4, <1>8, <1>9, <1>10 DEF e

\* The late fee moves what the entries say and what the row says alike.
LateFeeOn(b) == [b EXCEPT !.late = b.fee, !.charged = TRUE]
LEMMA BillCharged ==
  ASSUME NEW b, GoodBill(b), b.status = "issued", ~b.charged, NetTotal(b) + b.fee <= MaxMoney
  PROVE  /\ GoodBill(LateFeeOn(b)) /\ There(LateFeeOn(b)) /\ LateFeeOn(b).customer = b.customer
         /\ LateFeeOn(b).paid = b.paid
         /\ \A c : BillGapOf(LateFeeOn(b), c) = BillGapOf(b, c)
  <1> DEFINE e == LateFeeOn(b)
  <1>1. /\ b.total \in Nat /\ b.debit \in Nat /\ b.late \in Nat /\ b.credit \in Nat /\ b.paid \in Nat
        /\ NetTotal(b) \in Nat /\ Outstanding(b) = NetTotal(b) - b.paid /\ Outstanding(b) \in Nat /\ b \in BillRow
        /\ b.late = 0
    BY BillNumbers DEF GoodBill
  <1>2. b.fee \in {0, 1} /\ b.fee \in Nat
    BY <1>1 DEF BillRow
  <1>3. e \in BillRow
    BY <1>1, <1>2 DEF BillRow, LateFeeOn
  <1>4. /\ e.status = b.status /\ e.customer = b.customer /\ e.total = b.total /\ e.debit = b.debit
        /\ e.late = b.fee /\ e.credit = b.credit /\ e.paid = b.paid /\ e.charged
    BY <1>1 DEF BillRow, LateFeeOn
  <1> HIDE DEF e
  <1>5. NetTotal(e) = NetTotal(b) + b.fee
    BY <1>1, <1>2, <1>4 DEF NetTotal
  <1>6. Outstanding(e) = Outstanding(b) + b.fee
    BY <1>1, <1>2, <1>4, <1>5 DEF Outstanding
  <1>7. NetTotal(e) \in 0..MaxMoney
    BY <1>1, <1>2, <1>5, BillingFacts
  <1>8. GoodBill(e)
    <2>1. Outstanding(e) >= 0 /\ e.debit <= MaxMoney /\ e.credit <= MaxMoney /\ e.status # "cancelled"
      BY <1>1, <1>2, <1>4, <1>6 DEF GoodBill
    <2> QED BY <1>3, <1>4, <1>7, <2>1 DEF GoodBill
  <1>9. There(e) /\ There(b)
    BY <1>4 DEF There
  <1>10. ASSUME NEW c PROVE BillGapOf(e, c) = BillGapOf(b, c)
    <2>1. e.total + e.late - Outstanding(e) = b.total + b.late - Outstanding(b)
      BY <1>1, <1>2, <1>4, <1>6
    <2> QED BY <1>4, <1>9, <2>1 DEF BillGapOf
  <1> QED BY <1>4, <1>8, <1>9, <1>10 DEF e

Cancelled(b) == [b EXCEPT !.status = "cancelled", !.paid = 0]
LEMMA BillCancelled ==
  ASSUME NEW b, GoodBill(b), b.status = "issued"
  PROVE  /\ GoodBill(Cancelled(b)) /\ There(Cancelled(b)) /\ Cancelled(b).customer = b.customer
         /\ Cancelled(b).paid = 0
         /\ \A c : BillGapOf(Cancelled(b), c)
                     = BillGapOf(b, c) + (IF b.customer = c THEN NetTotal(b) - b.paid ELSE 0)
  <1> DEFINE e == Cancelled(b)
  <1>1. /\ b.total \in Nat /\ b.debit \in Nat /\ b.late \in Nat /\ b.credit \in Nat /\ b.paid \in Nat
        /\ NetTotal(b) \in Nat /\ Outstanding(b) = NetTotal(b) - b.paid /\ Outstanding(b) \in Nat /\ b \in BillRow
    BY BillNumbers DEF GoodBill
  <1>3. e \in BillRow
    BY <1>1 DEF BillRow, Cancelled
  <1>4. /\ e.status = "cancelled" /\ e.customer = b.customer /\ e.total = b.total /\ e.debit = b.debit
        /\ e.late = b.late /\ e.credit = b.credit /\ e.paid = 0 /\ e.charged = b.charged
    BY <1>1 DEF BillRow, Cancelled
  <1> HIDE DEF e
  <1>5. NetTotal(e) = NetTotal(b) /\ Outstanding(e) = 0
    BY <1>4 DEF NetTotal, Outstanding
  <1>6. GoodBill(e)
    BY <1>1, <1>3, <1>4, <1>5 DEF GoodBill
  <1>7. There(e) /\ There(b)
    BY <1>4 DEF There
  <1>8. ASSUME NEW c
        PROVE  BillGapOf(e, c) = BillGapOf(b, c) + (IF b.customer = c THEN NetTotal(b) - b.paid ELSE 0)
    BY <1>1, <1>4, <1>5, <1>7 DEF BillGapOf
  <1> QED BY <1>4, <1>6, <1>7, <1>8 DEF e

NewBill(c, total, fee) ==
  [status |-> "issued", customer |-> c, total |-> total, debit |-> 0, late |-> 0,
   credit |-> 0, paid |-> 0, fee |-> fee, charged |-> FALSE]
LEMMA BillIsNew ==
  ASSUME NEW cu \in Customers, NEW total \in Sums, NEW fee \in {0, 1}
  PROVE  /\ GoodBill(NewBill(cu, total, fee)) /\ There(NewBill(cu, total, fee))
         /\ NewBill(cu, total, fee).paid = 0
         /\ \A c : BillGapOf(NewBill(cu, total, fee), c) = 0
  <1> DEFINE e == NewBill(cu, total, fee)
  <1>1. total \in Nat /\ total <= MaxMoney /\ MaxMoney \in Nat
    BY BillingFacts
  <1>2. e \in BillRow
    BY DEF BillRow, NewBill
  <1>3. /\ e.status = "issued" /\ e.total = total /\ e.debit = 0
        /\ e.late = 0 /\ e.credit = 0 /\ e.paid = 0
    BY DEF NewBill
  <1> HIDE DEF e
  <1>4. NetTotal(e) = total /\ Outstanding(e) = total
    BY <1>1, <1>3 DEF NetTotal, Outstanding
  <1>5. GoodBill(e)
    BY <1>1, <1>2, <1>3, <1>4 DEF GoodBill
  <1>6. There(e)
    BY <1>3 DEF There
  <1>7. ASSUME NEW c PROVE BillGapOf(e, c) = 0
    BY <1>1, <1>3, <1>4 DEF BillGapOf
  <1> QED BY <1>3, <1>5, <1>6, <1>7 DEF e

-----------------------------------------------------------------------------
(* Payments' rows. *)

LEMMA PaidNumbers ==
  ASSUME NEW p \in PaidRow
  PROVE  /\ p.amount \in Nat /\ p.amount <= MaxMoney /\ p.remaining \in Nat /\ p.refunded \in Nat
         /\ There(p) /\ p.customer \in Customers
  <1>1. p.amount \in Sums
    BY DEF PaidRow
  <1>2. p.amount \in Nat /\ p.amount <= MaxMoney
    BY <1>1, BillingFacts
  <1> QED BY <1>2 DEF PaidRow, There

\* What a payment still holds changes; so may what was refunded of it.
Holding(p, left, back) == [p EXCEPT !.remaining = left, !.refunded = back]
LEMMA PaidHolds ==
  ASSUME NEW p \in PaidRow, NEW left \in Nat, NEW back \in Nat
  PROVE  /\ Holding(p, left, back) \in PaidRow /\ There(Holding(p, left, back))
         /\ Holding(p, left, back).customer = p.customer /\ Holding(p, left, back).amount = p.amount
         /\ Holding(p, left, back).remaining = left /\ Holding(p, left, back).refunded = back
         /\ KeptOf(Holding(p, left, back)) = p.amount - back
         /\ KeptOf(p) = p.amount - p.refunded
         /\ \A c : PaidGapOf(Holding(p, left, back), c)
                     = PaidGapOf(p, c) + (IF p.customer = c THEN p.remaining - left ELSE 0)
  <1> DEFINE e == Holding(p, left, back)
  <1>1. p.amount \in Nat /\ p.remaining \in Nat /\ p.refunded \in Nat /\ There(p)
    BY PaidNumbers
  <1>2. /\ e \in PaidRow /\ e.status = p.status /\ e.customer = p.customer /\ e.amount = p.amount
        /\ e.remaining = left /\ e.refunded = back
    BY DEF PaidRow, Holding
  <1> HIDE DEF e
  <1>3. There(e)
    BY <1>1, <1>2 DEF There
  <1>4. KeptOf(e) = p.amount - back /\ KeptOf(p) = p.amount - p.refunded
    BY <1>1, <1>2, <1>3 DEF KeptOf
  <1>5. ASSUME NEW c
        PROVE  PaidGapOf(e, c) = PaidGapOf(p, c) + (IF p.customer = c THEN p.remaining - left ELSE 0)
    BY <1>1, <1>2, <1>3 DEF PaidGapOf
  <1> QED BY <1>2, <1>3, <1>4, <1>5 DEF e

LEMMA PaidGapHolds ==
  ASSUME NEW p \in PaidRow, NEW left \in Nat, NEW back \in Nat, NEW c
  PROVE  PaidGapOf(Holding(p, left, back), c)
           = PaidGapOf(p, c) + (IF p.customer = c THEN p.remaining - left ELSE 0)
  BY PaidHolds

\* What a payment holds may be written alone.
LEMMA HoldingRemaining ==
  ASSUME NEW p \in PaidRow, NEW left \in Nat
  PROVE  [p EXCEPT !.remaining = left] = Holding(p, left, p.refunded)
  <1>1. PICK st, cu, am, re, ba :
          p = [status |-> st, customer |-> cu, amount |-> am, remaining |-> re, refunded |-> ba]
    BY DEF PaidRow
  <1>2. [[status |-> st, customer |-> cu, amount |-> am, remaining |-> re, refunded |-> ba] EXCEPT !.remaining = left]
          = [status |-> st, customer |-> cu, amount |-> am, remaining |-> left, refunded |-> ba]
    OBVIOUS
  <1>3. [[status |-> st, customer |-> cu, amount |-> am, remaining |-> left, refunded |-> ba] EXCEPT !.refunded = ba]
          = [status |-> st, customer |-> cu, amount |-> am, remaining |-> left, refunded |-> ba]
    OBVIOUS
  <1>4. p.refunded = ba
    BY <1>1
  <1> QED BY <1>1, <1>2, <1>3, <1>4 DEF Holding

NewPaid(c, amount, left) ==
  [status |-> "received", customer |-> c, amount |-> amount, remaining |-> left, refunded |-> 0]
LEMMA PaidIsNew ==
  ASSUME NEW cu \in Customers, NEW am \in Sums, NEW left \in Nat
  PROVE  /\ NewPaid(cu, am, left) \in PaidRow /\ There(NewPaid(cu, am, left))
         /\ NewPaid(cu, am, left).customer = cu
         /\ NewPaid(cu, am, left).amount = am /\ NewPaid(cu, am, left).remaining = left
         /\ NewPaid(cu, am, left).refunded = 0 /\ KeptOf(NewPaid(cu, am, left)) = am
         /\ \A c : PaidGapOf(NewPaid(cu, am, left), c) = IF cu = c THEN am - left ELSE 0
  <1>1. am \in Nat
    BY BillingFacts
  <1> QED BY <1>1 DEF NewPaid, PaidRow, There, KeptOf, PaidGapOf

-----------------------------------------------------------------------------
(* A bill's row, or a payment's, is written. *)

BillPut(bi, i, b) == [bi EXCEPT ![i] = b]
LEMMA BillIsPut ==
  ASSUME NEW bi, BillsOK(bi), NEW j \in Bills, NEW b, GoodBill(b)
  PROVE  /\ BillsOK(BillPut(bi, j, b)) /\ BillPut(bi, j, b)[j] = b
         /\ \A k \in Bills \ {j} : BillPut(bi, j, b)[k] = bi[k]
  BY DEF BillsOK, BillPut

LEMMA GapIsInteger ==
  ASSUME NEW b, b = NoRow \/ GoodBill(b), NEW c
  PROVE  BillGapOf(b, c) \in Int /\ (b = NoRow => BillGapOf(b, c) = 0)
  BY NoRowIsNone, BillNumbers DEF BillGapOf
LEMMA PaidGapIsInteger ==
  ASSUME NEW p, p = NoRow \/ p \in PaidRow, NEW c
  PROVE  PaidGapOf(p, c) \in Int /\ (p = NoRow => PaidGapOf(p, c) = 0)
  BY NoRowIsNone, PaidNumbers DEF PaidGapOf
LEMMA KeptIsInteger ==
  ASSUME NEW p, p = NoRow \/ p \in PaidRow
  PROVE  KeptOf(p) \in Int /\ (p = NoRow => KeptOf(p) = 0)
  BY NoRowIsNone, PaidNumbers DEF KeptOf

LEMMA GapsAfterPut ==
  ASSUME NEW bi, BillsOK(bi), NEW j \in Bills, NEW b, GoodBill(b), NEW c
  PROVE  /\ SumOver(BillGap(bi, c), Bills) \in Int
         /\ SumOver(BillGap(BillPut(bi, j, b), c), Bills)
              = SumOver(BillGap(bi, c), Bills) + BillGapOf(b, c) - BillGapOf(bi[j], c)
  <1> DEFINE f == BillGap(bi, c)
             g == BillGap(BillPut(bi, j, b), c)
  <1>1. \A k \in Bills : f[k] = BillGapOf(bi[k], c)
    BY DEF BillGap
  <1>2. \A k \in Bills : g[k] = BillGapOf(BillPut(bi, j, b)[k], c)
    BY DEF BillGap
  <1>3. g[j] = BillGapOf(b, c) /\ f[j] = BillGapOf(bi[j], c) /\ \A k \in Bills \ {j} : g[k] = f[k]
    BY <1>1, <1>2, BillIsPut
  <1>4. \A k \in Bills : f[k] \in Int
    BY <1>1, GapIsInteger DEF BillsOK
  <1>5. \A k \in Bills : g[k] \in Int
    BY <1>2, BillIsPut, GapIsInteger DEF BillsOK
  <1> HIDE DEF f, g
  <1>6. SumOver(g, Bills) = SumOver(f, Bills) + g[j] - f[j]
    BY <1>3, <1>4, <1>5, BillingFacts, SumUpdate
  <1>7. SumOver(f, Bills) \in Int
    BY <1>4, BillingFacts, SumIsInteger
  <1> QED BY <1>3, <1>6, <1>7 DEF f, g

PaidPut(re, p, row) == [re EXCEPT ![p] = row]
LEMMA PaidIsPut ==
  ASSUME NEW re, PaidOK(re), NEW j \in Collections, NEW row \in PaidRow
  PROVE  /\ PaidOK(PaidPut(re, j, row)) /\ PaidPut(re, j, row)[j] = row
         /\ \A k \in Collections \ {j} : PaidPut(re, j, row)[k] = re[k]
  BY DEF PaidOK, PaidPut

LEMMA PaidGapsAfterPut ==
  ASSUME NEW re, PaidOK(re), NEW j \in Collections, NEW row \in PaidRow, NEW c
  PROVE  /\ SumOver(PaidGap(re, c), Collections) \in Int
         /\ SumOver(PaidGap(PaidPut(re, j, row), c), Collections)
              = SumOver(PaidGap(re, c), Collections) + PaidGapOf(row, c) - PaidGapOf(re[j], c)
  <1> DEFINE f == PaidGap(re, c)
             g == PaidGap(PaidPut(re, j, row), c)
  <1>1. \A k \in Collections : f[k] = PaidGapOf(re[k], c)
    BY DEF PaidGap
  <1>2. \A k \in Collections : g[k] = PaidGapOf(PaidPut(re, j, row)[k], c)
    BY DEF PaidGap
  <1>3. g[j] = PaidGapOf(row, c) /\ f[j] = PaidGapOf(re[j], c) /\ \A k \in Collections \ {j} : g[k] = f[k]
    BY <1>1, <1>2, PaidIsPut
  <1>4. \A k \in Collections : f[k] \in Int
    BY <1>1, PaidGapIsInteger DEF PaidOK
  <1>5. \A k \in Collections : g[k] \in Int
    <2>1. PaidOK(PaidPut(re, j, row))
      BY PaidIsPut
    <2> QED BY <1>2, <2>1, PaidGapIsInteger DEF PaidOK
  <1> HIDE DEF f, g
  <1>6. SumOver(g, Collections) = SumOver(f, Collections) + g[j] - f[j]
    BY <1>3, <1>4, <1>5, BillingFacts, SumUpdate
  <1>7. SumOver(f, Collections) \in Int
    BY <1>4, BillingFacts, SumIsInteger
  <1> QED BY <1>3, <1>6, <1>7 DEF f, g

LEMMA KeptAfterPut ==
  ASSUME NEW re, PaidOK(re), NEW j \in Collections, NEW row \in PaidRow
  PROVE  /\ SumOver(Kept(re), Collections) \in Int
         /\ SumOver(Kept(PaidPut(re, j, row)), Collections)
              = SumOver(Kept(re), Collections) + KeptOf(row) - KeptOf(re[j])
  <1> DEFINE f == Kept(re)
             g == Kept(PaidPut(re, j, row))
  <1>1. \A k \in Collections : f[k] = KeptOf(re[k])
    BY DEF Kept
  <1>2. \A k \in Collections : g[k] = KeptOf(PaidPut(re, j, row)[k])
    BY DEF Kept
  <1>3. g[j] = KeptOf(row) /\ f[j] = KeptOf(re[j]) /\ \A k \in Collections \ {j} : g[k] = f[k]
    BY <1>1, <1>2, PaidIsPut
  <1>4. \A k \in Collections : f[k] \in Int
    BY <1>1, KeptIsInteger DEF PaidOK
  <1>5. \A k \in Collections : g[k] \in Int
    BY <1>2, PaidIsPut, KeptIsInteger DEF PaidOK
  <1> HIDE DEF f, g
  <1>6. SumOver(g, Collections) = SumOver(f, Collections) + g[j] - f[j]
    BY <1>3, <1>4, <1>5, BillingFacts, SumUpdate
  <1>7. SumOver(f, Collections) \in Int
    BY <1>4, BillingFacts, SumIsInteger
  <1> QED BY <1>3, <1>6, <1>7 DEF f, g

-----------------------------------------------------------------------------
(* Adjustments. *)

\* Rows stay, and stay with whom they are of.
SameBills(bi, bi2) == \A i \in Bills : There(bi[i]) => There(bi2[i]) /\ bi2[i].customer = bi[i].customer
SamePaid(re, re2) == \A p \in Collections : There(re[p]) => There(re2[p]) /\ re2[p].customer = re[p].customer

LEMMA AdjustedStay ==
  ASSUME NEW bi, NEW re, NEW ad, AdjustedOK(bi, re, ad), NEW bi2, NEW re2, SameBills(bi, bi2), SamePaid(re, re2)
  PROVE  AdjustedOK(bi2, re2, ad)
  BY DEF AdjustedOK, Aimed, SameBills, SamePaid

LEMMA WorthStays ==
  ASSUME NEW bi, NEW re, NEW ad, AdjustedOK(bi, re, ad), NEW bi2, NEW re2, SameBills(bi, bi2), SamePaid(re, re2), NEW c
  PROVE  SumOver(Worth(bi2, re2, ad, c), Adjustments) = SumOver(Worth(bi, re, ad, c), Adjustments)
  <1>1. ASSUME NEW d \in Adjustments, ad[d] # NoRow
        PROVE  Owner(bi2, re2, ad[d]) = Owner(bi, re, ad[d])
    BY <1>1 DEF AdjustedOK, Aimed, Owner, SameBills, SamePaid
  <1>2. ASSUME NEW d \in Adjustments PROVE Worth(bi2, re2, ad, c)[d] = Worth(bi, re, ad, c)[d]
    <2>1. WorthOf(bi2, re2, ad[d], c) = WorthOf(bi, re, ad[d], c)
      BY <1>1, NoRowIsNone DEF WorthOf
    <2> QED BY <2>1 DEF Worth
  <1> QED BY <1>2, BillingFacts, SumAgrees

AdjustedPut(ad, d, row) == [ad EXCEPT ![d] = row]
LEMMA WorthIsInteger ==
  ASSUME NEW bi, NEW re, NEW row, row = NoRow \/ Aimed(bi, re, row), NEW c
  PROVE  WorthOf(bi, re, row, c) \in Int /\ (row.status # "approved" => WorthOf(bi, re, row, c) = 0)
  <1>1. CASE row = NoRow
    BY <1>1, NoRowIsNone DEF WorthOf
  <1>2. CASE Aimed(bi, re, row)
    <2>1. row.amount \in 0..MaxMoney
      BY <1>2 DEF Aimed, AdjustedRow
    <2>2. row.amount \in Int
      BY <2>1, BillingFacts
    <2> QED BY <2>2 DEF WorthOf, Signed
  <1> QED BY <1>1, <1>2

LEMMA WorthSum ==
  ASSUME NEW bi, NEW re, NEW ad, AdjustedOK(bi, re, ad), NEW c
  PROVE  SumOver(Worth(bi, re, ad, c), Adjustments) \in Int
  <1>1. \A k \in Adjustments : Worth(bi, re, ad, c)[k] = WorthOf(bi, re, ad[k], c)
    BY DEF Worth
  <1>2. \A k \in Adjustments : Worth(bi, re, ad, c)[k] \in Int
    BY <1>1, WorthIsInteger DEF AdjustedOK
  <1> QED BY <1>2, BillingFacts, SumIsInteger

LEMMA WorthAfterPut ==
  ASSUME NEW bi, NEW re, NEW ad, AdjustedOK(bi, re, ad), NEW e \in Adjustments, NEW row, Aimed(bi, re, row), NEW c
  PROVE  /\ AdjustedOK(bi, re, AdjustedPut(ad, e, row))
         /\ SumOver(Worth(bi, re, ad, c), Adjustments) \in Int
         /\ SumOver(Worth(bi, re, AdjustedPut(ad, e, row), c), Adjustments)
              = SumOver(Worth(bi, re, ad, c), Adjustments) + WorthOf(bi, re, row, c) - WorthOf(bi, re, ad[e], c)
  <1> DEFINE f == Worth(bi, re, ad, c)
             g == Worth(bi, re, AdjustedPut(ad, e, row), c)
  <1>1. \A k \in Adjustments : f[k] = WorthOf(bi, re, ad[k], c)
    BY DEF Worth
  <1>2. \A k \in Adjustments : g[k] = WorthOf(bi, re, AdjustedPut(ad, e, row)[k], c)
    BY DEF Worth
  <1>3. /\ AdjustedOK(bi, re, AdjustedPut(ad, e, row)) /\ AdjustedPut(ad, e, row)[e] = row
        /\ \A k \in Adjustments \ {e} : AdjustedPut(ad, e, row)[k] = ad[k]
    BY DEF AdjustedOK, AdjustedPut
  <1>4. g[e] = WorthOf(bi, re, row, c) /\ f[e] = WorthOf(bi, re, ad[e], c) /\ \A k \in Adjustments \ {e} : g[k] = f[k]
    BY <1>1, <1>2, <1>3
  <1>5. \A k \in Adjustments : f[k] \in Int
    BY <1>1, WorthIsInteger DEF AdjustedOK
  <1>6. \A k \in Adjustments : g[k] \in Int
    BY <1>2, <1>3, WorthIsInteger DEF AdjustedOK
  <1> HIDE DEF f, g
  <1>7. SumOver(g, Adjustments) = SumOver(f, Adjustments) + g[e] - f[e]
    BY <1>4, <1>5, <1>6, BillingFacts, SumUpdate
  <1>8. SumOver(f, Adjustments) \in Int
    BY <1>5, BillingFacts, SumIsInteger
  <1> QED BY <1>3, <1>4, <1>7, <1>8 DEF f, g

-----------------------------------------------------------------------------
(* What a payment and an invoice hold of each other. *)

SharePut(sh, p, i, n) == [sh EXCEPT ![p][i] = n]
LEMMA ShareIsPut ==
  ASSUME NEW sh, sh \in [Collections -> [Bills -> Nat]], NEW q \in Collections, NEW j \in Bills, NEW n \in Nat
  PROVE  /\ SharePut(sh, q, j, n) \in [Collections -> [Bills -> Nat]] /\ SharePut(sh, q, j, n)[q][j] = n
         /\ \A p \in Collections \ {q} : SharePut(sh, q, j, n)[p] = sh[p]
         /\ \A i \in Bills \ {j} : SharePut(sh, q, j, n)[q][i] = sh[q][i]
  <1> DEFINE row == [sh[q] EXCEPT ![j] = n]
  <1>1. SharePut(sh, q, j, n) = [sh EXCEPT ![q] = row]
    BY DEF SharePut
  <1>2. sh[q] \in [Bills -> Nat] /\ row \in [Bills -> Nat] /\ row[j] = n /\ \A i \in Bills \ {j} : row[i] = sh[q][i]
    OBVIOUS
  <1> HIDE DEF row
  <1> QED BY <1>1, <1>2

LEMMA SharesAfterPut ==
  ASSUME NEW sh, sh \in [Collections -> [Bills -> Nat]], NEW q \in Collections, NEW j \in Bills, NEW n \in Nat
  PROVE  /\ \A p \in Collections : SumOver(sh[p], Bills) \in Nat
         /\ \A i \in Bills : SumOver(Column(sh, i), Collections) \in Nat
         /\ SumOver(SharePut(sh, q, j, n)[q], Bills) = SumOver(sh[q], Bills) + n - sh[q][j]
         /\ \A p \in Collections \ {q} : SumOver(SharePut(sh, q, j, n)[p], Bills) = SumOver(sh[p], Bills)
         /\ SumOver(Column(SharePut(sh, q, j, n), j), Collections) = SumOver(Column(sh, j), Collections) + n - sh[q][j]
         /\ \A i \in Bills \ {j} :
              SumOver(Column(SharePut(sh, q, j, n), i), Collections) = SumOver(Column(sh, i), Collections)
  <1> DEFINE s2 == SharePut(sh, q, j, n)
  <1>1. /\ s2 \in [Collections -> [Bills -> Nat]] /\ s2[q][j] = n
        /\ \A p \in Collections \ {q} : s2[p] = sh[p]
        /\ \A i \in Bills \ {j} : s2[q][i] = sh[q][i]
    BY ShareIsPut
  <1> HIDE DEF s2
  <1>2. \A p \in Collections : SumOver(sh[p], Bills) \in Nat
    BY BillingFacts, SumIsNatural
  <1>3. \A i \in Bills, p \in Collections : Column(sh, i)[p] = sh[p][i] /\ Column(s2, i)[p] = s2[p][i]
    BY DEF Column
  <1>4. \A i \in Bills : SumOver(Column(sh, i), Collections) \in Nat
    BY <1>3, BillingFacts, SumIsNatural
  <1>5. SumOver(s2[q], Bills) = SumOver(sh[q], Bills) + s2[q][j] - sh[q][j]
    <2>1. \A i \in Bills : sh[q][i] \in Int /\ s2[q][i] \in Int
      BY <1>1
    <2> QED BY <1>1, <2>1, BillingFacts, SumUpdate
  <1>6. SumOver(Column(s2, j), Collections) = SumOver(Column(sh, j), Collections) + s2[q][j] - sh[q][j]
    <2>1. \A p \in Collections : Column(sh, j)[p] \in Int /\ Column(s2, j)[p] \in Int
      BY <1>1, <1>3
    <2>2. \A p \in Collections \ {q} : Column(s2, j)[p] = Column(sh, j)[p]
      BY <1>1, <1>3
    <2>3. SumOver(Column(s2, j), Collections) = SumOver(Column(sh, j), Collections) + Column(s2, j)[q] - Column(sh, j)[q]
      BY <2>1, <2>2, BillingFacts, SumUpdate
    <2> QED BY <1>3, <2>3
  <1>7. ASSUME NEW i \in Bills \ {j} PROVE SumOver(Column(s2, i), Collections) = SumOver(Column(sh, i), Collections)
    <2>1. \A p \in Collections : Column(s2, i)[p] = Column(sh, i)[p]
      BY <1>1, <1>3
    <2> QED BY <2>1, BillingFacts, SumAgrees
  <1> QED BY <1>1, <1>2, <1>4, <1>5, <1>6, <1>7 DEF s2

-----------------------------------------------------------------------------
(* The books as one, and what is done to them. *)

BooksSound(b, ad, t) == BooksOK(b.billed, b.received, b.share, ad, t)
BooksOf(bi, re, sh) == [billed |-> bi, received |-> re, share |-> sh]

\* An amount moves from a payment to an invoice of the same customer.
LEMMA MoneyMoves ==
  ASSUME NEW bi, NEW re, NEW sh, NEW ad, NEW t, BooksOK(bi, re, sh, ad, t),
         NEW q \in Collections, NEW j \in Bills, NEW n \in Nat, There(re[q]), bi[j].status = "issued",
         re[q].customer = bi[j].customer, n <= Outstanding(bi[j]), n <= re[q].remaining
  PROVE  BooksOK(BillPut(bi, j, PaidMore(bi[j], n)),
                 PaidPut(re, q, Holding(re[q], re[q].remaining - n, re[q].refunded)),
                 SharePut(sh, q, j, sh[q][j] + n), ad, t)
  <1> DEFINE b == PaidMore(bi[j], n)
             r == Holding(re[q], re[q].remaining - n, re[q].refunded)
             bi2 == BillPut(bi, j, b)
             re2 == PaidPut(re, q, r)
             sh2 == SharePut(sh, q, j, sh[q][j] + n)
  <1>1. BillsOK(bi) /\ PaidOK(re) /\ OwnShare(bi, re, sh) /\ AdjustedOK(bi, re, ad)
    BY DEF BooksOK
  <1>2. There(bi[j]) /\ GoodBill(bi[j]) /\ re[q] \in PaidRow
    <2>1. There(bi[j])
      BY DEF There
    <2> QED BY <1>1, <2>1, NoRowIsNone DEF BillsOK, PaidOK
  <1>3. /\ GoodBill(b) /\ There(b) /\ b.customer = bi[j].customer /\ b.paid = bi[j].paid + n
        /\ \A c : BillGapOf(b, c) = BillGapOf(bi[j], c) + (IF bi[j].customer = c THEN n ELSE 0)
    BY <1>2, BillPaid
  <1>4. re[q].remaining \in Nat /\ re[q].refunded \in Nat /\ re[q].amount \in Nat /\ bi[j].paid \in Nat
    BY <1>2, PaidNumbers, BillNumbers
  <1>5. re[q].remaining - n \in Nat
    BY <1>4
  <1>6. /\ r \in PaidRow /\ There(r) /\ r.customer = re[q].customer /\ r.amount = re[q].amount
        /\ r.remaining = re[q].remaining - n /\ r.refunded = re[q].refunded /\ KeptOf(r) = KeptOf(re[q])
        /\ \A c : PaidGapOf(r, c) = PaidGapOf(re[q], c) + (IF re[q].customer = c THEN n ELSE 0)
    <2>1. re[q].remaining - (re[q].remaining - n) = n
      BY <1>4
    <2> DEFINE left == re[q].remaining - n
               back == re[q].refunded
    <2>2. left \in Nat /\ back \in Nat /\ re[q].remaining - left = n
      BY <1>4, <1>5, <2>1
    <2> HIDE DEF left, back
    <2>3. r = Holding(re[q], left, back)
      BY DEF left, back
    <2>4. /\ r \in PaidRow /\ There(r) /\ r.customer = re[q].customer /\ r.amount = re[q].amount
          /\ r.remaining = left /\ r.refunded = back
          /\ KeptOf(r) = re[q].amount - back /\ KeptOf(re[q]) = re[q].amount - re[q].refunded
          /\ \A c : PaidGapOf(r, c)
                      = PaidGapOf(re[q], c) + (IF re[q].customer = c THEN re[q].remaining - left ELSE 0)
      <3> DEFINE p == re[q]
      <3>1. p \in PaidRow
        BY <1>2
      <3> HIDE DEF r, p
      <3>2. r = Holding(p, left, back)
        BY <2>3 DEF p
      <3>3. /\ r \in PaidRow /\ There(r) /\ r.customer = p.customer /\ r.amount = p.amount
            /\ r.remaining = left /\ r.refunded = back
            /\ KeptOf(r) = p.amount - back /\ KeptOf(p) = p.amount - p.refunded
        <4>1. LET e == Holding(p, left, back)
              IN  /\ e \in PaidRow /\ There(e) /\ e.customer = p.customer /\ e.amount = p.amount
                  /\ e.remaining = left /\ e.refunded = back
                  /\ KeptOf(e) = p.amount - back /\ KeptOf(p) = p.amount - p.refunded
          BY <2>2, <3>1, PaidHolds
        <4> QED BY <3>2, <4>1
      <3>4. \A c : PaidGapOf(Holding(p, left, back), c)
                      = PaidGapOf(p, c) + (IF p.customer = c THEN p.remaining - left ELSE 0)
        BY <2>2, <3>1, PaidGapHolds
      <3>5. \A c : PaidGapOf(r, c) = PaidGapOf(p, c) + (IF p.customer = c THEN p.remaining - left ELSE 0)
        BY ONLY <3>2, <3>4, Zenon
      <3>6. p = re[q]
        BY DEF p
      <3> QED BY ONLY <3>3, <3>5, <3>6, Zenon
    <2> QED BY <2>2, <2>4 DEF left, back
  <1> HIDE DEF b, r
  <1>7. /\ BillsOK(bi2) /\ bi2[j] = b /\ \A k \in Bills \ {j} : bi2[k] = bi[k]
    BY <1>1, <1>3, BillIsPut
  <1>8. /\ PaidOK(re2) /\ re2[q] = r /\ \A k \in Collections \ {q} : re2[k] = re[k]
    BY <1>1, <1>6, PaidIsPut
  <1>9. sh \in [Collections -> [Bills -> Nat]] /\ sh[q][j] \in Nat /\ sh[q][j] + n \in Nat
    BY <1>1 DEF OwnShare
  <1>10. /\ sh2 \in [Collections -> [Bills -> Nat]] /\ sh2[q][j] = sh[q][j] + n
         /\ \A p \in Collections \ {q} : sh2[p] = sh[p]
         /\ \A i \in Bills \ {j} : sh2[q][i] = sh[q][i]
    <2> DEFINE m == sh[q][j] + n
    <2>1. m \in Nat
      BY <1>9
    <2> HIDE DEF m
    <2>2. sh2 = SharePut(sh, q, j, m)
      BY DEF m
    <2> HIDE DEF sh2
    <2>3. /\ sh2 \in [Collections -> [Bills -> Nat]] /\ sh2[q][j] = m
          /\ \A p \in Collections \ {q} : sh2[p] = sh[p]
          /\ \A i \in Bills \ {j} : sh2[q][i] = sh[q][i]
      BY <1>9, <2>1, <2>2, ShareIsPut
    <2> QED BY <2>3 DEF m
  <1>11. SameBills(bi, bi2) /\ SamePaid(re, re2)
    BY <1>3, <1>6, <1>7, <1>8 DEF SameBills, SamePaid
  <1>12. OwnShare(bi2, re2, sh2)
    <2>1. ASSUME NEW p \in Collections, NEW i \in Bills, sh2[p][i] > 0
          PROVE  There(re2[p]) /\ There(bi2[i]) /\ re2[p].customer = bi2[i].customer
      <3>1. CASE p = q /\ i = j
        BY <1>2, <1>3, <1>6, <1>7, <1>8, <3>1
      <3>2. CASE ~(p = q /\ i = j)
        <4>1. sh[p][i] > 0
          BY <1>10, <2>1, <3>2
        <4>2. There(re[p]) /\ There(bi[i]) /\ re[p].customer = bi[i].customer
          BY <1>1, <4>1 DEF OwnShare
        <4> QED BY <1>11, <4>2 DEF SameBills, SamePaid
      <3> QED BY <3>1, <3>2
    <2> QED BY <1>10, <2>1 DEF OwnShare
  <1>13. /\ \A p \in Collections : SumOver(sh[p], Bills) \in Nat
         /\ \A i \in Bills : SumOver(Column(sh, i), Collections) \in Nat
         /\ SumOver(sh2[q], Bills) = SumOver(sh[q], Bills) + (sh[q][j] + n) - sh[q][j]
         /\ \A p \in Collections \ {q} : SumOver(sh2[p], Bills) = SumOver(sh[p], Bills)
         /\ SumOver(Column(sh2, j), Collections) = SumOver(Column(sh, j), Collections) + (sh[q][j] + n) - sh[q][j]
         /\ \A i \in Bills \ {j} : SumOver(Column(sh2, i), Collections) = SumOver(Column(sh, i), Collections)
    BY <1>9, SharesAfterPut
  <1>14. Parts1(re2, sh2)
    <2>1. ASSUME NEW p \in Collections, There(re2[p])
          PROVE  re2[p].amount = re2[p].remaining + re2[p].refunded + SumOver(sh2[p], Bills)
      <3>1. CASE p = q
        <4>1. re[q].amount = re[q].remaining + re[q].refunded + SumOver(sh[q], Bills)
          BY DEF BooksOK, Parts1
        <4>2. SumOver(sh2[q], Bills) = SumOver(sh[q], Bills) + n
          BY <1>9, <1>13
        <4>3. SumOver(sh[q], Bills) \in Nat
          BY <1>13
        <4>4. r.amount = r.remaining + r.refunded + SumOver(sh2[q], Bills)
          BY <1>4, <1>6, <4>1, <4>2, <4>3
        <4> QED BY <1>8, <3>1, <4>4
      <3>2. CASE p # q
        BY <1>8, <1>13, <2>1, <3>2 DEF BooksOK, Parts1
      <3> QED BY <3>1, <3>2
    <2> QED BY <2>1 DEF Parts1
  <1>15. Parts2(bi2, sh2)
    <2>1. ASSUME NEW i \in Bills, There(bi2[i])
          PROVE  bi2[i].paid = SumOver(Column(sh2, i), Collections)
      <3>1. CASE i = j
        <4>1. bi[j].paid = SumOver(Column(sh, j), Collections)
          BY <1>2 DEF BooksOK, Parts2
        <4>2. SumOver(Column(sh2, j), Collections) = SumOver(Column(sh, j), Collections) + n
          BY <1>9, <1>13
        <4> QED BY <1>3, <1>7, <3>1, <4>1, <4>2
      <3>2. CASE i # j
        BY <1>7, <1>13, <2>1, <3>2 DEF BooksOK, Parts2
      <3> QED BY <3>1, <3>2
    <2> QED BY <2>1 DEF Parts2
  <1>16. t = SumOver(Kept(re2), Collections)
    <2>1. SumOver(Kept(re2), Collections) = SumOver(Kept(re), Collections) + KeptOf(r) - KeptOf(re[q])
      BY <1>1, <1>6, KeptAfterPut
    <2>2. SumOver(Kept(re), Collections) \in Int /\ KeptOf(r) \in Int
      BY <1>1, <1>6, KeptAfterPut, KeptIsInteger
    <2>3. t = SumOver(Kept(re), Collections)
      BY DEF BooksOK
    <2> HIDE DEF re2
    <2> QED BY <1>6, <2>1, <2>2, <2>3
  <1>17. /\ AdjustedOK(bi2, re2, ad)
         /\ \A c : SumOver(Worth(bi2, re2, ad, c), Adjustments) = SumOver(Worth(bi, re, ad, c), Adjustments)
    <2> HIDE DEF bi2, re2
    <2>1. AdjustedOK(bi2, re2, ad)
      BY <1>1, <1>11, AdjustedStay
    <2>2. ASSUME NEW c
          PROVE  SumOver(Worth(bi2, re2, ad, c), Adjustments) = SumOver(Worth(bi, re, ad, c), Adjustments)
      BY <1>1, <1>11, WorthStays
    <2> QED BY <2>1, <2>2
  <1>18. Agreed(bi2, re2, ad)
    <2>1. ASSUME NEW c \in Customers
          PROVE  SumOver(BillGap(bi2, c), Bills) + SumOver(Worth(bi2, re2, ad, c), Adjustments)
                   = SumOver(PaidGap(re2, c), Collections)
      <3> DEFINE B == SumOver(BillGap(bi, c), Bills)
                 B2 == SumOver(BillGap(bi2, c), Bills)
                 W == SumOver(Worth(bi, re, ad, c), Adjustments)
                 W2 == SumOver(Worth(bi2, re2, ad, c), Adjustments)
                 P == SumOver(PaidGap(re, c), Collections)
                 P2 == SumOver(PaidGap(re2, c), Collections)
                 m == IF bi[j].customer = c THEN n ELSE 0
      <3>1. B \in Int /\ B2 = B + BillGapOf(b, c) - BillGapOf(bi[j], c)
        BY <1>1, <1>3, GapsAfterPut
      <3>2. P \in Int /\ P2 = P + PaidGapOf(r, c) - PaidGapOf(re[q], c)
        BY <1>1, <1>6, PaidGapsAfterPut
      <3>3. W2 = W
        BY <1>17
      <3>4. B + W = P
        BY DEF BooksOK, Agreed
      <3>5. BillGapOf(b, c) = BillGapOf(bi[j], c) + m /\ PaidGapOf(r, c) = PaidGapOf(re[q], c) + m
        BY <1>3, <1>6
      <3>6. BillGapOf(bi[j], c) \in Int /\ PaidGapOf(re[q], c) \in Int /\ m \in Int
        BY <1>2, GapIsInteger, PaidGapIsInteger
      <3>7. W \in Int
        BY <1>1, WorthSum
      <3> HIDE DEF B, B2, W, W2, P, P2, m
      <3>8. B2 + W2 = P2
        BY <3>1, <3>2, <3>3, <3>4, <3>5, <3>6, <3>7
      <3> QED BY <3>8 DEF B2, W2, P2
    <2> QED BY <2>1 DEF Agreed
  <1> HIDE DEF bi2, re2, sh2
  <1>19. BooksOK(bi2, re2, sh2, ad, t)
    BY <1>7, <1>8, <1>12, <1>14, <1>15, <1>16, <1>17, <1>18 DEF BooksOK
  <1> QED BY <1>19 DEF bi2, re2, sh2, b, r

LEMMA LesserOfTwo ==
  ASSUME NEW m \in Nat, NEW n \in Nat, NEW l, l = Min({m, n})
  PROVE  l \in Nat /\ l <= m /\ l <= n
  <1>1. \E x \in {m, n} : \A y \in {m, n} : x <= y
    OBVIOUS
  <1>2. l \in {m, n} /\ \A y \in {m, n} : l <= y
    BY <1>1 DEF Min
  <1> QED BY <1>2

\* What the loop does for one payment and one invoice.
LEMMA GiveKeeps ==
  ASSUME NEW b, NEW ad, NEW t, BooksSound(b, ad, t), NEW c, NEW pi,
         pi[1] \in Collections, pi[2] \in Bills
  PROVE  BooksSound(Give(b, c, pi), ad, t)
  <1> DEFINE q == pi[1]
             j == pi[2]
             n == Fits(b, c, pi)
             bi == b.billed
             re == b.received
             sh == b.share
  <1>1. CASE ~(n > 0)
    BY <1>1 DEF Give
  <1>2. CASE n > 0
    <2>1. BooksOK(bi, re, sh, ad, t)
      BY DEF BooksSound
    <2>2. BillsOK(bi) /\ PaidOK(re) /\ sh \in [Collections -> [Bills -> Nat]]
      BY <2>1 DEF BooksOK, OwnShare
    <2>3. /\ There(re[q]) /\ bi[j].status = "issued" /\ re[q].customer = bi[j].customer
          /\ n = Min({re[q].remaining, Outstanding(bi[j])})
      BY <1>2 DEF Fits, There
    <2>4. GoodBill(bi[j]) /\ re[q] \in PaidRow
      BY <2>2, <2>3, NoRowIsNone DEF BillsOK, PaidOK
    <2>5. re[q].remaining \in Nat /\ Outstanding(bi[j]) \in Nat
      BY <2>4, PaidNumbers, BillNumbers
    <2>6. n \in Nat /\ n <= re[q].remaining /\ n <= Outstanding(bi[j])
      BY <2>3, <2>5, LesserOfTwo
    <2> HIDE DEF n
    <2>7. Give(b, c, pi) = Allocate(b, q, j, n)
      BY <1>2 DEF Give, n
    <2>8. Allocate(b, q, j, n).billed = BillPut(bi, j, PaidMore(bi[j], n))
      BY <2>2 DEF Allocate, BillPut, PaidMore, BillsOK
    <2>9. Allocate(b, q, j, n).received = PaidPut(re, q, Holding(re[q], re[q].remaining - n, re[q].refunded))
      <3>1. re[q].remaining - n \in Nat
        BY <2>5, <2>6
      <3>2. Holding(re[q], re[q].remaining - n, re[q].refunded) = [re[q] EXCEPT !.remaining = re[q].remaining - n]
        BY <2>4, <3>1, HoldingRemaining
      <3>3. Allocate(b, q, j, n).received = [re EXCEPT ![q] = [re[q] EXCEPT !.remaining = re[q].remaining - n]]
        BY <2>2 DEF Allocate, PaidOK
      <3> QED BY <3>2, <3>3 DEF PaidPut
    <2>10. Allocate(b, q, j, n).share = SharePut(sh, q, j, sh[q][j] + n)
      BY <2>2 DEF Allocate, SharePut
    <2>11. BooksOK(BillPut(bi, j, PaidMore(bi[j], n)),
                   PaidPut(re, q, Holding(re[q], re[q].remaining - n, re[q].refunded)),
                   SharePut(sh, q, j, sh[q][j] + n), ad, t)
      BY <2>1, <2>3, <2>6, MoneyMoves
    <2> QED BY <2>7, <2>8, <2>9, <2>10, <2>11 DEF BooksSound
  <1> QED BY <1>1, <1>2

-----------------------------------------------------------------------------
(* The loop is a fold over the pairs: it satisfies its equation, and so    *)
(* does nothing but give.                                                  *)

LastOf(s) == Max(s)
Numbers(s) == s \in SUBSET Nat
Spends(g, b, c, S) ==
  g = [s \in SUBSET S |-> IF s = {} THEN b ELSE Give(g[s \ {LastOf(s)}], c, Oldest[LastOf(s)])]

LEMMA AdvanceDefinition ==
  ASSUME NEW b, NEW c
  PROVE  ApplyAdvance(b, c) = (CHOOSE g : Spends(g, b, c, DOMAIN Oldest))[DOMAIN Oldest]
  BY DEF ApplyAdvance, FoldLeft, MapThenFoldSet, Spends, LastOf

LEMMA LastInSet ==
  ASSUME NEW s, IsFiniteSet(s), Numbers(s), s # {}
  PROVE  LastOf(s) \in s
  <1>1. \A x \in s : x \in Int
    BY DEF Numbers
  <1>2. PICK x \in s : \A y \in s : [e \in s |-> e][y] <= [e \in s |-> e][x]
    BY <1>1, GreatestElement
  <1>3. \A y \in s : x >= y
    BY <1>2
  <1>4. \E e \in s : \A y \in s : e >= y
    BY <1>3
  <1> QED BY <1>4 DEF LastOf, Max

LEMMA SpendsUnique ==
  ASSUME NEW S, IsFiniteSet(S), Numbers(S), NEW b, NEW c, NEW g, NEW h, Spends(g, b, c, S), Spends(h, b, c, S)
  PROVE  g = h
  <1> DEFINE C == {s \in SUBSET S : g[s] # h[s]}
  <1>1. SUFFICES ASSUME C # {} PROVE FALSE
    BY DEF Spends
  <1>2. PICK T \in C : \A U \in C : ~(U \subseteq T /\ U # T)
    <2>1. C \in SUBSET SUBSET S
      OBVIOUS
    <2> HIDE DEF C
    <2> QED BY <1>1, <2>1, SmallestSubset
  <1>3. T # {}
    BY DEF Spends
  <1>4. LastOf(T) \in T
    BY <1>3, FS_Subset, LastInSet DEF Numbers
  <1> DEFINE U == T \ {LastOf(T)}
  <1>5. U \in SUBSET S /\ U \subseteq T /\ U # T
    BY <1>4
  <1>6. g[U] = h[U]
    BY <1>2, <1>5
  <1>7. /\ g[T] = Give(g[U], c, Oldest[LastOf(T)])
        /\ h[T] = Give(h[U], c, Oldest[LastOf(T)])
    BY <1>3 DEF Spends
  <1> QED BY <1>6, <1>7

OnSubsets(g, T) == [s \in SUBSET T |-> g[s]]
LEMMA SpendsRestricted ==
  ASSUME NEW S, NEW b, NEW c, NEW g, Spends(g, b, c, S), NEW T \in SUBSET S
  PROVE  Spends(OnSubsets(g, T), b, c, T)
  <1> DEFINE h == OnSubsets(g, T)
  <1>1. ASSUME NEW s \in SUBSET T
        PROVE  h[s] = IF s = {} THEN b ELSE Give(h[s \ {LastOf(s)}], c, Oldest[LastOf(s)])
    BY DEF Spends, OnSubsets
  <1>2. h = [s \in SUBSET T |-> h[s]]
    BY DEF OnSubsets
  <1> HIDE DEF h
  <1> QED BY <1>1, <1>2 DEF Spends, h

Spent(b, c, T) == (CHOOSE g : Spends(g, b, c, T))[T]
LEMMA SpentOfSubset ==
  ASSUME NEW S, IsFiniteSet(S), Numbers(S), NEW b, NEW c, NEW g, Spends(g, b, c, S), NEW T \in SUBSET S
  PROVE  Spent(b, c, T) = g[T]
  <1> DEFINE h == OnSubsets(g, T)
  <1>1. Spends(h, b, c, T)
    BY SpendsRestricted
  <1>2. IsFiniteSet(T) /\ Numbers(T)
    BY FS_Subset DEF Numbers
  <1>3. (CHOOSE k : Spends(k, b, c, T)) = h
    BY <1>1, <1>2, SpendsUnique
  <1> QED BY <1>3 DEF Spent, OnSubsets

LEMMA SpendsExists ==
  ASSUME NEW S, IsFiniteSet(S), Numbers(S), NEW b, NEW c
  PROVE  \E g : Spends(g, b, c, S)
  <1> DEFINE C == {s \in SUBSET S : ~ \E g : Spends(g, b, c, s)}
  <1>1. SUFFICES ASSUME C # {} PROVE FALSE
    OBVIOUS
  <1>2. PICK T \in C : \A U \in C : ~(U \subseteq T /\ U # T)
    <2>1. C \in SUBSET SUBSET S
      OBVIOUS
    <2> HIDE DEF C
    <2> QED BY <1>1, <2>1, SmallestSubset
  <1> DEFINE h == [s \in SUBSET T |-> IF s = {} THEN b
                                      ELSE Give(Spent(b, c, s \ {LastOf(s)}), c, Oldest[LastOf(s)])]
  <1>3. ASSUME NEW U \in SUBSET T, U # T PROVE Spent(b, c, U) = h[U]
    <2>1. PICK g : Spends(g, b, c, U)
      BY <1>2, <1>3
    <2>2. IsFiniteSet(U) /\ Numbers(U)
      BY FS_Subset DEF Numbers
    <2>3. Spent(b, c, U) = g[U]
      BY <2>1, <2>2, SpentOfSubset
    <2>4. CASE U = {}
      BY <2>1, <2>3, <2>4 DEF Spends
    <2>5. CASE U # {}
      <3> DEFINE W == U \ {LastOf(U)}
      <3>1. W \in SUBSET U
        OBVIOUS
      <3>2. Spent(b, c, W) = g[W]
        BY <2>1, <2>2, <3>1, SpentOfSubset
      <3>3. g[U] = Give(g[W], c, Oldest[LastOf(U)])
        BY <2>1, <2>5 DEF Spends
      <3> QED BY <2>3, <2>5, <3>2, <3>3
    <2> QED BY <2>4, <2>5
  <1>4. ASSUME NEW s \in SUBSET T
        PROVE  h[s] = IF s = {} THEN b ELSE Give(h[s \ {LastOf(s)}], c, Oldest[LastOf(s)])
    <2>1. CASE s = {}
      BY <2>1
    <2>2. CASE s # {}
      <3> DEFINE U == s \ {LastOf(s)}
      <3>1. U \in SUBSET T /\ U # T
        <4>1. IsFiniteSet(s) /\ Numbers(s)
          BY FS_Subset DEF Numbers
        <4> QED BY <2>2, <4>1, LastInSet
      <3>2. Spent(b, c, U) = h[U]
        BY <1>3, <3>1
      <3> QED BY <2>2, <3>2
    <2> QED BY <2>1, <2>2
  <1>5. Spends(h, b, c, T)
    <2> HIDE DEF h
    <2>1. h = [s \in SUBSET T |-> h[s]]
      BY DEF h
    <2> QED BY <1>4, <2>1 DEF Spends
  <1> QED BY <1>2, <1>5

LEMMA Product == ASSUME NEW m \in Nat, NEW n \in Nat PROVE m * n \in Nat
  OBVIOUS
LEMMA Distributes ==
  ASSUME NEW m \in Nat, NEW n \in Nat, NEW k \in Nat
  PROVE  m * (n + k) = m * n + m * k
  OBVIOUS
LEMMA Quotient ==
  ASSUME NEW k \in Nat, NEW n \in Nat, NEW m \in Nat, n > 0, k < m * n
  PROVE  k \div n \in 0..(m - 1) /\ k % n \in 0..(n - 1)
  <1> DEFINE q == k \div n
             r == k % n
  <1>1. r \in 0..(n - 1)
    OBVIOUS
  <1>2. q \in Int /\ q >= 0
    OBVIOUS
  <1>3. k = n * q + r
    OBVIOUS
  <1>4. q \in Nat /\ r \in Nat
    BY <1>1, <1>2
  <1> HIDE DEF q, r
  <1>5. ASSUME q >= m PROVE FALSE
    <2> DEFINE d == q - m
    <2>1. d \in Nat /\ q = m + d
      BY <1>4, <1>5
    <2> HIDE DEF d
    <2>2. n * q = n * m + n * d /\ n * d \in Nat /\ n * m \in Nat /\ m * n = n * m
      BY <2>1, Distributes, Product
    <2> QED BY <1>3, <1>4, <2>2
  <1>6. q \in 0..(m - 1)
    BY <1>4, <1>5
  <1> QED BY <1>1, <1>6 DEF q, r

LEMMA OldestPairs ==
  /\ IsFiniteSet(DOMAIN Oldest) /\ Numbers(DOMAIN Oldest)
  /\ \A k \in DOMAIN Oldest : Oldest[k][1] \in Collections /\ Oldest[k][2] \in Bills
  <1> DEFINE m == Cardinality(Collections)
             n == Cardinality(Bills)
  <1>1. m \in Nat /\ n \in Nat /\ Collections = 1..m /\ Bills = 1..n
    BY BillingFacts, FS_CardinalityType, BillingAssumption
  <1>2. /\ DOMAIN Oldest = 1..(m * n)
        /\ \A k \in 1..(m * n) : /\ Oldest[k][1] = ((k - 1) \div n) + 1
                                 /\ Oldest[k][2] = ((k - 1) % n) + 1
    BY DEF Oldest
  <1> HIDE DEF m, n
  <1>3. m * n \in Nat
    BY <1>1, Product
  <1>4. IsFiniteSet(DOMAIN Oldest) /\ Numbers(DOMAIN Oldest)
    BY <1>2, <1>3, FS_Interval DEF Numbers
  <1>5. ASSUME NEW k \in 1..(m * n)
        PROVE  Oldest[k][1] \in Collections /\ Oldest[k][2] \in Bills
    <2>1. k - 1 \in Nat /\ k - 1 < m * n
      BY <1>3
    <2>2. n > 0
      <3>1. n = 0 => m * n = 0
        BY <1>1
      <3> QED BY <1>1, <2>1, <3>1
    <2>3. (k - 1) \div n \in 0..(m - 1) /\ (k - 1) % n \in 0..(n - 1)
      <3> DEFINE l == k - 1
      <3>1. l \in Nat /\ l < m * n
        BY <2>1
      <3> HIDE DEF l
      <3>2. l \div n \in 0..(m - 1) /\ l % n \in 0..(n - 1)
        BY <1>1, <2>2, <3>1, Quotient
      <3> QED BY <3>2 DEF l
    <2>4. ((k - 1) \div n) + 1 \in 1..m /\ ((k - 1) % n) + 1 \in 1..n
      BY <1>1, <2>3
    <2> QED BY <1>1, <1>2, <2>4
  <1> QED BY <1>2, <1>4, <1>5

\* However many payments and invoices there are, the loop keeps the books.
LEMMA AdvanceKeeps ==
  ASSUME NEW b, NEW ad, NEW t, BooksSound(b, ad, t), NEW c
  PROVE  BooksSound(ApplyAdvance(b, c), ad, t)
  <1> DEFINE D == DOMAIN Oldest
             g == CHOOSE h : Spends(h, b, c, D)
             C == {s \in SUBSET D : ~BooksSound(g[s], ad, t)}
  <1>1. /\ IsFiniteSet(D) /\ Numbers(D)
        /\ \A k \in D : Oldest[k][1] \in Collections /\ Oldest[k][2] \in Bills
    BY OldestPairs
  <1> HIDE DEF D
  <1>2. Spends(g, b, c, D)
    BY <1>1, SpendsExists
  <1>3. ApplyAdvance(b, c) = g[D]
    BY AdvanceDefinition DEF D
  <1> HIDE DEF g
  <1>4. ASSUME C # {} PROVE FALSE
    <2>1. PICK T \in C : \A U \in C : ~(U \subseteq T /\ U # T)
      <3>1. C \in SUBSET SUBSET D
        OBVIOUS
      <3> HIDE DEF C
      <3> QED BY <1>1, <1>4, <3>1, SmallestSubset
    <2>2. T # {}
      BY <1>2 DEF Spends
    <2>3. IsFiniteSet(T) /\ Numbers(T)
      BY <1>1, FS_Subset DEF Numbers
    <2>4. LastOf(T) \in T /\ LastOf(T) \in D
      BY <2>2, <2>3, LastInSet
    <2> DEFINE U == T \ {LastOf(T)}
    <2>5. U \in SUBSET D /\ U \subseteq T /\ U # T
      BY <2>4
    <2>6. BooksSound(g[U], ad, t)
      BY <2>1, <2>5
    <2>7. g[T] = Give(g[U], c, Oldest[LastOf(T)])
      BY <1>2, <2>2 DEF Spends
    <2> HIDE DEF U
    <2>8. BooksSound(g[T], ad, t)
      BY <1>1, <2>4, <2>6, <2>7, GiveKeeps
    <2> QED BY <2>1, <2>8
  <1>5. D \in SUBSET D
    OBVIOUS
  <1> QED BY <1>3, <1>4, <1>5

-----------------------------------------------------------------------------
(* Steps that write one row.  What the entries of a customer and the rows  *)
(* differ by is followed by itself: a decision counts for as much as what  *)
(* is done about it.                                                       *)

BooksLess(bi, re, sh, ad, t) ==
  /\ BillsOK(bi) /\ PaidOK(re) /\ OwnShare(bi, re, sh) /\ Parts1(re, sh) /\ Parts2(bi, sh)
  /\ t = SumOver(Kept(re), Collections) /\ AdjustedOK(bi, re, ad)
Difference(bi, re, ad, c) ==
  SumOver(BillGap(bi, c), Bills) + SumOver(Worth(bi, re, ad, c), Adjustments)
    - SumOver(PaidGap(re, c), Collections)

LEMMA GapSums ==
  ASSUME NEW bi, NEW re, BillsOK(bi), PaidOK(re), NEW c
  PROVE  SumOver(BillGap(bi, c), Bills) \in Int /\ SumOver(PaidGap(re, c), Collections) \in Int
  <1>1. \A k \in Bills : BillGap(bi, c)[k] = BillGapOf(bi[k], c)
    BY DEF BillGap
  <1>2. \A k \in Bills : BillGap(bi, c)[k] \in Int
    BY <1>1, GapIsInteger DEF BillsOK
  <1>3. \A k \in Collections : PaidGap(re, c)[k] = PaidGapOf(re[k], c)
    BY DEF PaidGap
  <1>4. \A k \in Collections : PaidGap(re, c)[k] \in Int
    BY <1>3, PaidGapIsInteger DEF PaidOK
  <1> QED BY <1>2, <1>4, BillingFacts, SumIsInteger

LEMMA BooksAgree ==
  ASSUME NEW bi, NEW re, NEW sh, NEW ad, NEW t
  PROVE  BooksOK(bi, re, sh, ad, t)
           <=> BooksLess(bi, re, sh, ad, t) /\ \A c \in Customers : Difference(bi, re, ad, c) = 0
  <1>1. BooksOK(bi, re, sh, ad, t) <=> BooksLess(bi, re, sh, ad, t) /\ Agreed(bi, re, ad)
    BY DEF BooksOK, BooksLess
  <1>2. ASSUME BooksLess(bi, re, sh, ad, t)
        PROVE  Agreed(bi, re, ad) <=> \A c \in Customers : Difference(bi, re, ad, c) = 0
    <2>1. ASSUME NEW c \in Customers
          PROVE  SumOver(BillGap(bi, c), Bills) + SumOver(Worth(bi, re, ad, c), Adjustments)
                   = SumOver(PaidGap(re, c), Collections) <=> Difference(bi, re, ad, c) = 0
      <3>1. SumOver(BillGap(bi, c), Bills) \in Int /\ SumOver(PaidGap(re, c), Collections) \in Int
        BY <1>2, GapSums DEF BooksLess
      <3>2. SumOver(Worth(bi, re, ad, c), Adjustments) \in Int
        BY <1>2, WorthSum DEF BooksLess
      <3>3. \A x, y, z \in Int : x + y = z <=> x + y - z = 0
        OBVIOUS
      <3> DEFINE x0 == SumOver(BillGap(bi, c), Bills)
                 y0 == SumOver(Worth(bi, re, ad, c), Adjustments)
                 z0 == SumOver(PaidGap(re, c), Collections)
      <3>4. Difference(bi, re, ad, c) = x0 + y0 - z0
        BY DEF Difference
      <3> HIDE DEF x0, y0, z0
      <3>5. x0 \in Int /\ y0 \in Int /\ z0 \in Int
        BY <3>1, <3>2 DEF x0, y0, z0
      <3>6. x0 + y0 = z0 <=> Difference(bi, re, ad, c) = 0
        BY <3>3, <3>4, <3>5
      <3> QED BY <3>6 DEF x0, y0, z0
    <2> QED BY <2>1 DEF Agreed
  <1> QED BY <1>1, <1>2

\* An invoice's row is written and is paid as much as before.
LEMMA BillRewritten ==
  ASSUME NEW bi, NEW re, NEW sh, NEW ad, NEW t, BooksLess(bi, re, sh, ad, t),
         NEW j \in Bills, NEW b, GoodBill(b),
         \/ There(bi[j]) /\ b.customer = bi[j].customer /\ b.paid = bi[j].paid
         \/ bi[j] = NoRow /\ b.paid = 0
  PROVE  /\ BooksLess(BillPut(bi, j, b), re, sh, ad, t)
         /\ \A c \in Customers : Difference(BillPut(bi, j, b), re, ad, c)
                                   = Difference(bi, re, ad, c) + BillGapOf(b, c) - BillGapOf(bi[j], c)
  <1> DEFINE bi2 == BillPut(bi, j, b)
  <1>1. BillsOK(bi) /\ PaidOK(re) /\ OwnShare(bi, re, sh) /\ AdjustedOK(bi, re, ad) /\ Parts2(bi, sh)
    BY DEF BooksLess
  <1>2. BillsOK(bi2) /\ bi2[j] = b /\ \A k \in Bills \ {j} : bi2[k] = bi[k]
    BY <1>1, BillIsPut
  <1>3. ASSUME NEW c
        PROVE  SumOver(BillGap(bi2, c), Bills) = SumOver(BillGap(bi, c), Bills) + BillGapOf(b, c) - BillGapOf(bi[j], c)
    BY <1>1, GapsAfterPut
  <1> HIDE DEF bi2
  <1>4. There(b)
    BY BillNumbers
  <1>5. SameBills(bi, bi2) /\ SamePaid(re, re)
    BY <1>2, <1>4, NoRowIsNone DEF SameBills, SamePaid
  <1>6. AdjustedOK(bi2, re, ad)
    BY <1>1, <1>5, AdjustedStay
  <1>7. OwnShare(bi2, re, sh)
    BY <1>1, <1>5 DEF OwnShare, SameBills
  <1>8. Parts2(bi2, sh)
    <2>1. ASSUME NEW i \in Bills, There(bi2[i])
          PROVE  bi2[i].paid = SumOver(Column(sh, i), Collections)
      <3>1. CASE There(bi[i])
        BY <1>1, <1>2, <3>1, NoRowIsNone DEF Parts2
      <3>2. CASE ~There(bi[i])
        <4>1. i = j /\ b.paid = 0
          BY <1>2, <2>1, <3>2
        <4>2. \A p \in Collections : sh[p][i] = 0
          BY <1>1, <3>2 DEF OwnShare
        <4>3. \A p \in Collections : Column(sh, i)[p] = 0
          BY <4>2 DEF Column
        <4>4. SumOver(Column(sh, i), Collections) = 0
          BY <4>3, BillingFacts, SumOfZeros
        <4> QED BY <1>2, <4>1, <4>4
      <3> QED BY <3>1, <3>2
    <2> QED BY <2>1 DEF Parts2
  <1>9. BooksLess(bi2, re, sh, ad, t)
    BY <1>2, <1>6, <1>7, <1>8 DEF BooksLess
  <1>10. ASSUME NEW c \in Customers
         PROVE  Difference(bi2, re, ad, c) = Difference(bi, re, ad, c) + BillGapOf(b, c) - BillGapOf(bi[j], c)
    <2>1. SumOver(Worth(bi2, re, ad, c), Adjustments) = SumOver(Worth(bi, re, ad, c), Adjustments)
      BY <1>1, <1>5, WorthStays
    <2>2. SumOver(Worth(bi, re, ad, c), Adjustments) \in Int
      BY <1>1, WorthSum
    <2>3. SumOver(BillGap(bi, c), Bills) \in Int /\ SumOver(PaidGap(re, c), Collections) \in Int
      BY <1>1, GapSums
    <2>4. BillGapOf(b, c) \in Int /\ BillGapOf(bi[j], c) \in Int
      BY <1>1, GapIsInteger DEF BillsOK
    <2> QED BY <1>3, <2>1, <2>2, <2>3, <2>4 DEF Difference
  <1> QED BY <1>9, <1>10 DEF bi2

\* A payment's row is written: it comes in, or holds as much for its owner.
LEMMA PaidRewritten ==
  ASSUME NEW bi, NEW re, NEW sh, NEW ad, NEW t, BooksLess(bi, re, sh, ad, t),
         NEW q \in Collections, NEW r \in PaidRow,
         \/ /\ There(re[q]) /\ r.customer = re[q].customer /\ r.amount = re[q].amount
            /\ r.remaining + r.refunded = re[q].remaining + re[q].refunded
         \/ re[q] = NoRow /\ r.amount = r.remaining + r.refunded
  PROVE  /\ BooksLess(bi, PaidPut(re, q, r), sh, ad, t + KeptOf(r) - KeptOf(re[q]))
         /\ \A c \in Customers : Difference(bi, PaidPut(re, q, r), ad, c)
                                   = Difference(bi, re, ad, c) - PaidGapOf(r, c) + PaidGapOf(re[q], c)
  <1> DEFINE re2 == PaidPut(re, q, r)
             t2 == t + KeptOf(r) - KeptOf(re[q])
  <1>1. BillsOK(bi) /\ PaidOK(re) /\ OwnShare(bi, re, sh) /\ AdjustedOK(bi, re, ad) /\ Parts1(re, sh) /\ Parts2(bi, sh)
    BY DEF BooksLess
  <1>2. PaidOK(re2) /\ re2[q] = r /\ \A k \in Collections \ {q} : re2[k] = re[k]
    BY <1>1, PaidIsPut
  <1>3. ASSUME NEW c
        PROVE  SumOver(PaidGap(re2, c), Collections)
                 = SumOver(PaidGap(re, c), Collections) + PaidGapOf(r, c) - PaidGapOf(re[q], c)
    BY <1>1, PaidGapsAfterPut
  <1>4. t2 = SumOver(Kept(re2), Collections)
    BY <1>1, KeptAfterPut DEF BooksLess
  <1> HIDE DEF re2, t2
  <1>5. There(r) /\ r.amount \in Nat /\ r.remaining \in Nat /\ r.refunded \in Nat
    BY PaidNumbers
  <1>6. SameBills(bi, bi) /\ SamePaid(re, re2)
    BY <1>2, <1>5, NoRowIsNone DEF SameBills, SamePaid
  <1>7. AdjustedOK(bi, re2, ad)
    BY <1>1, <1>6, AdjustedStay
  <1>8. OwnShare(bi, re2, sh)
    BY <1>1, <1>6 DEF OwnShare, SamePaid
  <1>9. Parts1(re2, sh)
    <2>1. ASSUME NEW p \in Collections, There(re2[p])
          PROVE  re2[p].amount = re2[p].remaining + re2[p].refunded + SumOver(sh[p], Bills)
      <3>1. CASE p # q
        BY <1>1, <1>2, <2>1, <3>1 DEF Parts1
      <3>2. CASE p = q /\ There(re[q])
        <4>1. re[q] \in PaidRow
          BY <1>1, <3>2, NoRowIsNone DEF PaidOK
        <4>2. re[q].remaining \in Nat /\ re[q].refunded \in Nat
          BY <4>1, PaidNumbers
        <4>3. re[q].amount = re[q].remaining + re[q].refunded + SumOver(sh[q], Bills)
          BY <1>1, <3>2 DEF Parts1
        <4>4. r.amount = re[q].amount /\ r.remaining + r.refunded = re[q].remaining + re[q].refunded
          BY <3>2, NoRowIsNone
        <4>5. SumOver(sh[q], Bills) \in Nat
          BY <1>1, BillingFacts, SumIsNatural DEF OwnShare
        <4> QED BY <1>2, <1>5, <3>2, <4>2, <4>3, <4>4, <4>5
      <3>3. CASE p = q /\ ~There(re[q])
        <4>1. r.amount = r.remaining + r.refunded
          BY <3>3
        <4>2. \A i \in Bills : sh[q][i] = 0
          BY <1>1, <3>3 DEF OwnShare
        <4>3. SumOver(sh[q], Bills) = 0
          BY <4>2, BillingFacts, SumOfZeros
        <4> QED BY <1>2, <1>5, <3>3, <4>1, <4>3
      <3> QED BY <3>1, <3>2, <3>3
    <2> QED BY <2>1 DEF Parts1
  <1>10. BooksLess(bi, re2, sh, ad, t2)
    BY <1>1, <1>2, <1>4, <1>7, <1>8, <1>9 DEF BooksLess
  <1>11. ASSUME NEW c \in Customers
         PROVE  Difference(bi, re2, ad, c) = Difference(bi, re, ad, c) - PaidGapOf(r, c) + PaidGapOf(re[q], c)
    <2>1. SumOver(Worth(bi, re2, ad, c), Adjustments) = SumOver(Worth(bi, re, ad, c), Adjustments)
      BY <1>1, <1>6, WorthStays
    <2>2. SumOver(Worth(bi, re, ad, c), Adjustments) \in Int
      BY <1>1, WorthSum
    <2>3. SumOver(BillGap(bi, c), Bills) \in Int /\ SumOver(PaidGap(re, c), Collections) \in Int
      BY <1>1, GapSums
    <2>4. PaidGapOf(r, c) \in Int /\ PaidGapOf(re[q], c) \in Int
      BY <1>1, PaidGapIsInteger DEF PaidOK
    <2> QED BY <1>3, <2>1, <2>2, <2>3, <2>4 DEF Difference
  <1> QED BY <1>10, <1>11 DEF re2, t2

\* An adjustment is written: nothing, or what it is worth once approved.
LEMMA AdjustedRewritten ==
  ASSUME NEW bi, NEW re, NEW sh, NEW ad, NEW t, BooksLess(bi, re, sh, ad, t),
         NEW e \in Adjustments, NEW row, Aimed(bi, re, row), ad[e].status # "approved"
  PROVE  /\ BooksLess(bi, re, sh, AdjustedPut(ad, e, row), t)
         /\ \A c \in Customers : Difference(bi, re, AdjustedPut(ad, e, row), c)
                                   = Difference(bi, re, ad, c) + WorthOf(bi, re, row, c)
  <1>1. BillsOK(bi) /\ PaidOK(re) /\ AdjustedOK(bi, re, ad)
    BY DEF BooksLess
  <1>2. AdjustedOK(bi, re, AdjustedPut(ad, e, row))
    BY <1>1 DEF AdjustedOK, AdjustedPut
  <1>3. BooksLess(bi, re, sh, AdjustedPut(ad, e, row), t)
    BY <1>2 DEF BooksLess
  <1>4. ASSUME NEW c \in Customers
        PROVE  Difference(bi, re, AdjustedPut(ad, e, row), c) = Difference(bi, re, ad, c) + WorthOf(bi, re, row, c)
    <2> DEFINE ad2 == AdjustedPut(ad, e, row)
    <2>1. /\ SumOver(Worth(bi, re, ad, c), Adjustments) \in Int
          /\ SumOver(Worth(bi, re, ad2, c), Adjustments)
               = SumOver(Worth(bi, re, ad, c), Adjustments) + WorthOf(bi, re, row, c) - WorthOf(bi, re, ad[e], c)
      BY <1>1, WorthAfterPut
    <2>2. WorthOf(bi, re, ad[e], c) = 0 /\ WorthOf(bi, re, row, c) \in Int
      BY <1>1, WorthIsInteger DEF AdjustedOK
    <2>3. SumOver(BillGap(bi, c), Bills) \in Int /\ SumOver(PaidGap(re, c), Collections) \in Int
      BY <1>1, GapSums
    <2> HIDE DEF ad2
    <2>4. Difference(bi, re, ad2, c) = Difference(bi, re, ad, c) + WorthOf(bi, re, row, c)
      BY <2>1, <2>2, <2>3 DEF Difference
    <2> QED BY <2>4 DEF ad2
  <1> QED BY <1>3, <1>4

-----------------------------------------------------------------------------
(* Cancellation: every payment takes back what the invoice holds of it. *)

TakenBack(re, sh, j) ==
  [p \in Collections |-> IF re[p] = NoRow THEN NoRow ELSE [re[p] EXCEPT !.remaining = @ + sh[p][j]]]
Cleared(sh, j) == [p \in Collections |-> [sh[p] EXCEPT ![j] = 0]]

LEMMA RowTakenBack ==
  ASSUME NEW p \in PaidRow, NEW n \in Nat
  PROVE  LET r == [p EXCEPT !.remaining = @ + n]
         IN  /\ r \in PaidRow /\ There(r) /\ r.customer = p.customer /\ r.amount = p.amount
             /\ r.remaining = p.remaining + n /\ r.refunded = p.refunded /\ KeptOf(r) = KeptOf(p)
             /\ \A c : PaidGapOf(p, c) = PaidGapOf(r, c) + (IF p.customer = c THEN n ELSE 0)
  <1> DEFINE r == [p EXCEPT !.remaining = p.remaining + n]
  <1>1. p.amount \in Nat /\ p.remaining \in Nat /\ p.refunded \in Nat /\ There(p)
    BY PaidNumbers
  <1>2. p.remaining + n \in Nat
    BY <1>1
  <1>3. /\ r \in PaidRow /\ r.customer = p.customer /\ r.amount = p.amount /\ r.status = p.status
        /\ r.remaining = p.remaining + n /\ r.refunded = p.refunded
    BY <1>2 DEF PaidRow
  <1> HIDE DEF r
  <1>4. There(r)
    BY <1>1, <1>3 DEF There
  <1>5. KeptOf(r) = KeptOf(p)
    BY <1>1, <1>3, <1>4 DEF KeptOf
  <1>6. ASSUME NEW c PROVE PaidGapOf(p, c) = PaidGapOf(r, c) + (IF p.customer = c THEN n ELSE 0)
    BY <1>1, <1>3, <1>4 DEF PaidGapOf
  <1> QED BY <1>3, <1>4, <1>5, <1>6 DEF r

LEMMA SumOfBills ==
  ASSUME NEW f, NEW g, \A i \in Bills : f[i] \in Int /\ g[i] \in Int, NEW j \in Bills,
         \A i \in Bills \ {j} : g[i] = f[i]
  PROVE  SumOver(g, Bills) = SumOver(f, Bills) + g[j] - f[j]
  <1>1. IsFiniteSet(Bills)
    BY BillingFacts
  <1> QED BY <1>1, SumUpdate

LEMMA SharesCleared ==
  ASSUME NEW sh, sh \in [Collections -> [Bills -> Nat]], NEW j \in Bills
  PROVE  /\ Cleared(sh, j) \in [Collections -> [Bills -> Nat]]
         /\ \A p \in Collections, i \in Bills : Cleared(sh, j)[p][i] = IF i = j THEN 0 ELSE sh[p][i]
         /\ \A p \in Collections : SumOver(sh[p], Bills) \in Nat /\ SumOver(Cleared(sh, j)[p], Bills) \in Int
              /\ SumOver(Cleared(sh, j)[p], Bills) = SumOver(sh[p], Bills) - sh[p][j]
         /\ SumOver(Column(Cleared(sh, j), j), Collections) = 0
         /\ \A i \in Bills \ {j} :
              SumOver(Column(Cleared(sh, j), i), Collections) = SumOver(Column(sh, i), Collections)
  <1> DEFINE s2 == Cleared(sh, j)
  <1>1. \A p \in Collections : s2[p] = [sh[p] EXCEPT ![j] = 0]
    BY DEF Cleared
  <1>2. ASSUME NEW p \in Collections PROVE s2[p] \in [Bills -> Nat]
    <2>1. sh[p] \in [Bills -> Nat] /\ s2[p] = [sh[p] EXCEPT ![j] = 0]
      BY <1>1
    <2> HIDE DEF s2
    <2> QED BY <2>1
  <1>3. s2 \in [Collections -> [Bills -> Nat]]
    <2>1. s2 = [p \in Collections |-> s2[p]]
      BY DEF Cleared
    <2> HIDE DEF s2
    <2> QED BY <1>2, <2>1
  <1>4. \A p \in Collections, i \in Bills : s2[p][i] = IF i = j THEN 0 ELSE sh[p][i]
    BY <1>1
  <1> HIDE DEF s2
  <1>5. ASSUME NEW p \in Collections
        PROVE  /\ SumOver(sh[p], Bills) \in Nat /\ SumOver(s2[p], Bills) \in Int
               /\ SumOver(s2[p], Bills) = SumOver(sh[p], Bills) - sh[p][j]
    <2>1. SumOver(sh[p], Bills) \in Nat
      BY BillingFacts, SumIsNatural
    <2>2. \A i \in Bills : sh[p][i] \in Int /\ s2[p][i] \in Int
      BY <1>2
    <2>3. SumOver(s2[p], Bills) = SumOver(sh[p], Bills) + s2[p][j] - sh[p][j]
      <3>1. \A i \in Bills \ {j} : s2[p][i] = sh[p][i]
        BY <1>4
      <3> QED BY <2>2, <3>1, SumOfBills
    <2>4. s2[p][j] = 0 /\ sh[p][j] \in Nat
      BY <1>4
    <2> QED BY <2>1, <2>3, <2>4
  <1>6. SumOver(Column(s2, j), Collections) = 0
    <2>1. \A p \in Collections : Column(s2, j)[p] = 0
      BY <1>4 DEF Column
    <2> QED BY <2>1, BillingFacts, SumOfZeros
  <1>7. ASSUME NEW i \in Bills \ {j}
        PROVE  SumOver(Column(s2, i), Collections) = SumOver(Column(sh, i), Collections)
    <2>1. \A p \in Collections : Column(s2, i)[p] = Column(sh, i)[p]
      BY <1>4 DEF Column
    <2> QED BY <2>1, BillingFacts, SumAgrees
  <1> QED BY <1>3, <1>4, <1>5, <1>6, <1>7 DEF s2

LEMMA CancelSettles ==
  ASSUME NEW bi, NEW re, NEW sh, NEW ad, NEW t, BooksLess(bi, re, sh, ad, t),
         NEW j \in Bills, bi[j].status = "issued"
  PROVE  /\ BooksLess(BillPut(bi, j, Cancelled(bi[j])), TakenBack(re, sh, j), Cleared(sh, j), ad, t)
         /\ \A c \in Customers :
              Difference(BillPut(bi, j, Cancelled(bi[j])), TakenBack(re, sh, j), ad, c)
                = Difference(bi, re, ad, c) + (IF bi[j].customer = c THEN NetTotal(bi[j]) ELSE 0)
  <1> DEFINE b == Cancelled(bi[j])
             bi2 == BillPut(bi, j, b)
             re2 == TakenBack(re, sh, j)
             sh2 == Cleared(sh, j)
  <1>1. /\ BillsOK(bi) /\ PaidOK(re) /\ OwnShare(bi, re, sh) /\ AdjustedOK(bi, re, ad)
        /\ Parts1(re, sh) /\ Parts2(bi, sh) /\ t = SumOver(Kept(re), Collections)
        /\ sh \in [Collections -> [Bills -> Nat]]
    BY DEF BooksLess, OwnShare
  <1>2. There(bi[j]) /\ GoodBill(bi[j])
    <2>1. There(bi[j])
      BY DEF There
    <2> QED BY <1>1, <2>1, NoRowIsNone DEF BillsOK
  <1>3. /\ GoodBill(b) /\ There(b) /\ b.customer = bi[j].customer /\ b.paid = 0
        /\ \A c : BillGapOf(b, c)
                    = BillGapOf(bi[j], c) + (IF bi[j].customer = c THEN NetTotal(bi[j]) - bi[j].paid ELSE 0)
    BY <1>2, BillCancelled
  <1> HIDE DEF b
  <1>4. BillsOK(bi2) /\ bi2[j] = b /\ \A k \in Bills \ {j} : bi2[k] = bi[k]
    BY <1>1, <1>3, BillIsPut
  <1>5. ASSUME NEW c
        PROVE  SumOver(BillGap(bi2, c), Bills) = SumOver(BillGap(bi, c), Bills) + BillGapOf(b, c) - BillGapOf(bi[j], c)
    BY <1>1, <1>3, GapsAfterPut
  <1>6. ASSUME NEW p \in Collections, There(re[p])
        PROVE  /\ re[p] \in PaidRow /\ re2[p] \in PaidRow /\ There(re2[p]) /\ re2[p].customer = re[p].customer
               /\ re2[p].amount = re[p].amount /\ re2[p].remaining = re[p].remaining + sh[p][j]
               /\ re2[p].refunded = re[p].refunded /\ KeptOf(re2[p]) = KeptOf(re[p])
               /\ \A c : PaidGapOf(re[p], c) = PaidGapOf(re2[p], c) + (IF re[p].customer = c THEN sh[p][j] ELSE 0)
    <2>1. re[p] \in PaidRow /\ re[p] # NoRow
      BY <1>1, <1>6, NoRowIsNone DEF PaidOK
    <2>2. sh[p][j] \in Nat
      BY <1>1
    <2>3. re2[p] = [re[p] EXCEPT !.remaining = @ + sh[p][j]]
      BY <2>1 DEF TakenBack
    <2> HIDE DEF re2
    <2> QED BY <2>1, <2>2, <2>3, RowTakenBack
  <1>7. ASSUME NEW p \in Collections, ~There(re[p])
        PROVE  re2[p] = NoRow /\ re[p] = NoRow
    <2>1. re[p] = NoRow
      BY <1>1, <1>7, PaidNumbers DEF PaidOK
    <2> QED BY <2>1 DEF TakenBack
  <1>8. PaidOK(re2)
    <2>1. DOMAIN re2 = Collections
      BY DEF TakenBack
    <2> HIDE DEF re2
    <2> QED BY <1>6, <1>7, <2>1 DEF PaidOK
  <1>9. /\ sh2 \in [Collections -> [Bills -> Nat]]
        /\ \A p \in Collections, i \in Bills : sh2[p][i] = IF i = j THEN 0 ELSE sh[p][i]
        /\ \A p \in Collections : SumOver(sh[p], Bills) \in Nat /\ SumOver(sh2[p], Bills) \in Int
             /\ SumOver(sh2[p], Bills) = SumOver(sh[p], Bills) - sh[p][j]
        /\ SumOver(Column(sh2, j), Collections) = 0
        /\ \A i \in Bills \ {j} : SumOver(Column(sh2, i), Collections) = SumOver(Column(sh, i), Collections)
    BY <1>1, SharesCleared
  <1> HIDE DEF bi2, re2, sh2
  <1>10. SameBills(bi, bi2) /\ SamePaid(re, re2)
    BY <1>3, <1>4, <1>6 DEF SameBills, SamePaid
  <1>11. AdjustedOK(bi2, re2, ad)
    BY <1>1, <1>10, AdjustedStay
  <1>12. OwnShare(bi2, re2, sh2)
    <2>1. ASSUME NEW p \in Collections, NEW i \in Bills, sh2[p][i] > 0
          PROVE  There(re2[p]) /\ There(bi2[i]) /\ re2[p].customer = bi2[i].customer
      <3>1. sh[p][i] > 0
        BY <1>9, <2>1
      <3>2. There(re[p]) /\ There(bi[i]) /\ re[p].customer = bi[i].customer
        BY <1>1, <3>1 DEF OwnShare
      <3> QED BY <1>10, <3>2 DEF SameBills, SamePaid
    <2> QED BY <1>9, <2>1 DEF OwnShare
  <1>13. Parts1(re2, sh2)
    <2>1. ASSUME NEW p \in Collections, There(re2[p])
          PROVE  re2[p].amount = re2[p].remaining + re2[p].refunded + SumOver(sh2[p], Bills)
      <3>1. There(re[p])
        BY <1>7, <2>1, NoRowIsNone
      <3>2. re[p].amount = re[p].remaining + re[p].refunded + SumOver(sh[p], Bills)
        BY <1>1, <3>1 DEF Parts1
      <3>3. re[p].remaining \in Nat /\ re[p].refunded \in Nat /\ sh[p][j] \in Nat /\ SumOver(sh[p], Bills) \in Nat
        BY <1>1, <1>6, <1>9, <3>1, PaidNumbers
      <3>4. SumOver(sh2[p], Bills) = SumOver(sh[p], Bills) - sh[p][j]
        BY <1>9
      <3>5. /\ re2[p].amount = re[p].amount /\ re2[p].remaining = re[p].remaining + sh[p][j]
            /\ re2[p].refunded = re[p].refunded
        BY <1>6, <3>1
      <3> QED BY <3>2, <3>3, <3>4, <3>5
    <2> QED BY <2>1 DEF Parts1
  <1>14. Parts2(bi2, sh2)
    <2>1. ASSUME NEW i \in Bills, There(bi2[i])
          PROVE  bi2[i].paid = SumOver(Column(sh2, i), Collections)
      <3>1. CASE i = j
        BY <1>3, <1>4, <1>9, <3>1
      <3>2. CASE i # j
        BY <1>1, <1>4, <1>9, <2>1, <3>2 DEF Parts2
      <3> QED BY <3>1, <3>2
    <2> QED BY <2>1 DEF Parts2
  <1>15. t = SumOver(Kept(re2), Collections)
    <2>1. ASSUME NEW p \in Collections PROVE Kept(re2)[p] = Kept(re)[p]
      <3>1. KeptOf(re2[p]) = KeptOf(re[p])
        BY <1>6, <1>7
      <3> QED BY <3>1 DEF Kept
    <2>2. SumOver(Kept(re2), Collections) = SumOver(Kept(re), Collections)
      BY <2>1, BillingFacts, SumAgrees
    <2> QED BY <1>1, <2>2
  <1>16. BooksLess(bi2, re2, sh2, ad, t)
    BY <1>4, <1>8, <1>11, <1>12, <1>13, <1>14, <1>15 DEF BooksLess
  <1>17. ASSUME NEW c \in Customers
         PROVE  Difference(bi2, re2, ad, c)
                  = Difference(bi, re, ad, c) + (IF bi[j].customer = c THEN NetTotal(bi[j]) ELSE 0)
    <2>1. SumOver(Worth(bi2, re2, ad, c), Adjustments) = SumOver(Worth(bi, re, ad, c), Adjustments)
      BY <1>1, <1>10, WorthStays
    <2>2. SumOver(Worth(bi, re, ad, c), Adjustments) \in Int
      BY <1>1, WorthSum
    <2>3. SumOver(BillGap(bi, c), Bills) \in Int /\ SumOver(PaidGap(re, c), Collections) \in Int
      BY <1>1, GapSums
    <2>4. SumOver(PaidGap(re2, c), Collections) \in Int
      BY <1>4, <1>8, GapSums
    <2>5. BillGapOf(bi[j], c) \in Int /\ NetTotal(bi[j]) \in Nat /\ bi[j].paid \in Nat
      BY <1>2, GapIsInteger, BillNumbers
    <2>6. \A p \in Collections : /\ PaidGap(re, c)[p] = PaidGapOf(re[p], c)
                                 /\ PaidGap(re2, c)[p] = PaidGapOf(re2[p], c)
      BY DEF PaidGap
    <2>7. \A p \in Collections : PaidGapOf(re[p], c) \in Int /\ PaidGapOf(re2[p], c) \in Int
      BY <1>1, <1>8, PaidGapIsInteger DEF PaidOK
    <2>8. CASE bi[j].customer = c
      <3>1. \A p \in Collections : Column(sh, j)[p] = sh[p][j] /\ sh[p][j] \in Nat
        BY <1>1 DEF Column
      <3>2. ASSUME NEW p \in Collections
            PROVE  PaidGap(re, c)[p] = PaidGap(re2, c)[p] + Column(sh, j)[p]
        <4>1. CASE There(re[p])
          <5>1. sh[p][j] > 0 => re[p].customer = c
            BY <1>1, <2>8 DEF OwnShare
          <5>2. PaidGapOf(re[p], c) = PaidGapOf(re2[p], c) + (IF re[p].customer = c THEN sh[p][j] ELSE 0)
            BY <1>6, <4>1
          <5>3. PaidGapOf(re[p], c) = PaidGapOf(re2[p], c) + sh[p][j]
            BY <2>7, <3>1, <5>1, <5>2
          <5> QED BY <2>6, <3>1, <5>3
        <4>2. CASE ~There(re[p])
          <5>1. sh[p][j] = 0
            BY <1>1, <3>1, <4>2 DEF OwnShare
          <5>2. PaidGapOf(re[p], c) = PaidGapOf(re2[p], c)
            BY <1>7, <4>2
          <5> QED BY <2>6, <2>7, <3>1, <5>1, <5>2
        <4> QED BY <4>1, <4>2
      <3>3. SumOver(PaidGap(re, c), Collections) = SumOver(PaidGap(re2, c), Collections) + SumOver(Column(sh, j), Collections)
        <4>1. \A p \in Collections : /\ PaidGap(re2, c)[p] \in Int /\ Column(sh, j)[p] \in Int
                                     /\ PaidGap(re, c)[p] = PaidGap(re2, c)[p] + Column(sh, j)[p]
          BY <2>6, <2>7, <3>1, <3>2
        <4> QED BY <4>1, BillingFacts, SumOfChanges
      <3>4. SumOver(Column(sh, j), Collections) = bi[j].paid
        BY <1>1, <1>2 DEF Parts2
      <3>5. BillGapOf(b, c) = BillGapOf(bi[j], c) + (NetTotal(bi[j]) - bi[j].paid)
        BY <1>3, <2>8
      <3>6. SumOver(BillGap(bi2, c), Bills) = SumOver(BillGap(bi, c), Bills) + BillGapOf(b, c) - BillGapOf(bi[j], c)
        BY <1>5
      <3> QED BY <2>1, <2>2, <2>3, <2>4, <2>5, <2>8, <3>3, <3>4, <3>5, <3>6 DEF Difference
    <2>9. CASE bi[j].customer # c
      <3>1. ASSUME NEW p \in Collections PROVE PaidGap(re, c)[p] = PaidGap(re2, c)[p]
        <4>1. CASE There(re[p])
          <5>1. sh[p][j] \in Nat /\ (sh[p][j] > 0 => re[p].customer # c)
            BY <1>1, <2>9 DEF OwnShare
          <5>2. PaidGapOf(re[p], c) = PaidGapOf(re2[p], c) + (IF re[p].customer = c THEN sh[p][j] ELSE 0)
            BY <1>6, <4>1
          <5>3. PaidGapOf(re[p], c) = PaidGapOf(re2[p], c)
            BY <2>7, <5>1, <5>2
          <5> QED BY <2>6, <5>3
        <4>2. CASE ~There(re[p])
          BY <1>7, <2>6, <4>2
        <4> QED BY <4>1, <4>2
      <3>2. SumOver(PaidGap(re, c), Collections) = SumOver(PaidGap(re2, c), Collections)
        BY <3>1, BillingFacts, SumAgrees
      <3>3. BillGapOf(b, c) = BillGapOf(bi[j], c) + 0
        BY <1>3, <2>9
      <3>4. SumOver(BillGap(bi2, c), Bills) = SumOver(BillGap(bi, c), Bills) + BillGapOf(b, c) - BillGapOf(bi[j], c)
        BY <1>5
      <3> QED BY <2>1, <2>2, <2>3, <2>4, <2>5, <2>9, <3>2, <3>3, <3>4 DEF Difference
    <2> QED BY <2>8, <2>9
  <1> QED BY <1>16, <1>17 DEF bi2, re2, sh2, b

-----------------------------------------------------------------------------
(* A collection with allocations of its own. *)

GivenTo(bi, given) == [i \in Bills |-> IF given[i] > 0 THEN PaidMore(bi[i], given[i]) ELSE bi[i]]
ShareGiven(sh, q, given) == [sh EXCEPT ![q] = given]

MayGive(bi, cu, given) ==
  \A i \in Bills : given[i] > 0 =>
    bi[i].status = "issued" /\ bi[i].customer = cu /\ given[i] <= Outstanding(bi[i])
LEMMA BillsGiven ==
  ASSUME NEW bi, BillsOK(bi), NEW cu, NEW given \in [Bills -> Nat],
         MayGive(bi, cu, given)
  PROVE  /\ BillsOK(GivenTo(bi, given)) /\ SameBills(bi, GivenTo(bi, given))
         /\ \A i \in Bills : /\ There(GivenTo(bi, given)[i]) <=> There(bi[i])
                             /\ given[i] > 0 => There(bi[i]) /\ bi[i].customer = cu
                             /\ There(bi[i]) => GivenTo(bi, given)[i].paid = bi[i].paid + given[i]
         /\ \A c : \A i \in Bills : BillGapOf(GivenTo(bi, given)[i], c)
                                  = BillGapOf(bi[i], c) + (IF cu = c THEN given[i] ELSE 0)
  <1> DEFINE bi2 == GivenTo(bi, given)
  <1>1. DOMAIN bi2 = Bills /\ \A i \in Bills : bi2[i] = IF given[i] > 0 THEN PaidMore(bi[i], given[i]) ELSE bi[i]
    BY DEF GivenTo
  <1> HIDE DEF bi2
  <1>2. ASSUME NEW i \in Bills, given[i] > 0
        PROVE  /\ GoodBill(bi2[i]) /\ There(bi2[i]) /\ There(bi[i]) /\ bi2[i].customer = bi[i].customer
               /\ bi[i].customer = cu /\ bi2[i].paid = bi[i].paid + given[i]
               /\ \A c : BillGapOf(bi2[i], c) = BillGapOf(bi[i], c) + (IF cu = c THEN given[i] ELSE 0)
    <2>1. There(bi[i])
      BY <1>2 DEF There, MayGive
    <2>2. GoodBill(bi[i])
      BY <2>1, NoRowIsNone DEF BillsOK
    <2>3. given[i] \in Nat /\ given[i] <= Outstanding(bi[i]) /\ bi[i].status = "issued" /\ bi[i].customer = cu
      BY <1>2 DEF MayGive
    <2>4. bi2[i] = PaidMore(bi[i], given[i])
      BY <1>1, <1>2
    <2> QED BY <2>1, <2>2, <2>3, <2>4, BillPaid
  <1>3. ASSUME NEW i \in Bills, ~(given[i] > 0)
        PROVE  /\ bi2[i] = bi[i] /\ given[i] = 0
               /\ \A c : BillGapOf(bi2[i], c) = BillGapOf(bi[i], c) + (IF cu = c THEN given[i] ELSE 0)
    <2>1. bi2[i] = bi[i] /\ given[i] = 0
      BY <1>1, <1>3
    <2>2. \A c : BillGapOf(bi[i], c) \in Int
      BY GapIsInteger DEF BillsOK
    <2> QED BY <2>1, <2>2
  <1>4. BillsOK(bi2)
    BY <1>1, <1>2, <1>3 DEF BillsOK
  <1>5. SameBills(bi, bi2)
    BY <1>2, <1>3 DEF SameBills
  <1>6. ASSUME NEW i \in Bills
        PROVE  /\ There(bi2[i]) <=> There(bi[i])
               /\ given[i] > 0 => There(bi[i]) /\ bi[i].customer = cu
               /\ There(bi[i]) => bi2[i].paid = bi[i].paid + given[i]
    <2>1. CASE given[i] > 0
      BY <1>2, <2>1
    <2>2. CASE ~(given[i] > 0)
      <3>1. There(bi[i]) => bi[i].paid \in Nat
        BY NoRowIsNone, BillNumbers DEF BillsOK
      <3> QED BY <1>3, <2>2, <3>1
    <2> QED BY <2>1, <2>2
  <1>7. ASSUME NEW c, NEW i \in Bills
        PROVE  BillGapOf(bi2[i], c) = BillGapOf(bi[i], c) + (IF cu = c THEN given[i] ELSE 0)
    BY <1>2, <1>3
  <1> QED BY <1>4, <1>5, <1>6, <1>7 DEF bi2

LEMMA SumOfCollections ==
  ASSUME NEW f, NEW g, \A i \in Collections : f[i] \in Int /\ g[i] \in Int, NEW j \in Collections,
         \A i \in Collections \ {j} : g[i] = f[i]
  PROVE  SumOver(g, Collections) = SumOver(f, Collections) + g[j] - f[j]
  <1>1. IsFiniteSet(Collections)
    BY BillingFacts
  <1> QED BY <1>1, SumUpdate

PartOf(cu, c, n) == IF cu = c THEN n ELSE 0
GapGrows(bi, given, cu, c, i) ==
  BillGapOf(GivenTo(bi, given)[i], c) = BillGapOf(bi[i], c) + PartOf(cu, c, given[i])
LEMMA GivenGap ==
  ASSUME NEW bi, BillsOK(bi), NEW cu, NEW given \in [Bills -> Nat], MayGive(bi, cu, given), NEW c, NEW i \in Bills
  PROVE  GapGrows(bi, given, cu, c, i)
  BY BillsGiven DEF PartOf, GapGrows
LEMMA HoldingGap ==
  ASSUME NEW p \in PaidRow, NEW left \in Nat, NEW back \in Nat, NEW c
  PROVE  PaidGapOf(Holding(p, left, back), c) = PaidGapOf(p, c) + PartOf(p.customer, c, p.remaining - left)
  BY PaidHolds DEF PartOf

\* A payment that holds all of its amount gives some of it to its customer's bills.
LEMMA GivingKeeps ==
  ASSUME NEW bi, NEW re, NEW sh, NEW ad, NEW t, BooksLess(bi, re, sh, ad, t),
         NEW q \in Collections, There(re[q]), \A i \in Bills : sh[q][i] = 0,
         NEW given \in [Bills -> Nat], SumOver(given, Bills) <= re[q].remaining,
         MayGive(bi, re[q].customer, given)
  PROVE  LET re2 == PaidPut(re, q, Holding(re[q], re[q].remaining - SumOver(given, Bills), re[q].refunded))
         IN  /\ BooksLess(GivenTo(bi, given), re2, ShareGiven(sh, q, given), ad, t)
             /\ \A c \in Customers : Difference(GivenTo(bi, given), re2, ad, c) = Difference(bi, re, ad, c)
  <1> DEFINE cu == re[q].customer
             G == SumOver(given, Bills)
             r == Holding(re[q], re[q].remaining - G, re[q].refunded)
             bi2 == GivenTo(bi, given)
             re2 == PaidPut(re, q, r)
             sh2 == ShareGiven(sh, q, given)
  <1>1. /\ BillsOK(bi) /\ PaidOK(re) /\ OwnShare(bi, re, sh) /\ AdjustedOK(bi, re, ad)
        /\ Parts1(re, sh) /\ Parts2(bi, sh) /\ t = SumOver(Kept(re), Collections)
        /\ sh \in [Collections -> [Bills -> Nat]]
    BY DEF BooksLess, OwnShare
  <1>2. re[q] \in PaidRow
    BY <1>1, NoRowIsNone DEF PaidOK
  <1>3. /\ re[q].remaining \in Nat /\ re[q].refunded \in Nat /\ re[q].amount \in Nat
        /\ re[q].customer \in Customers
    BY <1>2, PaidNumbers
  <1>4. G \in Nat /\ G <= re[q].remaining
    BY BillingFacts, SumIsNatural
  <1> HIDE DEF G
  <1>5. re[q].remaining - G \in Nat
    BY <1>3, <1>4
  <1>6. /\ r \in PaidRow /\ There(r) /\ r.customer = cu /\ r.amount = re[q].amount
        /\ r.remaining = re[q].remaining - G /\ r.refunded = re[q].refunded /\ KeptOf(r) = KeptOf(re[q])
        /\ \A c : PaidGapOf(r, c)
                    = PaidGapOf(re[q], c) + (IF re[q].customer = c THEN re[q].remaining - (re[q].remaining - G) ELSE 0)
    <2> DEFINE left == re[q].remaining - G
               back == re[q].refunded
               p == re[q]
    <2>1. left \in Nat /\ back \in Nat /\ r = Holding(p, left, back) /\ p \in PaidRow
      BY <1>2, <1>3, <1>5
    <2> HIDE DEF left, back, r, p
    <2>2. /\ r \in PaidRow /\ There(r) /\ r.customer = p.customer /\ r.amount = p.amount
          /\ r.remaining = left /\ r.refunded = back /\ KeptOf(r) = p.amount - back
          /\ KeptOf(p) = p.amount - p.refunded
          /\ \A c : PaidGapOf(r, c) = PaidGapOf(p, c) + (IF p.customer = c THEN p.remaining - left ELSE 0)
      <3>1. r \in PaidRow /\ There(r) /\ r.customer = p.customer /\ r.amount = p.amount
        BY <2>1, PaidHolds
      <3>2. /\ r.remaining = left /\ r.refunded = back /\ KeptOf(r) = p.amount - back
            /\ KeptOf(p) = p.amount - p.refunded
        BY <2>1, PaidHolds
      <3>3. ASSUME NEW c
            PROVE  PaidGapOf(r, c) = PaidGapOf(p, c) + (IF p.customer = c THEN p.remaining - left ELSE 0)
        <4>1. PaidGapOf(Holding(p, left, back), c) = PaidGapOf(p, c) + PartOf(p.customer, c, p.remaining - left)
          BY <2>1, HoldingGap
        <4> QED BY <2>1, <4>1 DEF PartOf
      <3> QED BY <3>1, <3>2, <3>3
    <2> QED BY <2>2 DEF left, back, p
  <1> HIDE DEF r, cu
  <1>7. re[q].remaining - (re[q].remaining - G) = G
    BY <1>3, <1>4
  <1>8. /\ BillsOK(bi2) /\ SameBills(bi, bi2)
        /\ \A i \in Bills : /\ There(bi2[i]) <=> There(bi[i])
                            /\ given[i] > 0 => There(bi[i]) /\ bi[i].customer = cu
                            /\ There(bi[i]) => bi2[i].paid = bi[i].paid + given[i]
        /\ \A c : \A i \in Bills : BillGapOf(bi2[i], c) = BillGapOf(bi[i], c) + (IF cu = c THEN given[i] ELSE 0)
    <2>1. MayGive(bi, cu, given)
      BY DEF cu
    <2> HIDE DEF cu
    <2>2. BillsOK(bi2) /\ SameBills(bi, bi2)
      BY <1>1, <2>1, BillsGiven
    <2>3. \A i \in Bills : /\ There(bi2[i]) <=> There(bi[i])
                           /\ given[i] > 0 => There(bi[i]) /\ bi[i].customer = cu
                           /\ There(bi[i]) => bi2[i].paid = bi[i].paid + given[i]
      BY <1>1, <2>1, BillsGiven
    <2>4. ASSUME NEW c, NEW i \in Bills
          PROVE  BillGapOf(bi2[i], c) = BillGapOf(bi[i], c) + PartOf(cu, c, given[i])
      <3>1. GapGrows(bi, given, cu, c, i)
        BY <1>1, <2>1, GivenGap
      <3> QED BY <3>1 DEF GapGrows
    <2> QED BY <2>2, <2>3, <2>4 DEF PartOf
  <1>9. PaidOK(re2) /\ re2[q] = r /\ \A k \in Collections \ {q} : re2[k] = re[k]
    BY <1>1, <1>6, PaidIsPut
  <1>10. ASSUME NEW c
         PROVE  SumOver(PaidGap(re2, c), Collections)
                  = SumOver(PaidGap(re, c), Collections) + PaidGapOf(r, c) - PaidGapOf(re[q], c)
    BY <1>1, <1>6, PaidGapsAfterPut
  <1>11. t = SumOver(Kept(re2), Collections)
    <2>1. /\ SumOver(Kept(re), Collections) \in Int
          /\ SumOver(Kept(re2), Collections) = SumOver(Kept(re), Collections) + KeptOf(r) - KeptOf(re[q])
      BY <1>1, <1>6, KeptAfterPut
    <2>2. KeptOf(re[q]) \in Int
      BY <1>2, KeptIsInteger
    <2> QED BY <1>1, <1>6, <2>1, <2>2
  <1>12. sh2 \in [Collections -> [Bills -> Nat]] /\ sh2[q] = given /\ \A p \in Collections \ {q} : sh2[p] = sh[p]
    BY <1>1 DEF ShareGiven
  <1> HIDE DEF bi2, re2, sh2
  <1>13. SamePaid(re, re2)
    BY <1>6, <1>9 DEF SamePaid, cu
  <1>14. AdjustedOK(bi2, re2, ad)
    BY <1>1, <1>8, <1>13, AdjustedStay
  <1>15. OwnShare(bi2, re2, sh2)
    <2>1. ASSUME NEW p \in Collections, NEW i \in Bills, sh2[p][i] > 0
          PROVE  There(re2[p]) /\ There(bi2[i]) /\ re2[p].customer = bi2[i].customer
      <3>1. CASE p = q
        <4>1. given[i] > 0
          BY <1>12, <2>1, <3>1
        <4>2. There(bi[i]) /\ bi[i].customer = cu
          BY <1>8, <4>1
        <4> QED BY <1>6, <1>8, <1>9, <3>1, <4>2 DEF SameBills
      <3>2. CASE p # q
        <4>1. There(re[p]) /\ There(bi[i]) /\ re[p].customer = bi[i].customer
          BY <1>1, <1>12, <2>1, <3>2 DEF OwnShare
        <4> QED BY <1>8, <1>13, <4>1 DEF SameBills, SamePaid
      <3> QED BY <3>1, <3>2
    <2> QED BY <1>12, <2>1 DEF OwnShare
  <1>16. Parts1(re2, sh2)
    <2>1. ASSUME NEW p \in Collections, There(re2[p])
          PROVE  re2[p].amount = re2[p].remaining + re2[p].refunded + SumOver(sh2[p], Bills)
      <3>1. CASE p # q
        BY <1>1, <1>9, <1>12, <2>1, <3>1 DEF Parts1
      <3>2. CASE p = q
        <4>1. SumOver(sh[q], Bills) = 0
          BY BillingFacts, SumOfZeros
        <4>2. re[q].amount = re[q].remaining + re[q].refunded + 0
          BY <1>1, <4>1 DEF Parts1
        <4>3. SumOver(sh2[p], Bills) = G
          BY <1>12, <3>2 DEF G
        <4>4. re2[p] = r
          BY <1>9, <3>2
        <4> QED BY <1>3, <1>4, <1>6, <4>2, <4>3, <4>4
      <3> QED BY <3>1, <3>2
    <2> QED BY <2>1 DEF Parts1
  <1>17. Parts2(bi2, sh2)
    <2>1. ASSUME NEW i \in Bills, There(bi2[i])
          PROVE  bi2[i].paid = SumOver(Column(sh2, i), Collections)
      <3> DEFINE f == Column(sh, i)
                 g == Column(sh2, i)
      <3>1. /\ \A p \in Collections : f[p] \in Int /\ g[p] \in Int
            /\ \A p \in Collections \ {q} : g[p] = f[p]
            /\ f[q] = 0 /\ g[q] = given[i]
        BY <1>1, <1>12 DEF Column
      <3>2. There(bi[i]) /\ bi2[i].paid = bi[i].paid + given[i]
        BY <1>8, <2>1
      <3>3. bi[i].paid = SumOver(f, Collections)
        BY <1>1, <3>2 DEF Parts2
      <3>4. \A p \in Collections : f[p] \in Nat
        BY <1>1 DEF Column
      <3> HIDE DEF f, g
      <3>5. SumOver(g, Collections) = SumOver(f, Collections) + g[q] - f[q]
        BY <3>1, SumOfCollections
      <3>6. SumOver(f, Collections) \in Nat
        BY <3>4, BillingFacts, SumIsNatural
      <3>7. bi2[i].paid = SumOver(g, Collections)
        BY <3>1, <3>2, <3>3, <3>5, <3>6
      <3> QED BY <3>7 DEF g
    <2> QED BY <2>1 DEF Parts2
  <1>18. BooksLess(bi2, re2, sh2, ad, t)
    BY <1>8, <1>9, <1>11, <1>14, <1>15, <1>16, <1>17 DEF BooksLess
  <1>19. ASSUME NEW c \in Customers PROVE Difference(bi2, re2, ad, c) = Difference(bi, re, ad, c)
    <2>1. SumOver(Worth(bi2, re2, ad, c), Adjustments) = SumOver(Worth(bi, re, ad, c), Adjustments)
      BY <1>1, <1>8, <1>13, WorthStays
    <2>2. SumOver(Worth(bi, re, ad, c), Adjustments) \in Int
      BY <1>1, WorthSum
    <2>3. SumOver(BillGap(bi, c), Bills) \in Int /\ SumOver(PaidGap(re, c), Collections) \in Int
      BY <1>1, GapSums
    <2>4. PaidGapOf(re[q], c) \in Int
      BY <1>2, PaidGapIsInteger
    <2> DEFINE f == BillGap(bi, c)
               g == BillGap(bi2, c)
    <2>5. \A i \in Bills : f[i] \in Int /\ g[i] = f[i] + (IF cu = c THEN given[i] ELSE 0)
      <3>1. \A i \in Bills : f[i] = BillGapOf(bi[i], c) /\ g[i] = BillGapOf(bi2[i], c)
        BY DEF BillGap
      <3>2. \A i \in Bills : BillGapOf(bi[i], c) \in Int
        BY <1>1, GapIsInteger DEF BillsOK
      <3> HIDE DEF f, g
      <3> QED BY <1>8, <3>1, <3>2
    <2> HIDE DEF f, g
    <2>6. PaidGapOf(r, c) = PaidGapOf(re[q], c) + (IF cu = c THEN G ELSE 0)
      BY <1>6, <1>7 DEF cu
    <2>7. CASE cu = c
      <3>1. \A i \in Bills : f[i] \in Int /\ given[i] \in Int /\ g[i] = f[i] + given[i]
        BY <2>5, <2>7
      <3>2. SumOver(g, Bills) = SumOver(f, Bills) + SumOver(given, Bills)
        BY <3>1, BillingFacts, SumOfChanges
      <3>3. PaidGapOf(r, c) = PaidGapOf(re[q], c) + G
        BY <2>6, <2>7
      <3>4. SumOver(BillGap(bi2, c), Bills) = SumOver(BillGap(bi, c), Bills) + G
        BY <3>2 DEF f, g, G
      <3> QED BY <1>4, <1>10, <2>1, <2>2, <2>3, <2>4, <3>3, <3>4 DEF Difference
    <2>8. CASE cu # c
      <3>1. \A i \in Bills : g[i] = f[i]
        BY <2>5, <2>8
      <3>2. SumOver(g, Bills) = SumOver(f, Bills)
        BY <3>1, BillingFacts, SumAgrees
      <3>3. PaidGapOf(r, c) = PaidGapOf(re[q], c)
        BY <2>4, <2>6, <2>8
      <3>4. SumOver(BillGap(bi2, c), Bills) = SumOver(BillGap(bi, c), Bills)
        BY <3>2 DEF f, g
      <3> QED BY <1>10, <2>1, <2>2, <2>3, <2>4, <3>3, <3>4 DEF Difference
    <2> QED BY <2>7, <2>8
  <1> QED BY <1>18, <1>19 DEF bi2, re2, sh2, r, G

-----------------------------------------------------------------------------
(* Requests, on the books as one. *)

LEMMA NoRowHasNoGap ==
  /\ \A c : BillGapOf(NoRow, c) = 0 /\ PaidGapOf(NoRow, c) = 0
  /\ KeptOf(NoRow) = 0
  BY NoRowIsNone DEF BillGapOf, PaidGapOf, KeptOf

LEMMA IssueKeeps ==
  ASSUME NEW bi, NEW re, NEW sh, NEW ad, NEW t, BooksOK(bi, re, sh, ad, t),
         NEW j \in Bills, bi[j] = NoRow, NEW cu \in Customers, NEW total \in Sums, NEW fee \in {0, 1}
  PROVE  BooksOK(BillPut(bi, j, NewBill(cu, total, fee)), re, sh, ad, t)
  <1> DEFINE b == NewBill(cu, total, fee)
  <1>1. GoodBill(b) /\ b.paid = 0 /\ \A c : BillGapOf(b, c) = 0
    BY BillIsNew
  <1> HIDE DEF b
  <1>2. BooksLess(bi, re, sh, ad, t) /\ \A c \in Customers : Difference(bi, re, ad, c) = 0
    BY BooksAgree
  <1>3. BooksLess(BillPut(bi, j, b), re, sh, ad, t)
    BY <1>1, <1>2, BillRewritten
  <1>4. ASSUME NEW c \in Customers PROVE Difference(BillPut(bi, j, b), re, ad, c) = 0
    <2>1. Difference(BillPut(bi, j, b), re, ad, c) = Difference(bi, re, ad, c) + BillGapOf(b, c) - BillGapOf(bi[j], c)
      BY <1>1, <1>2, BillRewritten
    <2>2. Difference(bi, re, ad, c) = 0 /\ BillGapOf(b, c) = 0 /\ BillGapOf(bi[j], c) = 0
      BY <1>1, <1>2, NoRowHasNoGap
    <2> QED BY <2>1, <2>2
  <1>5. BooksOK(BillPut(bi, j, b), re, sh, ad, t)
    BY <1>3, <1>4, BooksAgree
  <1> QED BY <1>5 DEF b

LEMMA CollectKeeps ==
  ASSUME NEW bi, NEW re, NEW sh, NEW ad, NEW t \in Nat, BooksOK(bi, re, sh, ad, t),
         NEW q \in Collections, re[q] = NoRow, NEW cu \in Customers, NEW am \in Sums
  PROVE  BooksOK(bi, PaidPut(re, q, NewPaid(cu, am, am)), sh, ad, t + am)
  <1> DEFINE r == NewPaid(cu, am, am)
  <1>1. am \in Nat /\ am - am = 0
    BY BillingFacts
  <1>2. /\ r \in PaidRow /\ r.amount = am /\ r.remaining = am /\ r.refunded = 0 /\ KeptOf(r) = am
        /\ \A c : PaidGapOf(r, c) = 0
    BY <1>1, PaidIsNew
  <1> HIDE DEF r
  <1>3. BooksLess(bi, re, sh, ad, t) /\ \A c \in Customers : Difference(bi, re, ad, c) = 0
    BY BooksAgree
  <1>4. r.amount = r.remaining + r.refunded
    BY <1>1, <1>2
  <1>5. BooksLess(bi, PaidPut(re, q, r), sh, ad, t + KeptOf(r) - KeptOf(re[q]))
    BY <1>2, <1>3, <1>4, PaidRewritten
  <1>6. t + KeptOf(r) - KeptOf(re[q]) = t + am
    BY <1>1, <1>2, NoRowHasNoGap
  <1>7. ASSUME NEW c \in Customers PROVE Difference(bi, PaidPut(re, q, r), ad, c) = 0
    <2>1. Difference(bi, PaidPut(re, q, r), ad, c) = Difference(bi, re, ad, c) - PaidGapOf(r, c) + PaidGapOf(re[q], c)
      BY <1>2, <1>3, <1>4, PaidRewritten
    <2>2. Difference(bi, re, ad, c) = 0 /\ PaidGapOf(r, c) = 0 /\ PaidGapOf(re[q], c) = 0
      BY <1>2, <1>3, NoRowHasNoGap
    <2> QED BY <2>1, <2>2
  <1>8. BooksLess(bi, PaidPut(re, q, r), sh, ad, t + am)
    BY <1>5, <1>6
  <1>9. BooksOK(bi, PaidPut(re, q, r), sh, ad, t + am)
    BY <1>7, <1>8, BooksAgree
  <1> QED BY <1>9 DEF r

LEMMA NewPaidHolding ==
  ASSUME NEW cu, NEW am, NEW left
  PROVE  Holding(NewPaid(cu, am, am), left, 0) = NewPaid(cu, am, left)
  <1>1. [[status |-> "received", customer |-> cu, amount |-> am, remaining |-> am, refunded |-> 0] EXCEPT !.remaining = left]
          = [status |-> "received", customer |-> cu, amount |-> am, remaining |-> left, refunded |-> 0]
    OBVIOUS
  <1>2. [[status |-> "received", customer |-> cu, amount |-> am, remaining |-> left, refunded |-> 0] EXCEPT !.refunded = 0]
          = [status |-> "received", customer |-> cu, amount |-> am, remaining |-> left, refunded |-> 0]
    OBVIOUS
  <1>3. Holding(NewPaid(cu, am, am), left, 0) = [[NewPaid(cu, am, am) EXCEPT !.remaining = left] EXCEPT !.refunded = 0]
    BY DEF Holding
  <1> QED BY <1>1, <1>2, <1>3 DEF NewPaid

LEMMA CollectForKeeps ==
  ASSUME NEW bi, NEW re, NEW sh, NEW ad, NEW t \in Nat, BooksOK(bi, re, sh, ad, t),
         NEW q \in Collections, re[q] = NoRow, NEW cu \in Customers, NEW am \in Sums,
         NEW given \in [Bills -> Nat], MayGive(bi, cu, given), SumOver(given, Bills) <= am
  PROVE  BooksOK(GivenTo(bi, given), PaidPut(re, q, NewPaid(cu, am, am - SumOver(given, Bills))),
                 ShareGiven(sh, q, given), ad, t + am)
  <1> DEFINE G == SumOver(given, Bills)
             re1 == PaidPut(re, q, NewPaid(cu, am, am))
             t2 == t + am
  <1>1. BooksOK(bi, re1, sh, ad, t2)
    BY CollectKeeps
  <1>2. PaidOK(re) /\ OwnShare(bi, re, sh)
    BY DEF BooksOK
  <1>3. re1[q] = NewPaid(cu, am, am) /\ DOMAIN re = Collections
    BY <1>2 DEF PaidPut, PaidOK
  <1>4. am \in Nat
    BY BillingFacts
  <1>5. There(re1[q]) /\ re1[q].remaining = am /\ re1[q].customer = cu /\ re1[q].refunded = 0
    BY <1>3, <1>4 DEF NewPaid, There
  <1>6. \A i \in Bills : sh[q][i] = 0
    BY <1>2, NoRowIsNone DEF OwnShare
  <1> HIDE DEF t2
  <1>7. BooksLess(bi, re1, sh, ad, t2) /\ \A c \in Customers : Difference(bi, re1, ad, c) = 0
    BY <1>1, BooksAgree
  <1> DEFINE re2 == PaidPut(re1, q, Holding(re1[q], re1[q].remaining - G, re1[q].refunded))
  <1>8. re2 = PaidPut(re, q, NewPaid(cu, am, am - G))
    <2>1. Holding(NewPaid(cu, am, am), am - G, 0) = NewPaid(cu, am, am - G)
      BY NewPaidHolding
    <2>2. re2 = PaidPut(re1, q, NewPaid(cu, am, am - G))
      BY <1>3, <1>5, <2>1
    <2> QED BY <1>3, <2>2 DEF PaidPut
  <1>9. BooksLess(GivenTo(bi, given), re2, ShareGiven(sh, q, given), ad, t2)
        /\ \A c \in Customers : Difference(GivenTo(bi, given), re2, ad, c) = Difference(bi, re1, ad, c)
    <2>1. MayGive(bi, re1[q].customer, given) /\ SumOver(given, Bills) <= re1[q].remaining
      BY <1>5
    <2> HIDE DEF re1
    <2> QED BY <1>5, <1>6, <1>7, <2>1, GivingKeeps
  <1> HIDE DEF re2, re1
  <1>10. BooksOK(GivenTo(bi, given), re2, ShareGiven(sh, q, given), ad, t2)
    BY <1>7, <1>9, BooksAgree
  <1> QED BY <1>8, <1>10 DEF G, t2

-----------------------------------------------------------------------------
(* Adjustments: the request, and what its decision counts for. *)

Asked(by, kind, of, am) == [status |-> "pending", by |-> by, kind |-> kind, of |-> of, amount |-> am]
LEMMA RequestKeeps ==
  ASSUME NEW bi, NEW re, NEW sh, NEW ad, NEW t, BooksOK(bi, re, sh, ad, t),
         NEW e \in Adjustments, ad[e] = NoRow, NEW row, Aimed(bi, re, row), row.status # "approved"
  PROVE  BooksOK(bi, re, sh, AdjustedPut(ad, e, row), t)
  <1>1. BooksLess(bi, re, sh, ad, t) /\ \A c \in Customers : Difference(bi, re, ad, c) = 0
    BY BooksAgree
  <1>2. ad[e].status # "approved"
    BY NoRowIsNone
  <1>3. BooksLess(bi, re, sh, AdjustedPut(ad, e, row), t)
    BY <1>1, <1>2, AdjustedRewritten
  <1>4. ASSUME NEW c \in Customers PROVE Difference(bi, re, AdjustedPut(ad, e, row), c) = 0
    <2>1. Difference(bi, re, AdjustedPut(ad, e, row), c) = Difference(bi, re, ad, c) + WorthOf(bi, re, row, c)
      BY <1>1, <1>2, AdjustedRewritten
    <2>2. WorthOf(bi, re, row, c) = 0 /\ Difference(bi, re, ad, c) = 0
      BY <1>1 DEF WorthOf
    <2> QED BY <2>1, <2>2
  <1> QED BY <1>3, <1>4, BooksAgree

DecidedAs(row, status) == [row EXCEPT !.status = status]
LEMMA DecisionCounts ==
  ASSUME NEW bi, NEW re, NEW row, Aimed(bi, re, row), NEW status \in {"approved", "rejected"}
  PROVE  /\ Aimed(bi, re, DecidedAs(row, status)) /\ DecidedAs(row, status).status = status
         /\ Signed(row) \in Int /\ row.amount \in Nat /\ row.amount <= MaxMoney
         /\ \A c : WorthOf(bi, re, DecidedAs(row, status), c)
                     = IF status = "approved" /\ Owner(bi, re, row) = c THEN Signed(row) ELSE 0
  <1> DEFINE r == DecidedAs(row, status)
  <1>1. row \in AdjustedRow
    BY DEF Aimed
  <1>2. /\ r \in AdjustedRow /\ r.status = status /\ r.by = row.by /\ r.amount = row.amount
        /\ r.kind = row.kind /\ r.of = row.of
    BY <1>1 DEF AdjustedRow, DecidedAs
  <1> HIDE DEF r
  <1>3. Aimed(bi, re, r)
    BY <1>2 DEF Aimed
  <1>4. row.amount \in 0..MaxMoney
    BY <1>1 DEF AdjustedRow
  <1>5. row.amount \in Nat /\ row.amount <= MaxMoney
    BY <1>4, BillingFacts
  <1>6. Signed(row) \in Int
    BY <1>5 DEF Signed
  <1>7. Signed(r) = Signed(row) /\ Owner(bi, re, r) = Owner(bi, re, row)
    BY <1>2 DEF Signed, Owner
  <1>8. ASSUME NEW c PROVE WorthOf(bi, re, r, c) = IF status = "approved" /\ Owner(bi, re, row) = c THEN Signed(row) ELSE 0
    BY <1>2, <1>7 DEF WorthOf
  <1> QED BY <1>2, <1>3, <1>5, <1>6, <1>8 DEF r

\* What an approval counts for; a rejection counts for nothing.
Counts(bi, re, row, c) == PartOf(Owner(bi, re, row), c, Signed(row))
LEMMA ApprovalCounts ==
  ASSUME NEW bi, NEW re, NEW sh, NEW ad, NEW t, BooksOK(bi, re, sh, ad, t),
         NEW e \in Adjustments, ad[e].status = "pending"
  PROVE  /\ Aimed(bi, re, ad[e]) /\ ad[e].amount \in Nat /\ ad[e].amount <= MaxMoney
         /\ BooksLess(bi, re, sh, AdjustedPut(ad, e, DecidedAs(ad[e], "approved")), t)
         /\ \A c \in Customers :
              Difference(bi, re, AdjustedPut(ad, e, DecidedAs(ad[e], "approved")), c) = Counts(bi, re, ad[e], c)
         /\ BooksOK(bi, re, sh, AdjustedPut(ad, e, DecidedAs(ad[e], "rejected")), t)
  <1> DEFINE row == ad[e]
             yes == DecidedAs(row, "approved")
             no == DecidedAs(row, "rejected")
  <1>1. BooksLess(bi, re, sh, ad, t) /\ \A c \in Customers : Difference(bi, re, ad, c) = 0
    BY BooksAgree
  <1>2. Aimed(bi, re, row) /\ row.status # "approved"
    BY <1>1, NoRowIsNone DEF BooksLess, AdjustedOK
  <1> HIDE DEF row
  <1>3. /\ Aimed(bi, re, yes) /\ Signed(row) \in Int /\ row.amount \in Nat /\ row.amount <= MaxMoney
        /\ \A c : WorthOf(bi, re, yes, c) = IF Owner(bi, re, row) = c THEN Signed(row) ELSE 0
    BY <1>2, DecisionCounts
  <1>4. /\ Aimed(bi, re, no) /\ \A c : WorthOf(bi, re, no, c) = 0
    BY <1>2, DecisionCounts
  <1> HIDE DEF yes, no
  <1>5. ad[e].status # "approved"
    BY <1>2 DEF row
  <1>6. BooksLess(bi, re, sh, AdjustedPut(ad, e, yes), t) /\ BooksLess(bi, re, sh, AdjustedPut(ad, e, no), t)
    BY <1>1, <1>3, <1>4, <1>5, AdjustedRewritten
  <1>7. ASSUME NEW c \in Customers PROVE Difference(bi, re, AdjustedPut(ad, e, yes), c) = Counts(bi, re, row, c)
    <2>1. Difference(bi, re, AdjustedPut(ad, e, yes), c) = Difference(bi, re, ad, c) + WorthOf(bi, re, yes, c)
      BY <1>1, <1>3, <1>5, AdjustedRewritten
    <2>2. Difference(bi, re, ad, c) = 0 /\ WorthOf(bi, re, yes, c) = Counts(bi, re, row, c)
      BY <1>1, <1>3 DEF Counts, PartOf
    <2>3. WorthOf(bi, re, yes, c) \in Int
      BY <1>3
    <2> QED BY <2>1, <2>2, <2>3
  <1>8. ASSUME NEW c \in Customers PROVE Difference(bi, re, AdjustedPut(ad, e, no), c) = 0
    <2>1. Difference(bi, re, AdjustedPut(ad, e, no), c) = Difference(bi, re, ad, c) + WorthOf(bi, re, no, c)
      BY <1>1, <1>4, <1>5, AdjustedRewritten
    <2>2. Difference(bi, re, ad, c) = 0 /\ WorthOf(bi, re, no, c) = 0
      BY <1>1, <1>4
    <2> QED BY <2>1, <2>2
  <1>9. BooksOK(bi, re, sh, AdjustedPut(ad, e, no), t)
    BY <1>6, <1>8, BooksAgree
  <1> QED BY <1>2, <1>3, <1>6, <1>7, <1>9 DEF row, yes, no

\* A refund, and the other decisions, settle what they count for.
LEMMA RefundSettles ==
  ASSUME NEW bi, NEW re, NEW sh, NEW ad, NEW t \in Nat, BooksOK(bi, re, sh, ad, t),
         NEW e \in Adjustments, ad[e].status = "pending", ad[e].kind = "refund",
         ad[e].amount <= re[ad[e].of].remaining, ad[e].amount <= t
  PROVE  BooksOK(bi, PaidPut(re, ad[e].of, Holding(re[ad[e].of], re[ad[e].of].remaining - ad[e].amount,
                                                   re[ad[e].of].refunded + ad[e].amount)),
                 sh, AdjustedPut(ad, e, DecidedAs(ad[e], "approved")), t - ad[e].amount)
  <1> DEFINE row == ad[e]
             q == row.of
             ad2 == AdjustedPut(ad, e, DecidedAs(row, "approved"))
             left == re[q].remaining - row.amount
             back == re[q].refunded + row.amount
             r == Holding(re[q], left, back)
  <1>1. /\ Aimed(bi, re, row) /\ row.amount \in Nat /\ BooksLess(bi, re, sh, ad2, t)
        /\ \A c \in Customers : Difference(bi, re, ad2, c) = Counts(bi, re, row, c)
    BY ApprovalCounts
  <1>2. q \in Collections /\ There(re[q])
    BY <1>1 DEF Aimed
  <1>3. re[q] \in PaidRow
    BY <1>1, <1>2, NoRowIsNone DEF BooksLess, PaidOK
  <1>4. re[q].remaining \in Nat /\ re[q].refunded \in Nat /\ re[q].amount \in Nat
    BY <1>3, PaidNumbers
  <1>5. left \in Nat /\ back \in Nat /\ left + back = re[q].remaining + re[q].refunded
        /\ re[q].remaining - left = row.amount /\ back = re[q].refunded + row.amount
    BY <1>1, <1>4
  <1>6. row.kind = "refund" /\ row.amount <= t
    OBVIOUS
  <1> HIDE DEF left, back, ad2, q, row
  <1>7. /\ r \in PaidRow /\ There(r) /\ r.customer = re[q].customer /\ r.amount = re[q].amount
        /\ r.remaining = left /\ r.refunded = back
        /\ KeptOf(r) = re[q].amount - back /\ KeptOf(re[q]) = re[q].amount - re[q].refunded
    <2> DEFINE p == re[q]
    <2>1. p \in PaidRow /\ left \in Nat /\ back \in Nat
      BY <1>3, <1>5
    <2> HIDE DEF p
    <2>2. LET f == Holding(p, left, back)
          IN  /\ f \in PaidRow /\ There(f) /\ f.customer = p.customer /\ f.amount = p.amount
              /\ f.remaining = left /\ f.refunded = back
              /\ KeptOf(f) = p.amount - back /\ KeptOf(p) = p.amount - p.refunded
      BY <2>1, PaidHolds
    <2> QED BY <2>2 DEF p
  <1>8. ASSUME NEW c PROVE PaidGapOf(r, c) = PaidGapOf(re[q], c) + PartOf(re[q].customer, c, re[q].remaining - left)
    BY <1>3, <1>5, HoldingGap
  <1> HIDE DEF r
  <1>9. There(re[q]) /\ r.customer = re[q].customer /\ r.amount = re[q].amount
        /\ r.remaining + r.refunded = re[q].remaining + re[q].refunded
    BY <1>2, <1>5, <1>7
  <1>10. BooksLess(bi, PaidPut(re, q, r), sh, ad2, t + KeptOf(r) - KeptOf(re[q]))
    BY <1>1, <1>2, <1>7, <1>9, PaidRewritten
  <1>11. t + KeptOf(r) - KeptOf(re[q]) = t - row.amount
    BY <1>1, <1>4, <1>5, <1>7
  <1>12. ASSUME NEW c \in Customers PROVE Difference(bi, PaidPut(re, q, r), ad2, c) = 0
    <2>1. Difference(bi, PaidPut(re, q, r), ad2, c) = Difference(bi, re, ad2, c) - PaidGapOf(r, c) + PaidGapOf(re[q], c)
      BY <1>1, <1>2, <1>7, <1>9, PaidRewritten
    <2>2. Difference(bi, re, ad2, c) = PartOf(re[q].customer, c, row.amount)
      BY <1>1, <1>6 DEF Counts, Owner, Signed, q
    <2>3. PaidGapOf(r, c) = PaidGapOf(re[q], c) + PartOf(re[q].customer, c, row.amount)
      BY <1>5, <1>8
    <2>4. PaidGapOf(re[q], c) \in Int
      BY <1>3, PaidGapIsInteger
    <2>5. PartOf(re[q].customer, c, row.amount) \in Int
      BY <1>1 DEF PartOf
    <2> QED BY <2>1, <2>2, <2>3, <2>4, <2>5
  <1>13. BooksLess(bi, PaidPut(re, q, r), sh, ad2, t - row.amount)
    BY <1>10, <1>11
  <1>14. BooksOK(bi, PaidPut(re, q, r), sh, ad2, t - row.amount)
    BY <1>12, <1>13, BooksAgree
  <1> QED BY <1>14 DEF r, left, back, ad2, q, row

LEMMA CancelKeeps ==
  ASSUME NEW bi, NEW re, NEW sh, NEW ad, NEW t, BooksOK(bi, re, sh, ad, t),
         NEW e \in Adjustments, ad[e].status = "pending", ad[e].kind = "cancel",
         bi[ad[e].of].status = "issued", ad[e].amount = NetTotal(bi[ad[e].of])
  PROVE  BooksOK(BillPut(bi, ad[e].of, Cancelled(bi[ad[e].of])), TakenBack(re, sh, ad[e].of), Cleared(sh, ad[e].of),
                 AdjustedPut(ad, e, DecidedAs(ad[e], "approved")), t)
  <1> DEFINE row == ad[e]
             j == row.of
             ad2 == AdjustedPut(ad, e, DecidedAs(row, "approved"))
  <1>1. /\ Aimed(bi, re, row) /\ row.amount \in Nat /\ BooksLess(bi, re, sh, ad2, t)
        /\ \A c \in Customers : Difference(bi, re, ad2, c) = Counts(bi, re, row, c)
    BY ApprovalCounts
  <1>2. row.kind = "cancel" /\ bi[j].status = "issued" /\ row.amount = NetTotal(bi[j])
    OBVIOUS
  <1>3. j \in Bills
    BY <1>1, <1>2 DEF Aimed
  <1> HIDE DEF ad2, j, row
  <1>4. /\ BooksLess(BillPut(bi, j, Cancelled(bi[j])), TakenBack(re, sh, j), Cleared(sh, j), ad2, t)
        /\ \A c \in Customers :
             Difference(BillPut(bi, j, Cancelled(bi[j])), TakenBack(re, sh, j), ad2, c)
               = Difference(bi, re, ad2, c) + (IF bi[j].customer = c THEN NetTotal(bi[j]) ELSE 0)
    BY <1>1, <1>2, <1>3, CancelSettles
  <1>5. ASSUME NEW c \in Customers
        PROVE  Difference(BillPut(bi, j, Cancelled(bi[j])), TakenBack(re, sh, j), ad2, c) = 0
    <2>1. Difference(bi, re, ad2, c) = PartOf(bi[j].customer, c, -row.amount)
      BY <1>1, <1>2 DEF Counts, Owner, Signed, j
    <2>2. Difference(BillPut(bi, j, Cancelled(bi[j])), TakenBack(re, sh, j), ad2, c)
            = PartOf(bi[j].customer, c, -row.amount) + PartOf(bi[j].customer, c, row.amount)
      BY <1>2, <1>4, <2>1 DEF PartOf
    <2>3. PartOf(bi[j].customer, c, -row.amount) + PartOf(bi[j].customer, c, row.amount) = 0
      BY <1>1 DEF PartOf
    <2> QED BY <2>2, <2>3
  <1>6. BooksOK(BillPut(bi, j, Cancelled(bi[j])), TakenBack(re, sh, j), Cleared(sh, j), ad2, t)
    BY <1>4, <1>5, BooksAgree
  <1> QED BY <1>6 DEF ad2, j, row

\* An invoice's row is rewritten for as much as the decision counts.
LEMMA NoteKeeps ==
  ASSUME NEW bi, NEW re, NEW sh, NEW ad, NEW t, BooksOK(bi, re, sh, ad, t),
         NEW e \in Adjustments, ad[e].status = "pending", ad[e].kind # "refund", There(bi[ad[e].of]),
         NEW b, GoodBill(b), b.customer = bi[ad[e].of].customer, b.paid = bi[ad[e].of].paid,
         \A c \in Customers : BillGapOf(b, c) = BillGapOf(bi[ad[e].of], c) - PartOf(b.customer, c, Signed(ad[e]))
  PROVE  BooksOK(BillPut(bi, ad[e].of, b), re, sh, AdjustedPut(ad, e, DecidedAs(ad[e], "approved")), t)
  <1> DEFINE row == ad[e]
             j == row.of
             ad2 == AdjustedPut(ad, e, DecidedAs(row, "approved"))
  <1>1. /\ Aimed(bi, re, row) /\ BooksLess(bi, re, sh, ad2, t)
        /\ \A c \in Customers : Difference(bi, re, ad2, c) = Counts(bi, re, row, c)
    BY ApprovalCounts
  <1>2. /\ row.kind # "refund" /\ There(bi[j]) /\ b.customer = bi[j].customer /\ b.paid = bi[j].paid
        /\ \A c \in Customers : BillGapOf(b, c) = BillGapOf(bi[j], c) - PartOf(b.customer, c, Signed(row))
    OBVIOUS
  <1>3. j \in Bills
    BY <1>1, <1>2 DEF Aimed
  <1>4. Signed(row) \in Int
    BY <1>1, DecisionCounts
  <1> HIDE DEF ad2, j, row
  <1>5. BooksLess(BillPut(bi, j, b), re, sh, ad2, t)
    BY <1>1, <1>2, <1>3, BillRewritten
  <1>6. ASSUME NEW c \in Customers PROVE Difference(BillPut(bi, j, b), re, ad2, c) = 0
    <2>1. Difference(BillPut(bi, j, b), re, ad2, c) = Difference(bi, re, ad2, c) + BillGapOf(b, c) - BillGapOf(bi[j], c)
      BY <1>1, <1>2, <1>3, BillRewritten
    <2>2. Difference(bi, re, ad2, c) = PartOf(b.customer, c, Signed(row))
      BY <1>1, <1>2 DEF Counts, Owner, j
    <2>3. BillGapOf(bi[j], c) \in Int
      BY <1>1, <1>3, GapIsInteger DEF BooksLess, BillsOK
    <2>4. PartOf(b.customer, c, Signed(row)) \in Int
      BY <1>4 DEF PartOf
    <2>5. BillGapOf(b, c) = BillGapOf(bi[j], c) - PartOf(b.customer, c, Signed(row))
      BY <1>2
    <2> QED BY <2>1, <2>2, <2>3, <2>4, <2>5
  <1>7. BooksOK(BillPut(bi, j, b), re, sh, ad2, t)
    BY <1>5, <1>6, BooksAgree
  <1> QED BY <1>7 DEF ad2, j, row

LEMMA LateFeeKeeps ==
  ASSUME NEW bi, NEW re, NEW sh, NEW ad, NEW t, BooksOK(bi, re, sh, ad, t), NEW j \in Bills,
         bi[j].status = "issued", ~bi[j].charged, NetTotal(bi[j]) + bi[j].fee <= MaxMoney
  PROVE  BooksOK(BillPut(bi, j, LateFeeOn(bi[j])), re, sh, ad, t)
  <1> DEFINE b == LateFeeOn(bi[j])
  <1>1. BooksLess(bi, re, sh, ad, t) /\ \A c \in Customers : Difference(bi, re, ad, c) = 0
    BY BooksAgree
  <1>2. There(bi[j]) /\ GoodBill(bi[j])
    <2>1. There(bi[j])
      BY DEF There
    <2> QED BY <1>1, <2>1, NoRowIsNone DEF BooksLess, BillsOK
  <1>3. /\ GoodBill(b) /\ b.customer = bi[j].customer /\ b.paid = bi[j].paid
        /\ \A c : BillGapOf(b, c) = BillGapOf(bi[j], c)
    BY <1>2, BillCharged
  <1> HIDE DEF b
  <1>4. BooksLess(BillPut(bi, j, b), re, sh, ad, t)
    BY <1>1, <1>2, <1>3, BillRewritten
  <1>5. ASSUME NEW c \in Customers PROVE Difference(BillPut(bi, j, b), re, ad, c) = 0
    <2>1. Difference(BillPut(bi, j, b), re, ad, c) = Difference(bi, re, ad, c) + BillGapOf(b, c) - BillGapOf(bi[j], c)
      BY <1>1, <1>2, <1>3, BillRewritten
    <2>2. Difference(bi, re, ad, c) = 0 /\ BillGapOf(b, c) = BillGapOf(bi[j], c) /\ BillGapOf(bi[j], c) \in Int
      BY <1>1, <1>2, <1>3, GapIsInteger
    <2> QED BY <2>1, <2>2
  <1>6. BooksOK(BillPut(bi, j, b), re, sh, ad, t)
    BY <1>4, <1>5, BooksAgree
  <1> QED BY <1>6 DEF b

LEMMA SumAsFold ==
  ASSUME NEW f
  PROVE  SumFunction(f) = SumOver(f, DOMAIN f)
  BY DEF SumFunction, SumFunctionOnSet, FoldFunctionOnSet, SumOver, MapThenSumSet

-----------------------------------------------------------------------------
(* The invariant, step by step. *)

LEMMA BillingStarts == BillingInit => BillingInv
  <1> SUFFICES ASSUME BillingInit PROVE BillingInv
    OBVIOUS
  <1>1. /\ automatic \in BOOLEAN /\ till = 0
        /\ DOMAIN billed = Bills /\ \A i \in Bills : billed[i] = NoRow
        /\ DOMAIN received = Collections /\ \A p \in Collections : received[p] = NoRow
        /\ DOMAIN adjusted = Adjustments /\ \A d \in Adjustments : adjusted[d] = NoRow
        /\ share \in [Collections -> [Bills -> Nat]] /\ \A p \in Collections, i \in Bills : share[p][i] = 0
    BY DEF BillingInit
  <1>2. BillsOK(billed) /\ PaidOK(received) /\ AdjustedOK(billed, received, adjusted)
    BY <1>1 DEF BillsOK, PaidOK, AdjustedOK
  <1>3. OwnShare(billed, received, share) /\ Parts1(received, share) /\ Parts2(billed, share)
    BY <1>1, NoRowIsNone DEF OwnShare, Parts1, Parts2
  <1>4. till = SumOver(Kept(received), Collections)
    <2>1. \A p \in Collections : Kept(received)[p] = 0
      BY <1>1, NoRowHasNoGap DEF Kept
    <2>2. SumOver(Kept(received), Collections) = 0
      BY <2>1, BillingFacts, SumOfZeros
    <2> QED BY <1>1, <2>2
  <1>5. Agreed(billed, received, adjusted)
    <2>1. ASSUME NEW c \in Customers
          PROVE  SumOver(BillGap(billed, c), Bills) + SumOver(Worth(billed, received, adjusted, c), Adjustments)
                   = SumOver(PaidGap(received, c), Collections)
      <3>1. \A i \in Bills : BillGap(billed, c)[i] = 0
        BY <1>1, NoRowHasNoGap DEF BillGap
      <3>2. \A p \in Collections : PaidGap(received, c)[p] = 0
        BY <1>1, NoRowHasNoGap DEF PaidGap
      <3>3. \A d \in Adjustments : Worth(billed, received, adjusted, c)[d] = 0
        BY <1>1, NoRowIsNone DEF Worth, WorthOf
      <3>4. SumOver(BillGap(billed, c), Bills) = 0
        BY <3>1, BillingFacts, SumOfZeros
      <3>5. SumOver(PaidGap(received, c), Collections) = 0
        BY <3>2, BillingFacts, SumOfZeros
      <3>6. SumOver(Worth(billed, received, adjusted, c), Adjustments) = 0
        BY <3>3, BillingFacts, SumOfZeros
      <3> QED BY <3>4, <3>5, <3>6
    <2> QED BY <2>1 DEF Agreed
  <1>6. till \in 0..MaxMoney
    BY <1>1, BillingFacts
  <1> QED BY <1>1, <1>2, <1>3, <1>4, <1>5, <1>6 DEF BillingInv, BooksOK

\* What a request writes is what the books come to.
LEMMA BooksWritten ==
  ASSUME NEW books, Keep(books), BooksSound(books, adjusted', till'), automatic' \in BOOLEAN, till' \in 0..MaxMoney
  PROVE  BillingInv'
  <1>1. BooksOK(billed', received', share', adjusted', till')
    BY DEF Keep, BooksSound
  <1> QED BY <1>1 DEF BillingInv

LEMMA IssueInvoiceKeeps ==
  ASSUME BillingInv, NEW c \in Customers, NEW i \in Bills, NEW total \in Sums, NEW fee \in {0, 1},
         IssueInvoice(c, i, total, fee)
  PROVE  BillingInv'
  <1> DEFINE b == NewBill(c, total, fee)
             books == [Books EXCEPT !.billed[i] = b]
             next == IF automatic THEN ApplyAdvance(books, c) ELSE books
  <1>1. /\ billed[i] = NoRow /\ Keep(next)
        /\ automatic' = automatic /\ adjusted' = adjusted /\ till' = till
    BY DEF IssueInvoice, NewBill
  <1>2. BooksOK(billed, received, share, adjusted, till) /\ automatic \in BOOLEAN /\ till \in 0..MaxMoney
    BY DEF BillingInv
  <1>3. BooksOK(BillPut(billed, i, b), received, share, adjusted, till)
    BY <1>1, <1>2, IssueKeeps
  <1> HIDE DEF b
  <1>4. books.billed = BillPut(billed, i, b) /\ books.received = received /\ books.share = share
    BY DEF Books, BillPut
  <1> HIDE DEF books
  <1>5. BooksSound(books, adjusted, till)
    BY <1>3, <1>4 DEF BooksSound
  <1>6. BooksSound(ApplyAdvance(books, c), adjusted, till)
    BY <1>5, AdvanceKeeps
  <1>7. BooksSound(next, adjusted, till)
    BY <1>5, <1>6
  <1> HIDE DEF next
  <1> QED BY <1>1, <1>2, <1>7, BooksWritten

LEMMA CollectIsKept ==
  ASSUME BillingInv, NEW c \in Customers, NEW p \in Collections, NEW am \in Sums, Collect(c, p, am)
  PROVE  BillingInv'
  <1> DEFINE books == WithPayment(c, p, am)
  <1>1. /\ received[p] = NoRow /\ till + am <= MaxMoney /\ till' = till + am
        /\ automatic' = automatic /\ adjusted' = adjusted /\ Keep(ApplyAdvance(books, c))
    BY DEF Collect, Receive
  <1>2. BooksOK(billed, received, share, adjusted, till) /\ automatic \in BOOLEAN /\ till \in 0..MaxMoney
    BY DEF BillingInv
  <1>3. till \in Nat /\ am \in Nat
    BY <1>2, BillingFacts
  <1>4. BooksOK(billed, PaidPut(received, p, NewPaid(c, am, am)), share, adjusted, till + am)
    BY <1>1, <1>2, <1>3, CollectKeeps
  <1>5. books.billed = billed /\ books.received = PaidPut(received, p, NewPaid(c, am, am)) /\ books.share = share
    BY DEF Books, WithPayment, PaidPut, NewPaid
  <1> HIDE DEF books
  <1>6. BooksSound(books, adjusted', till')
    BY <1>1, <1>4, <1>5 DEF BooksSound
  <1>7. BooksSound(ApplyAdvance(books, c), adjusted', till')
    BY <1>6, AdvanceKeeps
  <1>8. till' \in 0..MaxMoney
    BY <1>1, <1>3, BillingFacts
  <1>9. automatic' \in BOOLEAN
    BY <1>1, <1>2
  <1> QED BY <1>1, <1>7, <1>8, <1>9, BooksWritten

LEMMA CollectForIsKept ==
  ASSUME BillingInv, NEW c \in Customers, NEW p \in Collections, NEW am \in Sums, CollectFor(c, p, am)
  PROVE  BillingInv'
  <1>1. /\ received[p] = NoRow /\ till + am <= MaxMoney /\ till' = till + am
        /\ automatic' = automatic /\ adjusted' = adjusted
    BY DEF CollectFor, Receive
  <1>2. PICK given \in [Bills -> Sums \cup {0}] :
          /\ SumFunction(given) \in 1..am
          /\ \A i \in Bills : given[i] > 0 =>
               billed[i].status = "issued" /\ billed[i].customer = c /\ given[i] <= Outstanding(billed[i])
          /\ billed' = [i \in Bills |-> IF given[i] > 0 THEN [billed[i] EXCEPT !.paid = @ + given[i]] ELSE billed[i]]
          /\ received' = [WithPayment(c, p, am).received EXCEPT ![p].remaining = am - SumFunction(given)]
          /\ share' = [share EXCEPT ![p] = given]
    BY DEF CollectFor
  <1>3. BooksOK(billed, received, share, adjusted, till) /\ automatic \in BOOLEAN /\ till \in 0..MaxMoney
    BY DEF BillingInv
  <1>4. till \in Nat /\ am \in Nat
    BY <1>3, BillingFacts
  <1>5. given \in [Bills -> Nat] /\ DOMAIN given = Bills
    <2>1. \A i \in Bills : given[i] \in Nat
      BY <1>2, BillingFacts
    <2> QED BY <1>2, <2>1
  <1> DEFINE G == SumOver(given, Bills)
  <1>6. SumFunction(given) = G
    BY <1>5, SumAsFold
  <1>7. G \in 1..am
    BY <1>2, <1>6
  <1>8. G <= am
    BY <1>4, <1>7
  <1>9. MayGive(billed, c, given)
    BY <1>2 DEF MayGive
  <1>10. BooksOK(GivenTo(billed, given), PaidPut(received, p, NewPaid(c, am, am - G)),
                 ShareGiven(share, p, given), adjusted, till + am)
    BY <1>1, <1>3, <1>4, <1>5, <1>8, <1>9, CollectForKeeps
  <1>11. billed' = GivenTo(billed, given)
    BY <1>2 DEF GivenTo, PaidMore
  <1>12. share' = ShareGiven(share, p, given)
    BY <1>2 DEF ShareGiven
  <1>13. received' = PaidPut(received, p, NewPaid(c, am, am - G))
    <2>1. DOMAIN received = Collections
      BY <1>3 DEF BooksOK, PaidOK
    <2>2. WithPayment(c, p, am).received = PaidPut(received, p, NewPaid(c, am, am))
      BY DEF Books, WithPayment, PaidPut, NewPaid
    <2>3. received' = [PaidPut(received, p, NewPaid(c, am, am)) EXCEPT ![p].remaining = am - G]
      BY <1>2, <1>6, <2>2
    <2>4. PaidPut(received, p, NewPaid(c, am, am))[p] = NewPaid(c, am, am)
      BY <2>1 DEF PaidPut
    <2>5. [NewPaid(c, am, am) EXCEPT !.remaining = am - G] = NewPaid(c, am, am - G)
      BY DEF NewPaid
    <2>6. received' = PaidPut(PaidPut(received, p, NewPaid(c, am, am)), p, NewPaid(c, am, am - G))
      <3>1. \A x, y : [x EXCEPT ![p].remaining = y] = [x EXCEPT ![p] = [x[p] EXCEPT !.remaining = y]]
        OBVIOUS
      <3> QED BY <2>3, <2>4, <2>5, <3>1 DEF PaidPut
    <2> QED BY <2>1, <2>6 DEF PaidPut
  <1>14. till' \in 0..MaxMoney
    BY <1>1, <1>4, BillingFacts
  <1>15. automatic' \in BOOLEAN
    BY <1>1, <1>3
  <1>16. BooksOK(billed', received', share', adjusted', till')
    BY <1>1, <1>10, <1>11, <1>12, <1>13
  <1> QED BY <1>14, <1>15, <1>16 DEF BillingInv

LEMMA UseAdvanceKeeps ==
  ASSUME BillingInv, NEW c \in Customers, UseAdvance(c)
  PROVE  BillingInv'
  <1>1. /\ Keep(ApplyAdvance(Books, c))
        /\ automatic' = automatic /\ adjusted' = adjusted /\ till' = till
    BY DEF UseAdvance
  <1>2. BooksOK(billed, received, share, adjusted, till) /\ automatic \in BOOLEAN /\ till \in 0..MaxMoney
    BY DEF BillingInv
  <1>3. BooksSound(Books, adjusted, till)
    BY <1>2 DEF Books, BooksSound
  <1>4. BooksSound(ApplyAdvance(Books, c), adjusted, till)
    BY <1>3, AdvanceKeeps
  <1> QED BY <1>1, <1>2, <1>4, BooksWritten

LEMMA RequestIsKept ==
  ASSUME BillingInv, NEW d \in Adjustments, NEW k \in Clerks, RequestAdjustment(d, k)
  PROVE  BillingInv'
  <1>1. BooksOK(billed, received, share, adjusted, till) /\ automatic \in BOOLEAN /\ till \in 0..MaxMoney
    BY DEF BillingInv
  <1>2. BillsOK(billed) /\ PaidOK(received)
    BY <1>1 DEF BooksOK
  <1>3. ASSUME NEW kind \in {"credit", "debit", "cancel", "refund"}, NEW of, NEW am, RequestOf(d, k, kind, of, am),
               am \in 0..MaxMoney,
               IF kind = "refund" THEN of \in Collections /\ There(received[of])
                                  ELSE of \in Bills /\ There(billed[of])
        PROVE  BillingInv'
    <2> DEFINE row == Asked(k, kind, of, am)
    <2>1. /\ adjusted[d] = NoRow /\ adjusted' = AdjustedPut(adjusted, d, row)
          /\ automatic' = automatic /\ billed' = billed /\ received' = received /\ share' = share /\ till' = till
      BY <1>3 DEF RequestOf, Asked, AdjustedPut
    <2>2. Aimed(billed, received, row) /\ row.status # "approved"
      BY <1>3 DEF Aimed, Asked, AdjustedRow
    <2> HIDE DEF row
    <2>3. BooksOK(billed, received, share, AdjustedPut(adjusted, d, row), till)
      BY <1>1, <2>1, <2>2, RequestKeeps
    <2> QED BY <1>1, <2>1, <2>3 DEF BillingInv
  <1>4. \A i \in Issued : i \in Bills /\ There(billed[i]) /\ NetTotal(billed[i]) \in 0..MaxMoney
    <2>1. ASSUME NEW i \in Issued PROVE i \in Bills /\ There(billed[i]) /\ NetTotal(billed[i]) \in 0..MaxMoney
      <3>1. i \in Bills /\ There(billed[i])
        BY DEF Issued, There
      <3>2. GoodBill(billed[i])
        BY <1>2, <3>1, NoRowIsNone DEF BillsOK
      <3> QED BY <3>1, <3>2 DEF GoodBill
    <2> QED BY <2>1
  <1>5. \A p \in OnFile(received) : p \in Collections /\ There(received[p])
    BY <1>2 DEF OnFile, There, PaidOK
  <1>6. \A s \in Sums : s \in 0..MaxMoney
    BY BillingFacts
  <1>7. CASE \E i \in Issued, kind \in {"credit", "debit"}, am \in Sums : RequestOf(d, k, kind, i, am)
    BY <1>3, <1>4, <1>6, <1>7
  <1>8. CASE \E i \in Issued : RequestOf(d, k, "cancel", i, NetTotal(billed[i]))
    BY <1>3, <1>4, <1>8
  <1>9. CASE \E p \in OnFile(received), am \in Sums : RequestOf(d, k, "refund", p, am)
    BY <1>3, <1>5, <1>6, <1>9
  <1> QED BY <1>7, <1>8, <1>9 DEF RequestAdjustment

LEMMA RejectIsKept ==
  ASSUME BillingInv, NEW d \in Adjustments, NEW k \in Clerks, Reject(d, k)
  PROVE  BillingInv'
  <1>1. BooksOK(billed, received, share, adjusted, till) /\ automatic \in BOOLEAN /\ till \in 0..MaxMoney
    BY DEF BillingInv
  <1>2. DOMAIN adjusted = Adjustments
    BY <1>1 DEF BooksOK, AdjustedOK
  <1>3. /\ adjusted[d].status = "pending" /\ adjusted' = AdjustedPut(adjusted, d, DecidedAs(adjusted[d], "rejected"))
        /\ automatic' = automatic /\ billed' = billed /\ received' = received /\ share' = share /\ till' = till
    BY <1>2 DEF Reject, Reviewable, Decided, AdjustedPut, DecidedAs
  <1>4. BooksOK(billed, received, share, AdjustedPut(adjusted, d, DecidedAs(adjusted[d], "rejected")), till)
    BY <1>1, <1>3, ApprovalCounts
  <1> QED BY <1>1, <1>3, <1>4 DEF BillingInv

LEMMA ApproveIsKept ==
  ASSUME BillingInv, NEW d \in Adjustments, NEW k \in Clerks, Approve(d, k)
  PROVE  BillingInv'
  <1> DEFINE row == adjusted[d]
             j == row.of
             ad2 == AdjustedPut(adjusted, d, DecidedAs(row, "approved"))
  <1>1. BooksOK(billed, received, share, adjusted, till) /\ automatic \in BOOLEAN /\ till \in 0..MaxMoney
    BY DEF BillingInv
  <1>2. /\ DOMAIN adjusted = Adjustments /\ DOMAIN billed = Bills /\ DOMAIN received = Collections
        /\ BillsOK(billed) /\ PaidOK(received)
    BY <1>1 DEF BooksOK, AdjustedOK, BillsOK, PaidOK
  <1>3. row.status = "pending" /\ adjusted' = ad2 /\ automatic' = automatic
    BY <1>2 DEF Approve, Reviewable, Decided, AdjustedPut, DecidedAs
  <1>4. Aimed(billed, received, row) /\ row.amount \in Nat /\ row.amount <= MaxMoney
    BY <1>1, <1>3, ApprovalCounts
  <1>5. automatic' \in BOOLEAN /\ till \in Nat /\ MaxMoney \in Nat
    BY <1>1, <1>3, BillingFacts
  <1>6. CASE row.kind = "refund" /\ Refund(row)
    <2>1. /\ row.amount <= Min({received[j].remaining, till}) /\ till' = till - row.amount
          /\ received' = [received EXCEPT ![j] =
               [received[j] EXCEPT !.remaining = @ - row.amount, !.refunded = @ + row.amount]]
          /\ billed' = billed /\ share' = share
      BY <1>6 DEF Refund
    <2>2. j \in Collections /\ There(received[j])
      BY <1>4, <1>6 DEF Aimed
    <2>3. received[j] \in PaidRow
      BY <1>2, <2>2, NoRowIsNone DEF PaidOK
    <2>4. received[j].remaining \in Nat
      BY <2>3, PaidNumbers
    <2>5. row.amount <= received[j].remaining /\ row.amount <= till
      <3> DEFINE l == Min({received[j].remaining, till})
      <3>1. l \in Nat /\ l <= received[j].remaining /\ l <= till
        BY <1>5, <2>4, LesserOfTwo
      <3>2. row.amount <= l
        BY <2>1
      <3> HIDE DEF l, row
      <3> QED BY <1>4, <1>5, <2>4, <3>1, <3>2
    <2>6. received' = PaidPut(received, j, Holding(received[j], received[j].remaining - row.amount,
                                                   received[j].refunded + row.amount))
      BY <2>1 DEF PaidPut, Holding
    <2>7. BooksOK(billed, received', share, ad2, till - row.amount)
      BY <1>1, <1>3, <1>5, <1>6, <2>5, <2>6, RefundSettles
    <2>8. till' \in 0..MaxMoney
      <3> HIDE DEF row
      <3> QED BY <1>1, <1>4, <1>5, <2>1, <2>5
    <2> QED BY <1>3, <1>5, <2>1, <2>7, <2>8 DEF BillingInv
  <1>7. CASE row.kind # "refund" /\ billed[j].status = "issued" /\ row.kind = "cancel" /\ Cancel(row)
    <2>1. /\ row.amount = NetTotal(billed[j]) /\ received' = Released(j).received /\ share' = Released(j).share
          /\ billed' = [billed EXCEPT ![j] = [@ EXCEPT !.status = "cancelled", !.paid = 0]] /\ till' = till
      BY <1>7 DEF Cancel, Unchanged
    <2>2. received' = TakenBack(received, share, j) /\ share' = Cleared(share, j)
      BY <2>1 DEF Released, TakenBack, Cleared
    <2>3. billed' = BillPut(billed, j, Cancelled(billed[j]))
      <3>1. j \in Bills
        BY <1>4, <1>7 DEF Aimed
      <3> QED BY <1>2, <2>1, <3>1 DEF BillPut, Cancelled
    <2>4. BooksOK(BillPut(billed, j, Cancelled(billed[j])), TakenBack(received, share, j), Cleared(share, j), ad2, till)
      <3>1. row.kind = "cancel" /\ row.amount = NetTotal(billed[j])
        BY <1>7, <2>1
      <3> QED BY <1>1, <1>3, <1>7, <3>1, CancelKeeps
    <2> QED BY <1>1, <1>3, <1>5, <2>1, <2>2, <2>3, <2>4 DEF BillingInv
  <1>8. ASSUME row.kind # "refund", billed[j].status = "issued"
        PROVE  /\ j \in Bills /\ There(billed[j]) /\ GoodBill(billed[j])
               /\ \A c : BillGapOf(billed[j], c) \in Int
    <2>1. j \in Bills /\ There(billed[j])
      BY <1>4, <1>8 DEF Aimed
    <2>2. GoodBill(billed[j])
      BY <1>2, <2>1, NoRowIsNone DEF BillsOK
    <2> QED BY <2>1, <2>2, GapIsInteger
  <1>9. CASE row.kind # "refund" /\ billed[j].status = "issued" /\ row.kind = "debit" /\ Debit(row)
    <2>1. /\ NetTotal(billed[j]) + row.amount <= MaxMoney /\ billed[j].debit + row.amount <= MaxMoney
          /\ billed' = [billed EXCEPT ![j].debit = @ + row.amount]
          /\ received' = received /\ share' = share /\ till' = till
      BY <1>9 DEF Debit
    <2> DEFINE b == DebitedBy(billed[j], row.amount)
               n == row.amount
               o == billed[j]
    <2>2. billed' = BillPut(billed, j, b)
      BY <1>2, <1>8, <1>9, <2>1 DEF BillPut, DebitedBy
    <2>3. /\ GoodBill(b) /\ b.customer = billed[j].customer /\ b.paid = billed[j].paid
          /\ \A c : BillGapOf(b, c) = BillGapOf(billed[j], c) - (IF billed[j].customer = c THEN n ELSE 0)
      <3>1. n \in Nat /\ GoodBill(o) /\ o.status = "issued" /\ NetTotal(o) + n <= MaxMoney /\ o.debit + n <= MaxMoney
        BY <1>4, <1>8, <1>9, <2>1
      <3>2. b = DebitedBy(o, n)
        OBVIOUS
      <3> HIDE DEF b, n, o
      <3>3. /\ GoodBill(DebitedBy(o, n)) /\ DebitedBy(o, n).customer = o.customer /\ DebitedBy(o, n).paid = o.paid
            /\ \A c : BillGapOf(DebitedBy(o, n), c) = BillGapOf(o, c) - (IF o.customer = c THEN n ELSE 0)
        BY <3>1, BillDebited
      <3> QED BY <3>2, <3>3 DEF o
    <2>4. Signed(row) = n
      BY <1>9 DEF Signed
    <2> HIDE DEF b, n
    <2>5. \A c \in Customers : BillGapOf(b, c) = BillGapOf(billed[j], c) - PartOf(b.customer, c, Signed(row))
      BY <2>3, <2>4 DEF PartOf
    <2>6. BooksOK(billed', received, share, ad2, till)
      BY <1>1, <1>3, <1>8, <1>9, <2>2, <2>3, <2>5, NoteKeeps
    <2> QED BY <1>1, <1>3, <1>5, <2>1, <2>6 DEF BillingInv
  <1>10. CASE row.kind # "refund" /\ billed[j].status = "issued" /\ row.kind = "credit" /\ Credit(row)
    <2>1. /\ row.amount <= Outstanding(billed[j]) /\ billed[j].credit + row.amount <= MaxMoney
          /\ billed' = [billed EXCEPT ![j].credit = @ + row.amount]
          /\ received' = received /\ share' = share /\ till' = till
      BY <1>10 DEF Credit
    <2> DEFINE b == CreditedBy(billed[j], row.amount)
               n == row.amount
               o == billed[j]
    <2>2. billed' = BillPut(billed, j, b)
      BY <1>2, <1>8, <1>10, <2>1 DEF BillPut, CreditedBy
    <2>3. /\ GoodBill(b) /\ b.customer = billed[j].customer /\ b.paid = billed[j].paid
          /\ \A c : BillGapOf(b, c) = BillGapOf(billed[j], c) + (IF billed[j].customer = c THEN n ELSE 0)
      <3>1. n \in Nat /\ GoodBill(o) /\ o.status = "issued" /\ n <= Outstanding(o) /\ o.credit + n <= MaxMoney
        BY <1>4, <1>8, <1>10, <2>1
      <3>2. b = CreditedBy(o, n)
        OBVIOUS
      <3> HIDE DEF b, n, o
      <3>3. /\ GoodBill(CreditedBy(o, n)) /\ CreditedBy(o, n).customer = o.customer /\ CreditedBy(o, n).paid = o.paid
            /\ \A c : BillGapOf(CreditedBy(o, n), c) = BillGapOf(o, c) + (IF o.customer = c THEN n ELSE 0)
        BY <3>1, BillCredited
      <3> QED BY <3>2, <3>3 DEF o
    <2>4. Signed(row) = -n /\ n \in Nat
      BY <1>4, <1>10 DEF Signed
    <2> HIDE DEF b, n
    <2>5. ASSUME NEW c \in Customers
          PROVE  BillGapOf(b, c) = BillGapOf(billed[j], c) - PartOf(b.customer, c, Signed(row))
      <3>1. BillGapOf(billed[j], c) \in Int
        BY <1>8, <1>10
      <3> QED BY <2>3, <2>4, <3>1 DEF PartOf
    <2>6. BooksOK(billed', received, share, ad2, till)
      BY <1>1, <1>3, <1>8, <1>10, <2>2, <2>3, <2>5, NoteKeeps
    <2> QED BY <1>1, <1>3, <1>5, <2>1, <2>6 DEF BillingInv
  <1> QED BY <1>6, <1>7, <1>9, <1>10 DEF Approve

LEMMA LateFeeIsKept ==
  ASSUME BillingInv, NEW i \in Bills, ApplyLateFee(i)
  PROVE  BillingInv'
  <1>1. BooksOK(billed, received, share, adjusted, till) /\ automatic \in BOOLEAN /\ till \in 0..MaxMoney
    BY DEF BillingInv
  <1>2. DOMAIN billed = Bills
    BY <1>1 DEF BooksOK, BillsOK
  <1>3. /\ billed[i].status = "issued" /\ ~billed[i].charged /\ NetTotal(billed[i]) + billed[i].fee <= MaxMoney
        /\ billed' = BillPut(billed, i, LateFeeOn(billed[i]))
        /\ automatic' = automatic /\ received' = received /\ share' = share /\ adjusted' = adjusted /\ till' = till
    BY <1>2 DEF ApplyLateFee, Issued, BillPut, LateFeeOn
  <1>4. BooksOK(BillPut(billed, i, LateFeeOn(billed[i])), received, share, adjusted, till)
    BY <1>1, <1>3, LateFeeKeeps
  <1> QED BY <1>1, <1>3, <1>4 DEF BillingInv

LEMMA ConfigureKeeps == BillingInv /\ Configure => BillingInv'
  <1> SUFFICES ASSUME BillingInv, Configure PROVE BillingInv'
    OBVIOUS
  <1>1. /\ automatic' = ~automatic /\ billed' = billed /\ received' = received /\ share' = share
        /\ adjusted' = adjusted /\ till' = till
    BY DEF Configure
  <1>2. automatic' \in BOOLEAN
    BY <1>1
  <1>3. BooksOK(billed', received', share', adjusted', till') /\ till' \in 0..MaxMoney
    BY <1>1 DEF BillingInv
  <1> QED BY <1>2, <1>3 DEF BillingInv

LEMMA BillingKept == BillingInv /\ [BillingNext]_billingVars => BillingInv'
  <1> SUFFICES ASSUME BillingInv, [BillingNext]_billingVars PROVE BillingInv'
    OBVIOUS
  <1>1. CASE Configure
    BY <1>1, ConfigureKeeps
  <1>2. CASE \E c \in Customers, i \in Bills, total \in Sums, fee \in {0, 1} : IssueInvoice(c, i, total, fee)
    BY <1>2, IssueInvoiceKeeps
  <1>3. CASE \E c \in Customers, p \in Collections, am \in Sums : Collect(c, p, am) \/ CollectFor(c, p, am)
    BY <1>3, CollectIsKept, CollectForIsKept
  <1>4. CASE \E c \in Customers : UseAdvance(c)
    BY <1>4, UseAdvanceKeeps
  <1>5. CASE \E d \in Adjustments, k \in Clerks : RequestAdjustment(d, k) \/ Approve(d, k) \/ Reject(d, k)
    BY <1>5, RequestIsKept, ApproveIsKept, RejectIsKept
  <1>6. CASE \E i \in Bills : ApplyLateFee(i)
    BY <1>6, LateFeeIsKept
  <1>7. CASE UNCHANGED billingVars
    BY <1>7 DEF BillingInv, billingVars
  <1> QED BY <1>1, <1>2, <1>3, <1>4, <1>5, <1>6, <1>7 DEF BillingNext

-----------------------------------------------------------------------------
(* What the invariant says of the rows, and of the customer's statement. *)

LEMMA BillingIsTyped == BillingInv => BillingTypeOK
  <1> SUFFICES ASSUME BillingInv PROVE BillingTypeOK
    OBVIOUS
  <1>1. /\ automatic \in BOOLEAN /\ till \in 0..MaxMoney /\ BillsOK(billed) /\ PaidOK(received)
        /\ OwnShare(billed, received, share) /\ Parts1(received, share) /\ AdjustedOK(billed, received, adjusted)
    BY DEF BillingInv, BooksOK
  <1>2. ASSUME NEW i \in OnFile(billed)
        PROVE  billed[i] \in [status : {"issued", "cancelled"}, customer : Customers, total : Sums, debit : Amounts,
                              late : {0, 1}, credit : Amounts, paid : Amounts, fee : {0, 1}, charged : BOOLEAN]
    <2>1. GoodBill(billed[i])
      BY <1>1, NoRowIsNone DEF OnFile, BillsOK
    <2>2. PICK b : b = billed[i]
      OBVIOUS
    <2>3. /\ b \in BillRow /\ b.debit \in Nat /\ b.debit <= MaxMoney /\ b.credit \in Nat /\ b.credit <= MaxMoney
          /\ b.paid \in Nat
      BY <2>1, <2>2, BillNumbers DEF GoodBill
    <2>4. b.paid <= MaxMoney
      <3>1. CASE b.status = "issued"
        <4>1. Outstanding(b) = NetTotal(b) - b.paid /\ Outstanding(b) \in Nat /\ NetTotal(b) \in Nat
          BY <2>1, <2>2, <3>1, BillNumbers
        <4>2. NetTotal(b) \in 0..MaxMoney
          BY <2>1, <2>2 DEF GoodBill
        <4> QED BY <2>3, <4>1, <4>2, BillingFacts
      <3>2. CASE b.status = "cancelled"
        BY <2>1, <2>2, <3>2, BillingFacts DEF GoodBill
      <3> QED BY <2>3, <3>1, <3>2 DEF BillRow
    <2>5. b.debit \in Amounts /\ b.credit \in Amounts /\ b.paid \in Amounts
      BY <2>3, <2>4, BillingFacts DEF Amounts
    <2>6. b \in [status : {"issued", "cancelled"}, customer : Customers, total : Sums, debit : Amounts,
                 late : {0, 1}, credit : Amounts, paid : Amounts, fee : {0, 1}, charged : BOOLEAN]
      BY <2>3, <2>5 DEF BillRow
    <2> QED BY <2>2, <2>6
  <1>3. ASSUME NEW p \in Collections, There(received[p])
        PROVE  /\ received[p] \in PaidRow /\ received[p].remaining \in Amounts /\ received[p].refunded \in Amounts
               /\ \A i \in Bills : share[p][i] <= MaxMoney
    <2>1. received[p] \in PaidRow
      BY <1>1, <1>3, NoRowIsNone DEF PaidOK
    <2>2. /\ received[p].amount \in Nat /\ received[p].amount <= MaxMoney
          /\ received[p].remaining \in Nat /\ received[p].refunded \in Nat
      BY <2>1, PaidNumbers
    <2>3. received[p].amount = received[p].remaining + received[p].refunded + SumOver(share[p], Bills)
      BY <1>1, <1>3 DEF Parts1
    <2>4. \A i \in Bills : share[p][i] \in Nat
      BY <1>1 DEF OwnShare
    <2>5. SumOver(share[p], Bills) \in Nat
      BY <2>4, BillingFacts, SumIsNatural
    <2>6. \A i \in Bills : share[p][i] <= SumOver(share[p], Bills)
      BY <2>4, BillingFacts, SummandBound
    <2>7. received[p].remaining <= MaxMoney /\ received[p].refunded <= MaxMoney /\ SumOver(share[p], Bills) <= MaxMoney
      BY <2>2, <2>3, <2>5, BillingFacts
    <2>8. \A i \in Bills : share[p][i] <= MaxMoney
      BY <2>4, <2>5, <2>6, <2>7, BillingFacts
    <2> QED BY <2>1, <2>2, <2>7, <2>8, BillingFacts DEF Amounts
  <1>4. ASSUME NEW p \in OnFile(received)
        PROVE  received[p] \in [status : {"received"}, customer : Customers, amount : Sums,
                                remaining : Amounts, refunded : Amounts]
    <2>1. p \in Collections /\ There(received[p])
      BY <1>1 DEF OnFile, There, PaidOK
    <2>2. received[p] \in PaidRow /\ received[p].remaining \in Amounts /\ received[p].refunded \in Amounts
      BY <1>3, <2>1
    <2> QED BY <2>2 DEF PaidRow
  <1>5. ASSUME NEW d \in OnFile(adjusted)
        PROVE  adjusted[d] \in [status : {"pending", "approved", "rejected"}, by : Clerks, amount : Amounts,
                                kind : {"credit", "debit", "cancel", "refund"}, of : Bills \cup Collections]
    BY <1>1, NoRowIsNone DEF OnFile, AdjustedOK, Aimed, AdjustedRow, Amounts
  <1>6. share \in [Collections -> [Bills -> Amounts]]
    <2>1. ASSUME NEW p \in Collections, NEW i \in Bills PROVE share[p][i] \in Amounts
      <3>1. share[p][i] \in Nat /\ (~There(received[p]) => share[p][i] = 0)
        BY <1>1 DEF OwnShare
      <3> QED BY <1>3, <3>1, BillingFacts DEF Amounts
    <2> QED BY <1>1, <2>1 DEF OwnShare
  <1> QED BY <1>1, <1>2, <1>4, <1>5, <1>6 DEF BillingTypeOK

\* A sum over the rows that count is a sum over all rows, the others at zero.
LEMMA SumOfThose ==
  ASSUME NEW T, IsFiniteSet(T), NEW S \in SUBSET T, NEW f, NEW g,
         \A x \in T : g[x] \in Int, \A x \in S : f[x] = g[x], \A x \in T \ S : g[x] = 0
  PROVE  SumOver(f, S) = SumOver(g, T)
  <1>1. IsFiniteSet(S) /\ IsFiniteSet(T \ S)
    BY FS_Subset
  <1>2. SumOver(g, T) = SumOver(g, S) + SumOver(g, T \ S)
    BY SumSplit
  <1>3. SumOver(g, T \ S) = 0
    BY <1>1, SumOfZeros
  <1>4. SumOver(f, S) = SumOver(g, S)
    BY <1>1, SumAgrees
  <1>5. SumOver(g, S) \in Int
    BY <1>1, SumIsInteger
  <1> QED BY <1>2, <1>3, <1>4, <1>5

LEMMA BillingIsTraced == BillingInv => CreditTraced
  <1> SUFFICES ASSUME BillingInv PROVE CreditTraced
    OBVIOUS
  <1>1. /\ till = SumOver(Kept(received), Collections) /\ BillsOK(billed) /\ PaidOK(received)
        /\ OwnShare(billed, received, share) /\ Parts1(received, share) /\ Parts2(billed, share)
    BY DEF BillingInv, BooksOK
  <1>2. ASSUME NEW p \in OnFile(received)
        PROVE  received[p].amount = received[p].remaining + received[p].refunded + SumFunction(share[p])
    <2>1. p \in Collections /\ There(received[p])
      BY <1>1 DEF OnFile, There, PaidOK
    <2>2. DOMAIN share[p] = Bills
      BY <1>1, <2>1 DEF OwnShare
    <2>3. SumFunction(share[p]) = SumOver(share[p], Bills)
      BY <2>2, SumAsFold
    <2> QED BY <1>1, <2>1, <2>3 DEF Parts1
  <1>3. ASSUME NEW i \in OnFile(billed)
        PROVE  /\ billed[i].paid = SumFunction([p \in Collections |-> share[p][i]])
               /\ Outstanding(billed[i]) >= 0
    <2>1. i \in Bills /\ There(billed[i])
      BY <1>1 DEF OnFile, There, BillsOK
    <2>2. GoodBill(billed[i])
      BY <1>1, <2>1, NoRowIsNone DEF BillsOK
    <2>3. DOMAIN Column(share, i) = Collections
      BY DEF Column
    <2>4. SumFunction(Column(share, i)) = SumOver(Column(share, i), Collections)
      BY <2>3, SumAsFold
    <2>5. billed[i].paid = SumFunction(Column(share, i))
      BY <1>1, <2>1, <2>4 DEF Parts2
    <2> QED BY <2>2, <2>5 DEF Column, GoodBill
  <1>4. till = SumFunction([p \in OnFile(received) |-> received[p].amount - received[p].refunded])
    <2> DEFINE S == OnFile(received)
               f == [p \in S |-> received[p].amount - received[p].refunded]
               g == Kept(received)
    <2>1. \A p \in Collections : p \in S <=> There(received[p])
      BY <1>1 DEF OnFile, There, PaidOK
    <2>2. S \in SUBSET Collections
      BY <1>1 DEF OnFile, PaidOK
    <2>3. \A p \in Collections : g[p] = KeptOf(received[p])
      BY DEF Kept
    <2>4. \A p \in Collections : g[p] \in Int
      BY <1>1, <2>3, KeptIsInteger DEF PaidOK
    <2>5. \A p \in S : f[p] = g[p]
      BY <2>1, <2>2, <2>3 DEF KeptOf
    <2>6. \A p \in Collections \ S : g[p] = 0
      BY <2>1, <2>3 DEF KeptOf
    <2>7. DOMAIN f = S
      OBVIOUS
    <2> HIDE DEF S, f, g
    <2>8. SumOver(f, S) = SumOver(g, Collections)
      BY <2>2, <2>4, <2>5, <2>6, BillingFacts, SumOfThose
    <2>9. till = SumFunction(f)
      BY <1>1, <2>7, <2>8, SumAsFold DEF g
    <2> QED BY <2>9 DEF f, S
  <1> QED BY <1>2, <1>3, <1>4 DEF CreditTraced

\* Two sums over the rows that count differ by the sum of what they differ by.
LEMMA SumsDiffer ==
  ASSUME NEW T, IsFiniteSet(T), NEW S \in SUBSET T, NEW f, NEW g, NEW h,
         \A x \in S : f[x] \in Int /\ g[x] \in Int /\ h[x] = f[x] - g[x],
         \A x \in T \ S : h[x] = 0
  PROVE  /\ SumOver(f, S) \in Int /\ SumOver(g, S) \in Int
         /\ SumOver(h, T) = SumOver(f, S) - SumOver(g, S)
  <1>1. IsFiniteSet(S)
    BY FS_Subset
  <1>2. \A x \in S : g[x] \in Int /\ h[x] \in Int /\ f[x] = g[x] + h[x]
    OBVIOUS
  <1>3. SumOver(f, S) = SumOver(g, S) + SumOver(h, S)
    BY <1>1, <1>2, SumOfChanges
  <1>4. \A x \in T : h[x] \in Int
    BY <1>2
  <1>5. SumOver(h, S) = SumOver(h, T)
    BY <1>4, SumOfThose
  <1>6. SumOver(f, S) \in Int /\ SumOver(g, S) \in Int /\ SumOver(h, S) \in Int
    BY <1>1, <1>2, SumIsInteger
  <1> QED BY <1>3, <1>5, <1>6

LEMMA StatementAgrees == BillingInv => LedgerAgrees
  <1> SUFFICES ASSUME BillingInv, NEW c \in Customers
               PROVE  LedgerBalance(c) = SumFunction([i \in RowsOf(c, billed) |-> Outstanding(billed[i])])
                                         - SumFunction([p \in RowsOf(c, received) |-> received[p].remaining])
    BY DEF LedgerAgrees
  <1>1. /\ BillsOK(billed) /\ PaidOK(received) /\ AdjustedOK(billed, received, adjusted)
        /\ Agreed(billed, received, adjusted)
    BY DEF BillingInv, BooksOK
  <1> DEFINE IB == RowsOf(c, billed)
             IP == RowsOf(c, received)
             ID == {d \in OnFile(adjusted) : adjusted[d].status = "approved" /\
                      adjusted[d].of \in RowsOf(c, IF adjusted[d].kind = "refund" THEN received ELSE billed)}
             fb == [i \in IB |-> billed[i].total + billed[i].late]
             gb == [i \in IB |-> Outstanding(billed[i])]
             fp == [p \in IP |-> received[p].amount]
             gp == [p \in IP |-> received[p].remaining]
             fd == [d \in ID |-> IF adjusted[d].kind \in {"refund", "debit"}
                                   THEN adjusted[d].amount ELSE -adjusted[d].amount]
             hb == BillGap(billed, c)
             hp == PaidGap(received, c)
             hd == Worth(billed, received, adjusted, c)
  <1>2. LedgerBalance(c) = SumFunction(fb) - SumFunction(fp) + SumFunction(fd)
    BY DEF LedgerBalance
  <1>3. \A i \in Bills : i \in IB <=> There(billed[i]) /\ billed[i].customer = c
    BY <1>1 DEF RowsOf, OnFile, There, BillsOK
  <1>4. \A p \in Collections : p \in IP <=> There(received[p]) /\ received[p].customer = c
    BY <1>1 DEF RowsOf, OnFile, There, PaidOK
  <1>5. IB \in SUBSET Bills /\ IP \in SUBSET Collections /\ ID \in SUBSET Adjustments
    BY <1>1 DEF RowsOf, OnFile, BillsOK, PaidOK, AdjustedOK
  <1>6. /\ SumFunction(fb) = SumOver(fb, IB) /\ SumFunction(gb) = SumOver(gb, IB)
        /\ SumFunction(fp) = SumOver(fp, IP) /\ SumFunction(gp) = SumOver(gp, IP)
        /\ SumFunction(fd) = SumOver(fd, ID)
    <2>1. DOMAIN fb = IB /\ DOMAIN gb = IB /\ DOMAIN fp = IP /\ DOMAIN gp = IP /\ DOMAIN fd = ID
      OBVIOUS
    <2> HIDE DEF fb, gb, fp, gp, fd, IB, IP, ID
    <2> QED BY <2>1, SumAsFold
  <1>7. /\ SumOver(fb, IB) \in Int /\ SumOver(gb, IB) \in Int
        /\ SumOver(hb, Bills) = SumOver(fb, IB) - SumOver(gb, IB)
    <2>1. ASSUME NEW i \in IB PROVE fb[i] \in Int /\ gb[i] \in Int /\ hb[i] = fb[i] - gb[i]
      <3>1. i \in Bills /\ There(billed[i]) /\ billed[i].customer = c
        BY <1>3, <1>5
      <3>2. GoodBill(billed[i])
        BY <1>1, <3>1, NoRowIsNone DEF BillsOK
      <3>3. billed[i].total \in Nat /\ billed[i].late \in Nat /\ Outstanding(billed[i]) \in Nat
        BY <3>2, BillNumbers
      <3>4. fb[i] = billed[i].total + billed[i].late /\ gb[i] = Outstanding(billed[i])
        OBVIOUS
      <3>5. hb[i] = billed[i].total + billed[i].late - Outstanding(billed[i])
        BY <3>1 DEF BillGap, BillGapOf
      <3> HIDE DEF fb, gb, hb, IB
      <3> QED BY <3>3, <3>4, <3>5
    <2>2. \A i \in Bills \ IB : hb[i] = 0
      BY <1>3 DEF BillGap, BillGapOf
    <2> HIDE DEF fb, gb, hb, IB
    <2> QED BY <1>5, <2>1, <2>2, BillingFacts, SumsDiffer
  <1>8. /\ SumOver(fp, IP) \in Int /\ SumOver(gp, IP) \in Int
        /\ SumOver(hp, Collections) = SumOver(fp, IP) - SumOver(gp, IP)
    <2>1. ASSUME NEW p \in IP PROVE fp[p] \in Int /\ gp[p] \in Int /\ hp[p] = fp[p] - gp[p]
      <3>1. p \in Collections /\ There(received[p]) /\ received[p].customer = c
        BY <1>4, <1>5
      <3>2. received[p] \in PaidRow
        BY <1>1, <3>1, NoRowIsNone DEF PaidOK
      <3>3. received[p].amount \in Nat /\ received[p].remaining \in Nat
        BY <3>2, PaidNumbers
      <3>4. fp[p] = received[p].amount /\ gp[p] = received[p].remaining
        OBVIOUS
      <3>5. hp[p] = received[p].amount - received[p].remaining
        BY <3>1 DEF PaidGap, PaidGapOf
      <3> HIDE DEF fp, gp, hp, IP
      <3> QED BY <3>3, <3>4, <3>5
    <2>2. \A p \in Collections \ IP : hp[p] = 0
      BY <1>4 DEF PaidGap, PaidGapOf
    <2> HIDE DEF fp, gp, hp, IP
    <2> QED BY <1>5, <2>1, <2>2, BillingFacts, SumsDiffer
  <1>9. SumOver(fd, ID) = SumOver(hd, Adjustments) /\ SumOver(hd, Adjustments) \in Int
    <2>1. \A d \in Adjustments : hd[d] = WorthOf(billed, received, adjusted[d], c)
      BY DEF Worth
    <2>2. \A d \in Adjustments : hd[d] \in Int
      BY <1>1, <2>1, WorthIsInteger DEF AdjustedOK
    <2>3. ASSUME NEW d \in Adjustments
          PROVE  d \in ID <=> adjusted[d].status = "approved" /\ Owner(billed, received, adjusted[d]) = c
      <3>1. CASE adjusted[d] = NoRow
        BY <3>1, NoRowIsNone DEF OnFile
      <3>2. CASE Aimed(billed, received, adjusted[d])
        <4>1. CASE adjusted[d].kind = "refund"
          <5>1. adjusted[d].of \in Collections /\ There(received[adjusted[d].of])
            BY <3>2, <4>1 DEF Aimed
          <5>2. adjusted[d].of \in RowsOf(c, received) <=> received[adjusted[d].of].customer = c
            BY <1>4, <5>1
          <5> QED BY <1>1, <4>1, <5>2 DEF OnFile, Owner, AdjustedOK
        <4>2. CASE adjusted[d].kind # "refund"
          <5>1. adjusted[d].of \in Bills /\ There(billed[adjusted[d].of])
            BY <3>2, <4>2 DEF Aimed
          <5>2. adjusted[d].of \in RowsOf(c, billed) <=> billed[adjusted[d].of].customer = c
            BY <1>3, <5>1
          <5> QED BY <1>1, <4>2, <5>2 DEF OnFile, Owner, AdjustedOK
        <4> QED BY <4>1, <4>2
      <3> QED BY <1>1, <3>1, <3>2 DEF AdjustedOK
    <2>4. \A d \in ID : fd[d] = Signed(adjusted[d])
      BY DEF Signed
    <2> HIDE DEF ID, fd, hd
    <2>5. \A d \in ID : fd[d] = hd[d]
      BY <1>5, <2>1, <2>3, <2>4 DEF WorthOf
    <2>6. \A d \in Adjustments \ ID : hd[d] = 0
      BY <2>1, <2>3 DEF WorthOf
    <2>7. SumOver(fd, ID) = SumOver(hd, Adjustments)
      BY <1>5, <2>2, <2>5, <2>6, BillingFacts, SumOfThose
    <2>8. SumOver(hd, Adjustments) \in Int
      BY <2>2, BillingFacts, SumIsInteger
    <2> QED BY <2>7, <2>8
  <1>10. SumOver(hb, Bills) + SumOver(hd, Adjustments) = SumOver(hp, Collections)
    BY <1>1 DEF Agreed
  <1> HIDE DEF fb, gb, fp, gp, fd, hb, hp, hd, IB, IP, ID
  <1>11. SumFunction(fb) - SumFunction(fp) + SumFunction(fd) = SumFunction(gb) - SumFunction(gp)
    <2> DEFINE ab == SumOver(fb, IB)
               ob == SumOver(gb, IB)
               ap == SumOver(fp, IP)
               rp == SumOver(gp, IP)
               wd == SumOver(hd, Adjustments)
               db == SumOver(hb, Bills)
               dp == SumOver(hp, Collections)
    <2>1. /\ ab \in Int /\ ob \in Int /\ ap \in Int /\ rp \in Int /\ wd \in Int
          /\ db = ab - ob /\ dp = ap - rp /\ db + wd = dp
      BY <1>7, <1>8, <1>9, <1>10
    <2>2. /\ SumFunction(fb) = ab /\ SumFunction(gb) = ob /\ SumFunction(fp) = ap /\ SumFunction(gp) = rp
          /\ SumFunction(fd) = wd
      BY <1>6, <1>9
    <2> HIDE DEF ab, ob, ap, rp, wd, db, dp
    <2>3. ab - ap + wd = ob - rp
      BY <2>1
    <2> QED BY <2>2, <2>3
  <1> QED BY <1>2, <1>11 DEF gb, gp, IB, IP

\* Whatever is collected, allocated, adjusted and decided, by whom and in what
\* order, every sum is where its rows say and the statement says so
\* (billing.service.ts, billing.reports.ts).
THEOREM CustomersMoneyTraced == BillingSpec => [](BillingTypeOK /\ MoneyTraced)
  <1>1. BillingInit => BillingInv
    BY BillingStarts
  <1>2. BillingInv /\ [BillingNext]_billingVars => BillingInv'
    BY BillingKept
  <1>3. BillingInv => BillingTypeOK /\ MoneyTraced
    BY BillingIsTyped, BillingIsTraced, StatementAgrees DEF MoneyTraced
  <1> QED BY <1>1, <1>2, <1>3, PTL DEF BillingSpec

-----------------------------------------------------------------------------
(* Payroll.  The argument: a rebuild replaces the rows of every calculated *)
(* run by what its facts and bills amount to, and moves no bill from or to *)
(* a run that is paid or taken from a spreadsheet.  So bills stay placed   *)
(* if they were placed before, and whoever changes facts rebuilds.         *)

PayFacts(f) ==
  f \in [staff : [Staff -> [status : {"none", "active", "inactive"}, joined : 0..LastMonth, advance : Int,
   raised : 0..LastMonth]],
         leave : [Leaves -> [status : {"none", "pending", "approved"}, who : Staff \cup {NoStaff},
                             month : 0..LastMonth]],
         day : [Staff -> [Months -> {"none", "present", "absent"}]],
         off : SUBSET Months, seen : SUBSET Staff]
PayClaims(cs) ==
  cs \in [Claims -> [status : {"none", "submitted", "checked", "approved", "paid"},
                     who : Staff \cup {NoStaff}, month : 0..LastMonth, run : 0..LastMonth]]
PayRow == [gross : Int, unpaid : Nat, advance : Int, bills : SUBSET Claims]
PayRun ==
  [status : {"none", "prepared", "checked", "approved", "paid"}, sheet : BOOLEAN,
   rows : UNION {[S -> PayRow] : S \in SUBSET Staff},
   by : Officers \cup {NoOfficer}, checker : Officers \cup {NoOfficer}]
PayRuns(rs) == rs \in [Months -> PayRun]

\* The runs a rebuild leaves alone, and those of them that hold a bill.
InRow(rs, m, b) == \E e \in DOMAIN rs[m].rows : b \in rs[m].rows[e].bills
FixedWith(rs, b) == {m \in Months \ Calculated(rs) : InRow(rs, m, b)}

\* A bill that is paid with a run is in that one, and no other fixed run holds
\* a bill; one that waits is in no run or in a calculated one.
PlacedBill(rs, c, b) ==
  /\ c.status \notin {"approved", "paid"} => c.run = 0
  /\ c.status = "approved" /\ c.run # 0 => c.run \in Calculated(rs)
  /\ c.status = "paid" /\ c.run # 0 => rs[c.run].status = "paid"
  /\ FixedWith(rs, b) = IF c.status = "paid" /\ c.run # 0 THEN {c.run} ELSE {}
Placed(rs, cs) == \A b \in Claims : PlacedBill(rs, cs[b], b)

RowsCurrent(f, rs, cs) ==
  \A m \in Calculated(rs) : rs[m].rows = [e \in OnRun(f, m) |-> SalaryRow(f, rs, cs, e, m)]
ClaimsCurrent(f, rs, cs) ==
  \A b \in Claims : Payable(rs, cs[b]) => cs[b].run = Max({0} \cup FirstRun(f, rs, cs[b]))

PayReady(f, rs, cs) == PayFacts(f) /\ PayRuns(rs) /\ PayClaims(cs) /\ Placed(rs, cs)
PayCurrent(f, rs, cs) == RowsCurrent(f, rs, cs) /\ ClaimsCurrent(f, rs, cs)
PayrollInv ==
  /\ month \in Months /\ twoStep \in BOOLEAN /\ profiled \in SUBSET Staff
  /\ request \in [Staff -> [Months -> {"none", "pending", "approved"}]]
  /\ PayReady(facts, run, claim) /\ PayCurrent(facts, run, claim)

LEMMA MonthsAreNumbers == Months \subseteq Int /\ 0 \notin Months /\ 1 \in Months
  BY PayrollAssumption DEF Months

LEMMA GreatestOr0 ==
  ASSUME NEW S, S \subseteq Months, \A x, y \in S : x = y
  PROVE  \/ S = {} /\ Max({0} \cup S) = 0
         \/ S = {Max({0} \cup S)} /\ Max({0} \cup S) \in Months
  <1>1. CASE S = {}
    <2>1. Max({0} \cup S) = CHOOSE x \in {0} : \A y \in {0} : x >= y
      BY <1>1 DEF Max
    <2>2. \A x \in {0} : x = 0 /\ \A y \in {0} : x >= y
      OBVIOUS
    <2> QED BY <1>1, <2>1, <2>2
  <1>2. CASE S # {}
    <2>1. PICK k \in S : TRUE
      BY <1>2
    <2>2. S = {k} /\ k \in Nat \ {0}
      <3>1. k \in Months
        BY <2>1
      <3>2. k \in Nat \ {0}
        BY <3>1, PayrollAssumption DEF Months
      <3>3. S = {k}
        BY <2>1
      <3> QED BY <3>2, <3>3
    <2>3. \A y \in {0, k} : k >= y
      BY <2>2
    <2>4. \A x \in {0, k} : (\A y \in {0, k} : x >= y) => x = k
      BY <2>2
    <2>5. (CHOOSE x \in {0, k} : \A y \in {0, k} : x >= y) = k
      BY <2>3, <2>4
    <2>6. {0} \cup S = {0, k}
      BY <2>2
    <2> QED BY <2>1, <2>2, <2>5, <2>6 DEF Max
  <1> QED BY <1>1, <1>2

\* At most one run takes a bill, a calculated one that pays its employee.
LEMMA FirstRunIsOne ==
  ASSUME NEW f, NEW rs, NEW c
  PROVE  /\ FirstRun(f, rs, c) \subseteq Calculated(rs)
         /\ \A m \in FirstRun(f, rs, c) : c.who \in OnRun(f, m)
         /\ \A x, y \in FirstRun(f, rs, c) : x = y
  BY MonthsAreNumbers DEF FirstRun, EveryRun, Calculated

LEMMA RunOfBill ==
  ASSUME NEW f, NEW rs, NEW c
  PROVE  \/ FirstRun(f, rs, c) = {} /\ Max({0} \cup FirstRun(f, rs, c)) = 0
         \/ /\ FirstRun(f, rs, c) = {Max({0} \cup FirstRun(f, rs, c))}
            /\ Max({0} \cup FirstRun(f, rs, c)) \in Calculated(rs)
  <1> DEFINE S == FirstRun(f, rs, c)
  <1>1. S \subseteq Calculated(rs) /\ Calculated(rs) \subseteq Months /\ \A x, y \in S : x = y
    BY FirstRunIsOne DEF Calculated
  <1> HIDE DEF S
  <1>2. \/ S = {} /\ Max({0} \cup S) = 0
        \/ S = {Max({0} \cup S)} /\ Max({0} \cup S) \in Months
    BY <1>1, GreatestOr0
  <1> QED BY <1>1, <1>2 DEF S

-----------------------------------------------------------------------------
\* What a rebuild makes of runs and bills.
RunsRebuilt(u, f, rs, cs) ==
  [m \in Months |->
     IF m \in Calculated(rs)
       THEN BackToReview([rs[m] EXCEPT !.rows = [e \in OnRun(f, m) |-> SalaryRow(f, rs, cs, e, m)]], u)
       ELSE rs[m]]
ClaimsRebuilt(f, rs, cs) ==
  [b \in Claims |->
     IF Payable(rs, cs[b]) THEN [cs[b] EXCEPT !.run = Max({0} \cup FirstRun(f, rs, cs[b]))] ELSE cs[b]]

LEMMA PrepareMakes ==
  ASSUME NEW u, NEW f, NEW rs, NEW cs, Prepare(u, f, rs, cs)
  PROVE  facts' = f /\ run' = RunsRebuilt(u, f, rs, cs) /\ claim' = ClaimsRebuilt(f, rs, cs)
  BY DEF Prepare, RunsRebuilt, ClaimsRebuilt

LEMMA ReviewRow ==
  ASSUME NEW r \in PayRun, NEW x, NEW u
  PROVE  BackToReview([r EXCEPT !.rows = x], u) =
           [status |-> "prepared", sheet |-> r.sheet, rows |-> x, by |-> u, checker |-> NoOfficer]
  <1>1. PICK st, sh, old, by, ch :
          r = [status |-> st, sheet |-> sh, rows |-> old, by |-> by, checker |-> ch]
    BY DEF PayRun
  <1>2. [r EXCEPT !.rows = x] = [status |-> st, sheet |-> sh, rows |-> x, by |-> by, checker |-> ch]
    BY <1>1
  <1>3. BackToReview([r EXCEPT !.rows = x], u) =
          [[status |-> st, sheet |-> sh, rows |-> x, by |-> by, checker |-> ch]
             EXCEPT !.status = "prepared", !.by = u, !.checker = NoOfficer]
    BY <1>2 DEF BackToReview
  <1>4. r.sheet = sh
    BY <1>1
  <1> QED BY <1>3, <1>4

LEMMA RunRebuilt ==
  ASSUME NEW u \in Officers, NEW f, NEW rs, NEW cs, PayRuns(rs), NEW m \in Months,
         NEW new, new = RunsRebuilt(u, f, rs, cs)
  PROVE  /\ m \notin Calculated(rs) => new[m] = rs[m]
         /\ m \in Calculated(rs) =>
              new[m] = [status |-> "prepared", sheet |-> FALSE,
                        rows |-> [e \in OnRun(f, m) |-> SalaryRow(f, rs, cs, e, m)],
                        by |-> u, checker |-> NoOfficer]
  <1>1. new[m] = IF m \in Calculated(rs)
                   THEN BackToReview([rs[m] EXCEPT !.rows = [e \in OnRun(f, m) |-> SalaryRow(f, rs, cs, e, m)]], u)
                   ELSE rs[m]
    BY DEF RunsRebuilt
  <1>2. ASSUME m \in Calculated(rs), NEW x
        PROVE  BackToReview([rs[m] EXCEPT !.rows = x], u) =
                 [status |-> "prepared", sheet |-> FALSE, rows |-> x, by |-> u, checker |-> NoOfficer]
    <2>1. rs[m] \in PayRun
      BY DEF PayRuns
    <2>2. rs[m].sheet = FALSE
      BY <1>2, <2>1 DEF Calculated, PayRun
    <2> QED BY <2>1, <2>2, ReviewRow
  <1> QED BY <1>1, <1>2

LEMMA LesserIsInt ==
  ASSUME NEW a \in Int, NEW b \in Int
  PROVE  Min({a, b}) \in {a, b} /\ Min({a, b}) <= a /\ Min({a, b}) <= b
  <1>1. \E x \in {a, b} : \A y \in {a, b} : x <= y
    OBVIOUS
  <1> QED BY <1>1 DEF Min

LEMMA SalaryRowTyped ==
  ASSUME NEW f, NEW rs, NEW cs, NEW e \in Staff, NEW m, PayFacts(f)
  PROVE  SalaryRow(f, rs, cs, e, m) \in PayRow
  <1>1. Unpaid(f, e, m) \in {0, 1}
    BY DEF Unpaid
  <1>p. Pay(f, e, m) \in Int
    BY PayrollAssumption DEF Pay
  <1>2. f.staff[e].advance \in Int /\ Pay(f, e, m) - Unpaid(f, e, m) \in Int
    BY <1>1, <1>p DEF PayFacts
  <1>3. Min({f.staff[e].advance, Pay(f, e, m) - Unpaid(f, e, m)}) \in Int
    BY <1>2, LesserIsInt
  <1>4. Taken(f, rs, cs, e, m) \subseteq Claims
    BY DEF Taken
  <1> QED BY <1>1, <1>p, <1>3, <1>4 DEF SalaryRow, PayRow

LEMMA RunsRebuiltTyped ==
  ASSUME NEW u \in Officers, NEW f, NEW rs, NEW cs, PayRuns(rs), PayFacts(f),
         NEW new, new = RunsRebuilt(u, f, rs, cs)
  PROVE  PayRuns(new)
  <1>1. ASSUME NEW m \in Months PROVE new[m] \in PayRun
    <2>1. CASE m \notin Calculated(rs)
      <3>1. new[m] = rs[m]
        BY <2>1 DEF RunsRebuilt
      <3>2. rs[m] \in PayRun
        BY DEF PayRuns
      <3> QED BY <3>1, <3>2
    <2>2. CASE m \in Calculated(rs)
      <3> DEFINE x == [e \in OnRun(f, m) |-> SalaryRow(f, rs, cs, e, m)]
      <3>1. OnRun(f, m) \in SUBSET Staff
        BY DEF OnRun
      <3>2. x \in [OnRun(f, m) -> PayRow]
        BY <3>1, SalaryRowTyped
      <3>3. new[m] = [status |-> "prepared", sheet |-> FALSE, rows |-> x, by |-> u, checker |-> NoOfficer]
        BY <2>2, RunRebuilt
      <3> HIDE DEF x
      <3>4. x \in UNION {[S -> PayRow] : S \in SUBSET Staff}
        BY <3>1, <3>2
      <3> QED BY <3>3, <3>4 DEF PayRun
    <2> QED BY <2>1, <2>2
  <1>2. new = [m \in Months |-> new[m]]
    BY DEF RunsRebuilt
  <1>3. new \in [Months -> PayRun]
    BY <1>1, <1>2
  <1> QED BY <1>3 DEF PayRuns

LEMMA SameCalculated ==
  ASSUME NEW u \in Officers, NEW f, NEW rs, NEW cs, PayRuns(rs),
         NEW new, new = RunsRebuilt(u, f, rs, cs)
  PROVE  /\ Calculated(new) = Calculated(rs)
         /\ \A m \in Months : new[m].status = "paid" <=> rs[m].status = "paid"
         /\ \A b : FixedWith(new, b) = FixedWith(rs, b)
  <1>1. ASSUME NEW m \in Calculated(rs)
        PROVE  new[m].status = "prepared" /\ ~new[m].sheet /\ rs[m].status # "paid"
    <2>1. m \in Months
      BY DEF Calculated
    <2>2. new[m] = [status |-> "prepared", sheet |-> FALSE,
                    rows |-> [e \in OnRun(f, m) |-> SalaryRow(f, rs, cs, e, m)],
                    by |-> u, checker |-> NoOfficer]
      BY <2>1, RunRebuilt
    <2>3. rs[m].status # "paid"
      BY DEF Calculated
    <2> QED BY <2>2, <2>3
  <1>2. ASSUME NEW m \in Months, m \notin Calculated(rs) PROVE new[m] = rs[m]
    BY <1>2 DEF RunsRebuilt
  <1>3. Calculated(new) = Calculated(rs)
    BY <1>1, <1>2 DEF Calculated
  <1>4. \A m \in Months : new[m].status = "paid" <=> rs[m].status = "paid"
    BY <1>1, <1>2
  <1>5. ASSUME NEW b PROVE FixedWith(new, b) = FixedWith(rs, b)
    BY <1>2, <1>3 DEF FixedWith, InRow
  <1> QED BY <1>3, <1>4, <1>5

LEMMA ClaimRebuilt ==
  ASSUME NEW f, NEW rs, NEW cs, PayClaims(cs), NEW b \in Claims,
         NEW new, new = ClaimsRebuilt(f, rs, cs)
  PROVE  /\ ~Payable(rs, cs[b]) => new[b] = cs[b]
         /\ Payable(rs, cs[b]) =>
              /\ new[b] = [status |-> "approved", who |-> cs[b].who, month |-> cs[b].month,
                           run |-> Max({0} \cup FirstRun(f, rs, cs[b]))]
  <1>1. new[b] = IF Payable(rs, cs[b]) THEN [cs[b] EXCEPT !.run = Max({0} \cup FirstRun(f, rs, cs[b]))]
                 ELSE cs[b]
    BY DEF ClaimsRebuilt
  <1>2. ASSUME NEW k, Payable(rs, cs[b])
        PROVE  [cs[b] EXCEPT !.run = k] =
                 [status |-> "approved", who |-> cs[b].who, month |-> cs[b].month, run |-> k]
    <2>1. PICK who, mm, kk : cs[b] = [status |-> "approved", who |-> who, month |-> mm, run |-> kk]
      BY <1>2 DEF PayClaims, Payable
    <2> QED BY <2>1
  <1> QED BY <1>1, <1>2

LEMMA SamePayable ==
  ASSUME NEW u \in Officers, NEW f, NEW rs, NEW cs, PayRuns(rs), PayClaims(cs),
         NEW rs2, rs2 = RunsRebuilt(u, f, rs, cs), NEW cs2, cs2 = ClaimsRebuilt(f, rs, cs),
         NEW b \in Claims
  PROVE  /\ cs2[b].status = cs[b].status /\ cs2[b].who = cs[b].who /\ cs2[b].month = cs[b].month
         /\ Payable(rs2, cs2[b]) <=> Payable(rs, cs[b])
         /\ FirstRun(f, rs2, cs2[b]) = FirstRun(f, rs, cs[b])
  <1> DEFINE k == Max({0} \cup FirstRun(f, rs, cs[b]))
  <1>1. k = 0 \/ k \in Calculated(rs)
    BY RunOfBill
  <1>2. /\ ~Payable(rs, cs[b]) => cs2[b] = cs[b]
        /\ Payable(rs, cs[b]) =>
             cs2[b] = [status |-> "approved", who |-> cs[b].who, month |-> cs[b].month, run |-> k]
    BY ClaimRebuilt
  <1> HIDE DEF k
  <1>3. /\ Calculated(rs2) = Calculated(rs)
        /\ \A m \in Months : rs2[m].status = "paid" <=> rs[m].status = "paid"
    BY SameCalculated
  <1>4. cs2[b].status = cs[b].status /\ cs2[b].who = cs[b].who /\ cs2[b].month = cs[b].month
    <2>1. Payable(rs, cs[b]) => cs[b].status = "approved"
      BY DEF Payable
    <2> QED BY <1>2, <2>1
  <1>5. FirstRun(f, rs2, cs2[b]) = FirstRun(f, rs, cs[b])
    BY <1>3, <1>4 DEF FirstRun, EveryRun
  <1>6. CASE Payable(rs, cs[b])
    <2>1. cs2[b].status = "approved" /\ cs2[b].run = k
      BY <1>2, <1>6
    <2>2. k \in Calculated(rs) => k \in Months /\ rs[k].status # "paid"
      BY DEF Calculated
    <2>3. Payable(rs2, cs2[b])
      BY <1>1, <1>3, <2>1, <2>2 DEF Payable
    <2> QED BY <1>4, <1>5, <1>6, <2>3
  <1>7. CASE ~Payable(rs, cs[b])
    <2>1. cs2[b] = cs[b]
      BY <1>2, <1>7
    <2>2. cs[b].run \in Months \cup {0}
      BY DEF PayClaims, Months
    <2>3. ~Payable(rs2, cs2[b])
      BY <1>3, <1>7, <2>1, <2>2 DEF Payable
    <2> QED BY <1>4, <1>5, <1>7, <2>3
  <1> QED BY <1>6, <1>7

\* A rebuild of facts, runs and bills that are in order leaves them current.
LEMMA RebuildSound ==
  ASSUME NEW u \in Officers, NEW f, NEW rs, NEW cs, PayReady(f, rs, cs),
         NEW rs2, rs2 = RunsRebuilt(u, f, rs, cs), NEW cs2, cs2 = ClaimsRebuilt(f, rs, cs)
  PROVE  PayReady(f, rs2, cs2) /\ PayCurrent(f, rs2, cs2)
  <1> USE DEF PayReady
  <1>1. PayRuns(rs2)
    BY RunsRebuiltTyped
  <1>2. /\ Calculated(rs2) = Calculated(rs)
        /\ \A m \in Months : rs2[m].status = "paid" <=> rs[m].status = "paid"
        /\ \A b : FixedWith(rs2, b) = FixedWith(rs, b)
    BY SameCalculated
  <1>3. \A b \in Claims : /\ cs2[b].status = cs[b].status /\ cs2[b].who = cs[b].who
                          /\ cs2[b].month = cs[b].month
                          /\ Payable(rs2, cs2[b]) <=> Payable(rs, cs[b])
                          /\ FirstRun(f, rs2, cs2[b]) = FirstRun(f, rs, cs[b])
    BY SamePayable
  <1>4. ASSUME NEW b \in Claims
        PROVE  /\ cs2[b] \in [status : {"none", "submitted", "checked", "approved", "paid"},
                              who : Staff \cup {NoStaff}, month : 0..LastMonth, run : 0..LastMonth]
               /\ PlacedBill(rs2, cs2[b], b)
               /\ Payable(rs2, cs2[b]) => cs2[b].run = Max({0} \cup FirstRun(f, rs2, cs2[b]))
    <2> DEFINE k == Max({0} \cup FirstRun(f, rs, cs[b]))
    <2>1. k = 0 \/ k \in Calculated(rs)
      BY RunOfBill
    <2>2. /\ ~Payable(rs, cs[b]) => cs2[b] = cs[b]
          /\ Payable(rs, cs[b]) =>
               cs2[b] = [status |-> "approved", who |-> cs[b].who, month |-> cs[b].month, run |-> k]
      BY ClaimRebuilt
    <2>3. Payable(rs2, cs2[b]) => cs2[b].run = Max({0} \cup FirstRun(f, rs2, cs2[b]))
      <3>1. FirstRun(f, rs2, cs2[b]) = FirstRun(f, rs, cs[b]) /\ (Payable(rs2, cs2[b]) <=> Payable(rs, cs[b]))
        BY <1>3
      <3>2. ASSUME NEW x, cs2[b] = [status |-> "approved", who |-> cs[b].who, month |-> cs[b].month, run |-> x]
            PROVE  cs2[b].run = x
        BY <3>2
      <3>3. Payable(rs, cs[b]) => cs2[b].run = k
        BY <2>2, <3>2
      <3> QED BY <3>1, <3>3
    <2>4. k \in 0..LastMonth
      BY <2>1, PayrollAssumption DEF Calculated, Months
    <2> HIDE DEF k
    <2>5. cs[b] \in [status : {"none", "submitted", "checked", "approved", "paid"},
                     who : Staff \cup {NoStaff}, month : 0..LastMonth, run : 0..LastMonth]
      BY DEF PayClaims
    <2>6. PlacedBill(rs, cs[b], b) /\ FixedWith(rs2, b) = FixedWith(rs, b)
      BY <1>2 DEF Placed
    <2>7. CASE ~Payable(rs, cs[b])
      <3>1. cs2[b] = cs[b]
        BY <2>2, <2>7
      <3>2. cs[b].run # 0 => cs[b].run \in Months
        BY <2>5 DEF Months
      <3>3. PlacedBill(rs2, cs2[b], b)
        BY <1>2, <2>6, <3>1, <3>2 DEF PlacedBill
      <3> QED BY <2>3, <2>5, <3>1, <3>3
    <2>8. CASE Payable(rs, cs[b])
      <3>1. cs2[b] = [status |-> "approved", who |-> cs[b].who, month |-> cs[b].month, run |-> k]
        BY <2>2, <2>8
      <3>2. cs[b].status = "approved"
        BY <2>8 DEF Payable
      <3>3. FixedWith(rs2, b) = {}
        BY <2>6, <3>2 DEF PlacedBill
      <3>4. cs2[b].status = "approved" /\ cs2[b].run = k
        BY <3>1
      <3>5. PlacedBill(rs2, cs2[b], b)
        BY <1>2, <2>1, <3>3, <3>4 DEF PlacedBill
      <3> QED BY <2>3, <2>4, <2>5, <3>1, <3>5
    <2> QED BY <2>7, <2>8
  <1>5. cs2 = [b \in Claims |-> cs2[b]]
    BY DEF ClaimsRebuilt
  <1>6. PayClaims(cs2)
    BY <1>4, <1>5 DEF PayClaims
  <1>7. \A e, m : Taken(f, rs2, cs2, e, m) = Taken(f, rs, cs, e, m)
    BY <1>3 DEF Taken
  <1>8. \A e, m : SalaryRow(f, rs2, cs2, e, m) = SalaryRow(f, rs, cs, e, m)
    BY <1>7 DEF SalaryRow
  <1>9. ASSUME NEW m \in Calculated(rs2)
        PROVE  rs2[m].rows = [e \in OnRun(f, m) |-> SalaryRow(f, rs2, cs2, e, m)]
    <2>1. m \in Months /\ m \in Calculated(rs)
      BY <1>2 DEF Calculated
    <2>2. rs2[m] = [status |-> "prepared", sheet |-> FALSE,
                    rows |-> [e \in OnRun(f, m) |-> SalaryRow(f, rs, cs, e, m)],
                    by |-> u, checker |-> NoOfficer]
      BY <2>1, RunRebuilt
    <2>3. rs2[m].rows = [e \in OnRun(f, m) |-> SalaryRow(f, rs, cs, e, m)]
      BY <2>2
    <2>4. [e \in OnRun(f, m) |-> SalaryRow(f, rs, cs, e, m)] =
            [e \in OnRun(f, m) |-> SalaryRow(f, rs2, cs2, e, m)]
      BY <1>8
    <2> QED BY <2>3, <2>4
  <1>10. RowsCurrent(f, rs2, cs2)
    BY <1>9 DEF RowsCurrent
  <1>11. Placed(rs2, cs2) /\ ClaimsCurrent(f, rs2, cs2)
    BY <1>4 DEF Placed, ClaimsCurrent
  <1> QED BY <1>1, <1>6, <1>10, <1>11 DEF PayCurrent

\* A rebuild looks at the profiles of the moment.
LEMMA RebuildKeeps ==
  ASSUME NEW u \in Officers, NEW f, NEW rs, NEW cs, PayReady(f, rs, cs), profiled' \in SUBSET Staff,
         Rebuild(u, f, rs, cs)
  PROVE  PayReady(facts', run', claim') /\ PayCurrent(facts', run', claim')
  <1> DEFINE g == [f EXCEPT !.seen = profiled']
  <1>1. Prepare(u, g, rs, cs)
    BY DEF Rebuild
  <1>2. PayFacts(g)
    BY DEF PayReady, PayFacts
  <1> HIDE DEF g
  <1>3. facts' = g /\ run' = RunsRebuilt(u, g, rs, cs) /\ claim' = ClaimsRebuilt(g, rs, cs)
    BY <1>1, PrepareMakes
  <1>4. PayReady(g, rs, cs)
    BY <1>2 DEF PayReady
  <1>5. PayReady(g, run', claim') /\ PayCurrent(g, run', claim')
    BY <1>3, <1>4, RebuildSound
  <1> QED BY <1>3, <1>5
-----------------------------------------------------------------------------
\* Bills that are approved are payable, and the other way round.
LEMMA ApprovedIsPayable ==
  ASSUME NEW rs, NEW c, NEW b, PlacedBill(rs, c, b)
  PROVE  Payable(rs, c) <=> c.status = "approved"
  BY DEF PlacedBill, Payable, Calculated

LEMMA FixedArePaid ==
  ASSUME NEW rs, NEW cs, Placed(rs, cs), NEW b \in Claims, NEW m \in FixedWith(rs, b)
  PROVE  cs[b].status = "paid" /\ cs[b].run = m /\ m # 0 /\ rs[m].status = "paid"
  BY MonthsAreNumbers DEF Placed, PlacedBill, FixedWith

\* Runs that change where nothing is calculated.
LEMMA RunsAside ==
  ASSUME NEW f, NEW rs, NEW cs, PayReady(f, rs, cs), PayCurrent(f, rs, cs),
         NEW rs2, PayRuns(rs2), Calculated(rs2) = Calculated(rs),
         \A m \in Calculated(rs) : rs2[m].rows = rs[m].rows,
         \A b \in Claims : FixedWith(rs2, b) = FixedWith(rs, b),
         \A m \in Months : rs[m].status = "paid" => rs2[m].status = "paid"
  PROVE  PayReady(f, rs2, cs) /\ PayCurrent(f, rs2, cs)
  <1>1. ASSUME NEW b \in Claims PROVE PlacedBill(rs2, cs[b], b)
    <2>1. PlacedBill(rs, cs[b], b) /\ cs[b].run \in Months \cup {0}
      BY DEF PayReady, Placed, PayClaims, Months
    <2> QED BY <2>1 DEF PlacedBill
  <1>2. \A b \in Claims : Payable(rs2, cs[b]) <=> Payable(rs, cs[b])
    BY <1>1, ApprovedIsPayable DEF PayReady, Placed
  <1>3. \A b \in Claims : FirstRun(f, rs2, cs[b]) = FirstRun(f, rs, cs[b])
    BY DEF FirstRun, EveryRun
  <1>4. \A e, m : Taken(f, rs2, cs, e, m) = Taken(f, rs, cs, e, m)
    BY <1>2, <1>3 DEF Taken
  <1>5. \A e, m : SalaryRow(f, rs2, cs, e, m) = SalaryRow(f, rs, cs, e, m)
    BY <1>4 DEF SalaryRow
  <1>6. ASSUME NEW m \in Calculated(rs2)
        PROVE  rs2[m].rows = [e \in OnRun(f, m) |-> SalaryRow(f, rs2, cs, e, m)]
    <2>1. rs2[m].rows = [e \in OnRun(f, m) |-> SalaryRow(f, rs, cs, e, m)]
      BY DEF PayCurrent, RowsCurrent
    <2> QED BY <2>1, <1>5
  <1>7. ClaimsCurrent(f, rs2, cs)
    <2> SUFFICES ASSUME NEW b \in Claims, Payable(rs2, cs[b])
                 PROVE  cs[b].run = Max({0} \cup FirstRun(f, rs2, cs[b]))
      BY DEF ClaimsCurrent
    <2>1. Payable(rs, cs[b]) /\ FirstRun(f, rs2, cs[b]) = FirstRun(f, rs, cs[b])
      BY <1>2, <1>3
    <2>2. cs[b].run = Max({0} \cup FirstRun(f, rs, cs[b]))
      BY <2>1 DEF PayCurrent, ClaimsCurrent
    <2> QED BY <2>1, <2>2
  <1> QED BY <1>1, <1>6, <1>7 DEF PayReady, PayCurrent, Placed, RowsCurrent

\* A bill that changes and was in no run.
LEMMA ClaimAside ==
  ASSUME NEW f, NEW rs, NEW cs, PayReady(f, rs, cs), PayCurrent(f, rs, cs), NEW b \in Claims,
         NEW c \in [status : {"none", "submitted", "checked", "approved", "paid"},
                    who : Staff \cup {NoStaff}, month : 0..LastMonth, run : 0..LastMonth],
         ~Payable(rs, c), PlacedBill(rs, c, b),
         ~Payable(rs, cs[b]) \/ FirstRun(f, rs, cs[b]) = {},
         NEW cs2, cs2 = [cs EXCEPT ![b] = c]
  PROVE  PayReady(f, rs, cs2) /\ PayCurrent(f, rs, cs2)
  <1>1. cs2[b] = c /\ \A d \in Claims \ {b} : cs2[d] = cs[d]
    BY DEF PayReady, PayClaims
  <1>2. PayClaims(cs2)
    BY DEF PayReady, PayClaims
  <1>3. Placed(rs, cs2)
    BY <1>1 DEF PayReady, Placed
  <1>4. \A e, m : Taken(f, rs, cs2, e, m) = Taken(f, rs, cs, e, m)
    BY <1>1 DEF Taken
  <1>5. \A e, m : SalaryRow(f, rs, cs2, e, m) = SalaryRow(f, rs, cs, e, m)
    BY <1>4 DEF SalaryRow
  <1>6. ASSUME NEW m \in Calculated(rs)
        PROVE  rs[m].rows = [e \in OnRun(f, m) |-> SalaryRow(f, rs, cs2, e, m)]
    <2>1. rs[m].rows = [e \in OnRun(f, m) |-> SalaryRow(f, rs, cs, e, m)]
      BY DEF PayCurrent, RowsCurrent
    <2>2. [e \in OnRun(f, m) |-> SalaryRow(f, rs, cs, e, m)] =
            [e \in OnRun(f, m) |-> SalaryRow(f, rs, cs2, e, m)]
      BY <1>5
    <2> QED BY <2>1, <2>2
  <1>7. ClaimsCurrent(f, rs, cs2)
    BY <1>1 DEF ClaimsCurrent, PayCurrent
  <1> QED BY <1>2, <1>3, <1>6, <1>7 DEF PayReady, PayCurrent, RowsCurrent

\* Facts that change where no salary looks.
LEMMA FactsAside ==
  ASSUME NEW f, NEW rs, NEW cs, PayReady(f, rs, cs), PayCurrent(f, rs, cs),
         NEW f2, PayFacts(f2), f2.staff = f.staff, f2.day = f.day, f2.off = f.off, f2.seen = f.seen,
         \A e, m : OnLeave(f2, e, m) <=> OnLeave(f, e, m)
  PROVE  PayReady(f2, rs, cs) /\ PayCurrent(f2, rs, cs)
  <1>1. \A m : OnRun(f2, m) = OnRun(f, m)
    BY DEF OnRun
  <1>2. \A c : FirstRun(f2, rs, c) = FirstRun(f, rs, c)
    BY <1>1 DEF FirstRun, EveryRun
  <1>3. \A e, m : Taken(f2, rs, cs, e, m) = Taken(f, rs, cs, e, m)
    BY <1>2 DEF Taken
  <1>4. \A e, m : Unpaid(f2, e, m) = Unpaid(f, e, m)
    BY DEF Unpaid
  <1>5. \A e, m : SalaryRow(f2, rs, cs, e, m) = SalaryRow(f, rs, cs, e, m)
    BY <1>3, <1>4 DEF SalaryRow, Pay
  <1>6. ASSUME NEW m \in Calculated(rs)
        PROVE  rs[m].rows = [e \in OnRun(f2, m) |-> SalaryRow(f2, rs, cs, e, m)]
    <2>1. rs[m].rows = [e \in OnRun(f, m) |-> SalaryRow(f, rs, cs, e, m)]
      BY DEF PayCurrent, RowsCurrent
    <2> QED BY <2>1, <1>1, <1>5
  <1>7. ClaimsCurrent(f2, rs, cs)
    BY <1>2 DEF ClaimsCurrent, PayCurrent
  <1> QED BY <1>6, <1>7 DEF PayReady, PayCurrent, RowsCurrent

-----------------------------------------------------------------------------
LEMMA PayStart == PayrollInit => PayrollInv
  <1> SUFFICES ASSUME PayrollInit PROVE PayrollInv
    OBVIOUS
  <1>1. PayFacts(facts)
    BY PayrollAssumption DEF PayrollInit, PayFacts, NotAsked
  <1>2. <<>> \in UNION {[S -> PayRow] : S \in SUBSET Staff}
    <2>1. <<>> \in [{} -> PayRow]
      OBVIOUS
    <2> QED BY <2>1
  <1>3. NoRun \in PayRun
    BY <1>2 DEF NoRun, PayRun
  <1>4. PayRuns(run)
    BY <1>3 DEF PayrollInit, PayRuns
  <1>5. PayClaims(claim)
    BY PayrollAssumption DEF PayrollInit, PayClaims, NoClaim
  <1>6. \A m \in Months : run[m].status = "none" /\ run[m].rows = <<>>
    BY DEF PayrollInit, NoRun
  <1>7. Calculated(run) = {} /\ \A b : FixedWith(run, b) = {}
    BY <1>6 DEF Calculated, FixedWith, InRow
  <1>8. \A b \in Claims : claim[b].status = "none" /\ claim[b].run = 0
    BY DEF PayrollInit, NoClaim
  <1>9. Placed(run, claim)
    BY <1>7, <1>8 DEF Placed, PlacedBill
  <1>10. PayCurrent(facts, run, claim)
    BY <1>7, <1>8 DEF PayCurrent, RowsCurrent, ClaimsCurrent, Payable
  <1>11. month \in Months /\ twoStep \in BOOLEAN /\ profiled \in SUBSET Staff
         /\ request \in [Staff -> [Months -> {"none", "pending", "approved"}]]
    BY MonthsAreNumbers DEF PayrollInit
  <1> QED BY <1>1, <1>4, <1>5, <1>9, <1>10, <1>11 DEF PayrollInv, PayReady

\* Whatever changes the facts alone.
LEMMA ChangeKeeps ==
  ASSUME PayrollInv, NEW u \in Officers, NEW f, PayFacts(f), Change(u, f)
  PROVE  PayrollInv'
  <1>1. Rebuild(u, f, run, claim) /\ UNCHANGED <<month, request, twoStep, profiled>>
    BY DEF Change
  <1>2. PayReady(f, run, claim)
    BY DEF PayrollInv, PayReady
  <1>p. profiled' \in SUBSET Staff
    BY <1>1 DEF PayrollInv
  <1>3. PayReady(facts', run', claim') /\ PayCurrent(facts', run', claim')
    BY <1>1, <1>2, <1>p, RebuildKeeps
  <1> QED BY <1>1, <1>p, <1>3 DEF PayrollInv

LEMMA StaffTyped ==
  ASSUME PayFacts(facts), NEW e \in Staff,
         NEW s \in [status : {"none", "active", "inactive"}, joined : 0..LastMonth, advance : Int,
   raised : 0..LastMonth]
  PROVE  PayFacts([facts EXCEPT !.staff[e] = s])
  BY DEF PayFacts

LEMMA DayTyped ==
  ASSUME PayFacts(facts), NEW e \in Staff, NEW m \in Months, NEW s \in {"none", "present", "absent"}
  PROVE  PayFacts([facts EXCEPT !.day[e][m] = s])
  BY DEF PayFacts

LEMMA LeaveTyped ==
  ASSUME PayFacts(facts), NEW l \in Leaves,
         NEW v \in [status : {"none", "pending", "approved"}, who : Staff \cup {NoStaff}, month : 0..LastMonth]
  PROVE  PayFacts([facts EXCEPT !.leave[l] = v])
  BY DEF PayFacts

LEMMA StaffChanges ==
  ASSUME PayrollInv, NEW u \in Officers, NEW e \in Staff, NEW m \in Months,
         \/ ImportEmployee(u, e, m) \/ ImportOpening(u, e) \/ EmployeeStatus(u, e) \/ ChangeJoining(u, e, m)
         \/ CreateEmployee(u, e, m) \/ Promote(u, e, m)
  PROVE  PayrollInv'
  <1>0. PayFacts(facts) /\ m \in 0..LastMonth /\ 0..MaxAdvance \subseteq Int
    BY PayrollAssumption DEF PayrollInv, PayReady, Months
  <1>z. 0 \in 0..LastMonth
    BY PayrollAssumption
  <1>t. facts.staff[e] \in [status : {"none", "active", "inactive"}, joined : 0..LastMonth, advance : Int,
   raised : 0..LastMonth]
    BY <1>0 DEF PayFacts
  <1>1. CASE ImportEmployee(u, e, m)
    <2>1. PICK a \in 0..MaxAdvance :
            Change(u, [facts EXCEPT !.staff[e] = [status |-> "active", joined |-> m, advance |-> a, raised |-> 0]])
      BY <1>1 DEF ImportEmployee
    <2>2. PayFacts([facts EXCEPT !.staff[e] = [status |-> "active", joined |-> m, advance |-> a, raised |-> 0]])
      BY <1>0, <1>z, StaffTyped
    <2> QED BY <2>1, <2>2, ChangeKeeps
  <1>2. CASE ImportOpening(u, e)
    <2>1. PICK a \in 0..MaxAdvance : Change(u, [facts EXCEPT !.staff[e].advance = a])
      BY <1>2 DEF ImportOpening
    <2>2. PayFacts([facts EXCEPT !.staff[e].advance = a])
      <3>1. [facts.staff[e] EXCEPT !.advance = a] \in
              [status : {"none", "active", "inactive"}, joined : 0..LastMonth, advance : Int,
   raised : 0..LastMonth]
        BY <1>0, <1>t
      <3>2. PayFacts([facts EXCEPT !.staff[e] = [facts.staff[e] EXCEPT !.advance = a]])
        BY <1>0, <3>1, StaffTyped
      <3> QED BY <3>2
    <2> QED BY <2>1, <2>2, ChangeKeeps
  <1>3. CASE EmployeeStatus(u, e)
    <2>1. Change(u, [facts EXCEPT !.staff[e].status = IF @ = "active" THEN "inactive" ELSE "active"])
      BY <1>3 DEF EmployeeStatus
    <2>2. PayFacts([facts EXCEPT !.staff[e].status = IF @ = "active" THEN "inactive" ELSE "active"])
      <3>1. [facts.staff[e] EXCEPT !.status = IF @ = "active" THEN "inactive" ELSE "active"] \in
              [status : {"none", "active", "inactive"}, joined : 0..LastMonth, advance : Int,
   raised : 0..LastMonth]
        BY <1>t
      <3>2. PayFacts([facts EXCEPT !.staff[e] =
                        [facts.staff[e] EXCEPT !.status = IF @ = "active" THEN "inactive" ELSE "active"]])
        BY <1>0, <3>1, StaffTyped
      <3> QED BY <3>2
    <2> QED BY <2>1, <2>2, ChangeKeeps
  <1>4. CASE ChangeJoining(u, e, m)
    <2>1. Change(u, [facts EXCEPT !.staff[e].joined = m])
      BY <1>4 DEF ChangeJoining
    <2>2. PayFacts([facts EXCEPT !.staff[e].joined = m])
      <3>1. [facts.staff[e] EXCEPT !.joined = m] \in
              [status : {"none", "active", "inactive"}, joined : 0..LastMonth, advance : Int,
   raised : 0..LastMonth]
        BY <1>0, <1>t
      <3>2. PayFacts([facts EXCEPT !.staff[e] = [facts.staff[e] EXCEPT !.joined = m]])
        BY <1>0, <3>1, StaffTyped
      <3> QED BY <3>2
    <2> QED BY <2>1, <2>2, ChangeKeeps
  <1>5. CASE Promote(u, e, m)
    <2>1. Change(u, [facts EXCEPT !.staff[e].raised = m])
      BY <1>5 DEF Promote
    <2>2. PayFacts([facts EXCEPT !.staff[e].raised = m])
      <3>1. [facts.staff[e] EXCEPT !.raised = m] \in
              [status : {"none", "active", "inactive"}, joined : 0..LastMonth, advance : Int,
               raised : 0..LastMonth]
        BY <1>0, <1>t
      <3>2. PayFacts([facts EXCEPT !.staff[e] = [facts.staff[e] EXCEPT !.raised = m]])
        BY <1>0, <3>1, StaffTyped
      <3> QED BY <3>2
    <2> QED BY <2>1, <2>2, ChangeKeeps
  <1>6. CASE CreateEmployee(u, e, m)
    <2> DEFINE v == [status |-> "active", joined |-> m, advance |-> 0, raised |-> 0]
               f == [facts EXCEPT !.staff[e] = v]
    <2>1. /\ UNCHANGED <<month, request, twoStep>> /\ profiled' \in SUBSET Staff
          /\ Rebuild(u, f, run, claim)
      BY <1>6 DEF CreateEmployee, PayrollInv
    <2>2. v \in [status : {"none", "active", "inactive"}, joined : 0..LastMonth, advance : Int,
                 raised : 0..LastMonth]
      BY <1>0, <1>z
    <2> HIDE DEF v
    <2>3. PayFacts(f)
      BY <1>0, <2>2, StaffTyped
    <2> HIDE DEF f
    <2>4. PayReady(f, run, claim)
      BY <2>3 DEF PayrollInv, PayReady
    <2>5. PayReady(facts', run', claim') /\ PayCurrent(facts', run', claim')
      BY <2>1, <2>4, RebuildKeeps
    <2> QED BY <2>1, <2>5 DEF PayrollInv
  <1> QED BY <1>1, <1>2, <1>3, <1>4, <1>5, <1>6

LEMMA DayChanges ==
  ASSUME PayrollInv, NEW u \in Officers, NEW e \in Staff, NEW m \in Months,
         \/ MarkAttendance(u, e, m) \/ Punch(u, e) \/ DecideAttendance(u, e, m)
         \/ ChangeHolidays(u, m) \/ SaveSettings(u)
  PROVE  PayrollInv'
  <1>0. PayFacts(facts) /\ month \in Months /\ PayReady(facts, run, claim)
    BY DEF PayrollInv, PayReady
  <1>1. CASE MarkAttendance(u, e, m)
    <2>1. PICK s \in {"present", "absent"} : Change(u, [facts EXCEPT !.day[e][m] = s])
      BY <1>1 DEF MarkAttendance
    <2>2. PayFacts([facts EXCEPT !.day[e][m] = s])
      BY <1>0, DayTyped
    <2> QED BY <2>1, <2>2, ChangeKeeps
  <1>2. CASE Punch(u, e)
    <2>1. Change(u, [facts EXCEPT !.day[e][month] = "present"])
      BY <1>2 DEF Punch
    <2>2. PayFacts([facts EXCEPT !.day[e][month] = "present"])
      BY <1>0, DayTyped
    <2> QED BY <2>1, <2>2, ChangeKeeps
  <1>3. CASE DecideAttendance(u, e, m)
    <2>1. UNCHANGED <<month, twoStep, profiled>> /\
          \/ /\ request' = [request EXCEPT ![e][m] = "approved"]
             /\ Rebuild(u, [facts EXCEPT !.day[e][m] = "present"], run, claim)
          \/ request' = [request EXCEPT ![e][m] = "none"] /\ UNCHANGED <<facts, claim, run>>
      BY <1>3 DEF DecideAttendance
    <2>2. request' \in [Staff -> [Months -> {"none", "pending", "approved"}]] /\ profiled' \in SUBSET Staff
      BY <2>1 DEF PayrollInv
    <2>3. CASE Rebuild(u, [facts EXCEPT !.day[e][m] = "present"], run, claim)
      <3>1. PayFacts([facts EXCEPT !.day[e][m] = "present"])
        BY <1>0, DayTyped
      <3>2. PayReady([facts EXCEPT !.day[e][m] = "present"], run, claim)
        BY <1>0, <3>1 DEF PayReady
      <3>3. PayReady(facts', run', claim') /\ PayCurrent(facts', run', claim')
        BY <2>2, <2>3, <3>2, RebuildKeeps
      <3> QED BY <2>1, <2>2, <3>3 DEF PayrollInv
    <2>4. CASE UNCHANGED <<facts, claim, run>>
      BY <2>1, <2>2, <2>4 DEF PayrollInv
    <2> QED BY <2>1, <2>3, <2>4
  <1>4. CASE ChangeHolidays(u, m)
    <2>1. Change(u, [facts EXCEPT !.off = IF m \in @ THEN @ \ {m} ELSE @ \cup {m}])
      BY <1>4 DEF ChangeHolidays
    <2>2. PayFacts([facts EXCEPT !.off = IF m \in @ THEN @ \ {m} ELSE @ \cup {m}])
      BY <1>0 DEF PayFacts
    <2> QED BY <2>1, <2>2, ChangeKeeps
  <1>5. CASE SaveSettings(u)
    <2>1. twoStep' = ~twoStep /\ Rebuild(u, facts, run, claim) /\ UNCHANGED <<month, request, profiled>>
      BY <1>5 DEF SaveSettings
    <2>2. PayReady(facts', run', claim') /\ PayCurrent(facts', run', claim')
      BY <1>0, <2>1, RebuildKeeps DEF PayrollInv
    <2> QED BY <2>1, <2>2 DEF PayrollInv
  <1> QED BY <1>1, <1>2, <1>3, <1>4, <1>5
LEMMA LeaveChanges ==
  ASSUME PayrollInv, NEW l \in Leaves,
         \/ \E e \in Staff, m \in Months : SubmitLeave(l, e, m)
         \/ \E u \in Officers : DecideLeave(u, l)
  PROVE  PayrollInv'
  <1>0. PayFacts(facts) /\ PayReady(facts, run, claim) /\ PayCurrent(facts, run, claim)
    BY DEF PayrollInv, PayReady
  <1>t. facts.leave[l] \in [status : {"none", "pending", "approved"}, who : Staff \cup {NoStaff}, month : 0..LastMonth]
    BY <1>0 DEF PayFacts
  <1>1. ASSUME NEW e \in Staff, NEW m \in Months, SubmitLeave(l, e, m) PROVE PayrollInv'
    <2> DEFINE v == [status |-> "pending", who |-> e, month |-> m]
               f2 == [facts EXCEPT !.leave[l] = v]
    <2>1. /\ facts' = f2 /\ facts.leave[l].status = "none"
          /\ UNCHANGED <<month, request, twoStep, profiled, claim, run>>
      BY <1>1 DEF SubmitLeave
    <2>2. v \in [status : {"none", "pending", "approved"}, who : Staff \cup {NoStaff}, month : 0..LastMonth]
      BY PayrollAssumption DEF Months
    <2>3. PayFacts(f2)
      BY <1>0, <2>2, LeaveTyped
    <2>4. f2.staff = facts.staff /\ f2.day = facts.day /\ f2.off = facts.off /\ f2.seen = facts.seen
      BY <1>0 DEF PayFacts
    <2>5. f2.leave[l] = v /\ \A k \in Leaves \ {l} : f2.leave[k] = facts.leave[k]
      BY <1>0 DEF PayFacts
    <2>6. v.status # "approved"
      OBVIOUS
    <2> HIDE DEF f2, v
    <2>7. \A d, n : OnLeave(f2, d, n) <=> OnLeave(facts, d, n)
      BY <2>1, <2>5, <2>6 DEF OnLeave
    <2>8. PayReady(f2, run, claim) /\ PayCurrent(f2, run, claim)
      BY <1>0, <2>3, <2>4, <2>7, FactsAside
    <2> QED BY <2>1, <2>8 DEF PayrollInv
  <1>2. ASSUME NEW u \in Officers, DecideLeave(u, l) PROVE PayrollInv'
    <2>1. \/ Change(u, [facts EXCEPT !.leave[l].status = "approved"])
          \/ Change(u, [facts EXCEPT !.leave[l] = NotAsked])
      BY <1>2 DEF DecideLeave
    <2>2. PayFacts([facts EXCEPT !.leave[l].status = "approved"])
      <3>1. [facts.leave[l] EXCEPT !.status = "approved"] \in
              [status : {"none", "pending", "approved"}, who : Staff \cup {NoStaff}, month : 0..LastMonth]
        BY <1>t
      <3>2. PayFacts([facts EXCEPT !.leave[l] = [facts.leave[l] EXCEPT !.status = "approved"]])
        BY <1>0, <3>1, LeaveTyped
      <3> QED BY <3>2
    <2>3. PayFacts([facts EXCEPT !.leave[l] = NotAsked])
      <3>1. NotAsked \in [status : {"none", "pending", "approved"}, who : Staff \cup {NoStaff}, month : 0..LastMonth]
        BY PayrollAssumption DEF NotAsked
      <3> QED BY <1>0, <3>1, LeaveTyped
    <2> QED BY <2>1, <2>2, <2>3, ChangeKeeps
  <1> QED BY <1>1, <1>2

LEMMA BillChanges ==
  ASSUME PayrollInv, NEW b \in Claims,
         \/ \E e \in Staff, m \in Months : SubmitBill(b, e, m)
         \/ \E u \in Officers : DecideBill(u, b)
         \/ DisburseBill(b)
  PROVE  PayrollInv'
  <1>0. PayReady(facts, run, claim) /\ PayCurrent(facts, run, claim) /\ PayClaims(claim)
        /\ PlacedBill(run, claim[b], b)
    BY DEF PayrollInv, PayReady, Placed
  <1>t. claim[b] \in [status : {"none", "submitted", "checked", "approved", "paid"},
                      who : Staff \cup {NoStaff}, month : 0..LastMonth, run : 0..LastMonth]
    BY <1>0 DEF PayClaims
  <1>1. ASSUME NEW e \in Staff, NEW m \in Months, SubmitBill(b, e, m) PROVE PayrollInv'
    <2> DEFINE c == [status |-> "submitted", who |-> e, month |-> m, run |-> 0]
    <2>1. /\ claim[b].status = "none" /\ claim' = [claim EXCEPT ![b] = c]
          /\ UNCHANGED <<month, facts, request, twoStep, profiled, run>>
      BY <1>1 DEF SubmitBill
    <2>2. c \in [status : {"none", "submitted", "checked", "approved", "paid"},
                 who : Staff \cup {NoStaff}, month : 0..LastMonth, run : 0..LastMonth]
      BY PayrollAssumption DEF Months
    <2>3. ~Payable(run, c) /\ ~Payable(run, claim[b])
      BY <2>1 DEF Payable
    <2>4. PlacedBill(run, c, b)
      BY <1>0, <2>1 DEF PlacedBill
    <2> HIDE DEF c
    <2>5. PayReady(facts, run, claim') /\ PayCurrent(facts, run, claim')
      BY <1>0, <2>1, <2>2, <2>3, <2>4, ClaimAside
    <2> QED BY <2>1, <2>5 DEF PayrollInv
  <1>2. ASSUME DisburseBill(b) PROVE PayrollInv'
    <2> DEFINE c == [claim[b] EXCEPT !.status = "paid"]
    <2>1. /\ claim[b].status = "approved" /\ claim[b].run = 0 /\ claim' = [claim EXCEPT ![b] = c]
          /\ UNCHANGED <<month, facts, request, twoStep, profiled, run>>
      BY <1>2 DEF DisburseBill, Unreserved
    <2>2. c \in [status : {"none", "submitted", "checked", "approved", "paid"},
                 who : Staff \cup {NoStaff}, month : 0..LastMonth, run : 0..LastMonth]
      BY <1>t
    <2>3. c.status = "paid" /\ c.run = 0
      BY <1>t, <2>1
    <2>4. ~Payable(run, c)
      BY <2>3 DEF Payable
    <2>5. PlacedBill(run, c, b)
      BY <1>0, <2>1, <2>3 DEF PlacedBill
    <2>6. FirstRun(facts, run, claim[b]) = {}
      <3>1. Payable(run, claim[b])
        BY <2>1 DEF Payable
      <3>2. Max({0} \cup FirstRun(facts, run, claim[b])) = 0
        BY <1>0, <2>1, <3>1 DEF PayCurrent, ClaimsCurrent
      <3>3. 0 \notin Calculated(run)
        BY MonthsAreNumbers DEF Calculated
      <3>4. \/ FirstRun(facts, run, claim[b]) = {}
            \/ Max({0} \cup FirstRun(facts, run, claim[b])) \in Calculated(run)
        BY RunOfBill
      <3> QED BY <3>2, <3>3, <3>4
    <2> HIDE DEF c
    <2>7. PayReady(facts, run, claim') /\ PayCurrent(facts, run, claim')
      BY <1>0, <2>1, <2>2, <2>4, <2>5, <2>6, ClaimAside
    <2> QED BY <2>1, <2>7 DEF PayrollInv
  <1>3. ASSUME NEW u \in Officers, DecideBill(u, b) PROVE PayrollInv'
    <2>1. /\ claim[b].status \in {"submitted", "checked"} /\ UNCHANGED <<month, request, twoStep, profiled>>
          /\ \E c \in {[claim[b] EXCEPT !.status = s] : s \in {"checked", "approved"}} \cup {NoClaim} :
               Rebuild(u, facts, run, [claim EXCEPT ![b] = c])
      BY <1>3 DEF DecideBill, NextOfBill
    <2>2. PICK c \in {[claim[b] EXCEPT !.status = s] : s \in {"checked", "approved"}} \cup {NoClaim} :
            Rebuild(u, facts, run, [claim EXCEPT ![b] = c])
      BY <2>1
    <2>3. claim[b].run = 0 /\ FixedWith(run, b) = {}
      BY <1>0, <2>1 DEF PlacedBill
    <2>4. /\ c \in [status : {"none", "submitted", "checked", "approved", "paid"},
                    who : Staff \cup {NoStaff}, month : 0..LastMonth, run : 0..LastMonth]
          /\ c.run = 0
      <3>1. CASE c = NoClaim
        BY <3>1, PayrollAssumption DEF NoClaim
      <3>2. ASSUME NEW s \in {"checked", "approved"}, c = [claim[b] EXCEPT !.status = s]
            PROVE  /\ c \in [status : {"none", "submitted", "checked", "approved", "paid"},
                             who : Staff \cup {NoStaff}, month : 0..LastMonth, run : 0..LastMonth]
                   /\ c.run = 0
        BY <3>2, <1>t, <2>3
      <3> QED BY <2>2, <3>1, <3>2
    <2>5. PlacedBill(run, c, b)
      BY <2>3, <2>4 DEF PlacedBill
    <2> DEFINE cs == [claim EXCEPT ![b] = c]
    <2>6. PayClaims(cs)
      BY <1>0, <2>4 DEF PayClaims
    <2>7. cs[b] = c /\ \A d \in Claims \ {b} : cs[d] = claim[d]
      BY <1>0 DEF PayClaims
    <2>8. Placed(run, cs)
      BY <1>0, <2>5, <2>7 DEF Placed, PayReady
    <2>9. Rebuild(u, facts, run, cs)
      BY <2>2
    <2> HIDE DEF cs
    <2>10. PayReady(facts, run, cs)
      BY <1>0, <2>6, <2>8 DEF PayReady
    <2>11. PayReady(facts', run', claim') /\ PayCurrent(facts', run', claim')
      BY <2>1, <2>9, <2>10, RebuildKeeps DEF PayrollInv
    <2> QED BY <2>1, <2>11 DEF PayrollInv
  <1> QED BY <1>1, <1>2, <1>3

-----------------------------------------------------------------------------
(* Runs. *)

RunPut(rs, m, r) == [rs EXCEPT ![m] = r]
RunMoved(rs, m, s) == [rs EXCEPT ![m].status = s]
RunSigned(rs, m, s, k) == [rs EXCEPT ![m].status = s, ![m].checker = k]

LEMMA RunStatus ==
  ASSUME NEW rs, PayRuns(rs), NEW m \in Months, NEW s \in {"none", "prepared", "checked", "approved", "paid"},
         NEW k \in Officers \cup {NoOfficer}
  PROVE  /\ \E r \in PayRun : /\ RunMoved(rs, m, s) = RunPut(rs, m, r)
                              /\ r.status = s /\ r.sheet = rs[m].sheet /\ r.rows = rs[m].rows
         /\ \E r \in PayRun : /\ RunSigned(rs, m, s, k) = RunPut(rs, m, r)
                              /\ r.status = s /\ r.sheet = rs[m].sheet /\ r.rows = rs[m].rows
  <1>1. PICK st, sh, old, by, ch :
          rs[m] = [status |-> st, sheet |-> sh, rows |-> old, by |-> by, checker |-> ch]
    BY DEF PayRuns, PayRun
  <1>2. rs[m] \in PayRun
    BY DEF PayRuns
  <1>3. sh \in BOOLEAN /\ old \in UNION {[S -> PayRow] : S \in SUBSET Staff}
        /\ by \in Officers \cup {NoOfficer} /\ ch \in Officers \cup {NoOfficer}
    BY <1>1, <1>2 DEF PayRun
  <1> DEFINE r1 == [status |-> s, sheet |-> sh, rows |-> old, by |-> by, checker |-> ch]
             r2 == [status |-> s, sheet |-> sh, rows |-> old, by |-> by, checker |-> k]
  <1>4. [rs[m] EXCEPT !.status = s] = r1
    BY <1>1
  <1>5. [r1 EXCEPT !.checker = k] = r2
    OBVIOUS
  <1>6. r1 \in PayRun /\ r2 \in PayRun
    BY <1>3 DEF PayRun
  <1>7. /\ r1.status = s /\ r1.sheet = rs[m].sheet /\ r1.rows = rs[m].rows
        /\ r2.status = s /\ r2.sheet = rs[m].sheet /\ r2.rows = rs[m].rows
    BY <1>1
  <1> HIDE DEF r1, r2
  <1>8. [rs EXCEPT ![m].status = s] = [rs EXCEPT ![m] = r1]
    BY <1>4
  <1>9. [rs EXCEPT ![m].status = s, ![m].checker = k] = [rs EXCEPT ![m] = r2]
    <2>1. [rs EXCEPT ![m] = r1][m] = r1
      BY DEF PayRuns
    <2>2. [[rs EXCEPT ![m] = r1] EXCEPT ![m].checker = k] = [[rs EXCEPT ![m] = r1] EXCEPT ![m] = r2]
      BY <1>5, <2>1
    <2>3. [[rs EXCEPT ![m] = r1] EXCEPT ![m] = r2] = [rs EXCEPT ![m] = r2]
      BY DEF PayRuns
    <2>4. [rs EXCEPT ![m].status = s, ![m].checker = k] =
            [[rs EXCEPT ![m].status = s] EXCEPT ![m].checker = k]
      OBVIOUS
    <2> QED BY <1>8, <2>2, <2>3, <2>4
  <1> QED BY <1>6, <1>7, <1>8, <1>9 DEF RunPut, RunMoved, RunSigned

LEMMA RunPutThere ==
  ASSUME NEW rs, PayRuns(rs), NEW m \in Months, NEW r \in PayRun, NEW new, new = RunPut(rs, m, r)
  PROVE  PayRuns(new) /\ new[m] = r /\ \A n \in Months \ {m} : new[n] = rs[n]
  BY DEF PayRuns, RunPut

LEMMA ReviewKeeps ==
  ASSUME PayrollInv, NEW u \in Officers, NEW m \in Months, CheckRun(u, m) \/ ApproveRun(u, m)
  PROVE  PayrollInv' /\ \A n \in Months : run'[n].rows = run[n].rows
  <1>0. PayReady(facts, run, claim) /\ PayCurrent(facts, run, claim) /\ PayRuns(run)
    BY DEF PayrollInv, PayReady
  <1>1. /\ PayRuns(run') /\ run'[m].status \in {"checked", "approved"} /\ run'[m].sheet = run[m].sheet
        /\ run'[m].rows = run[m].rows /\ \A n \in Months \ {m} : run'[n] = run[n]
        /\ run[m].status \in {"prepared", "checked"} /\ UNCHANGED <<month, facts, request, twoStep, profiled, claim>>
    <2>1. CASE CheckRun(u, m)
      <3>1. /\ run[m].status = "prepared" /\ UNCHANGED <<month, facts, request, twoStep, profiled, claim>>
            /\ run' = [run EXCEPT ![m].status = "checked", ![m].checker = u]
        BY <2>1 DEF CheckRun
      <3> DEFINE s == "checked"
      <3>4. s \in {"none", "prepared", "checked", "approved", "paid"} /\ u \in Officers \cup {NoOfficer}
        OBVIOUS
      <3>5. run' = RunSigned(run, m, s, u)
        BY <3>1 DEF RunSigned
      <3> HIDE DEF s
      <3>2. PICK r \in PayRun : /\ run' = RunPut(run, m, r)
                               /\ r.status = s /\ r.sheet = run[m].sheet /\ r.rows = run[m].rows
        BY <1>0, <3>4, <3>5, RunStatus
      <3>3. /\ PayRuns(run') /\ run'[m] = r /\ \A n \in Months \ {m} : run'[n] = run[n]
        BY <1>0, <3>2, RunPutThere
      <3> QED BY <3>1, <3>2, <3>3 DEF s
    <2>2. CASE ApproveRun(u, m)
      <3>1. /\ run[m].status = "checked" /\ UNCHANGED <<month, facts, request, twoStep, profiled, claim>>
            /\ run' = [run EXCEPT ![m].status = "approved"]
        BY <2>2 DEF ApproveRun
      <3> DEFINE s == "approved"
      <3>4. s \in {"none", "prepared", "checked", "approved", "paid"} /\ u \in Officers \cup {NoOfficer}
        OBVIOUS
      <3>5. run' = RunMoved(run, m, s)
        BY <3>1 DEF RunMoved
      <3> HIDE DEF s
      <3>2. PICK r \in PayRun : /\ run' = RunPut(run, m, r)
                               /\ r.status = s /\ r.sheet = run[m].sheet /\ r.rows = run[m].rows
        BY <1>0, <3>4, <3>5, RunStatus
      <3>3. /\ PayRuns(run') /\ run'[m] = r /\ \A n \in Months \ {m} : run'[n] = run[n]
        BY <1>0, <3>2, RunPutThere
      <3> QED BY <3>1, <3>2, <3>3 DEF s
    <2> QED BY <2>1, <2>2
  <1>2. Calculated(run') = Calculated(run)
    BY <1>1 DEF Calculated
  <1>3. \A n \in Months : run'[n].rows = run[n].rows
    BY <1>1
  <1>4. \A b \in Claims : FixedWith(run', b) = FixedWith(run, b)
    BY <1>2, <1>3 DEF FixedWith, InRow
  <1>5. \A n \in Months : run[n].status = "paid" => run'[n].status = "paid"
    BY <1>1
  <1>6. \A n \in Calculated(run) : run'[n].rows = run[n].rows
    BY <1>3 DEF Calculated
  <1>7. PayReady(facts, run', claim) /\ PayCurrent(facts, run', claim)
    BY <1>0, <1>1, <1>2, <1>4, <1>5, <1>6, RunsAside
  <1> QED BY <1>1, <1>3, <1>7 DEF PayrollInv

LEMMA ImportKeeps ==
  ASSUME PayrollInv, NEW u \in Officers, NEW m \in Months, ImportRun(u, m) \/ ImportHistory(u, m)
  PROVE  PayrollInv' /\ \A n \in Months : run[n].status # "none" => run'[n] = run[n]
  <1>0. PayReady(facts, run, claim) /\ PayCurrent(facts, run, claim) /\ PayRuns(run)
        /\ Placed(run, claim)
    BY DEF PayrollInv, PayReady
  <1>1. ASSUME NEW S \in SUBSET Staff, NEW a, \A e \in S : a[e] \in Int,
               NEW s \in {"prepared", "paid"}, run[m].status = "none",
               run' = [run EXCEPT ![m] = [status |-> s, sheet |-> TRUE, rows |-> Sheet(S, a), by |-> u,
                                          checker |-> NoOfficer]],
               UNCHANGED <<month, facts, request, twoStep, profiled, claim>>
        PROVE  PayrollInv' /\ \A n \in Months : run[n].status # "none" => run'[n] = run[n]
    <2> DEFINE r == [status |-> s, sheet |-> TRUE, rows |-> Sheet(S, a), by |-> u, checker |-> NoOfficer]
    <2>1. Sheet(S, a) \in [S -> PayRow] /\ DOMAIN Sheet(S, a) = S /\ \A e \in S : Sheet(S, a)[e].bills = {}
      BY <1>1, PayrollAssumption DEF Sheet, PayRow
    <2>2. r \in PayRun
      <3>1. Sheet(S, a) \in UNION {[T -> PayRow] : T \in SUBSET Staff}
        BY <2>1
      <3> QED BY <3>1 DEF PayRun
    <2>3. r.status = s /\ r.sheet /\ r.rows = Sheet(S, a)
      OBVIOUS
    <2>4. run' = [run EXCEPT ![m] = r]
      BY <1>1
    <2> HIDE DEF r
    <2>5. PayRuns(run') /\ run'[m] = r /\ \A n \in Months \ {m} : run'[n] = run[n]
      BY <1>0, <2>2, <2>4 DEF PayRuns
    <2>6. Calculated(run') = Calculated(run) /\ m \notin Calculated(run)
      BY <1>1, <2>3, <2>5 DEF Calculated
    <2>7. ASSUME NEW b \in Claims PROVE FixedWith(run', b) = FixedWith(run, b)
      <3>1. m \notin FixedWith(run, b)
        BY <1>0, <1>1, FixedArePaid
      <3>2. m \notin FixedWith(run', b)
        BY <2>1, <2>3, <2>5 DEF FixedWith, InRow
      <3>3. \A n \in Months \ {m} : n \in FixedWith(run', b) <=> n \in FixedWith(run, b)
        BY <2>5, <2>6 DEF FixedWith, InRow
      <3>4. FixedWith(run', b) \subseteq Months /\ FixedWith(run, b) \subseteq Months
        BY DEF FixedWith
      <3> QED BY <3>1, <3>2, <3>3, <3>4
    <2>8. \A n \in Months : run[n].status = "paid" => run'[n].status = "paid"
      BY <1>1, <2>5
    <2>9. \A n \in Calculated(run) : run'[n].rows = run[n].rows
      BY <2>5, <2>6 DEF Calculated
    <2>10. PayReady(facts, run', claim) /\ PayCurrent(facts, run', claim)
      BY <1>0, <2>5, <2>6, <2>7, <2>8, <2>9, RunsAside
    <2> QED BY <1>1, <2>5, <2>10 DEF PayrollInv
  <1>2. CASE ImportRun(u, m)
    <2>1. PICK S \in SUBSET {e \in Staff : facts.staff[e].status # "none" /\ facts.staff[e].joined <= m} \ {{}} :
            \E a \in [S -> 0..MaxAdvance] :
              run' = [run EXCEPT ![m] = [status |-> "prepared", sheet |-> TRUE, rows |-> Sheet(S, a), by |-> u,
                                         checker |-> NoOfficer]]
      BY <1>2 DEF ImportRun
    <2>2. PICK a \in [S -> 0..MaxAdvance] :
              run' = [run EXCEPT ![m] = [status |-> "prepared", sheet |-> TRUE, rows |-> Sheet(S, a), by |-> u,
                                         checker |-> NoOfficer]]
      BY <2>1
    <2>3. run[m].status = "none" /\ UNCHANGED <<month, facts, request, twoStep, profiled, claim>>
      BY <1>2 DEF ImportRun
    <2>4. S \in SUBSET Staff /\ \A e \in S : a[e] \in Int
      BY PayrollAssumption
    <2> QED BY <1>1, <2>2, <2>3, <2>4
  <1>3. CASE ImportHistory(u, m)
    <2>1. PICK S \in SUBSET {e \in Staff : facts.staff[e].status # "none" /\ facts.staff[e].joined <= m} \ {{}} :
            run' = [run EXCEPT ![m] = [status |-> "paid", sheet |-> TRUE, rows |-> Sheet(S, [e \in S |-> 0]),
                                       by |-> u, checker |-> NoOfficer]]
      BY <1>3 DEF ImportHistory
    <2>2. run[m].status = "none" /\ UNCHANGED <<month, facts, request, twoStep, profiled, claim>>
      BY <1>3 DEF ImportHistory
    <2> DEFINE a == [e \in S |-> 0]
    <2>3. S \in SUBSET Staff /\ \A e \in S : a[e] \in Int
      OBVIOUS
    <2>4. run' = [run EXCEPT ![m] = [status |-> "paid", sheet |-> TRUE, rows |-> Sheet(S, a),
                                     by |-> u, checker |-> NoOfficer]]
      BY <2>1
    <2> HIDE DEF a
    <2> QED BY <1>1, <2>2, <2>3, <2>4
  <1> QED BY <1>2, <1>3
LEMMA PrepareKeeps ==
  ASSUME PayrollInv, NEW u \in Officers, NEW m \in Months, PrepareRun(u, m)
  PROVE  PayrollInv'
  <1>0. PayReady(facts, run, claim) /\ PayRuns(run) /\ Placed(run, claim)
    BY DEF PayrollInv, PayReady
  <1> DEFINE s == "prepared"
             rs == RunMoved(run, m, s)
  <1>1. /\ run[m].status = "none" /\ UNCHANGED <<month, request, twoStep, profiled>>
        /\ Rebuild(u, facts, rs, claim)
    BY DEF PrepareRun, RunMoved
  <1>2. s \in {"none", "prepared", "checked", "approved", "paid"} /\ s # "none" /\ s # "paid"
    OBVIOUS
  <1> HIDE DEF s, rs
  <1>3. PICK r \in PayRun : /\ rs = RunPut(run, m, r)
                            /\ r.status = s /\ r.sheet = run[m].sheet /\ r.rows = run[m].rows
    BY <1>0, <1>2, RunStatus DEF rs
  <1>4. PayRuns(rs) /\ rs[m] = r /\ \A n \in Months \ {m} : rs[n] = run[n]
    BY <1>0, <1>3, RunPutThere
  <1>5. m \notin Calculated(run) /\ Calculated(run) \subseteq Calculated(rs) /\ Calculated(rs) \subseteq Calculated(run) \cup {m}
    BY <1>1, <1>4 DEF Calculated
  <1>6. ASSUME NEW b \in Claims PROVE PlacedBill(rs, claim[b], b)
    <2>1. PlacedBill(run, claim[b], b) /\ claim[b].run \in Months \cup {0}
      BY <1>0 DEF PayReady, Placed, PayClaims, Months
    <2>2. m \notin FixedWith(run, b)
      BY <1>0, <1>1, FixedArePaid
    <2>3. m \notin FixedWith(rs, b)
      <3>1. InRow(rs, m, b) <=> InRow(run, m, b)
        BY <1>3, <1>4 DEF InRow
      <3> QED BY <1>5, <2>2, <3>1 DEF FixedWith
    <2>4. \A n \in Months \ {m} : n \in FixedWith(rs, b) <=> n \in FixedWith(run, b)
      BY <1>4, <1>5 DEF FixedWith, InRow
    <2>5. FixedWith(rs, b) = FixedWith(run, b)
      BY <2>2, <2>3, <2>4 DEF FixedWith
    <2>6. \A n \in Months : run[n].status = "paid" => rs[n].status = "paid"
      BY <1>1, <1>4
    <2> QED BY <1>5, <2>1, <2>5, <2>6 DEF PlacedBill
  <1>7. PayReady(facts, rs, claim)
    BY <1>0, <1>4, <1>6 DEF PayReady, Placed
  <1>8. PayReady(facts', run', claim') /\ PayCurrent(facts', run', claim')
    BY <1>1, <1>7, RebuildKeeps DEF PayrollInv
  <1> QED BY <1>1, <1>8 DEF PayrollInv

\* The bills a run holds are the approved ones it was the first to take.
LEMMA HeldByRun ==
  ASSUME NEW f, NEW rs, NEW cs, PayReady(f, rs, cs), PayCurrent(f, rs, cs), NEW b \in Claims,
         NEW m \in Calculated(rs)
  PROVE  InRow(rs, m, b) <=> Payable(rs, cs[b]) /\ m \in FirstRun(f, rs, cs[b])
  <1>1. rs[m].rows = [e \in OnRun(f, m) |-> SalaryRow(f, rs, cs, e, m)]
    BY DEF PayCurrent, RowsCurrent
  <1>2. InRow(rs, m, b) <=> \E e \in OnRun(f, m) : b \in SalaryRow(f, rs, cs, e, m).bills
    BY <1>1 DEF InRow
  <1>3. \A e : SalaryRow(f, rs, cs, e, m).bills = Taken(f, rs, cs, e, m)
    BY DEF SalaryRow
  <1>4. InRow(rs, m, b) <=> \E e \in OnRun(f, m) : b \in Taken(f, rs, cs, e, m)
    BY <1>2, <1>3
  <1>5. m \in FirstRun(f, rs, cs[b]) => cs[b].who \in OnRun(f, m)
    BY FirstRunIsOne
  <1> QED BY <1>4, <1>5 DEF Taken

LEMMA DisburseKeeps ==
  ASSUME PayrollInv, NEW u \in Officers, NEW m \in Months, DisburseRun(u, m)
  PROVE  PayrollInv' /\ \A n \in Months \ {m} : n \notin Calculated(run) => run'[n] = run[n]
  <1>0. PayReady(facts, run, claim) /\ PayCurrent(facts, run, claim) /\ PayRuns(run)
        /\ Placed(run, claim) /\ PayClaims(claim) /\ PayFacts(facts)
    BY DEF PayrollInv, PayReady
  <1> DEFINE s == "paid"
             rs == RunMoved(run, m, s)
             held == UNION {run[m].rows[e].bills : e \in DOMAIN run[m].rows}
             f == [facts EXCEPT !.staff =
                     [e \in Staff |-> IF e \in DOMAIN run[m].rows
                                        THEN [facts.staff[e] EXCEPT !.advance = @ - run[m].rows[e].advance]
                                        ELSE facts.staff[e]]]
             cs == [b \in Claims |-> IF b \in held THEN [claim[b] EXCEPT !.status = "paid"] ELSE claim[b]]
  <1>1. /\ run[m].status = "approved" /\ UNCHANGED <<month, request, twoStep, profiled>>
        /\ \A b \in held : claim[b].status = "approved" /\ claim[b].run = m
        /\ Rebuild(u, f, rs, cs)
    BY DEF DisburseRun, AfterPayment, RunMoved
  <1>2. s \in {"none", "prepared", "checked", "approved", "paid"} /\ s = "paid"
    OBVIOUS
  <1>3. \A b : b \in held <=> InRow(run, m, b)
    BY DEF InRow
  <1>4. PayFacts(f)
    <2>1. run[m].rows \in UNION {[S -> PayRow] : S \in SUBSET Staff}
      BY <1>0 DEF PayRuns, PayRun
    <2>2. \A e \in DOMAIN run[m].rows : run[m].rows[e].advance \in Int
      BY <2>1 DEF PayRow
    <2>3. ASSUME NEW e \in Staff, NEW a \in Int
          PROVE  [facts.staff[e] EXCEPT !.advance = @ - a] \in
                   [status : {"none", "active", "inactive"}, joined : 0..LastMonth, advance : Int,
   raised : 0..LastMonth]
      <3>1. facts.staff[e] \in [status : {"none", "active", "inactive"}, joined : 0..LastMonth, advance : Int,
   raised : 0..LastMonth]
        BY <1>0 DEF PayFacts
      <3>2. facts.staff[e].advance - a \in Int
        BY <3>1
      <3> QED BY <3>1, <3>2
    <2>4. \A e \in Staff : facts.staff[e] \in
            [status : {"none", "active", "inactive"}, joined : 0..LastMonth, advance : Int,
   raised : 0..LastMonth]
      BY <1>0 DEF PayFacts
    <2> DEFINE st == [e \in Staff |-> IF e \in DOMAIN run[m].rows
                                        THEN [facts.staff[e] EXCEPT !.advance = @ - run[m].rows[e].advance]
                                        ELSE facts.staff[e]]
    <2>5. st \in [Staff -> [status : {"none", "active", "inactive"}, joined : 0..LastMonth, advance : Int,
   raised : 0..LastMonth]]
      BY <2>2, <2>3, <2>4
    <2>6. f = [facts EXCEPT !.staff = st]
      OBVIOUS
    <2> HIDE DEF st, f
    <2> QED BY <1>0, <2>5, <2>6 DEF PayFacts
  <1>5. ASSUME NEW b \in Claims
        PROVE  /\ b \in held => cs[b] = [status |-> "paid", who |-> claim[b].who, month |-> claim[b].month,
                                         run |-> m]
               /\ b \notin held => cs[b] = claim[b]
    <2>1. ASSUME b \in held
          PROVE  [claim[b] EXCEPT !.status = "paid"] =
                   [status |-> "paid", who |-> claim[b].who, month |-> claim[b].month, run |-> m]
      <3>1. PICK st, who, mm, kk : claim[b] = [status |-> st, who |-> who, month |-> mm, run |-> kk]
        BY <1>0 DEF PayClaims
      <3>2. claim[b].run = m
        BY <1>1, <2>1
      <3>3. kk = m
        BY <3>1, <3>2
      <3> QED BY <3>1, <3>3
    <2> QED BY <2>1
  <1>6. cs = [b \in Claims |-> cs[b]]
    OBVIOUS
  <1> HIDE DEF s, rs, held, f, cs
  <1>7. PICK r \in PayRun : /\ rs = RunPut(run, m, r)
                            /\ r.status = s /\ r.sheet = run[m].sheet /\ r.rows = run[m].rows
    BY <1>0, <1>2, RunStatus DEF rs
  <1>8. PayRuns(rs) /\ rs[m] = r /\ \A n \in Months \ {m} : rs[n] = run[n]
    BY <1>0, <1>7, RunPutThere
  <1>9. Calculated(rs) = Calculated(run) \ {m}
    BY <1>2, <1>7, <1>8 DEF Calculated
  <1>10. \A n \in Months : \A b : InRow(rs, n, b) <=> InRow(run, n, b)
    BY <1>7, <1>8 DEF InRow
  <1>11. m # 0
    BY MonthsAreNumbers
  <1>12. ASSUME NEW b \in Claims
         PROVE  /\ PlacedBill(rs, cs[b], b)
                /\ cs[b] \in [status : {"none", "submitted", "checked", "approved", "paid"},
                              who : Staff \cup {NoStaff}, month : 0..LastMonth, run : 0..LastMonth]
    <2>1. PlacedBill(run, claim[b], b) /\ claim[b].run \in Months \cup {0}
      BY <1>0 DEF Placed, PayClaims, Months
    <2>2. claim[b] \in [status : {"none", "submitted", "checked", "approved", "paid"},
                        who : Staff \cup {NoStaff}, month : 0..LastMonth, run : 0..LastMonth]
      BY <1>0 DEF PayClaims
    <2>3. \A n \in Months : run[n].status = "paid" => rs[n].status = "paid"
      BY <1>1, <1>8
    <2>4. \A n \in Months \ {m} : n \in FixedWith(rs, b) <=> n \in FixedWith(run, b)
      BY <1>9, <1>10 DEF FixedWith
    <2>5. m \in FixedWith(rs, b) <=> b \in held
      BY <1>3, <1>9, <1>10 DEF FixedWith
    <2>6. FixedWith(rs, b) \subseteq Months /\ FixedWith(run, b) \subseteq Months
      BY DEF FixedWith
    <2>7. CASE b \in held
      <3>1. cs[b] = [status |-> "paid", who |-> claim[b].who, month |-> claim[b].month, run |-> m]
        BY <1>5, <2>7
      <3>2. cs[b].status = "paid" /\ cs[b].run = m
        BY <3>1
      <3>3. FixedWith(run, b) = {}
        BY <1>1, <2>1, <2>7 DEF PlacedBill
      <3>4. FixedWith(rs, b) = {m}
        BY <2>4, <2>5, <2>6, <2>7, <3>3
      <3>5. rs[m].status = "paid"
        BY <1>2, <1>7, <1>8
      <3>6. PlacedBill(rs, cs[b], b)
        BY <1>11, <3>2, <3>4, <3>5 DEF PlacedBill
      <3>7. m \in 0..LastMonth
        BY PayrollAssumption DEF Months
      <3> QED BY <2>2, <3>1, <3>6, <3>7
    <2>8. CASE b \notin held
      <3>1. cs[b] = claim[b]
        BY <1>5, <2>8
      <3>2. m \notin FixedWith(run, b)
        BY <1>3, <2>8 DEF FixedWith
      <3>3. FixedWith(rs, b) = FixedWith(run, b)
        BY <2>4, <2>5, <2>6, <2>8, <3>2
      <3>4. ASSUME claim[b].status = "approved", claim[b].run # 0 PROVE claim[b].run # m
        <4>1. SUFFICES ASSUME claim[b].run = m PROVE FALSE
          OBVIOUS
        <4>2. m \in Calculated(run)
          BY <2>1, <3>4, <4>1 DEF PlacedBill
        <4>3. Payable(run, claim[b])
          BY <2>1, <3>4, ApprovedIsPayable
        <4>4. Max({0} \cup FirstRun(facts, run, claim[b])) = m
          BY <1>0, <4>1, <4>3 DEF PayCurrent, ClaimsCurrent
        <4>5. m \in FirstRun(facts, run, claim[b])
          BY <1>11, <4>4, RunOfBill
        <4>6. InRow(run, m, b)
          BY <1>0, <4>2, <4>3, <4>5, HeldByRun
        <4> QED BY <1>3, <2>8, <4>6
      <3>5. PlacedBill(rs, claim[b], b)
        BY <1>9, <2>1, <2>3, <3>3, <3>4 DEF PlacedBill
      <3> QED BY <2>2, <3>1, <3>5
    <2> QED BY <2>7, <2>8
  <1>13. PayReady(f, rs, cs)
    BY <1>4, <1>6, <1>8, <1>12 DEF PayReady, Placed, PayClaims
  <1>14. PayReady(facts', run', claim') /\ PayCurrent(facts', run', claim')
    BY <1>1, <1>13, RebuildKeeps DEF PayrollInv
  <1>15. ASSUME NEW n \in Months \ {m}, n \notin Calculated(run) PROVE run'[n] = run[n]
    <2>1. \E g : run' = RunsRebuilt(u, g, rs, cs)
      BY <1>1, PrepareMakes DEF Rebuild
    <2>2. n \notin Calculated(rs)
      BY <1>9, <1>15
    <2> QED BY <1>8, <2>1, <2>2 DEF RunsRebuilt
  <1> QED BY <1>1, <1>14, <1>15 DEF PayrollInv
-----------------------------------------------------------------------------
\* What a step makes of the runs under review.
Covered ==
  \A m \in Months : run[m].status \in {"checked", "approved"} /\ run'[m].rows # run[m].rows
                      => run'[m].status = "prepared"

LEMMA RebuildCovers ==
  ASSUME NEW u \in Officers, NEW f, NEW rs, NEW cs, PayRuns(rs), Rebuild(u, f, rs, cs),
         \A n \in Months : rs[n].rows = run[n].rows
  PROVE  Covered
  <1>1. PICK g : run' = RunsRebuilt(u, g, rs, cs)
    BY PrepareMakes DEF Rebuild
  <1> SUFFICES ASSUME NEW m \in Months PROVE run'[m].rows = run[m].rows \/ run'[m].status = "prepared"
    BY DEF Covered
  <1>2. CASE m \notin Calculated(rs)
    BY <1>1, <1>2 DEF RunsRebuilt
  <1>3. CASE m \in Calculated(rs)
    <2>1. run'[m] = [status |-> "prepared", sheet |-> FALSE,
                     rows |-> [e \in OnRun(g, m) |-> SalaryRow(g, rs, cs, e, m)],
                     by |-> u, checker |-> NoOfficer]
      BY <1>1, <1>3, RunRebuilt
    <2> QED BY <2>1
  <1> QED BY <1>2, <1>3

LEMMA MovedRows ==
  ASSUME NEW rs, PayRuns(rs), NEW m \in Months, NEW s \in {"none", "prepared", "checked", "approved", "paid"}
  PROVE  PayRuns(RunMoved(rs, m, s)) /\ \A n \in Months : RunMoved(rs, m, s)[n].rows = rs[n].rows
  <1>1. PICK r \in PayRun : /\ RunMoved(rs, m, s) = RunPut(rs, m, r)
                            /\ r.status = s /\ r.sheet = rs[m].sheet /\ r.rows = rs[m].rows
    BY RunStatus
  <1> DEFINE new == RunMoved(rs, m, s)
  <1>2. new = RunPut(rs, m, r)
    BY <1>1
  <1> HIDE DEF new
  <1>3. PayRuns(new) /\ new[m] = r /\ \A n \in Months \ {m} : new[n] = rs[n]
    BY <1>2, RunPutThere
  <1>4. \A n \in Months : new[n].rows = rs[n].rows
    BY <1>1, <1>3
  <1> QED BY <1>3, <1>4 DEF new

LEMMA PayCovers ==
  ASSUME PayrollInv, [PayrollNext]_payrollVars
  PROVE  Covered
  <1>0. PayRuns(run)
    BY DEF PayrollInv, PayReady
  <1>1. ASSUME NEW u \in Officers, NEW f, Change(u, f) PROVE Covered
    <2>1. Rebuild(u, f, run, claim)
      BY <1>1 DEF Change
    <2> QED BY <1>0, <2>1, RebuildCovers
  <1>2. ASSUME run' = run PROVE Covered
    BY <1>2 DEF Covered
  <1>3. ASSUME NEW u \in Officers, NEW e \in Staff, NEW m \in Months,
               \/ ImportOpening(u, e) \/ EmployeeStatus(u, e) \/ Punch(u, e)
               \/ ImportEmployee(u, e, m) \/ ChangeJoining(u, e, m) \/ MarkAttendance(u, e, m)
               \/ DecideAttendance(u, e, m) \/ CreateEmployee(u, e, m) \/ Promote(u, e, m)
        PROVE  Covered
    <2>2. CASE DecideAttendance(u, e, m)
      <3>1. Rebuild(u, [facts EXCEPT !.day[e][m] = "present"], run, claim) \/ run' = run
        BY <2>2 DEF DecideAttendance
      <3> QED BY <1>0, <1>2, <3>1, RebuildCovers
    <2>3. CASE ImportOpening(u, e)
      BY <1>1, <2>3 DEF ImportOpening
    <2>4. CASE EmployeeStatus(u, e)
      BY <1>1, <2>4 DEF EmployeeStatus
    <2>5. CASE Punch(u, e)
      BY <1>1, <2>5 DEF Punch
    <2>6. CASE ImportEmployee(u, e, m)
      BY <1>1, <2>6 DEF ImportEmployee
    <2>7. CASE ChangeJoining(u, e, m)
      BY <1>1, <2>7 DEF ChangeJoining
    <2>8. CASE MarkAttendance(u, e, m)
      BY <1>1, <2>8 DEF MarkAttendance
    <2>9. CASE CreateEmployee(u, e, m)
      <3>1. \E f : Rebuild(u, f, run, claim)
        BY <2>9 DEF CreateEmployee
      <3> QED BY <1>0, <3>1, RebuildCovers
    <2>10. CASE Promote(u, e, m)
      BY <1>1, <2>10 DEF Promote
    <2> QED BY <2>9, <2>10, <1>3, <2>2, <2>3, <2>4, <2>5, <2>6, <2>7, <2>8
  <1>4. ASSUME NEW u \in Officers, NEW l \in Leaves, DecideLeave(u, l) PROVE Covered
    BY <1>1, <1>4 DEF DecideLeave
  <1>5. ASSUME NEW u \in Officers, NEW b \in Claims, DecideBill(u, b) PROVE Covered
    <2>1. \E cs : Rebuild(u, facts, run, cs)
      BY <1>5 DEF DecideBill
    <2> QED BY <1>0, <2>1, RebuildCovers
  <1>6. ASSUME NEW u \in Officers, NEW m \in Months, PrepareRun(u, m) PROVE Covered
    <2> DEFINE s == "prepared"
    <2>1. Rebuild(u, facts, RunMoved(run, m, s), claim)
      BY <1>6 DEF PrepareRun, RunMoved
    <2>2. s \in {"none", "prepared", "checked", "approved", "paid"}
      OBVIOUS
    <2> HIDE DEF s
    <2>3. PayRuns(RunMoved(run, m, s)) /\ \A n \in Months : RunMoved(run, m, s)[n].rows = run[n].rows
      BY <1>0, <2>2, MovedRows
    <2> QED BY <2>1, <2>3, RebuildCovers
  <1>7. ASSUME NEW u \in Officers, NEW m \in Months, DisburseRun(u, m) PROVE Covered
    <2> DEFINE s == "paid"
    <2>1. \E f, cs : Rebuild(u, f, RunMoved(run, m, s), cs)
      BY <1>7 DEF DisburseRun, AfterPayment, RunMoved
    <2>2. s \in {"none", "prepared", "checked", "approved", "paid"}
      OBVIOUS
    <2> HIDE DEF s
    <2>3. PayRuns(RunMoved(run, m, s)) /\ \A n \in Months : RunMoved(run, m, s)[n].rows = run[n].rows
      BY <1>0, <2>2, MovedRows
    <2> QED BY <2>1, <2>3, RebuildCovers
  <1>8. ASSUME NEW u \in Officers, NEW m \in Months, CheckRun(u, m) \/ ApproveRun(u, m) PROVE Covered
    BY <1>8, ReviewKeeps DEF Covered
  <1>9. ASSUME NEW u \in Officers, NEW m \in Months, ImportRun(u, m) \/ ImportHistory(u, m) PROVE Covered
    BY <1>9, ImportKeeps DEF Covered
  <1>10. ASSUME \/ NextMonth \/ \E b \in Claims : DisburseBill(b) \/ \E e \in Staff, m \in Months : SubmitBill(b, e, m)
                \/ \E e \in Staff : RequestAttendance(e) \/ UpdateProfile(e) \/ \E l \in Leaves, m \in Months : SubmitLeave(l, e, m)
                \/ UNCHANGED payrollVars
         PROVE  Covered
    BY <1>2, <1>10 DEF NextMonth, DisburseBill, SubmitBill, RequestAttendance, UpdateProfile, SubmitLeave, payrollVars
  <1>11. ASSUME NEW u \in Officers, SaveSettings(u) PROVE Covered
    <2>1. Rebuild(u, facts, run, claim)
      BY <1>11 DEF SaveSettings
    <2> QED BY <1>0, <2>1, RebuildCovers
  <1>12. ASSUME NEW u \in Officers, NEW m \in Months, ChangeHolidays(u, m) PROVE Covered
    BY <1>1, <1>12 DEF ChangeHolidays
  <1> QED BY <1>11, <1>12, <1>3, <1>4, <1>5, <1>6, <1>7, <1>8, <1>9, <1>10, MonthsAreNumbers DEF PayrollNext

LEMMA PayStep ==
  ASSUME PayrollInv, [PayrollNext]_payrollVars
  PROVE  PayrollInv'
  <1>1. ASSUME NEW u \in Officers, NEW e \in Staff, NEW m \in Months,
               \/ ImportOpening(u, e) \/ EmployeeStatus(u, e)
               \/ ImportEmployee(u, e, m) \/ ChangeJoining(u, e, m)
               \/ CreateEmployee(u, e, m) \/ Promote(u, e, m)
        PROVE  PayrollInv'
    BY <1>1, StaffChanges
  <1>2. ASSUME NEW u \in Officers, NEW e \in Staff, NEW m \in Months,
               \/ Punch(u, e) \/ MarkAttendance(u, e, m) \/ DecideAttendance(u, e, m)
        PROVE  PayrollInv'
    BY <1>2, DayChanges
  <1>3. ASSUME NEW u \in Officers, NEW m \in Months, ChangeHolidays(u, m) \/ SaveSettings(u)
        PROVE  PayrollInv'
    <2>1. CASE ChangeHolidays(u, m)
      <3>1. Change(u, [facts EXCEPT !.off = IF m \in @ THEN @ \ {m} ELSE @ \cup {m}])
        BY <2>1 DEF ChangeHolidays
      <3>2. PayFacts([facts EXCEPT !.off = IF m \in @ THEN @ \ {m} ELSE @ \cup {m}])
        BY DEF PayFacts, PayrollInv, PayReady
      <3> QED BY <3>1, <3>2, ChangeKeeps
    <2>2. CASE SaveSettings(u)
      <3>1. twoStep' = ~twoStep /\ Rebuild(u, facts, run, claim) /\ UNCHANGED <<month, request, profiled>>
        BY <2>2 DEF SaveSettings
      <3>2. PayReady(facts', run', claim') /\ PayCurrent(facts', run', claim')
        BY <3>1, RebuildKeeps DEF PayrollInv
      <3> QED BY <3>1, <3>2 DEF PayrollInv
    <2> QED BY <1>3, <2>1, <2>2
  <1>4. ASSUME NEW u \in Officers, NEW l \in Leaves, DecideLeave(u, l) PROVE PayrollInv'
    BY <1>4, LeaveChanges
  <1>5. ASSUME NEW u \in Officers, NEW b \in Claims, DecideBill(u, b) PROVE PayrollInv'
    BY <1>5, BillChanges
  <1>6. ASSUME NEW u \in Officers, NEW m \in Months,
               \/ PrepareRun(u, m) \/ CheckRun(u, m) \/ ApproveRun(u, m)
               \/ ImportRun(u, m) \/ ImportHistory(u, m) \/ DisburseRun(u, m)
        PROVE  PayrollInv'
    BY <1>6, PrepareKeeps, ReviewKeeps, ImportKeeps, DisburseKeeps
  <1>7. ASSUME NEW b \in Claims, DisburseBill(b) \/ \E e \in Staff, m \in Months : SubmitBill(b, e, m)
        PROVE  PayrollInv'
    BY <1>7, BillChanges
  <1>8. ASSUME NEW e \in Staff, NEW l \in Leaves, NEW m \in Months, SubmitLeave(l, e, m) PROVE PayrollInv'
    BY <1>8, LeaveChanges
  <1>9. ASSUME NEW e \in Staff, RequestAttendance(e) PROVE PayrollInv'
    <2>1. request' = [request EXCEPT ![e][month] = "pending"] /\ UNCHANGED <<month, facts, twoStep, profiled, claim, run>>
      BY <1>9 DEF RequestAttendance
    <2>2. request' \in [Staff -> [Months -> {"none", "pending", "approved"}]]
      BY <2>1 DEF PayrollInv
    <2> QED BY <2>1, <2>2 DEF PayrollInv
  <1>12. ASSUME NEW e \in Staff, UpdateProfile(e) PROVE PayrollInv'
    BY <1>12 DEF UpdateProfile, PayrollInv
  <1>10. CASE NextMonth
    <2>1. month' \in Months
      BY <1>10, PayrollAssumption DEF NextMonth, PayrollInv, Months
    <2> QED BY <1>10, <2>1 DEF NextMonth, PayrollInv
  <1>11. CASE UNCHANGED payrollVars
    BY <1>11 DEF payrollVars, PayrollInv
  <1> QED BY <1>1, <1>2, <1>3, <1>4, <1>5, <1>6, <1>7, <1>8, <1>9, <1>10, <1>11, <1>12, MonthsAreNumbers DEF PayrollNext

LEMMA PayFollows == PayrollInv => PayrollTypeOK /\ BillsInOneRun /\ UnpaidRunsCurrent
  <1> SUFFICES ASSUME PayrollInv PROVE PayrollTypeOK /\ BillsInOneRun /\ UnpaidRunsCurrent
    OBVIOUS
  <1>0. PayReady(facts, run, claim) /\ PayCurrent(facts, run, claim) /\ PayRuns(run)
        /\ Placed(run, claim) /\ PayClaims(claim) /\ PayFacts(facts)
    BY DEF PayrollInv, PayReady
  <1>1. UnpaidRunsCurrent
    BY <1>0 DEF UnpaidRunsCurrent, PayCurrent, RowsCurrent
  <1>2. PayrollTypeOK
    <2>1. \A e \in Staff : /\ facts.staff[e].status \in {"none", "active", "inactive"}
                           /\ facts.staff[e].joined \in 0..LastMonth /\ facts.staff[e].advance \in Int
                           /\ facts.staff[e].raised \in 0..LastMonth
                           /\ facts.day[e] \in [Months -> {"none", "present", "absent"}]
                           /\ request[e] \in [Months -> {"none", "pending", "approved"}]
      BY <1>0 DEF PayFacts, PayrollInv
    <2>2. facts.off \subseteq Months /\ month \in Months /\ profiled \subseteq Staff
      BY <1>0 DEF PayFacts, PayrollInv
    <2>3. \A b \in Claims : /\ claim[b].status \in {"none", "submitted", "checked", "approved", "paid"}
                            /\ claim[b].run \in 0..LastMonth
      BY <1>0 DEF PayClaims
    <2>4. \A m \in Months : /\ run[m].status \in {"none", "prepared", "checked", "approved", "paid"}
                            /\ run[m].by \in Officers \cup {NoOfficer} /\ run[m].checker \in Officers \cup {NoOfficer}
      BY <1>0 DEF PayRuns, PayRun
    <2> QED BY <2>1, <2>2, <2>3, <2>4 DEF PayrollTypeOK
  <1>3. ASSUME NEW b \in Claims
        PROVE  /\ claim[b].run = 0 => RunsWith(b) = {}
               /\ claim[b].run # 0 => RunsWith(b) = {claim[b].run} /\ (claim[b].status = "paid" <=> IsPaid(claim[b].run))
    <2>1. PlacedBill(run, claim[b], b)
      BY <1>0 DEF Placed
    <2>2. Payable(run, claim[b]) <=> claim[b].status = "approved"
      BY <2>1, ApprovedIsPayable
    <2>3. RunsWith(b) = FixedWith(run, b) \cup {m \in Calculated(run) : InRow(run, m, b)}
      BY DEF RunsWith, FixedWith, InRow, Calculated
    <2>4. \A m \in Calculated(run) : InRow(run, m, b) <=>
            Payable(run, claim[b]) /\ m \in FirstRun(facts, run, claim[b])
      BY <1>0, HeldByRun
    <2>5. FirstRun(facts, run, claim[b]) \subseteq Calculated(run)
      BY FirstRunIsOne
    <2>6. CASE claim[b].status = "approved"
      <3>1. RunsWith(b) = FirstRun(facts, run, claim[b])
        BY <2>1, <2>2, <2>3, <2>4, <2>5, <2>6 DEF PlacedBill
      <3>2. claim[b].run = Max({0} \cup FirstRun(facts, run, claim[b]))
        BY <1>0, <2>2, <2>6 DEF PayCurrent, ClaimsCurrent
      <3>3. \/ FirstRun(facts, run, claim[b]) = {} /\ claim[b].run = 0
            \/ FirstRun(facts, run, claim[b]) = {claim[b].run} /\ claim[b].run \in Calculated(run)
        BY <3>2, RunOfBill
      <3>4. claim[b].run \in Calculated(run) => claim[b].run # 0 /\ ~IsPaid(claim[b].run)
        BY MonthsAreNumbers DEF Calculated, IsPaid
      <3> QED BY <2>6, <3>1, <3>3, <3>4
    <2>7. CASE claim[b].status # "approved"
      <3>1. RunsWith(b) = FixedWith(run, b)
        BY <2>2, <2>3, <2>4, <2>7
      <3> QED BY <2>1, <2>7, <3>1 DEF PlacedBill, IsPaid
    <2> QED BY <2>6, <2>7
  <1> QED BY <1>1, <1>2, <1>3 DEF BillsInOneRun

\* What is paid to an employee was seen by both reviewers, no bill is paid twice
\* and no two runs recover the same advance, for any staff, months and bills
\* (rebuild and disburseRun, payroll).
THEOREM PayrollIsSound == PayrollSpec => ([]PayrollTypeOK /\ PayrollHolds)
  <1>1. PayrollInit => PayrollInv
    BY PayStart
  <1>2. PayrollInv /\ [PayrollNext]_payrollVars => PayrollInv'
    BY PayStep
  <1>3. PayrollInv /\ [PayrollNext]_payrollVars =>
          [\A m \in Months : run[m].status \in {"checked", "approved"} /\ run'[m].rows # run[m].rows
                               => run'[m].status = "prepared"]_payrollVars
    BY PayCovers DEF Covered
  <1>4. PayrollInv => PayrollTypeOK /\ BillsInOneRun /\ UnpaidRunsCurrent
    BY PayFollows
  <1> QED BY <1>1, <1>2, <1>3, <1>4, PTL DEF PayrollSpec, PayrollHolds, ReviewCoversRows
=============================================================================
