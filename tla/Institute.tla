------------------------------ MODULE Institute ------------------------------
(***************************************************************************)
(* An institute's fees and examination results (institute.routes.ts).      *)
(* Every write is one Serializable transaction with an idempotency key     *)
(* (mutate) and is one step; a key that comes again gets the first answer  *)
(* and changes nothing.  What a client has read before it writes, and the  *)
(* revision it then sends, are kept per client: a device of a teacher      *)
(* holds a copy of one sheet of marks, an office reviews an examination    *)
(* sheet by sheet.  One examination of one group is modelled; fees fall    *)
(* due by term, each of the one plan.  No code ends a pupil's enrolment or *)
(* waives a fee.                                                           *)
(***************************************************************************)
EXTENDS Integers, FiniteSets, FiniteSetsExt, Sequences

CONSTANTS
  Pupils, Terms, FeePayments, FeeSums,  \* Terms by due date, FeePayments by key
  Fee,                                  \* what a term costs
  TrxIds,                               \* transaction numbers, NoTrx for cash
  NoTrx,
  Subjects, Teachers, NoTeacher,
  Devices, TeacherOf,                   \* a teacher may use several devices
  Offices,
  Scores, NoScore,                      \* complete marks of one pupil in a subject
  MaxSheetRevision, MaxVersion          \* bounds

VARIABLES
  enrolled,    \* the pupils of the group
  fee,         \* invoices, by pupil and term
  feePayment,  \* payments, by idempotency key
  feeCash,     \* balance of the receiving account
  sheet,       \* mark sheets, by subject
  examRevision,
  copy,        \* what a device has read of a sheet
  review,      \* what an office has read of the examination
  issued,      \* publications, in order of their versions
  card         \* the version a pupil's report card shows

feeVars == <<fee, feePayment, feeCash>>
resultVars == <<sheet, examRevision, copy, review, issued, card>>
instituteVars == <<enrolled, feeVars, resultVars>>

ASSUME InstituteAssumption ==
  /\ Terms \subseteq Nat /\ IsFiniteSet(Terms) /\ IsFiniteSet(Pupils) /\ IsFiniteSet(FeePayments)
  /\ Fee \in Nat \ {0} /\ FeeSums \subseteq Nat \ {0}
  /\ TeacherOf \in [Devices -> Teachers] /\ NoTeacher \notin Teachers
  /\ NoScore \notin Scores

NoRow == [status |-> "none"]
Invoices == {NoRow} \cup [amount : {Fee}, paid : 0 .. Fee, status : {"open", "partial", "paid"}]
PaymentRows == {NoRow} \cup
  [pupil : Pupils, amount : FeeSums, trx : TrxIds \cup {NoTrx}, advance : Nat,
   status : {"submitted", "verified", "rejected"}]

Marks == [Pupils -> Scores \cup {NoScore}]
NoMarks == [s \in Pupils |-> NoScore]
Sheets == [status : {"draft", "submitted", "returned"}, revision : Nat, marks : Marks,
           author : Teachers \cup {NoTeacher}]
NotRead == [revision |-> -1]
Seen == {NotRead} \cup [revision : Nat, marks : Marks]
Copies == {NotRead} \cup [subject : Subjects, revision : Nat, marks : Marks]
Reviews == {NotRead} \cup [revision : Nat, sheets : [Subjects -> Seen]]

InstituteTypeOK ==
  /\ enrolled \subseteq Pupils
  /\ fee \in [Pupils -> [Terms -> Invoices]]
  /\ feePayment \in [FeePayments -> PaymentRows]
  /\ feeCash \in Nat
  /\ sheet \in [Subjects -> Sheets]
  /\ examRevision \in Nat
  /\ copy \in [Devices -> Copies]
  /\ review \in [Offices -> Reviews]
  /\ DOMAIN issued \subseteq Nat
  /\ card \in [Pupils -> Nat]

InstituteInit ==
  /\ enrolled = {} /\ feeCash = 0
  /\ fee = [s \in Pupils |-> [t \in Terms |-> NoRow]]
  /\ feePayment = [p \in FeePayments |-> NoRow]
  /\ sheet = [u \in Subjects |->
               [status |-> "draft", revision |-> 0, marks |-> NoMarks, author |-> NoTeacher]]
  /\ examRevision = 0
  /\ copy = [d \in Devices |-> NotRead]
  /\ review = [o \in Offices |-> NotRead]
  /\ issued = <<>>
  /\ card = [s \in Pupils |-> 0]

\* Importing a list of students; one that is there is updated in place.
EnrolPupil(s) ==
  /\ s \notin enrolled /\ enrolled' = enrolled \cup {s}
  /\ UNCHANGED <<feeVars, resultVars>>

-----------------------------------------------------------------------------
(* Fees. *)

Owed(i) == IF i.status \in {"open", "partial"} THEN i.amount - i.paid ELSE 0
FeeTotal(f, S) == MapThenSumSet(LAMBDA x : f[x], S)
PupilOwes(s, S) == FeeTotal([t \in S |-> Owed(fee[s][t])], S)

\* Whoever has the invoice of a term already is passed over.
GenerateFees(t) ==
  /\ \E s \in enrolled : fee[s][t] = NoRow
  /\ fee' = [s \in Pupils |->
       IF s \in enrolled /\ fee[s][t] = NoRow
         THEN [fee[s] EXCEPT ![t] = [amount |-> Fee, paid |-> 0, status |-> "open"]]
         ELSE fee[s]]
  /\ UNCHANGED <<enrolled, feePayment, feeCash, resultVars>>

\* A transaction number is used once, whatever became of the payment.
SubmitFeePayment(p, s, n, x) ==
  /\ feePayment[p] = NoRow /\ s \in enrolled
  /\ x # NoTrx => \A q \in FeePayments : feePayment[q] # NoRow => feePayment[q].trx # x
  /\ feePayment' = [feePayment EXCEPT
       ![p] = [pupil |-> s, amount |-> n, trx |-> x, advance |-> 0, status |-> "submitted"]]
  /\ UNCHANGED <<enrolled, fee, feeCash, resultVars>>

\* The payment goes to the pupil's open invoices, the oldest first, whatever
\* invoices it named; what is left is an advance.
Taken(s, t, n) ==
  LET left == n - PupilOwes(s, {e \in Terms : e < t})
  IN IF left <= 0 THEN 0 ELSE Min({left, Owed(fee[s][t])})
PaidInto(i, n) ==
  IF n = 0 THEN i
  ELSE [i EXCEPT !.paid = @ + n, !.status = IF i.paid + n = i.amount THEN "paid" ELSE "partial"]

\* A verified payment that is verified again only gets its receipt again.  The
\* revision a clerk sends is that of a payment not yet decided, because a
\* decision is the only write: it says no more than the status.
VerifyFeePayment(p) ==
  LET row == feePayment[p]
      taken == [t \in Terms |-> Taken(row.pupil, t, row.amount)]
  IN /\ row.status = "submitted"
     /\ fee' = [fee EXCEPT ![row.pupil] = [t \in Terms |-> PaidInto(@[t], taken[t])]]
     /\ feeCash' = feeCash + row.amount
     /\ feePayment' = [feePayment EXCEPT
          ![p].status = "verified",
          ![p].advance = row.amount - FeeTotal(taken, Terms)]
     /\ UNCHANGED <<enrolled, resultVars>>

RejectFeePayment(p) ==
  /\ feePayment[p].status = "submitted"
  /\ feePayment' = [feePayment EXCEPT ![p].status = "rejected"]
  /\ UNCHANGED <<enrolled, fee, feeCash, resultVars>>

-----------------------------------------------------------------------------
(* Marks.  A sheet belongs to the teacher who saved it first. *)

Mine(d, u) == sheet[u].author \in {NoTeacher, TeacherOf[d]}
AsRead(d, u) == copy[d] # NotRead /\ copy[d].subject = u /\ copy[d].revision = sheet[u].revision

OpenSheet(d, u) ==
  /\ Mine(d, u)
  /\ copy' = [copy EXCEPT
       ![d] = [subject |-> u, revision |-> sheet[u].revision, marks |-> sheet[u].marks]]
  /\ UNCHANGED <<enrolled, feeVars, sheet, examRevision, review, issued, card>>

\* The marks sent replace all that the sheet holds.
Saved(d, u, m) == [sheet[u] EXCEPT !.marks = m, !.revision = @ + 1, !.author = TeacherOf[d]]

SaveMarks(d, u, m) ==
  /\ Mine(d, u) /\ AsRead(d, u) /\ sheet[u].status # "submitted"
  /\ \A s \in Pupils \ enrolled : m[s] = NoScore
  /\ sheet[u].revision < MaxSheetRevision
  /\ sheet' = [sheet EXCEPT ![u] = Saved(d, u, m)]
  /\ copy' = [copy EXCEPT ![d].revision = @ + 1, ![d].marks = m]
  /\ UNCHANGED <<enrolled, feeVars, examRevision, review, issued, card>>

MarksComplete(u) == \A s \in enrolled : sheet[u].marks[s] # NoScore

\* Fault: a sheet that is handed in again leaves the examination as it was.
ExamUntouched == UNCHANGED examRevision
\* Handing in marks makes every review of the examination stale.
ExamTouched == examRevision' = examRevision + 1

SubmitSheet(d, u) ==
  /\ Mine(d, u) /\ AsRead(d, u) /\ sheet[u].status # "submitted" /\ MarksComplete(u)
  /\ sheet[u].revision < MaxSheetRevision
  /\ sheet' = [sheet EXCEPT ![u].status = "submitted", ![u].revision = @ + 1]
  /\ ExamTouched
  /\ copy' = [copy EXCEPT ![d].revision = @ + 1]
  /\ UNCHANGED <<enrolled, feeVars, review, issued, card>>

-----------------------------------------------------------------------------
(* Results.  An office lists the examination with its revision, then opens *)
(* sheets; it sees only those handed in.                                   *)

StartReview(o) ==
  /\ review' = [review EXCEPT
       ![o] = [revision |-> examRevision, sheets |-> [u \in Subjects |-> NotRead]]]
  /\ UNCHANGED <<enrolled, feeVars, sheet, examRevision, copy, issued, card>>

ReviewSheet(o, u) ==
  /\ review[o] # NotRead /\ sheet[u].status = "submitted"
  /\ review' = [review EXCEPT
       ![o].sheets[u] = [revision |-> sheet[u].revision, marks |-> sheet[u].marks]]
  /\ UNCHANGED <<enrolled, feeVars, sheet, examRevision, copy, issued, card>>

\* Only the revision is tested; the sheet need not have been published.
ReturnSheet(o, u) ==
  /\ review[o] # NotRead /\ review[o].sheets[u] # NotRead
  /\ review[o].sheets[u].revision = sheet[u].revision
  /\ sheet[u].revision < MaxSheetRevision
  /\ sheet' = [sheet EXCEPT ![u].status = "returned", ![u].revision = @ + 1]
  /\ UNCHANGED <<enrolled, feeVars, examRevision, copy, review, issued, card>>

AllSubmitted == \A u \in Subjects : sheet[u].status = "submitted"
Results == [s \in enrolled |-> [u \in Subjects |-> sheet[u].marks[s]]]

\* The first version is published, later ones are corrections with a reason;
\* both demand the revision the office listed, and the marks of every pupil,
\* those who came after the sheets were handed in included.
PublishResults(o) ==
  /\ review[o] # NotRead /\ review[o].revision = examRevision
  /\ AllSubmitted /\ \A u \in Subjects : MarksComplete(u)
  /\ Len(issued) < MaxVersion
  /\ issued' = Append(issued, Results)
  /\ card' = [s \in Pupils |-> IF s \in enrolled THEN Len(issued) + 1 ELSE card[s]]
  /\ ExamTouched
  /\ review' = [review EXCEPT ![o] = NotRead]
  /\ UNCHANGED <<enrolled, feeVars, sheet, copy>>

FeesNext ==
  \/ \E t \in Terms : GenerateFees(t)
  \/ \E p \in FeePayments, s \in Pupils, n \in FeeSums, x \in TrxIds \cup {NoTrx} :
       SubmitFeePayment(p, s, n, x)
  \/ \E p \in FeePayments : VerifyFeePayment(p) \/ RejectFeePayment(p)

ResultsNext ==
  \/ \E d \in Devices, u \in Subjects :
       \/ OpenSheet(d, u)
       \/ \E m \in Marks : SaveMarks(d, u, m)
       \/ SubmitSheet(d, u)
  \/ \E o \in Offices :
       \/ StartReview(o) \/ PublishResults(o)
       \/ \E u \in Subjects : ReviewSheet(o, u) \/ ReturnSheet(o, u)

InstituteNext == (\E s \in Pupils : EnrolPupil(s)) \/ FeesNext \/ ResultsNext
InstituteSpec == InstituteInit /\ [][InstituteNext]_instituteVars

-----------------------------------------------------------------------------

Verified(s) == {p \in FeePayments : feePayment[p].status = "verified" /\ feePayment[p].pupil = s}

\* Every sum a pupil's verified payments brought is on an invoice or an
\* advance, no invoice holds more than it asks, its status says what it still
\* owes, and the account received the payments verified and no others.
FeesAgree ==
  /\ \A s \in Pupils :
       LET billed == {t \in Terms : fee[s][t] # NoRow}
       IN /\ FeeTotal([t \in billed |-> fee[s][t].paid], billed)
               = FeeTotal([p \in Verified(s) |-> feePayment[p].amount - feePayment[p].advance], Verified(s))
          /\ \A t \in billed :
               fee[s][t].status = (IF fee[s][t].paid = 0 THEN "open"
                                   ELSE IF fee[s][t].paid = Fee THEN "paid" ELSE "partial")
  /\ LET verified == UNION {Verified(s) : s \in Pupils}
     IN feeCash = FeeTotal([p \in verified |-> feePayment[p].amount], verified)

\* A device whose save or submission would be accepted has read the marks it
\* replaces or hands in: no marks are overwritten that nobody saw.
MarksNotLost ==
  \A d \in Devices, u \in Subjects : AsRead(d, u) => copy[d].marks = sheet[u].marks

\* An office that may publish publishes each sheet it opened as it saw it,
\* although sheets are returned, changed and handed in again meanwhile.
PublishedAsSeen ==
  \A o \in Offices :
    review[o] # NotRead /\ review[o].revision = examRevision /\ AllSubmitted =>
      \A u \in Subjects : review[o].sheets[u] # NotRead => review[o].sheets[u].marks = sheet[u].marks

\* A report card shows the latest publication that has the pupil.
CardsCurrent ==
  \A s \in Pupils :
    LET with == {v \in DOMAIN issued : s \in DOMAIN issued[v]}
    IN card[s] = IF with = {} THEN 0 ELSE Max(with)

\* Fees and results, as the institute's offices rely on them.
InstituteHolds == FeesAgree /\ MarksNotLost /\ PublishedAsSeen /\ CardsCurrent
=============================================================================
