---------------------------- MODULE OpeningImport ----------------------------
(***************************************************************************)
(* The import of an existing fund's opening history                        *)
(* (fund-import.service.ts): reviewed first, then committed under the key  *)
(* of the review, at most once, although a client repeats its request and  *)
(* several people import at a time.                                        *)
(*                                                                         *)
(* The rows of a file are one value.  The saved members and the project,   *)
(* which the review key is computed from, are a version number.            *)
(***************************************************************************)
EXTENDS Naturals, FiniteSets

CONSTANTS
  Sendings,  \* calls of POST: <<request id, rows, number of the call>>
  MaxRosterEdits,  \* bound: changes of members and project settings
  NoRows

ASSUME ImportAssumption == MaxRosterEdits \in Nat /\ \A s \in Sendings : s[2] # NoRows

RequestIds == {s[1] : s \in Sendings}

VARIABLES
  roll,      \* version of members and project
  opened,    \* a schedule, due or deposit exists
  imported,  \* the activity of each request: the rows it saved
  sending,   \* where each call is
  applied    \* history: how often opening dues were written
importVars == <<roll, opened, imported, sending, applied>>

Stages == {"new", "reviewed", "unknown", "begun", "saved", "replayed", "refused"}
Is(s, stage) == sending[s].at = stage
Goes(s, stage) == sending' = [sending EXCEPT ![s].at = stage]

ImportInit ==
  /\ roll = 0 /\ opened = FALSE /\ applied = 0
  /\ imported = [q \in RequestIds |-> NoRows]
  /\ sending = [s \in Sendings |-> [at |-> "new", token |-> 0, missed |-> FALSE]]

\* POST /preview: plan() refuses a fund with dues, schedules or deposits.
PreviewImport(s) ==
  /\ Is(s, "new") /\ ~opened
  /\ sending' = [sending EXCEPT ![s].at = "reviewed", ![s].token = roll]
  /\ UNCHANGED <<roll, opened, imported, applied>>

\* A repeated request is answered with what it saved, if its rows are the same.
SameReplay(s) == imported[s[1]] = s[2]
Replayed(s) ==
  IF SameReplay(s) THEN "replayed" ELSE "refused"

\* replay(): before the transaction.
LookForReplay(s) ==
  /\ Is(s, "reviewed")
  /\ Goes(s, IF imported[s[1]] = NoRows THEN "unknown" ELSE Replayed(s))
  /\ UNCHANGED <<roll, opened, imported, applied>>

\* plan() again, on the snapshot of the serializable transaction.
BeginImport(s) ==
  /\ Is(s, "unknown")
  /\ IF opened \/ sending[s].token # roll THEN Goes(s, "refused")
     ELSE sending' = [sending EXCEPT ![s].at = "begun", ![s].missed = FALSE]
  /\ UNCHANGED <<roll, opened, imported, applied>>

\* Fault: the transaction is not serializable.
NoConflict(s) == TRUE
\* No other import committed what this one's snapshot misses.
Serializes(s) == ~sending[s].missed

\* The activity, the schedules, members, dues and advances of the rows.
CommitOpening(s) ==
  /\ Is(s, "begun")
  /\ IF imported[s[1]] # NoRows THEN Goes(s, Replayed(s)) /\ UNCHANGED <<roll, opened, imported, applied>>
     ELSE IF ~Serializes(s) THEN Goes(s, "refused") /\ UNCHANGED <<roll, opened, imported, applied>>
     ELSE /\ imported' = [imported EXCEPT ![s[1]] = s[2]]
          /\ opened' = TRUE /\ roll' = roll + 1 /\ applied' = applied + 1
          /\ sending' = [c \in Sendings |-> IF c = s THEN [sending[c] EXCEPT !.at = "saved"]
                                            ELSE [sending[c] EXCEPT !.missed = @ \/ Is(c, "begun")]]

\* A connection fails before the commit: the call ends, the client may repeat it.
AbortImport(s) ==
  /\ Is(s, "begun") \/ Is(s, "unknown")
  /\ Goes(s, "refused")
  /\ UNCHANGED <<roll, opened, imported, applied>>

\* A member or the project is edited, and its updatedAt moves; the first
\* schedule is made.
EditRoll ==
  /\ roll < MaxRosterEdits /\ roll' = roll + 1
  /\ UNCHANGED <<opened, imported, sending, applied>>
OpenSchedule ==
  /\ ~opened /\ opened' = TRUE
  /\ UNCHANGED <<roll, imported, sending, applied>>

ImportNext ==
  \/ \E s \in Sendings : \/ PreviewImport(s) \/ LookForReplay(s) \/ BeginImport(s)
                         \/ CommitOpening(s) \/ AbortImport(s)
  \/ EditRoll \/ OpenSchedule

ImportSpec == ImportInit /\ [][ImportNext]_importVars

-----------------------------------------------------------------------------
ImportTypeOK ==
  /\ roll \in 0..(MaxRosterEdits + 1) /\ opened \in BOOLEAN /\ applied \in Nat
  /\ imported \in [RequestIds -> {s[2] : s \in Sendings} \cup {NoRows}]
  /\ \A s \in Sendings : sending[s] \in [at : Stages, token : 0..(MaxRosterEdits + 1), missed : BOOLEAN]

\* Opening history is written once, whoever imports and however often a call
\* is repeated, and every call that succeeds reports rows that were written.
OpeningImportedOnce ==
  /\ applied <= 1
  /\ \A s \in Sendings : Is(s, "saved") \/ Is(s, "replayed") => imported[s[1]] = s[2]
=============================================================================
