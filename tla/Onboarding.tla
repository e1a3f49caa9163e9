----------------------------- MODULE Onboarding -----------------------------
(***************************************************************************)
(* The set-up of a new organization (onboarding.routes.ts, core/onboarding *)
(* onboarding.service.ts): four steps and an overall status, kept in one   *)
(* row.  Every handler reads the row first and later writes its own step   *)
(* and the status it computes from what it read of the others; browser     *)
(* windows of the owners work at the same time.                            *)
(*                                                                         *)
(* Shareholders are the number of shares assigned to active members.       *)
(***************************************************************************)
EXTENDS Naturals

CONSTANTS
  Windows,     \* requests in progress at the same time
  AccountNames,
  Targets,     \* values of the project's total shares
  MaxAssigned  \* bound: shares of active members

ASSUME OnboardingAssumption == Targets \subseteq Nat \ {0} /\ MaxAssigned \in Nat /\ Targets # {}

VARIABLES
  step, overall, \* the row of onboarding_progress
  flow,          \* who reviews, and whether an accountant is named in the row
  accountant,    \* somebody was given the accountant's role
  accountNames,
  target, assigned,
  setup,         \* what each window's request read, and what it asks for
  everSettled    \* history: steps that were settled at some time
onboardingVars == <<step, overall, flow, accountant, accountNames, target, assigned, setup, everSettled>>

Steps == {"organization", "accounting", "accounts", "shareholders"}
Idle == [op |-> "none"]

\* recomputeOnboardingStatus
SettledIn(steps) == {s \in Steps : steps[s] # "pending"}
\* Fault: the status follows the last step alone.
LastStepSettled(steps) == IF steps["shareholders"] # "pending" THEN "completed" ELSE "in_progress"
Overall(steps) == IF SettledIn(steps) = Steps THEN "completed" ELSE "in_progress"

\* createProvisionedOnboardingSeed for a sign-up: projects of other types than
\* shares have no shareholders step.
OnboardingInit ==
  /\ \E seeded \in {"pending", "skipped"} :
       step = [s \in Steps |-> IF s = "shareholders" THEN seeded ELSE "pending"]
  /\ overall = "in_progress"
  /\ flow = [review |-> "two", named |-> FALSE]
  /\ accountant = FALSE /\ accountNames = {}
  /\ target \in Targets /\ assigned = 0
  /\ setup = [w \in Windows |-> Idle]
  /\ everSettled = SettledIn(step)

\* A handler reads the row and looks at what it needs.
Opens(w, request) ==
  /\ setup[w] = Idle
  /\ setup' = [setup EXCEPT ![w] = request]
  /\ UNCHANGED <<step, overall, flow, accountant, accountNames, target, assigned, everSettled>>

\* The steps as the window read them, with its own.
SeenWith(w, s, to) == [setup[w].seen EXCEPT ![s] = to]

\* The window's update of the row: its step, and the status of what it read.
Settles(w, s, to) ==
  /\ step' = [step EXCEPT ![s] = to]
  /\ overall' = Overall(SeenWith(w, s, to))
  /\ everSettled' = everSettled \cup SettledIn(step')
  /\ setup' = [setup EXCEPT ![w] = Idle]

-----------------------------------------------------------------------------
\* POST /organization and /project: names, and possibly the total shares.
OpenOrganization(w, total) == Opens(w, [op |-> "organization", seen |-> step, total |-> total])
SaveOrganization(w) ==
  /\ setup[w].op = "organization"
  /\ target' = setup[w].total
  /\ Settles(w, "organization", "done")
  /\ UNCHANGED <<flow, accountant, accountNames, assigned>>

\* POST /accounting: the accountant's role, and who reviews.
OpenAccounting(w, review) == Opens(w, [op |-> "accounting", seen |-> step, review |-> review])
SaveAccounting(w) ==
  /\ setup[w].op = "accounting"
  /\ accountant' = TRUE
  /\ flow' = [review |-> setup[w].review, named |-> TRUE]
  /\ Settles(w, "accounting", "done")
  /\ UNCHANGED <<accountNames, target, assigned>>

\* POST /accounts: names that are not in use; the database refuses the others.
OpenAccounts(w, names) ==
  /\ step["accounting"] # "pending" /\ names \cap accountNames = {}
  /\ Opens(w, [op |-> "accounts", seen |-> step, names |-> names])
SaveAccounts(w) ==
  /\ setup[w].op = "accounts" /\ setup[w].names \cap accountNames = {}
  /\ accountNames' = accountNames \cup setup[w].names
  /\ Settles(w, "accounts", "done")
  /\ UNCHANGED <<flow, accountant, target, assigned>>

\* POST /shareholders: n more shares, or fewer (they replace those of members
\* who are in the list) within the total that was read; the step is settled
\* when all shares are assigned, and pending again when they are not.
OpenShareholders(w, n) ==
  /\ step["accounts"] # "pending" /\ n <= target
  /\ Opens(w, [op |-> "shareholders", seen |-> step, change |-> n, from |-> assigned, total |-> target])
\* Members that another window changed meanwhile keep those shares or lose them.
SaveShareholders(w) ==
  /\ setup[w].op = "shareholders"
  /\ assigned' \in IF assigned = setup[w].from THEN {setup[w].change} ELSE 1..(setup[w].change + assigned)
  /\ assigned' <= MaxAssigned
  /\ Settles(w, "shareholders", IF assigned' = setup[w].total THEN "done" ELSE "pending")
  /\ UNCHANGED <<flow, accountant, accountNames, target>>

\* POST /skip, accounting: once the organization is named, without accountant.
OpenSkipAccounting(w) ==
  /\ step["organization"] # "pending" /\ ~accountant
  /\ Opens(w, [op |-> "skip_accounting", seen |-> step])
SkipAccounting(w) ==
  /\ setup[w].op = "skip_accounting"
  /\ flow' = [review |-> "one", named |-> FALSE]
  /\ Settles(w, "accounting", "skipped")
  /\ UNCHANGED <<accountant, accountNames, target, assigned>>

\* POST /skip, shareholders: a settled step is left alone.
OpenSkipShareholders(w) ==
  /\ step["shareholders"] = "pending" /\ step["accounts"] # "pending"
  /\ Opens(w, [op |-> "skip_shareholders", seen |-> step])
SkipShareholders(w) ==
  /\ setup[w].op = "skip_shareholders"
  /\ Settles(w, "shareholders", "skipped")
  /\ UNCHANGED <<flow, accountant, accountNames, target, assigned>>

\* POST /complete: all steps were settled when the row was read.
OpenCompletion(w) ==
  /\ Overall(step) = "completed"
  /\ Opens(w, [op |-> "complete", seen |-> step])
Complete(w) ==
  /\ setup[w].op = "complete"
  /\ overall' = "completed"
  /\ setup' = [setup EXCEPT ![w] = Idle]
  /\ UNCHANGED <<step, flow, accountant, accountNames, target, assigned, everSettled>>

\* A request fails, or its client is gone.
CloseWindow(w) ==
  /\ setup[w] # Idle /\ setup' = [setup EXCEPT ![w] = Idle]
  /\ UNCHANGED <<step, overall, flow, accountant, accountNames, target, assigned, everSettled>>

\* commitFundImport assigns all shares and settles a pending shareholders step.
ImportShareholders ==
  /\ target <= MaxAssigned /\ assigned' = target
  /\ step' = [step EXCEPT !["shareholders"] = IF @ = "pending" THEN "done" ELSE @]
  /\ everSettled' = everSettled \cup SettledIn(step')
  /\ UNCHANGED <<overall, flow, accountant, accountNames, target, setup>>

OnboardingNext ==
  \/ \E w \in Windows, total \in Targets : OpenOrganization(w, total)
  \/ \E w \in Windows, review \in {"one", "two"} : OpenAccounting(w, review)
  \/ \E w \in Windows, names \in (SUBSET AccountNames) \ {{}} : OpenAccounts(w, names)
  \/ \E w \in Windows, n \in 1..MaxAssigned : OpenShareholders(w, n)
  \/ \E w \in Windows : \/ OpenSkipAccounting(w) \/ OpenSkipShareholders(w) \/ OpenCompletion(w)
                        \/ SaveOrganization(w) \/ SaveAccounting(w) \/ SaveAccounts(w)
                        \/ SaveShareholders(w) \/ SkipAccounting(w) \/ SkipShareholders(w)
                        \/ Complete(w) \/ CloseWindow(w)
  \/ ImportShareholders

OnboardingSpec == OnboardingInit /\ [][OnboardingNext]_onboardingVars

-----------------------------------------------------------------------------
OnboardingTypeOK ==
  /\ step \in [Steps -> {"pending", "done", "skipped"}]
  /\ overall \in {"in_progress", "completed"}
  /\ flow \in [review : {"one", "two"}, named : BOOLEAN]
  /\ accountant \in BOOLEAN /\ accountNames \subseteq AccountNames
  /\ target \in Targets /\ assigned \in 0..MaxAssigned
  /\ DOMAIN setup = Windows /\ everSettled \subseteq Steps

\* An organization leaves the set-up only after every step was settled once,
\* and then it has accounts and somebody to review: whatever windows were open
\* meanwhile, and although each computes the status from what it once read.
LeavesSetUpReady ==
  overall = "completed" =>
    /\ everSettled = Steps
    /\ accountNames # {}
    /\ flow.review = "two" => accountant

\* As POST /complete words it, all steps are required before completion.  Two
\* windows break this: each writes the status of a step from what it once read.
CompletedMeansSettled == overall = "completed" => SettledIn(step) = Steps
=============================================================================
