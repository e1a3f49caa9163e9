--------------------------- MODULE MCOrganization ---------------------------
(***************************************************************************)
(* Small instances of what a tenant's administrators do: members and       *)
(* seats, the import of opening balances, contact settings, onboarding,    *)
(* projects within the package, the fees and results of an institute, and  *)
(* the contracts of a construction project.  These components share no     *)
(* state that is modelled, so every behaviour of one is checked with the   *)
(* others at rest: focus names the one at work.  The package is at work    *)
(* twice: once for projects, people and shares, once for projects, people  *)
(* and storage; so is the roster: once for shares while the owners stay as *)
(* they are, once for all roles of members without shares; and so is the   *)
(* institute: fees of two pupils, results of one.                          *)
(*                                                                         *)
(* Interchangeable values of different components have the same names, so  *)
(* that one small group of permutations serves all of them.                *)
(***************************************************************************)
EXTENDS Roster, OpeningImport, TenantSettings, Onboarding, ProjectSetup, Institute,
        ConstructionContracts, TLC

CONSTANTS x1, x2, y1, y2, z1, z2,
          o1, q1, q2, rows, otherRows, s1, ta

Sym == Permutations({x1, x2}) \cup Permutations({y1, y2}) \cup Permutations({z1, z2})

\* Both devices are of one teacher.
OneTeacher == [d \in Devices |-> ta]

\* One request sent twice and once with other rows, and another request.
SendingsOfTwo == {<<q1, rows, 1>>, <<q1, rows, 2>>, <<q1, otherRows, 1>>, <<q2, rows, 1>>}

VARIABLE focus
Parts == {"members", "roles", "import", "settings", "onboarding", "projects", "storage",
          "fees", "results", "contracts"}

\* Components that start in several ways do so when it is their turn.  The
\* organization that is there first may be called o1.
OrganizationInit ==
  /\ focus \in Parts
  /\ RosterInit /\ ImportInit /\ SettingsInit /\ OnboardingInit /\ SetupInit
  /\ InstituteInit /\ ContractsInit
  /\ focus # "onboarding" => step["shareholders"] = "pending" /\ target = 1
  /\ focus \notin {"projects", "storage"} => allowed[o1] = 1
  /\ allowed[o1] > 0

At(part) == focus = part /\ UNCHANGED focus
RosterMoves ==
  /\ \/ At("members") /\ RosterNext /\ \A p \in Persons : seat'[p]["owner"] = seat[p]["owner"]
     \/ At("roles") /\ RosterNext /\ \A r \in Records : record'[r].shares = 0
  /\ UNCHANGED <<importVars, settingsVars, onboardingVars, setupVars, instituteVars, contractVars>>
ImportMoves == At("import") /\ ImportNext
  /\ UNCHANGED <<rosterVars, settingsVars, onboardingVars, setupVars, instituteVars, contractVars>>
SettingsMoves == At("settings") /\ SettingsNext
  /\ UNCHANGED <<rosterVars, importVars, onboardingVars, setupVars, instituteVars, contractVars>>
OnboardingMoves == At("onboarding") /\ OnboardingNext
  /\ UNCHANGED <<rosterVars, importVars, settingsVars, setupVars, instituteVars, contractVars>>
SetupMoves ==
  /\ \/ At("projects") /\ SetupNext /\ bucket' = bucket
     \/ At("storage") /\ SetupNext /\ total' = total /\ holders' = holders
  /\ UNCHANGED <<rosterVars, importVars, settingsVars, onboardingVars, instituteVars, contractVars>>
InstituteMoves ==
  /\ \/ At("fees") /\ InstituteNext /\ UNCHANGED resultVars
     \/ At("results") /\ InstituteNext /\ UNCHANGED feeVars /\ enrolled' \subseteq {s1}
  /\ UNCHANGED <<rosterVars, importVars, settingsVars, onboardingVars, setupVars, contractVars>>
ContractMoves == At("contracts") /\ ContractsNext
  /\ UNCHANGED <<rosterVars, importVars, settingsVars, onboardingVars, setupVars, instituteVars>>

OrganizationNext ==
  \/ RosterMoves \/ ImportMoves \/ SettingsMoves \/ OnboardingMoves \/ SetupMoves
  \/ InstituteMoves \/ ContractMoves
OrganizationVars == <<focus, rosterVars, importVars, settingsVars, onboardingVars, setupVars,
                      instituteVars, contractVars>>
OrganizationSpec == OrganizationInit /\ [][OrganizationNext]_OrganizationVars

OrganizationTypeOK ==
  /\ RosterTypeOK /\ ImportTypeOK /\ SettingsTypeOK /\ OnboardingTypeOK /\ SetupTypeOK
  /\ InstituteTypeOK /\ ContractsTypeOK
=============================================================================
