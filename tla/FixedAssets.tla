---------------------------- MODULE FixedAssets ----------------------------
(***************************************************************************)
(* The register of fixed assets of a tenant (modules/fixed-assets): units  *)
(* bought by a project, charged month by month over their life, serviced,  *)
(* moved to another project, sold or written off, or their purchase undone *)
(* (modules/reversals).  Every operation is one serializable transaction   *)
(* with a receipt of its request, so it is one action, and a repeated      *)
(* request does nothing.  The nightly worker reads its list first and then *)
(* posts one asset per transaction.                                        *)
(*                                                                         *)
(* Time passes in months.  All units cost Cost, fall to Residual and last  *)
(* Life months.  An account entry stands in a journal as debit less credit *)
(* of its account; location, custodian, serial number and warranty are     *)
(* left out.                                                               *)
(***************************************************************************)
EXTENDS Integers, FiniteSets, FiniteSetsExt, Sequences

CONSTANTS
  Assets, Sites, NoSite,
  Cost, Residual, Life,
  LastAssetMonth, \* bound on the clock
  MaxTransfers,     \* bound on the moves of one asset
  ServiceCost, Proceeds, StartCash

ASSUME AssetsAssumption ==
  /\ Cost \in Nat /\ Residual \in 0..(Cost - 1) /\ Life \in Nat \ {0}
  /\ LastAssetMonth \in Nat \ {0} /\ MaxTransfers \in Nat
  /\ ServiceCost \in Nat /\ Proceeds \in Nat \ {0} /\ StartCash \in Nat
  /\ NoSite \notin Sites /\ IsFiniteSet(Assets) /\ IsFiniteSet(Sites)

VARIABLES
  today,     \* the current month
  asset,     \* FixedAsset rows
  moves,     \* the transfers among FixedAssetEvent: month and former project
  journal,   \* FixedAssetJournal rows
  assetCash, \* balance of the account each project pays from
  posting    \* the worker's round: its month, and the assets still listed
assetVars == <<today, asset, moves, journal, assetCash, posting>>

AssetMonths == 1..LastAssetMonth
NoAsset == [status |-> "none", site |-> NoSite, inUse |-> 0, posted |-> 0,
            source |-> NoSite, sourceThrough |-> 0, batch |-> {}, touched |-> FALSE]
NotPosting == [through |-> 0, list |-> {}]

AssetsInit ==
  /\ today = 1 /\ journal = {} /\ posting = NotPosting
  /\ asset = [a \in Assets |-> NoAsset]
  /\ moves = [a \in Assets |-> <<>>]
  /\ assetCash = [s \in Sites |-> StartCash]

-----------------------------------------------------------------------------
(* What an asset is worth, and the entries that say so.                    *)

Accounts == {"cost", "accumulated", "expense", "upkeep", "clearing", "cash", "result"}
\* The kind of an entry that undoes another is that of the other, undone.
Entry(a, s, kind, period, debits) ==
  [asset |-> a, site |-> s, kind |-> kind, undone |-> FALSE, period |-> period,
   lines |-> [x \in Accounts |-> IF x \in DOMAIN debits THEN debits[x] ELSE 0]]

\* Rounded over the months elapsed, so the charges add up to Cost - Residual.
Elapsed(row, m) == Max({0, Min({Life, m - row.inUse + 1})})
AccumulatedBy(row, m) == (2 * (Cost - Residual) * Elapsed(row, m) + Life) \div (2 * Life)
Charge(row, m) == AccumulatedBy(row, m) - AccumulatedBy(row, m - 1)
BookValue(row, m) == Cost - AccumulatedBy(row, m)

\* postAsset: the months not posted yet, up to the one given and the last of the life.
FirstDue(row) == Max({row.inUse, row.posted + 1})
LastDue(row, through) == Min({through, row.inUse + Life - 1})
DueMonths(row, through) == FirstDue(row)..LastDue(row, through)
\* The month of a transfer is still the sender's.
PriorOwner(row, m) == row.source # NoSite /\ m <= row.sourceThrough /\ row.source # row.site

ChargeEntries(a, row, m) ==
  LET c == Charge(row, m)
  IN IF c = 0 THEN {}
     ELSE IF PriorOwner(row, m)
     THEN {Entry(a, row.source, "depreciation", m, [expense |-> c, clearing |-> -c]),
           Entry(a, row.site, "transferred_depreciation", m, [clearing |-> c, accumulated |-> -c])}
     ELSE {Entry(a, row.site, "depreciation", m, [expense |-> c, accumulated |-> -c])}
Postings(a, row, through) == UNION {ChargeEntries(a, row, m) : m \in DueMonths(row, through)}
Posted(row, through) ==
  IF DueMonths(row, through) = {} THEN row ELSE [row EXCEPT !.posted = LastDue(row, through)]

\* A second entry of the same asset, kind, period and project is refused.
Fresh(entries) ==
  \A e \in entries, j \in journal :
    <<e.asset, e.kind, e.undone, e.period, e.site>> # <<j.asset, j.kind, j.undone, j.period, j.site>>
Write(entries) == Fresh(entries) /\ journal' = journal \cup entries

-----------------------------------------------------------------------------
(* Operations.                                                             *)

Completed == today - 1
InRegister(a, s) == asset[a].status = "active" /\ asset[a].site = s

\* Several units of one invoice are paid in one cash entry; what has already
\* run down since their first use is posted at once.
Purchase(s, units, use) ==
  LET row == [NoAsset EXCEPT !.status = "active", !.site = s, !.inUse = use, !.batch = units]
  IN /\ \A a \in units : asset[a].status = "none"
     /\ assetCash[s] >= Cost * Cardinality(units)
     /\ assetCash' = [assetCash EXCEPT ![s] = @ - Cost * Cardinality(units)]
     /\ asset' = [a \in Assets |-> IF a \in units THEN Posted(row, Completed) ELSE asset[a]]
     /\ Write(UNION {Postings(a, row, Completed)
                       \cup {Entry(a, s, "purchase", 0, [cost |-> Cost, cash |-> -Cost])}
                     : a \in units})
     /\ UNCHANGED <<today, moves, posting>>

\* Servicing an asset, free of charge or paid at once.
Service(a, s, price) ==
  LET turn == Cardinality({j \in journal : j.asset = a /\ j.kind = "maintenance"}) + 1
  IN /\ InRegister(a, s) /\ assetCash[s] >= price
     /\ assetCash' = [assetCash EXCEPT ![s] = @ - price]
     /\ asset' = [asset EXCEPT ![a].touched = TRUE]
     /\ Write(IF price = 0 THEN {}
              ELSE {Entry(a, s, "maintenance", turn, [upkeep |-> price, cash |-> -price])})
     /\ UNCHANGED <<today, moves, posting>>

\* Given to another place or person within the project.
Reassign(a, s) ==
  /\ InRegister(a, s)
  /\ asset' = [asset EXCEPT ![a] = [Posted(@, Completed) EXCEPT !.touched = TRUE]]
  /\ Write(Postings(a, asset[a], Completed))
  /\ UNCHANGED <<today, moves, assetCash, posting>>

\* Fault: the latest sender of the month bears it.
BearerLatest(row) == row.site
\* Who bears the month of a transfer: the first sender of the month.
Bearer(row) ==
  IF row.sourceThrough >= today THEN row.source ELSE row.site
Transfer(a, s, target) ==
  LET row == Posted(asset[a], Completed)
      value == AccumulatedBy(row, Completed)
      turn == Len(moves[a]) + 1
      moved == [row EXCEPT !.site = target, !.source = Bearer(row), !.sourceThrough = today,
                           !.touched = TRUE]
  IN /\ InRegister(a, s) /\ target # s /\ turn <= MaxTransfers
     /\ asset' = [asset EXCEPT ![a] = moved]
     /\ moves' = [moves EXCEPT ![a] = Append(@, [month |-> today, from |-> s])]
     /\ Write(Postings(a, asset[a], Completed) \cup
              {Entry(a, s, "transfer_out", turn,
                     [accumulated |-> value, clearing |-> Cost - value, cost |-> -Cost]),
               Entry(a, target, "transfer_in", turn,
                     [cost |-> Cost, accumulated |-> -value, clearing |-> value - Cost])})
     /\ UNCHANGED <<today, assetCash, posting>>

\* Sold, scrapped or lost; the month of the disposal is not charged any more.
Dispose(a, s, price) ==
  LET value == BookValue(asset[a], Completed)
  IN /\ InRegister(a, s)
     /\ asset' = [asset EXCEPT ![a] = [Posted(@, Completed) EXCEPT !.status = "disposed",
                                                                   !.touched = TRUE]]
     /\ assetCash' = [assetCash EXCEPT ![s] = @ + price]
     /\ Write(Postings(a, asset[a], Completed) \cup
              {Entry(a, s, "disposal", today,
                     [accumulated |-> Cost - value, cost |-> -Cost, cash |-> price,
                      result |-> value - price])})
     /\ UNCHANGED <<today, moves, posting>>

\* A purchase is undone as a whole, while nothing else has happened to a unit of it.
Undone(j) == [j EXCEPT !.undone = TRUE, !.lines = [x \in Accounts |-> -@[x]]]
ReversePurchase(a, s) ==
  LET units == asset[a].batch
  IN /\ asset[a].status # "none" /\ asset[a].site = s
     /\ \A u \in units : InRegister(u, s) /\ ~asset[u].touched
     /\ assetCash' = [assetCash EXCEPT ![s] = @ + Cost * Cardinality(units)]
     /\ asset' = [u \in Assets |-> IF u \in units THEN [asset[u] EXCEPT !.status = "reversed"]
                                   ELSE asset[u]]
     /\ Write({Undone(j) : j \in {e \in journal : e.asset \in units /\ e.site = s}})
     /\ UNCHANGED <<today, moves, posting>>

\* postProject: the button that posts a project at once.
PostProject(s) ==
  LET rows == {a \in Assets : InRegister(a, s)}
  IN /\ Write(UNION {Postings(a, asset[a], Completed) : a \in rows})
     /\ asset' = [a \in Assets |-> IF a \in rows THEN Posted(asset[a], Completed) ELSE asset[a]]
     /\ UNCHANGED <<today, moves, assetCash, posting>>

\* postDueDepreciation: the month and the list are read when the round starts.
StartPosting ==
  LET due == {a \in Assets : asset[a].status = "active" /\ asset[a].posted < Completed}
  IN /\ posting = NotPosting /\ due # {}
     /\ posting' = [through |-> Completed, list |-> due]
     /\ UNCHANGED <<today, asset, moves, journal, assetCash>>
RestOfRound(a) == IF posting.list = {a} THEN NotPosting ELSE [posting EXCEPT !.list = @ \ {a}]
StillPosted(a) == asset[a].status = "active"
PostOne(a) ==
  /\ a \in posting.list
  /\ posting' = RestOfRound(a)
  /\ IF StillPosted(a)
     THEN /\ asset' = [asset EXCEPT ![a] = Posted(@, posting.through)]
          /\ Write(Postings(a, asset[a], posting.through))
     ELSE UNCHANGED <<asset, journal>>
  /\ UNCHANGED <<today, moves, assetCash>>
\* The transaction fails: it is logged, and the round goes on with the next asset.
PostingFails(a) ==
  /\ a \in posting.list
  /\ posting' = RestOfRound(a)
  /\ UNCHANGED <<today, asset, moves, journal, assetCash>>

MonthEnds ==
  /\ today < LastAssetMonth
  /\ today' = today + 1
  /\ UNCHANGED <<asset, moves, journal, assetCash, posting>>

AssetsNext ==
  \/ \E s \in Sites, units \in SUBSET Assets \ {{}}, use \in AssetMonths : Purchase(s, units, use)
  \/ \E a \in Assets, s \in Sites, price \in {0, ServiceCost} : Service(a, s, price)
  \/ \E a \in Assets, s \in Sites : Reassign(a, s) \/ ReversePurchase(a, s)
  \/ \E a \in Assets, s, target \in Sites : Transfer(a, s, target)
  \/ \E a \in Assets, s \in Sites, price \in {0, Proceeds} : Dispose(a, s, price)
  \/ \E s \in Sites : PostProject(s)
  \/ StartPosting
  \/ \E a \in Assets : PostOne(a) \/ PostingFails(a)
  \/ MonthEnds
AssetsSpec == AssetsInit /\ [][AssetsNext]_assetVars

-----------------------------------------------------------------------------
(* Properties.                                                             *)

AssetsTypeOK ==
  /\ today \in AssetMonths
  /\ asset \in [Assets -> [status : {"none", "active", "disposed", "reversed"},
                           site : Sites \cup {NoSite}, inUse : Nat, posted : Nat,
                           source : Sites \cup {NoSite}, sourceThrough : Nat,
                           batch : SUBSET Assets, touched : BOOLEAN]]
  /\ assetCash \in [Sites -> Nat]
  /\ posting \in [through : Nat, list : SUBSET Assets]

\* The balance an account of a project's books has for an asset.
BookTotal(f, S) == MapThenSumSet(LAMBDA x : f[x], S)
Balance(a, s, account) ==
  LET own == {j \in journal : j.asset = a /\ j.site = s}
  IN BookTotal([j \in own |-> j.lines[account]], own)
Sum(a, account) == BookTotal([s \in Sites |-> Balance(a, s, account)], Sites)

\* The books follow the asset: its cost and what has been charged stand with
\* the project that has it and with no other, the clearing account between
\* projects comes to nothing, and what was charged is what the asset has lost
\* by the month it is posted through - whatever the order of the worker, the
\* button, transfers, disposals and reversals.
BooksFollowTheAsset ==
  \A a \in Assets :
    LET row == asset[a]
        worn == AccumulatedBy(row, row.posted)
    IN row.status # "none" =>
       /\ \A s \in Sites :
            LET here == row.status = "active" /\ row.site = s
            IN /\ Balance(a, s, "cost") = IF here THEN Cost ELSE 0
               /\ Balance(a, s, "accumulated") = IF here THEN -worn ELSE 0
       /\ Sum(a, "clearing") = 0
       /\ Sum(a, "expense") = IF row.status = "reversed" THEN 0 ELSE worn

\* A month of an asset is charged to the project that had it when the month
\* began, or bought it in that month, however often it moved since.
HolderAt(a, m) ==
  LET later == {i \in DOMAIN moves[a] : moves[a][i].month >= m}
  IN IF later = {} THEN asset[a].site ELSE moves[a][Min(later)].from
ChargedToHolder ==
  \A j \in journal : j.kind = "depreciation" => j.site = HolderAt(j.asset, j.period)

\* The asset register keeps its books.
AssetBooksRight == BooksFollowTheAsset /\ ChargedToHolder

=============================================================================
