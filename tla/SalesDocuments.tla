--------------------------- MODULE SalesDocuments ---------------------------
(***************************************************************************)
(* Quotations, orders and invoices of an accounting project, and the stock *)
(* its invoices take (modules/accounting, modules/inventory).  Every       *)
(* operation is one serializable transaction, creations, conversions and   *)
(* payments with the key of their request, so it is one action, and a      *)
(* repeated request does nothing.                                          *)
(*                                                                         *)
(* A document sells a number of one item, priced one each; taxes, charges, *)
(* numbers, customers and the printed form are left out.  The tenant has   *)
(* its main store and other places.                                        *)
(***************************************************************************)
EXTENDS Integers, FiniteSets, FiniteSetsExt

CONSTANTS
  Papers, NoPaper,
  Goods, NoGoods,     \* catalog items; an external line not linked to one
  Stores, MainStore,
  Quantities,         \* what a line can sell
  MaxOnHand,          \* bound on the stock adjustments of an item
  MaxBanked,          \* the largest balance of an account
  Flows               \* workflow settings an administrator chooses between

ASSUME DocumentsAssumption ==
  /\ NoPaper \notin Papers /\ NoGoods \notin Goods /\ MainStore \in Stores
  /\ IsFiniteSet(Papers) /\ IsFiniteSet(Stores)
  /\ Quantities \subseteq Nat \ {0} /\ MaxOnHand \in Nat /\ MaxBanked \in Nat
  /\ Flows \subseteq [quotations : BOOLEAN, orders : BOOLEAN, skip : BOOLEAN] /\ Flows # {}

VARIABLES
  setting,  \* commerceSettings and stockManagementEnabled of the project
  paper,    \* BusinessDocument rows
  agreed,   \* the terms each quotation had when it was last accepted
  onHand,   \* InventoryItem rows: status and quantity
  moved,    \* StockMovement sums: of an item in a place, for a document or for none
  openAt,   \* the active locations
  banked    \* balance of the receiving account
documentVars == <<setting, paper, agreed, onHand, moved, openAt, banked>>

Terms == [goods : Goods \cup {NoGoods}, number : Quantities]
NoTerms == [goods |-> NoGoods, number |-> 0]
NoDocument == [kind |-> "none", status |-> "none", terms |-> NoTerms, place |-> MainStore,
               tracked |-> FALSE, paid |-> 0, source |-> NoPaper,
               flow |-> [quotations |-> FALSE, orders |-> FALSE, skip |-> TRUE]]

DocumentsInit ==
  /\ setting \in [flow : Flows, stock : {TRUE}]
  /\ paper = [d \in Papers |-> NoDocument]
  /\ agreed = [d \in Papers |-> NoTerms]
  /\ onHand = [i \in Goods |-> [status |-> "none", number |-> 0]]
  /\ moved = [i \in Goods |-> [p \in Stores |-> [d \in Papers \cup {NoPaper} |-> 0]]]
  /\ openAt = Stores /\ banked = 0

-----------------------------------------------------------------------------
(* Stock.                                                                  *)

Summed(f, S) == MapThenSumSet(LAMBDA x : f[x], S)
MovedAt(i) == [p \in Stores |-> Summed(moved[i][p], Papers \cup {NoPaper})]
\* locationStocks: the main store has whatever the other places do not.
StockAt(i, p) ==
  IF p = MainStore
  THEN onHand[i].number - Summed(MovedAt(i), Stores \ {MainStore})
  ELSE MovedAt(i)[p]

\* changeStock.  Only what a cancellation brings back may enter a closed place.
StockChange(i, p, n, d) ==
  /\ n < 0 => StockAt(i, p) >= -n /\ onHand[i].number >= -n
  /\ onHand' = [onHand EXCEPT ![i].number = @ + n]
  /\ moved' = [moved EXCEPT ![i][p][d] = @ + n]

\* openingStock: only where stock is tracked, and into an open place.
Opening(i, p, n) ==
  /\ n > 0 => setting.stock /\ p \in openAt
  /\ moved' = [moved EXCEPT ![i][p][NoPaper] = n]
CreateItem(i, p, n) ==
  /\ onHand[i].status = "none"
  /\ onHand' = [onHand EXCEPT ![i] = [status |-> "active", number |-> n]]
  /\ Opening(i, p, n)
  /\ UNCHANGED <<setting, paper, agreed, openAt, banked>>
SwitchItem(i, status) ==
  /\ onHand[i].status \notin {"none", status}
  /\ onHand' = [onHand EXCEPT ![i].status = status]
  /\ UNCHANGED <<setting, paper, agreed, moved, openAt, banked>>
Adjust(i, p, n) ==
  /\ onHand[i].status # "none" /\ setting.stock /\ p \in openAt
  /\ onHand[i].number + n <= MaxOnHand
  /\ StockChange(i, p, n, NoPaper)
  /\ UNCHANGED <<setting, paper, agreed, openAt, banked>>

\* A place closes when it holds nothing; the default one never does.
CloseStore(p) ==
  /\ p \in openAt \ {MainStore}
  /\ \A i \in Goods : StockAt(i, p) = 0
  /\ openAt' = openAt \ {p}
  /\ UNCHANGED <<setting, paper, agreed, onHand, moved, banked>>
ReopenStore(p) ==
  /\ p \notin openAt
  /\ openAt' = openAt \cup {p}
  /\ UNCHANGED <<setting, paper, agreed, onHand, moved, banked>>

SwitchStock ==
  /\ setting' = [setting EXCEPT !.stock = ~@]
  /\ UNCHANGED <<paper, agreed, onHand, moved, openAt, banked>>
SaveWorkflow(flow) ==
  /\ setting.flow # flow
  /\ setting' = [setting EXCEPT !.flow = flow]
  /\ UNCHANGED <<paper, agreed, onHand, moved, openAt, banked>>

-----------------------------------------------------------------------------
(* Documents.                                                              *)

Kinds == {"quotation", "order", "sale"}
ConvertedTo(d) == {e \in Papers : paper[e].source = d}
\* validateItems: the line is external, or its item is active.
Sellable(terms) == terms.goods # NoGoods => onHand[terms.goods].status = "active"

\* allowDirect: what may be written without a document before it.
AllowedDirectly(kind, flow) ==
  /\ kind = "quotation" => flow.quotations
  /\ kind = "order" => flow.orders
  /\ flow.skip \/ CASE kind = "quotation" -> TRUE
                    [] kind = "order" -> ~flow.quotations
                    [] kind = "sale" -> ~flow.quotations /\ ~flow.orders

CreateDocument(d, kind, terms, p) ==
  /\ paper[d].status = "none" /\ AllowedDirectly(kind, setting.flow)
  /\ Sellable(terms) /\ p \in openAt
  /\ paper' = [paper EXCEPT ![d] = [NoDocument EXCEPT !.kind = kind, !.status = "draft",
                                      !.terms = terms, !.place = p, !.flow = setting.flow]]
  /\ UNCHANGED <<setting, agreed, onHand, moved, openAt, banked>>

\* A quotation edited after its acceptance has to be accepted again.
StatusAfterEdit(status) == IF status = "accepted" THEN "sent" ELSE status
EditDocument(d, terms, p) ==
  LET row == paper[d]
  IN /\ row.status = "draft" \/ (row.kind = "quotation" /\ row.status \in {"sent", "accepted"})
     /\ ConvertedTo(d) = {}
     /\ Sellable(terms) /\ p \in openAt
     /\ paper' = [paper EXCEPT ![d].terms = terms, ![d].place = p,
                               ![d].status = StatusAfterEdit(@)]
     /\ UNCHANGED <<setting, agreed, onHand, moved, openAt, banked>>

\* source-items: an external line gets the catalog item it was bought as.
LinkItem(d, i) ==
  LET row == paper[d]
  IN /\ \/ row.kind = "order" /\ row.status \in {"confirmed", "fulfilling"}
        \/ row.kind = "sale" /\ row.status = "draft"
     /\ row.terms.goods = NoGoods /\ onHand[i].status = "active"
     /\ paper' = [paper EXCEPT ![d].terms.goods = i]
     /\ UNCHANGED <<setting, agreed, onHand, moved, openAt, banked>>

\* nextStatus, for the actions that move no stock.
NextStatuses(kind, status) ==
  CASE kind = "quotation" /\ status = "draft" -> {"sent", "cancelled"}
    [] kind = "quotation" /\ status = "sent" -> {"accepted", "rejected", "expired", "cancelled"}
    [] kind = "quotation" /\ status = "accepted" -> {"cancelled"}
    [] kind = "order" /\ status = "draft" -> {"confirmed", "cancelled"}
    [] kind = "order" /\ status = "confirmed" -> {"fulfilling", "cancelled"}
    [] kind = "order" /\ status = "fulfilling" -> {"cancelled"}
    [] kind = "sale" /\ status = "draft" -> {"cancelled"}
    [] OTHER -> {}
ChangeStatus(d, status) ==
  /\ status \in NextStatuses(paper[d].kind, paper[d].status)
  /\ paper' = [paper EXCEPT ![d].status = status]
  /\ agreed' = IF status = "accepted" THEN [agreed EXCEPT ![d] = paper[d].terms] ELSE agreed
  /\ UNCHANGED <<setting, onHand, moved, openAt, banked>>

\* Issuing an invoice takes its stock, if the project tracks stock by then.
IssueSale(d) ==
  LET row == paper[d]
      tracks == setting.stock
  IN /\ row.kind = "sale" /\ row.status = "draft"
     /\ tracks => row.place \in openAt /\ row.terms.goods # NoGoods
     /\ IF tracks THEN StockChange(row.terms.goods, row.place, -row.terms.number, d)
        ELSE UNCHANGED <<onHand, moved>>
     /\ paper' = [paper EXCEPT ![d].status = "issued", ![d].tracked = tracks]
     /\ UNCHANGED <<setting, agreed, openAt, banked>>

\* Cancelling it brings back what it took, if it took any.
\* Fault: the setting of the day decides.
TracksNow(d) == setting.stock
TookStock(d) == paper[d].tracked
NothingPaid(row) == row.paid = 0
CancelSale(d) ==
  LET row == paper[d]
  IN /\ row.kind = "sale" /\ row.status = "issued" /\ NothingPaid(row)
     /\ IF TookStock(d) THEN StockChange(row.terms.goods, row.place, row.terms.number, d)
        ELSE UNCHANGED <<onHand, moved>>
     /\ paper' = [paper EXCEPT ![d].status = "cancelled"]
     /\ UNCHANGED <<setting, agreed, openAt, banked>>

\* conversion: under the workflow the document was written under.
FlowOf(d) == paper[d].flow
Convertible(d, kind) ==
  LET row == paper[d]
      flow == FlowOf(d)
  IN \/ /\ row.kind = "quotation" /\ row.status = "accepted"
        /\ (kind = "order" /\ flow.orders) \/ (kind = "sale" /\ (~flow.orders \/ flow.skip))
     \/ row.kind = "order" /\ row.status \in {"confirmed", "fulfilling"} /\ kind = "sale"
ConvertDocument(d, e, kind) ==
  /\ paper[e].status = "none" /\ ConvertedTo(d) = {} /\ Convertible(d, kind)
  /\ paper' = [paper EXCEPT
       ![d].status = IF paper[d].kind = "quotation" THEN "converted" ELSE "completed",
       ![e] = [paper[d] EXCEPT !.kind = kind, !.status = "draft", !.source = d]]
  /\ UNCHANGED <<setting, agreed, onHand, moved, openAt, banked>>

PayInvoice(d, amount) ==
  LET row == paper[d]
  IN /\ row.kind = "sale" /\ row.status = "issued"
     /\ amount <= row.terms.number - row.paid
     /\ banked + amount <= MaxBanked
     /\ banked' = banked + amount
     /\ paper' = [paper EXCEPT ![d].paid = @ + amount]
     /\ UNCHANGED <<setting, agreed, onHand, moved, openAt>>

DocumentsNext ==
  \/ \E i \in Goods, p \in Stores, n \in 0..MaxOnHand : CreateItem(i, p, n)
  \/ \E i \in Goods, status \in {"active", "archived"} : SwitchItem(i, status)
  \/ \E i \in Goods, p \in Stores, n \in {-1, 1} : Adjust(i, p, n)
  \/ \E p \in Stores : CloseStore(p) \/ ReopenStore(p)
  \/ SwitchStock
  \/ \E flow \in Flows : SaveWorkflow(flow)
  \/ \E d \in Papers, kind \in Kinds, terms \in Terms, p \in Stores : CreateDocument(d, kind, terms, p)
  \/ \E d \in Papers, terms \in Terms, p \in Stores : EditDocument(d, terms, p)
  \/ \E d \in Papers, i \in Goods : LinkItem(d, i)
  \/ \E d \in Papers : \E status \in NextStatuses(paper[d].kind, paper[d].status) :
       ChangeStatus(d, status)
  \/ \E d \in Papers : IssueSale(d) \/ CancelSale(d)
  \/ \E d, e \in Papers, kind \in Kinds : ConvertDocument(d, e, kind)
  \/ \E d \in Papers, amount \in Quantities : PayInvoice(d, amount)
DocumentsSpec == DocumentsInit /\ [][DocumentsNext]_documentVars

-----------------------------------------------------------------------------
(* Properties.                                                             *)

DocumentsTypeOK ==
  /\ setting \in [flow : Flows, stock : BOOLEAN]
  /\ \A d \in Papers : /\ paper[d].kind \in Kinds \cup {"none"}
                       /\ paper[d].terms \in Terms \cup {NoTerms}
                       /\ paper[d].paid \in Nat /\ paper[d].place \in Stores
  /\ \A i \in Goods : onHand[i].number \in Nat
  /\ openAt \subseteq Stores /\ banked \in 0..MaxBanked

\* An invoice has taken from its place exactly what it sells while it stands
\* as issued and took stock, and nothing once it is cancelled - whether the
\* project's stock setting or the place's state changed in between; and no
\* place is left with less than nothing.
StockFollowsInvoices ==
  \A i \in Goods :
    /\ \A p \in Stores : StockAt(i, p) >= 0
    /\ \A p \in Stores, d \in Papers :
         LET row == paper[d]
             holds == row.status = "issued" /\ row.tracked /\ row.place = p /\ row.terms.goods = i
         IN moved[i][p][d] = IF holds THEN -row.terms.number ELSE 0

\* A quotation that counts as accepted, or became an order or an invoice, has
\* the terms the customer accepted.
AcceptedAsItStands ==
  \A d \in Papers :
    paper[d].kind = "quotation" /\ paper[d].status \in {"accepted", "converted"}
      => agreed[d] = paper[d].terms

\* A document keeps to the workflow it was written under, whatever the project
\* changed to since: where steps may not be skipped, an invoice comes from an
\* order and an order from a quotation, as far as these steps are enabled.
FollowsItsWorkflow ==
  \A d \in Papers :
    LET row == paper[d]
        before == IF row.source = NoPaper THEN "none" ELSE paper[row.source].kind
    IN row.status # "none" /\ ~row.flow.skip =>
         /\ row.kind = "sale" /\ row.flow.orders => before = "order"
         /\ row.kind = "sale" /\ ~row.flow.orders /\ row.flow.quotations => before = "quotation"
         /\ row.kind = "order" /\ row.flow.quotations => before = "quotation"

\* Money received stands against an issued invoice, and never more than it asks.
PaymentsStandAgainstInvoices ==
  /\ banked = Summed([d \in Papers |-> paper[d].paid], Papers)
  /\ \A d \in Papers : paper[d].paid > 0 =>
       paper[d].status = "issued" /\ paper[d].paid <= paper[d].terms.number

\* What a project's documents promise.
DocumentsHold ==
  StockFollowsInvoices /\ AcceptedAsItStands /\ FollowsItsWorkflow /\ PaymentsStandAgainstInvoices

=============================================================================
