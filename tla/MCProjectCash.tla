--------------------------- MODULE MCProjectCash ----------------------------
(***************************************************************************)
(* Small instances of ProjectCash.                                         *)
(*                                                                         *)
(* Two handlers are at work on every kind of document, or one handler is   *)
(* overtaken by the operations of one step while expenses are rejected and *)
(* balances adjusted by hand.  A withdrawal by hand is not overtaken there *)
(* and a rejection not by another handler: the code goes wrong then.       *)
(***************************************************************************)
EXTENDS ProjectCash, TLC

CONSTANTS a1, a2, admin, accountant, approver,
          Parts  \* what the instance is about

Sym == Permutations(Requests)

RolesOf ==
  [u \in Users |-> CASE u = admin      -> {"admin"}
                     [] u = accountant -> {"accountant", "cashier"}
                     [] u = approver   -> {"approver"}]

\* The first account is opened with money, the second without.
Funded == [a \in Accounts |-> IF a = a1 THEN 2 ELSE 0]

VARIABLE part

Busy == {r \in Requests : req[r] # Idle}
Payments == \A r \in Busy : req[r].pc \notin {"reject", "adjust"}
OneHandler == \A r, s \in Busy : r = s
Untraded == \A d \in Sales \cup Purchases : doc[d] = NoDoc
Withdrawing == {r \in Busy : req[r].pc = "adjust" /\ req[r].sign = -1}

CashInit == Init /\ part \in Parts
CashNext ==
  /\ Next /\ part' = part
  /\ part = "payments" => Payments'
  /\ part = "corrections" => OneHandler' /\ Untraded' /\ \A r \in Withdrawing : req'[r] = Idle
CashSpec == CashInit /\ [][CashNext]_<<vars, part>>
=============================================================================
