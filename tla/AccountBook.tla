---------------------------- MODULE AccountBook -----------------------------
(***************************************************************************)
(* What the accounts of a project promise: each keeps its cash and a book  *)
(* of the amounts that made it.  Cash moves in or out of one account, or   *)
(* from one account to another, no account falls below zero, and nothing   *)
(* written in a book is ever changed or removed.                           *)
(***************************************************************************)
EXTENDS Integers, Sequences

CONSTANTS Accounts, Opening
VARIABLES cash, book

Init ==
  /\ cash = Opening
  /\ book = [a \in Accounts |-> IF Opening[a] = 0 THEN <<>> ELSE <<Opening[a]>>]

Write(lines) ==
  /\ cash' = [a \in Accounts |-> cash[a] + lines[a]]
  /\ book' = [a \in Accounts |->
                IF lines[a] = 0 THEN book[a] ELSE Append(book[a], lines[a])]
  /\ \A a \in Accounts : cash'[a] >= 0

Line(a, n) == [b \in Accounts |-> IF b = a THEN n ELSE 0]
Move(a, b, n) == [c \in Accounts |-> IF c = a THEN -n ELSE IF c = b THEN n ELSE 0]

\* The amount is the change of the account's cash.
InOrOut == \E a \in Accounts : Write(Line(a, cash'[a] - cash[a]))
Between == \E a, b \in Accounts : a # b /\ Write(Move(a, b, cash'[b] - cash[b]))

Next == InOrOut \/ Between
Spec == Init /\ [][Next]_<<cash, book>>
=============================================================================
