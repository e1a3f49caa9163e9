------------------------ MODULE DueAllocationProofs ------------------------
(***************************************************************************)
(* What sums of money satisfy, and what a payment does to a due and to the *)
(* dues it names, for any amounts.  The fold behind SumOver is a recursive *)
(* function on the subsets of a finite set; the first part shows that      *)
(* exactly one function satisfies its equation, by looking at a smallest   *)
(* subset that would be a counterexample, and then what sums satisfy.      *)
(***************************************************************************)
EXTENDS DueAllocation, TLAPS, FiniteSetTheorems, WellFoundedInduction

Picked(s) == CHOOSE x \in s : TRUE
Unfolds(g, f, S) ==
  g = [s \in SUBSET S |-> IF s = {} THEN 0 ELSE f[Picked(s)] + g[s \ {Picked(s)}]]

LEMMA SmallestSubset ==
  ASSUME NEW S, IsFiniteSet(S), NEW C \in SUBSET SUBSET S, C # {}
  PROVE  \E T \in C : \A U \in C : ~(U \subseteq T /\ U # T)
  <1>1. IsWellFoundedOn(StrictSubsetOrdering(S), SUBSET S)
    BY FS_StrictSubsetOrderingWellFounded, FS_FiniteSubsetsOfFinite
  <1>2. PICK T \in C : \A U \in C : ~ (<<U, T>> \in StrictSubsetOrdering(S))
    BY <1>1, WFMin
  <1> QED BY <1>2 DEF StrictSubsetOrdering

LEMMA SumDefinition ==
  ASSUME NEW f, NEW S
  PROVE  SumOver(f,S) = (CHOOSE g : Unfolds(g,f,S))[S]
  BY DEF SumOver, MapThenSumSet, MapThenFoldSet, Unfolds, Picked

LEMMA PickedInSet == ASSUME NEW s, s # {} PROVE Picked(s) \in s
  BY DEF Picked

LEMMA UnfoldsUnique ==
  ASSUME NEW S, IsFiniteSet(S), NEW f, NEW g, NEW h, Unfolds(g, f, S), Unfolds(h, f, S)
  PROVE  g = h
  <1> DEFINE C == {s \in SUBSET S : g[s] # h[s]}
  <1>1. SUFFICES ASSUME C # {} PROVE FALSE
    BY DEF Unfolds
  <1>2. PICK T \in C : \A U \in C : ~(U \subseteq T /\ U # T)
    <2>1. C \in SUBSET SUBSET S
      OBVIOUS
    <2> HIDE DEF C
    <2> QED BY <1>1, <2>1, SmallestSubset
  <1>3. T # {}
    BY DEF Unfolds
  <1>4. Picked(T) \in T
    BY <1>3, PickedInSet
  <1> DEFINE U == T \ {Picked(T)}
  <1>5. U \in SUBSET S /\ U \subseteq T /\ U # T
    BY <1>4
  <1>6. g[U] = h[U]
    BY <1>2, <1>5
  <1>7. /\ g[T] = f[Picked(T)] + g[U]
        /\ h[T] = f[Picked(T)] + h[U]
    BY <1>3 DEF Unfolds
  <1> QED BY <1>6, <1>7

LEMMA UnfoldsRestricted ==
  ASSUME NEW S, NEW f, NEW g, Unfolds(g, f, S), NEW T \in SUBSET S
  PROVE  Unfolds([s \in SUBSET T |-> g[s]], f, T)
  <1> DEFINE h == [s \in SUBSET T |-> g[s]]
  <1>1. ASSUME NEW s \in SUBSET T
        PROVE  h[s] = IF s = {} THEN 0 ELSE f[Picked(s)] + h[s \ {Picked(s)}]
    BY DEF Unfolds
  <1> QED BY <1>1 DEF Unfolds

LEMMA SumOfSubset ==
  ASSUME NEW S, IsFiniteSet(S), NEW f, NEW g, Unfolds(g, f, S), NEW T \in SUBSET S
  PROVE  SumOver(f, T) = g[T]
  <1> DEFINE h == [s \in SUBSET T |-> g[s]]
  <1>1. Unfolds(h, f, T)
    BY UnfoldsRestricted
  <1>2. IsFiniteSet(T)
    BY FS_Subset
  <1>3. (CHOOSE k : Unfolds(k, f, T)) = h
    BY <1>1, <1>2, UnfoldsUnique
  <1> QED BY <1>3, SumDefinition

LEMMA UnfoldsExists ==
  ASSUME NEW S, IsFiniteSet(S), NEW f
  PROVE  \E g : Unfolds(g, f, S)
  <1> DEFINE C == {s \in SUBSET S : ~ \E g : Unfolds(g, f, s)}
  <1>1. SUFFICES ASSUME C # {} PROVE FALSE
    OBVIOUS
  <1>2. PICK T \in C : \A U \in C : ~(U \subseteq T /\ U # T)
    <2>1. C \in SUBSET SUBSET S
      OBVIOUS
    <2> HIDE DEF C
    <2> QED BY <1>1, <2>1, SmallestSubset
  <1> DEFINE h == [s \in SUBSET T |-> IF s = {} THEN 0
                                      ELSE f[Picked(s)] + SumOver(f, s \ {Picked(s)})]
  <1>3. ASSUME NEW U \in SUBSET T, U # T PROVE SumOver(f, U) = h[U]
    <2>1. PICK g : Unfolds(g, f, U)
      BY <1>2, <1>3
    <2>2. IsFiniteSet(U)
      BY FS_Subset
    <2>3. SumOver(f, U) = g[U]
      BY <2>1, <2>2, SumOfSubset
    <2>4. CASE U = {}
      BY <2>1, <2>3, <2>4 DEF Unfolds
    <2>5. CASE U # {}
      <3> DEFINE W == U \ {Picked(U)}
      <3>1. W \in SUBSET U
        OBVIOUS
      <3>2. SumOver(f, W) = g[W]
        BY <2>1, <2>2, <3>1, SumOfSubset
      <3>3. g[U] = f[Picked(U)] + g[W]
        BY <2>1, <2>5 DEF Unfolds
      <3> QED BY <2>3, <2>5, <3>2, <3>3
    <2> QED BY <2>4, <2>5
  <1>4. ASSUME NEW s \in SUBSET T
        PROVE  h[s] = IF s = {} THEN 0 ELSE f[Picked(s)] + h[s \ {Picked(s)}]
    <2>1. CASE s = {}
      BY <2>1
    <2>2. CASE s # {}
      <3> DEFINE U == s \ {Picked(s)}
      <3>1. U \in SUBSET T /\ U # T
        BY <2>2, PickedInSet
      <3>2. SumOver(f, U) = h[U]
        BY <1>3, <3>1
      <3> QED BY <2>2, <3>2
    <2> QED BY <2>1, <2>2
  <1>5. Unfolds(h, f, T)
    <2> HIDE DEF h
    <2>1. h = [s \in SUBSET T |-> h[s]]
      BY DEF h
    <2> QED BY <1>4, <2>1 DEF Unfolds
  <1> QED BY <1>2, <1>5

LEMMA SumOfEmpty == ASSUME NEW f PROVE SumOver(f, {}) = 0
  <1>1. PICK g : Unfolds(g, f, {})
    BY UnfoldsExists, FS_EmptySet
  <1>2. SumOver(f, {}) = g[{}]
    BY <1>1, SumOfSubset, FS_EmptySet
  <1> QED BY <1>1, <1>2 DEF Unfolds

LEMMA SumPicked ==
  ASSUME NEW S, IsFiniteSet(S), S # {}, NEW f
  PROVE  SumOver(f, S) = f[Picked(S)] + SumOver(f, S \ {Picked(S)})
  <1>1. PICK g : Unfolds(g, f, S)
    BY UnfoldsExists
  <1> DEFINE U == S \ {Picked(S)}
  <1>2. SumOver(f, S) = g[S] /\ SumOver(f, U) = g[U]
    BY <1>1, SumOfSubset
  <1>3. g[S] = f[Picked(S)] + g[U]
    BY <1>1 DEF Unfolds
  <1> QED BY <1>2, <1>3

-----------------------------------------------------------------------------
LEMMA SumIsInteger ==
  ASSUME NEW S, IsFiniteSet(S), NEW f, \A x \in S : f[x] \in Int
  PROVE  SumOver(f, S) \in Int
  <1> DEFINE C == {s \in SUBSET S : SumOver(f, s) \notin Int}
  <1>1. SUFFICES ASSUME C # {} PROVE FALSE
    OBVIOUS
  <1>2. PICK T \in C : \A U \in C : ~(U \subseteq T /\ U # T)
    <2>1. C \in SUBSET SUBSET S
      OBVIOUS
    <2> HIDE DEF C
    <2> QED BY <1>1, <2>1, SmallestSubset
  <1>3. T # {}
    BY SumOfEmpty
  <1>4. SumOver(f, T \ {Picked(T)}) \in Int /\ f[Picked(T)] \in Int
    BY <1>2, <1>3, PickedInSet
  <1>5. SumOver(f, T) = f[Picked(T)] + SumOver(f, T \ {Picked(T)})
    BY <1>3, FS_Subset, SumPicked
  <1> QED BY <1>4, <1>5

LEMMA SumIsNatural ==
  ASSUME NEW S, IsFiniteSet(S), NEW f, \A x \in S : f[x] \in Nat
  PROVE  SumOver(f, S) \in Nat
  <1> DEFINE C == {s \in SUBSET S : SumOver(f, s) \notin Nat}
  <1>1. SUFFICES ASSUME C # {} PROVE FALSE
    OBVIOUS
  <1>2. PICK T \in C : \A U \in C : ~(U \subseteq T /\ U # T)
    <2>1. C \in SUBSET SUBSET S
      OBVIOUS
    <2> HIDE DEF C
    <2> QED BY <1>1, <2>1, SmallestSubset
  <1>3. T # {}
    BY SumOfEmpty
  <1>4. SumOver(f, T \ {Picked(T)}) \in Nat /\ f[Picked(T)] \in Nat
    BY <1>2, <1>3, PickedInSet
  <1>5. SumOver(f, T) = f[Picked(T)] + SumOver(f, T \ {Picked(T)})
    BY <1>3, FS_Subset, SumPicked
  <1> QED BY <1>4, <1>5

\* Any element may be taken out, not only the one the fold picks.
LEMMA SumRemove ==
  ASSUME NEW S, IsFiniteSet(S), NEW f, \A x \in S : f[x] \in Int, NEW e \in S
  PROVE  SumOver(f, S) = f[e] + SumOver(f, S \ {e})
  <1> DEFINE C == {s \in SUBSET S : \E x \in s : SumOver(f, s) # f[x] + SumOver(f, s \ {x})}
  <1>1. SUFFICES ASSUME C # {} PROVE FALSE
    OBVIOUS
  <1>2. PICK T \in C : \A U \in C : ~(U \subseteq T /\ U # T)
    <2>1. C \in SUBSET SUBSET S
      OBVIOUS
    <2> HIDE DEF C
    <2> QED BY <1>1, <2>1, SmallestSubset
  <1>3. PICK x \in T : SumOver(f, T) # f[x] + SumOver(f, T \ {x})
    OBVIOUS
  <1> DEFINE p == Picked(T)
             U == T \ {p}
             V == T \ {x}
  <1>4. /\ p \in T /\ IsFiniteSet(T)
        /\ U \in SUBSET S /\ IsFiniteSet(U)
        /\ V \in SUBSET S /\ IsFiniteSet(V)
    BY PickedInSet, FS_Subset
  <1>5. SumOver(f, T) = f[p] + SumOver(f, U)
    BY <1>4, SumPicked
  <1>6. x # p
    BY <1>3, <1>5
  <1>7. SumOver(f, U) = f[x] + SumOver(f, U \ {x})
    <2>1. U \notin C
      BY <1>2, <1>4
    <2>2. x \in U
      BY <1>6
    <2> QED BY <1>4, <2>1, <2>2
  <1>8. SumOver(f, V) = f[p] + SumOver(f, V \ {p})
    <2>1. V \notin C
      BY <1>2, <1>4
    <2>2. p \in V
      BY <1>4, <1>6
    <2> QED BY <1>4, <2>1, <2>2
  <1>9. U \ {x} = V \ {p} /\ IsFiniteSet(V \ {p}) /\ V \ {p} \in SUBSET S
    BY <1>4, FS_Subset
  <1>10. SumOver(f, V \ {p}) \in Int /\ f[p] \in Int /\ f[x] \in Int
    BY <1>4, <1>9, SumIsInteger
  <1>11. /\ SumOver(f, T) = f[p] + (f[x] + SumOver(f, V \ {p}))
         /\ SumOver(f, V) = f[p] + SumOver(f, V \ {p})
    BY <1>5, <1>7, <1>8, <1>9
  <1>12. SumOver(f, T) = f[x] + SumOver(f, V)
    <2> HIDE DEF p, U, V, C
    <2> QED BY <1>10, <1>11
  <1> QED BY <1>3, <1>12

LEMMA SumAgrees ==
  ASSUME NEW S, IsFiniteSet(S), NEW f, NEW g, \A x \in S : f[x] = g[x]
  PROVE  SumOver(f, S) = SumOver(g, S)
  <1> DEFINE C == {s \in SUBSET S : SumOver(f, s) # SumOver(g, s)}
  <1>1. SUFFICES ASSUME C # {} PROVE FALSE
    OBVIOUS
  <1>2. PICK T \in C : \A U \in C : ~(U \subseteq T /\ U # T)
    <2>1. C \in SUBSET SUBSET S
      OBVIOUS
    <2> HIDE DEF C
    <2> QED BY <1>1, <2>1, SmallestSubset
  <1>3. T # {}
    BY SumOfEmpty
  <1> DEFINE U == T \ {Picked(T)}
  <1>4. SumOver(f, U) = SumOver(g, U) /\ f[Picked(T)] = g[Picked(T)]
    BY <1>2, <1>3, PickedInSet
  <1>5. /\ SumOver(f, T) = f[Picked(T)] + SumOver(f, U)
        /\ SumOver(g, T) = g[Picked(T)] + SumOver(g, U)
    BY <1>3, FS_Subset, SumPicked
  <1> QED BY <1>4, <1>5

\* A row written changes the sum by what the row changes.
LEMMA SumUpdate ==
  ASSUME NEW S, IsFiniteSet(S), NEW f, NEW g, NEW e \in S,
         \A x \in S : f[x] \in Int /\ g[x] \in Int,
         \A x \in S \ {e} : g[x] = f[x]
  PROVE  SumOver(g, S) = SumOver(f, S) + g[e] - f[e]
  <1> DEFINE V == S \ {e}
  <1>1. IsFiniteSet(V)
    BY FS_Subset
  <1>2. SumOver(f, S) = f[e] + SumOver(f, V) /\ SumOver(g, S) = g[e] + SumOver(g, V)
    BY SumRemove
  <1>3. SumOver(f, V) = SumOver(g, V) /\ SumOver(f, V) \in Int
    BY <1>1, SumAgrees, SumIsInteger
  <1>4. f[e] \in Int /\ g[e] \in Int
    OBVIOUS
  <1> QED BY <1>2, <1>3, <1>4

\* No summand exceeds a sum of naturals.
LEMMA SummandBound ==
  ASSUME NEW S, IsFiniteSet(S), NEW f, \A x \in S : f[x] \in Nat, NEW e \in S
  PROVE  f[e] <= SumOver(f, S)
  <1>1. IsFiniteSet(S \ {e})
    BY FS_Subset
  <1>2. SumOver(f, S) = f[e] + SumOver(f, S \ {e})
    BY SumRemove
  <1>3. SumOver(f, S \ {e}) \in Nat /\ f[e] \in Nat
    BY <1>1, SumIsNatural
  <1> QED BY <1>2, <1>3

\* The sum over a set is the sum over a part and the sum over the rest.
LEMMA SumSplit ==
  ASSUME NEW S, IsFiniteSet(S), NEW f, \A x \in S : f[x] \in Int, NEW T \in SUBSET S
  PROVE  SumOver(f, S) = SumOver(f, T) + SumOver(f, S \ T)
  <1> DEFINE C == {s \in SUBSET S : SumOver(f, S) # SumOver(f, s) + SumOver(f, S \ s)}
  <1>1. SUFFICES ASSUME C # {} PROVE FALSE
    OBVIOUS
  <1>2. PICK U \in C : \A V \in C : ~(V \subseteq U /\ V # U)
    <2>1. C \in SUBSET SUBSET S
      OBVIOUS
    <2> HIDE DEF C
    <2> QED BY <1>1, <2>1, SmallestSubset
  <1>3. U # {}
    <2>1. SUFFICES ASSUME U = {} PROVE FALSE
      OBVIOUS
    <2>2. S \ U = S /\ SumOver(f, S) \in Int /\ SumOver(f, U) = 0
      BY <2>1, SumIsInteger, SumOfEmpty
    <2>3. SumOver(f, S) = 0 + SumOver(f, S)
      BY <2>2
    <2> QED BY <2>2, <2>3
  <1>4. PICK e \in U : TRUE
    BY <1>3
  <1> DEFINE W == U \ {e}
  <1>5. /\ W \in SUBSET S /\ IsFiniteSet(W) /\ IsFiniteSet(U)
        /\ IsFiniteSet(S \ W) /\ IsFiniteSet(S \ U) /\ (S \ W) \ {e} = S \ U
    BY FS_Subset
  <1>6. SumOver(f, S) = SumOver(f, W) + SumOver(f, S \ W)
    BY <1>2, <1>5
  <1>7. SumOver(f, S \ W) = f[e] + SumOver(f, S \ U)
    <2>1. e \in S \ W
      OBVIOUS
    <2> QED BY <1>5, <2>1, SumRemove
  <1>8. SumOver(f, U) = f[e] + SumOver(f, W)
    BY <1>5, SumRemove
  <1>9. SumOver(f, W) \in Int /\ SumOver(f, S \ U) \in Int /\ f[e] \in Int
    BY <1>5, SumIsInteger
  <1>10. SumOver(f, S) = SumOver(f, U) + SumOver(f, S \ U)
    <2> HIDE DEF W, C
    <2> QED BY <1>6, <1>7, <1>8, <1>9
  <1> QED BY <1>10

LEMMA SumOfPart ==
  ASSUME NEW S, IsFiniteSet(S), NEW f, \A x \in S : f[x] \in Nat, NEW T \in SUBSET S
  PROVE  SumOver(f, T) <= SumOver(f, S)
  <1>1. SumOver(f, S) = SumOver(f, T) + SumOver(f, S \ T)
    BY SumSplit
  <1>2. SumOver(f, T) \in Nat /\ SumOver(f, S \ T) \in Nat
    BY FS_Subset, SumIsNatural
  <1> QED BY <1>1, <1>2

\* Rows changed all at once: the sums differ by the sum of the changes.
LEMMA SumOfChanges ==
  ASSUME NEW S, IsFiniteSet(S), NEW f, NEW g, NEW h,
         \A x \in S : f[x] \in Int /\ g[x] \in Int /\ h[x] = f[x] + g[x]
  PROVE  SumOver(h, S) = SumOver(f, S) + SumOver(g, S)
  <1> DEFINE C == {s \in SUBSET S : SumOver(h, s) # SumOver(f, s) + SumOver(g, s)}
  <1>1. SUFFICES ASSUME C # {} PROVE FALSE
    OBVIOUS
  <1>2. PICK T \in C : \A U \in C : ~(U \subseteq T /\ U # T)
    <2>1. C \in SUBSET SUBSET S
      OBVIOUS
    <2> HIDE DEF C
    <2> QED BY <1>1, <2>1, SmallestSubset
  <1>3. T # {}
    <2>1. SumOver(f, {}) = 0 /\ SumOver(g, {}) = 0 /\ SumOver(h, {}) = 0 /\ 0 = 0 + 0
      BY SumOfEmpty
    <2>2. SumOver(h, {}) = SumOver(f, {}) + SumOver(g, {})
      BY <2>1
    <2> QED BY <2>2
  <1> DEFINE e == Picked(T)
             U == T \ {e}
  <1>4. e \in T /\ IsFiniteSet(T) /\ IsFiniteSet(U) /\ U \in SUBSET S
    BY <1>3, PickedInSet, FS_Subset
  <1>5. SumOver(h, U) = SumOver(f, U) + SumOver(g, U)
    BY <1>2, <1>4
  <1>6. /\ SumOver(f, T) = f[e] + SumOver(f, U)
        /\ SumOver(g, T) = g[e] + SumOver(g, U)
        /\ SumOver(h, T) = h[e] + SumOver(h, U)
    BY <1>3, <1>4, SumPicked
  <1>7. /\ f[e] \in Int /\ g[e] \in Int /\ h[e] = f[e] + g[e]
        /\ SumOver(f, U) \in Int /\ SumOver(g, U) \in Int
    BY <1>4, SumIsInteger
  <1>8. SumOver(h, T) = SumOver(f, T) + SumOver(g, T)
    <2> HIDE DEF e, U, C
    <2> QED BY <1>5, <1>6, <1>7
  <1> QED BY <1>8

\* A sum of nothing but zeros doubles when it is added to itself.
LEMMA SumOfZeros ==
  ASSUME NEW S, IsFiniteSet(S), NEW f, \A x \in S : f[x] = 0
  PROVE  SumOver(f, S) = 0
  <1>1. \A x \in S : f[x] \in Int /\ f[x] = f[x] + f[x]
    OBVIOUS
  <1>2. SumOver(f, S) \in Int
    BY <1>1, SumIsInteger
  <1>3. SumOver(f, S) = SumOver(f, S) + SumOver(f, S)
    BY <1>1, SumOfChanges
  <1>4. \A n \in Int : n = n + n => n = 0
    OBVIOUS
  <1> QED BY <1>2, <1>3, <1>4

-----------------------------------------------------------------------------
(* Least and greatest elements. *)

LEMMA LeastNatural ==
  ASSUME NEW T \in SUBSET Nat, T # {}
  PROVE  \E x \in T : \A y \in T : x <= y
  <1>1. PICK x \in T : \A y \in T : ~ (<<y, x>> \in OpToRel(<, Nat))
    BY NatLessThanWellFounded, WFMin
  <1>2. \A y \in T : ~(y < x)
    BY <1>1 DEF OpToRel
  <1> QED BY <1>2

LEMMA GreatestElement ==
  ASSUME NEW S, IsFiniteSet(S), S # {}, NEW f, \A x \in S : f[x] \in Int
  PROVE  \E x \in S : \A y \in S : f[y] <= f[x]
  <1> DEFINE C == {s \in SUBSET S : s # {} /\ ~ \E x \in s : \A y \in s : f[y] <= f[x]}
  <1>1. SUFFICES ASSUME C # {} PROVE FALSE
    OBVIOUS
  <1>2. PICK T \in C : \A U \in C : ~(U \subseteq T /\ U # T)
    <2>1. C \in SUBSET SUBSET S
      OBVIOUS
    <2> HIDE DEF C
    <2> QED BY <1>1, <2>1, SmallestSubset
  <1>3. PICK e \in T : TRUE
    OBVIOUS
  <1>4. f[e] \in Int /\ f[e] <= f[e]
    OBVIOUS
  <1>5. T \ {e} # {}
    BY <1>4
  <1>6. PICK x \in T \ {e} : \A y \in T \ {e} : f[y] <= f[x]
    <2>1. T \ {e} \notin C
      BY <1>2
    <2> QED BY <1>5, <2>1
  <1>7. f[x] \in Int /\ f[x] <= f[x]
    OBVIOUS
  <1>8. CASE f[e] <= f[x]
    BY <1>6, <1>8
  <1>9. CASE ~(f[e] <= f[x])
    <2>1. \A y \in T : f[y] <= f[e]
      BY <1>4, <1>6, <1>7, <1>9
    <2> QED BY <2>1
  <1> QED BY <1>8, <1>9
-----------------------------------------------------------------------------
(* Payments. *)

Money == MoneyRow \cup DueRow

LEMMA BalanceType ==
  ASSUME NEW u \in Money
  PROVE  /\ PrincipalBalance(u) \in Nat /\ PenaltyBalance(u) \in Nat
         /\ CalculateDueBalance(u) = PrincipalBalance(u) + PenaltyBalance(u)
         /\ CalculateDueBalance(u) \in Nat
  BY DEF Money, MoneyRow, DueRow, PrincipalBalance, PenaltyBalance, CalculateDueBalance,
         NonNegative

\* Neither half takes more than is paid or than it owes.
LEMMA SharesType ==
  ASSUME NEW u \in DueRow, NEW n \in Nat, NEW k
  PROVE  /\ PrincipalShare(u, n, k) \in 0 .. n /\ PenaltyShare(u, n, k) \in 0 .. n
         /\ PrincipalShare(u, n, k) <= PrincipalBalance(u)
         /\ PenaltyShare(u, n, k) <= PenaltyBalance(u)
  BY DEF DueRow, PrincipalShare, PenaltyShare, PrincipalBalance, PenaltyBalance,
         NonNegative, Lesser

LEMMA StatusType ==
  ASSUME NEW u PROVE PaymentStatus(u) \in {"paid", "partial", "due"}
  BY DEF PaymentStatus

\* A payment touches what was received and the status, and nothing else.
LEMMA AllocateType ==
  ASSUME NEW u \in DueRow, NEW n \in Nat, NEW k
  PROVE  /\ AllocatePayment(u, n, k) \in DueRow
         /\ AllocatePayment(u, n, k).paid = u.paid + PrincipalShare(u, n, k)
         /\ AllocatePayment(u, n, k).penaltyPaid = u.penaltyPaid + PenaltyShare(u, n, k)
         /\ AllocatePayment(u, n, k).amount = u.amount
         /\ AllocatePayment(u, n, k).waived = u.waived
         /\ AllocatePayment(u, n, k).penaltyDue = u.penaltyDue
         /\ AllocatePayment(u, n, k).status = PaymentStatus(AllocatePayment(u, n, k))
  <1> DEFINE a == PrincipalShare(u, n, k)
             b == PenaltyShare(u, n, k)
             v == [u EXCEPT !.paid = @ + a, !.penaltyPaid = @ + b]
             w == [v EXCEPT !.status = PaymentStatus(v)]
  <1>1. AllocatePayment(u, n, k) = w
    BY DEF AllocatePayment
  <1>2. a \in Nat /\ b \in Nat
    BY SharesType
  <1> HIDE DEF a, b
  <1>3. /\ v \in DueRow
        /\ v.paid = u.paid + a /\ v.penaltyPaid = u.penaltyPaid + b
        /\ v.amount = u.amount /\ v.waived = u.waived /\ v.penaltyDue = u.penaltyDue
    <2> HIDE DEF w
    <2>1. u.paid + a \in Nat /\ u.penaltyPaid + b \in Nat
      BY <1>2 DEF DueRow
    <2>2. v \in DueRow
      BY <2>1 DEF DueRow
    <2> QED BY <2>2 DEF DueRow
  <1>4. PaymentStatus(v) \in DueStatuses
    BY StatusType DEF DueStatuses
  <1> HIDE DEF v
  <1>5. /\ w \in DueRow /\ w.paid = v.paid /\ w.penaltyPaid = v.penaltyPaid
        /\ w.amount = v.amount /\ w.waived = v.waived /\ w.penaltyDue = v.penaltyDue
        /\ w.status = PaymentStatus(v)
    BY <1>3, <1>4 DEF DueRow
  <1>6. PaymentStatus(w) = PaymentStatus(v)
    BY <1>5 DEF PaymentStatus
  <1> HIDE DEF w
  <1> QED BY <1>1, <1>3, <1>5, <1>6 DEF a, b

-----------------------------------------------------------------------------
(***************************************************************************)
(* allocatePayment conserves money: a payment that a due can take is       *)
(* divided between its penalty and its principal without remainder, in     *)
(* either priority, and lowers what is owed by exactly its amount.         *)
(***************************************************************************)
THEOREM PaymentConserved ==
  ASSUME NEW u \in DueRow, NEW k, NEW n \in 0 .. CalculateDueBalance(u)
  PROVE  /\ PrincipalShare(u, n, k) + PenaltyShare(u, n, k) = n
         /\ CalculateDueBalance(AllocatePayment(u, n, k)) = CalculateDueBalance(u) - n
  <1> DEFINE v == AllocatePayment(u, n, k)
             p == PrincipalShare(u, n, k)
             q == PenaltyShare(u, n, k)
  <1>1. u \in Money /\ PrincipalBalance(u) \in Nat /\ PenaltyBalance(u) \in Nat
        /\ CalculateDueBalance(u) = PrincipalBalance(u) + PenaltyBalance(u)
        /\ CalculateDueBalance(u) \in Nat /\ n \in Nat
    BY BalanceType DEF Money
  <1>2. p + q = n
    BY <1>1 DEF PrincipalShare, PenaltyShare, Lesser
  <1>3. /\ p \in Nat /\ p <= PrincipalBalance(u)
        /\ q \in Nat /\ q <= PenaltyBalance(u)
    BY <1>1, SharesType
  <1>4. /\ v \in DueRow
        /\ v.paid = u.paid + p /\ v.penaltyPaid = u.penaltyPaid + q
        /\ v.amount = u.amount /\ v.waived = u.waived /\ v.penaltyDue = u.penaltyDue
    BY <1>1, AllocateType
  <1> HIDE DEF v, p, q
  <1>5. PrincipalBalance(v) = PrincipalBalance(u) - p
    BY <1>3, <1>4 DEF DueRow, PrincipalBalance, NonNegative
  <1>6. PenaltyBalance(v) = PenaltyBalance(u) - q
    BY <1>3, <1>4 DEF DueRow, PenaltyBalance, NonNegative
  <1>7. CalculateDueBalance(v) = CalculateDueBalance(u) - n
    <2>1. CalculateDueBalance(v) = PrincipalBalance(v) + PenaltyBalance(v)
      BY DEF CalculateDueBalance
    <2>2. CalculateDueBalance(v) = (PrincipalBalance(u) - p) + (PenaltyBalance(u) - q)
      BY <1>5, <1>6, <2>1
    <2>3. (PrincipalBalance(u) - p) + (PenaltyBalance(u) - q)
            = (PrincipalBalance(u) + PenaltyBalance(u)) - (p + q)
      BY <1>1, <1>3
    <2> QED BY <1>1, <1>2, <2>2, <2>3
  <1> QED BY <1>2, <1>7 DEF v, p, q

(***************************************************************************)
(* The status allocatePayment gives a due reads "paid" exactly when        *)
(* nothing is owed on it any more.                                         *)
(***************************************************************************)
THEOREM PaidMeansSettled ==
  ASSUME NEW u \in DueRow, NEW k, NEW n \in Nat
  PROVE  LET v == AllocatePayment(u, n, k)
         IN  v.status = "paid" <=> CalculateDueBalance(v) = 0
  <1> DEFINE v == AllocatePayment(u, n, k)
  <1>1. v \in DueRow /\ v.status = PaymentStatus(v)
    BY AllocateType
  <1> HIDE DEF v
  <1>2. v.status = "paid" <=> v.paid + v.waived >= v.amount /\ v.penaltyPaid >= v.penaltyDue
    BY <1>1 DEF PaymentStatus
  <1>3. CalculateDueBalance(v) = 0
          <=> v.paid + v.waived >= v.amount /\ v.penaltyPaid >= v.penaltyDue
    BY <1>1 DEF DueRow, CalculateDueBalance, PrincipalBalance, PenaltyBalance, NonNegative
  <1> QED BY <1>2, <1>3 DEF v

-----------------------------------------------------------------------------
(* The plan for several dues. *)

LEMMA PlanType ==
  ASSUME NEW rows, NEW D, NEW rank, NEW amount \in Nat, \A u \in D : rows[u] \in Money,
         NEW p \in PlanDepositAllocation(rows, D, rank, amount), NEW u \in D
  PROVE  p \in [D -> Nat] /\ p[u] \in 0 .. CalculateDueBalance(rows[u])
  <1>1. p \in [D -> 0 .. amount] /\ CalculateDueBalance(rows[u]) \in Nat
    BY BalanceType DEF PlanDepositAllocation
  <1>2. p[u] = Lesser(amount - AssignedBefore(p, D, rank, u), CalculateDueBalance(rows[u]))
    BY DEF PlanDepositAllocation
  <1>3. p[u] \in Nat
    BY <1>1
  <1>4. p[u] <= CalculateDueBalance(rows[u])
    BY <1>1, <1>2, <1>3 DEF Lesser
  <1> QED BY <1>1, <1>3, <1>4

(***************************************************************************)
(* A payment that does not exceed what its dues owe together is assigned   *)
(* to them in full, whatever their number: a posted payment leaves nothing *)
(* unallocated.  The dues are visited in an order without ties.            *)
(***************************************************************************)
THEOREM PlanTakesAll ==
  ASSUME NEW rows, NEW D, IsFiniteSet(D), \A u \in D : rows[u] \in Money,
         NEW rank, \A u \in D : rank[u] \in Int,
         \A u, v \in D : rank[u] = rank[v] => u = v,
         NEW amount \in Nat, amount <= TotalBalance(rows, D),
         NEW p \in PlanDepositAllocation(rows, D, rank, amount)
  PROVE  SumOver(p, D) = amount
  <1> DEFINE B     == [u \in D |-> CalculateDueBalance(rows[u])]
             Up(u) == {e \in D : rank[e] < rank[u]}
  <1>1. /\ \A u \in D : B[u] \in Nat
        /\ \A u \in D : p[u] \in Nat /\ p[u] <= B[u]
        /\ \A u \in D : p[u] = Lesser(amount - SumOver(p, Up(u)), B[u])
    <2>1. \A u \in D : B[u] \in Nat
      BY BalanceType
    <2>2. \A u \in D : p[u] \in Nat /\ p[u] <= B[u]
      BY <2>1, PlanType
    <2>3. \A u \in D : p[u] = Lesser(amount - SumOver(p, Up(u)), B[u])
      BY DEF PlanDepositAllocation, AssignedBefore
    <2> QED BY <2>1, <2>2, <2>3
  <1>2. SumOver(B, D) = TotalBalance(rows, D)
    BY DEF TotalBalance
  <1>3. SumOver(p, D) \in Nat /\ SumOver(B, D) \in Nat
    BY <1>1, SumIsNatural
  <1> HIDE DEF B
  <1>4. ASSUME NEW u \in D
        PROVE  /\ SumOver(p, Up(u)) \in Nat
               /\ SumOver(p, Up(u)) + p[u] = SumOver(p, Up(u) \cup {u})
    <2> DEFINE V == Up(u) \cup {u}
    <2>1. IsFiniteSet(Up(u)) /\ IsFiniteSet(V) /\ V \in SUBSET D /\ u \in V
      BY FS_Subset
    <2>2. V \ {u} = Up(u)
      OBVIOUS
    <2>3. \A x \in V : p[x] \in Int
      BY <1>1
    <2>4. SumOver(p, V) = p[u] + SumOver(p, V \ {u})
      BY <2>1, <2>3, SumRemove
    <2>5. SumOver(p, Up(u)) \in Nat
      BY <1>1, <2>1, SumIsNatural
    <2>6. p[u] \in Nat
      BY <1>1
    <2>7. SumOver(p, Up(u)) + p[u] = SumOver(p, V)
      <3>1. SumOver(p, V) = p[u] + SumOver(p, Up(u))
        <4> HIDE DEF Up, V
        <4> QED BY <2>2, <2>4
      <3> HIDE DEF Up, V
      <3> QED BY <2>5, <2>6, <3>1
    <2> QED BY <2>5, <2>7
  <1>5. SumOver(p, D) <= amount
    <2>1. CASE D = {}
      BY <2>1, SumOfEmpty
    <2>2. CASE D # {}
      <3>1. PICK u \in D : \A v \in D : rank[v] <= rank[u]
        BY <2>2, GreatestElement
      <3>2. Up(u) \cup {u} = D
        BY <3>1
      <3>3. SumOver(p, Up(u)) + p[u] = SumOver(p, D) /\ SumOver(p, Up(u)) \in Nat
        BY <1>4, <3>2
      <3>4. p[u] = Lesser(amount - SumOver(p, Up(u)), B[u])
        BY <1>1
      <3>5. p[u] <= amount - SumOver(p, Up(u))
        BY <1>1, <3>3, <3>4 DEF Lesser
      <3> QED BY <1>1, <3>3, <3>5
    <2> QED BY <2>1, <2>2
  <1>6. CASE \A u \in D : p[u] = B[u]
    <2>1. SumOver(p, D) = SumOver(B, D)
      BY <1>6, SumAgrees
    <2> QED BY <1>2, <1>3, <1>5, <2>1
  <1>7. CASE \E u \in D : p[u] # B[u]
    <2>1. PICK u \in D : p[u] # B[u]
      BY <1>7
    <2>2. p[u] = amount - SumOver(p, Up(u))
      BY <1>1, <2>1 DEF Lesser
    <2>3. SumOver(p, Up(u) \cup {u}) = amount
      <3>1. p[u] \in Nat /\ SumOver(p, Up(u)) \in Nat
            /\ SumOver(p, Up(u)) + p[u] = SumOver(p, Up(u) \cup {u})
        BY <1>1, <1>4
      <3> HIDE DEF Up
      <3> QED BY <2>2, <3>1
    <2>4. SumOver(p, Up(u) \cup {u}) <= SumOver(p, D)
      <3>1. Up(u) \cup {u} \in SUBSET D
        OBVIOUS
      <3> HIDE DEF Up
      <3> QED BY <1>1, <3>1, SumOfPart
    <2> QED BY <1>3, <1>5, <2>3, <2>4
  <1> QED BY <1>6, <1>7

=============================================================================
