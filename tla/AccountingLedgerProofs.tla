----------------------- MODULE AccountingLedgerProofs -----------------------
(***************************************************************************)
(* The spend store as a ledger.  First the totals: a quota's balance and an *)
(* account's running totals agree with the sums over all reservations, and  *)
(* neither is overdrawn beyond what charges overran their estimates.  Then  *)
(* the refinement: the spend store implements SpendLedger.                  *)
(*                                                                          *)
(* The sums are SumFunctionOnSet, a recursive function on the subsets of    *)
(* the reservations.  What such a function computes is shown by minimal     *)
(* counterexamples: the finite sets are well founded under inclusion, so    *)
(* the subsets for which a claim fails, if any, have a least one.           *)
(***************************************************************************)
EXTENDS AccountingProofs, AccountingLedger, FiniteSetTheorems,
        WellFoundedInduction

-----------------------------------------------------------------------------
(***************************************************************************)
(* Sums over finite sets.                                                   *)
(***************************************************************************)
\* The element SumFunctionOnSet adds next.
Pick(s) == CHOOSE x \in s : TRUE

\* g adds up f over every set of D.
Partial(f, g, D) ==
  g = [s \in D |-> IF s = {} THEN 0 ELSE f[Pick(s)] + g[s \ {Pick(s)}]]

\* The function of all subsets of S that the sum over S is the last value of.
Total(f, S) == CHOOSE g : Partial(f, g, SUBSET S)

\* SumFunctionOnSet is that last value.
LEMMA SumUnfolds ==
  ASSUME NEW f, NEW S
  PROVE  SumFunctionOnSet(f, S) = Total(f, S)[S]
  BY Zenon DEF SumFunctionOnSet, FoldFunctionOnSet, MapThenFoldSet, Total, Partial,
               Pick

\* A nonempty set of naturals has a least element.
LEMMA LeastNatural ==
  ASSUME NEW T, T \subseteq Nat, T # {}
  PROVE  \E x \in T : \A y \in T : ~(y < x)
  <1>1. IsWellFoundedOn(OpToRel(<, Nat), Nat)
    BY NatLessThanWellFounded, Zenon
  <1>2. \E x \in T : \A y \in T : ~(<<y, x>> \in OpToRel(<, Nat))
    BY <1>1, WFMin, Zenon
  <1> QED BY <1>2 DEF OpToRel

\* A nonempty family of subsets of a finite set has a minimal member.
LEMMA MinimalSubset ==
  ASSUME NEW S, IsFiniteSet(S), NEW T, T \subseteq SUBSET S, T # {}
  PROVE  \E s \in T : \A u \in T : u \subseteq s => u = s
  <1>1. IsWellFoundedOn(StrictSubsetOrdering(S), SUBSET S)
    BY FS_StrictSubsetOrderingWellFounded, FS_FiniteSubsetsOfFinite, Zenon
  <1>2. PICK s \in T : \A u \in T : ~(<<u, s>> \in StrictSubsetOrdering(S))
    BY <1>1, WFMin, Zenon
  <1> QED BY <1>2 DEF StrictSubsetOrdering

\* Adding up takes one element away at a time.
LEMMA SmallerSubset ==
  ASSUME NEW S, NEW u \in SUBSET S, u # {}
  PROVE  /\ Pick(u) \in u
         /\ u \ {Pick(u)} \in SUBSET S
         /\ u \ {Pick(u)} \subseteq u
         /\ u \ {Pick(u)} # u
  BY DEF Pick

\* The recursion is well defined: level by level, by cardinality.
LEMMA PartialExists ==
  ASSUME NEW f, NEW S, IsFiniteSet(S)
  PROVE  \E g : Partial(f, g, SUBSET S)
  <1> DEFINE Level(n) == {s \in SUBSET S : Cardinality(s) <= n}
             Bad == {n \in Nat : ~ \E g : Partial(f, g, Level(n))}
  <1>0. ASSUME NEW s \in SUBSET S
        PROVE  /\ Cardinality(s) \in Nat
               /\ Cardinality(s) <= Cardinality(S)
               /\ s = {} <=> Cardinality(s) = 0
               /\ s # {} => Cardinality(s \ {Pick(s)}) = Cardinality(s) - 1
    BY FS_Subset, FS_CardinalityType, FS_EmptySet, FS_RemoveElement, SmallerSubset
  <1>1. 0 \notin Bad
    <2>1. ASSUME NEW s \in Level(0)
          PROVE  s = {}
      <3>1. /\ Cardinality(s) \in Nat
            /\ s = {} <=> Cardinality(s) = 0
        BY <1>0, Zenon
      <3>2. Cardinality(s) <= 0
        BY Zenon
      <3> QED BY <3>1, <3>2
    <2>2. Partial(f, [s \in Level(0) |-> 0], Level(0))
      <3> HIDE DEF Level
      <3> QED BY <2>1 DEF Partial
    <2> QED BY <2>2
  <1>2. ASSUME NEW n \in Nat, n \notin Bad
        PROVE  n + 1 \notin Bad
    <2>1. PICK g : Partial(f, g, Level(n))
      BY <1>2
    <2> DEFINE h == [s \in Level(n + 1) |->
                       IF s = {} THEN 0 ELSE f[Pick(s)] + g[s \ {Pick(s)}]]
    <2>2. ASSUME NEW s \in Level(n + 1), s # {}
          PROVE  s \ {Pick(s)} \in Level(n) /\ s \ {Pick(s)} \in Level(n + 1)
      BY <1>0, <2>2
    <2>3. ASSUME NEW s \in Level(n)
          PROVE  s \in Level(n + 1) /\ g[s] = h[s]
      <3>1. s \in Level(n + 1)
        <4>1. s \in SUBSET S /\ Cardinality(s) <= n
          BY Zenon
        <4>2. Cardinality(s) \in Nat
          BY <1>0, <4>1, Zenon
        <4>3. Cardinality(s) <= n + 1
          BY <4>1, <4>2
        <4> QED BY <4>1, <4>3, Zenon
      <3>2. g[s] = IF s = {} THEN 0 ELSE f[Pick(s)] + g[s \ {Pick(s)}]
        <4> HIDE DEF Level
        <4> QED BY <2>1 DEF Partial
      <3> QED BY <3>1, <3>2
    <2>4. Partial(f, h, Level(n + 1))
      <3>1. ASSUME NEW s \in Level(n + 1), s # {}
            PROVE  g[s \ {Pick(s)}] = h[s \ {Pick(s)}]
        BY <2>2, <2>3, <3>1
      <3> QED BY <3>1 DEF Partial
    <2> QED BY <2>4
  <1>3. Bad = {}
    <2> SUFFICES ASSUME Bad # {} PROVE FALSE
      OBVIOUS
    <2>1. PICK m \in Bad : \A k \in Bad : ~(k < m)
      BY LeastNatural
    <2>2. m \in Nat /\ m # 0
      BY <1>1
    <2> HIDE DEF Bad
    <2>3. m - 1 \in Nat /\ m - 1 \notin Bad
      BY <2>1, <2>2
    <2>4. (m - 1) + 1 \notin Bad
      BY <1>2, <2>3
    <2> QED BY <2>1, <2>2, <2>4
  <1>4. Level(Cardinality(S)) = SUBSET S /\ Cardinality(S) \in Nat
    BY <1>0, FS_CardinalityType
  <1> QED BY <1>3, <1>4

LEMMA TotalStep ==
  ASSUME NEW S, IsFiniteSet(S), NEW f, NEW u \in SUBSET S
  PROVE  /\ u = {} => Total(f, S)[u] = 0
         /\ u # {} => Total(f, S)[u] = f[Pick(u)] + Total(f, S)[u \ {Pick(u)}]
  <1>1. Partial(f, Total(f, S), SUBSET S)
    BY PartialExists, Zenon DEF Total
  <1> DEFINE g == Total(f, S)
  <1> HIDE DEF g
  <1>2. Partial(f, g, SUBSET S)
    BY <1>1 DEF g
  <1>3. g[u] = IF u = {} THEN 0 ELSE f[Pick(u)] + g[u \ {Pick(u)}]
    BY <1>2 DEF Partial
  <1> QED BY <1>3 DEF g

\* A sum stays in any set of numbers that holds the addends, 0 and the sum of
\* any two of its members.
LEMMA TotalIn ==
  ASSUME NEW S, IsFiniteSet(S), NEW A, 0 \in A, \A x, y \in A : x + y \in A,
         NEW f \in [S -> A]
  PROVE  \A s \in SUBSET S : Total(f, S)[s] \in A
  <1> DEFINE Bad == {u \in SUBSET S : Total(f, S)[u] \notin A}
  <1>1. Bad \subseteq SUBSET S
    OBVIOUS
  <1>2. Bad = {}
    <2> SUFFICES ASSUME Bad # {} PROVE FALSE
      OBVIOUS
    <2>1. PICK u \in Bad : \A w \in Bad : w \subseteq u => w = u
      <3> HIDE DEF Bad
      <3> QED BY <1>1, MinimalSubset
    <2>2. u \in SUBSET S
      OBVIOUS
    <2>3. u # {}
      <3>1. u = {} => Total(f, S)[u] = 0
        BY <2>2, TotalStep, Zenon
      <3> QED BY <3>1
    <2> DEFINE w == u \ {Pick(u)}
    <2>4. Pick(u) \in u /\ w \in SUBSET S /\ w \subseteq u /\ w # u
      BY <2>2, <2>3, SmallerSubset
    <2>5. w \notin Bad
      BY <2>1, <2>4, Zenon
    <2>6. Total(f, S)[w] \in A
      BY <2>4, <2>5, Zenon
    <2>7. Total(f, S)[u] = f[Pick(u)] + Total(f, S)[w]
      BY <2>2, <2>3, TotalStep, Zenon
    <2>8. f[Pick(u)] \in A
      BY <2>2, <2>4
    <2>9. Total(f, S)[u] \in A
      <3> HIDE DEF w
      <3> QED BY <2>6, <2>7, <2>8
    <2> QED BY <2>9
  <1> QED BY <1>2

\* Changing one addend changes the total of a set that has it by the difference.
ShiftedTotal(f, h, r, S, u) ==
  Total(h, S)[u] = Total(f, S)[u] + (IF r \in u THEN h[r] - f[r] ELSE 0)

LEMMA UpdateStep ==
  ASSUME NEW S, IsFiniteSet(S), NEW f \in [S -> Int], NEW h \in [S -> Int],
         NEW r \in S, \A q \in S \ {r} : h[q] = f[q], NEW u \in SUBSET S,
         u # {} => ShiftedTotal(f, h, r, S, u \ {Pick(u)})
  PROVE  ShiftedTotal(f, h, r, S, u)
  <1>1. CASE u = {}
    <2>1. Total(f, S)[u] = 0
      BY <1>1, TotalStep, Zenon
    <2>2. Total(h, S)[u] = 0
      BY <1>1, TotalStep, Zenon
    <2> QED BY <1>1, <2>1, <2>2 DEF ShiftedTotal
  <1>2. CASE u # {}
    <2> DEFINE w == u \ {Pick(u)}
    <2>1. Total(f, S)[u] = f[Pick(u)] + Total(f, S)[w]
      BY <1>2, TotalStep, Zenon
    <2>2. Total(h, S)[u] = h[Pick(u)] + Total(h, S)[w]
      BY <1>2, TotalStep, Zenon
    <2>3. Pick(u) \in u /\ w \in SUBSET S
      BY <1>2, SmallerSubset
    <2>4. Total(f, S)[w] \in Int /\ Total(h, S)[w] \in Int
      <3>1. 0 \in Int /\ \A x, y \in Int : x + y \in Int
        OBVIOUS
      <3>2. Total(f, S)[w] \in Int
        BY <2>3, <3>1, TotalIn, Zenon
      <3>3. Total(h, S)[w] \in Int
        BY <2>3, <3>1, TotalIn, Zenon
      <3> QED BY <3>2, <3>3
    <2>5. ShiftedTotal(f, h, r, S, w)
      BY <1>2
    <2>6. CASE Pick(u) = r
      <3>1. r \in u /\ r \notin w
        BY <2>3, <2>6
      <3> HIDE DEF w
      <3> QED BY <2>1, <2>2, <2>4, <2>5, <2>6, <3>1 DEF ShiftedTotal
    <2>7. CASE Pick(u) # r
      <3>1. r \in u <=> r \in w
        BY <2>7
      <3>2. h[Pick(u)] = f[Pick(u)] /\ f[Pick(u)] \in Int
        BY <2>3, <2>7
      <3> HIDE DEF w
      <3> QED BY <2>1, <2>2, <2>4, <2>5, <3>1, <3>2 DEF ShiftedTotal
    <2> QED BY <2>6, <2>7
  <1> QED BY <1>1, <1>2

LEMMA TotalUpdate ==
  ASSUME NEW S, IsFiniteSet(S), NEW f \in [S -> Int], NEW h \in [S -> Int],
         NEW r \in S, \A q \in S \ {r} : h[q] = f[q]
  PROVE  \A s \in SUBSET S : ShiftedTotal(f, h, r, S, s)
  <1> DEFINE Bad == {u \in SUBSET S : ~ShiftedTotal(f, h, r, S, u)}
  <1>1. Bad \subseteq SUBSET S
    OBVIOUS
  <1>2. Bad = {}
    <2> SUFFICES ASSUME Bad # {} PROVE FALSE
      OBVIOUS
    <2>1. PICK u \in Bad : \A w \in Bad : w \subseteq u => w = u
      <3> HIDE DEF Bad
      <3> QED BY <1>1, MinimalSubset
    <2>2. u \in SUBSET S
      OBVIOUS
    <2>3. ASSUME u # {}
          PROVE  ShiftedTotal(f, h, r, S, u \ {Pick(u)})
      <3>1. /\ u \ {Pick(u)} \in SUBSET S
            /\ u \ {Pick(u)} \subseteq u
            /\ u \ {Pick(u)} # u
        BY <2>2, <2>3, SmallerSubset
      <3>2. u \ {Pick(u)} \notin Bad
        BY <2>1, <3>1, Zenon
      <3> QED BY <3>1, <3>2, Zenon
    <2>4. ShiftedTotal(f, h, r, S, u)
      BY <2>2, <2>3, UpdateStep
    <2> QED BY <2>4
  <1> QED BY <1>2

\* A sum of naturals is one, a sum of zeros is 0.
LEMMA SumOfNaturals ==
  ASSUME NEW S, IsFiniteSet(S), NEW f \in [S -> Nat]
  PROVE  SumFunctionOnSet(f, S) \in Nat
  <1>1. 0 \in Nat /\ \A x, y \in Nat : x + y \in Nat
    OBVIOUS
  <1>2. \A s \in SUBSET S : Total(f, S)[s] \in Nat
    BY <1>1, TotalIn, Zenon
  <1> QED BY <1>2, SumUnfolds, Zenon

LEMMA SumOfZeros ==
  ASSUME NEW S, IsFiniteSet(S), NEW f \in [S -> {0}]
  PROVE  SumFunctionOnSet(f, S) = 0
  <1>1. 0 \in {0} /\ \A x, y \in {0} : x + y \in {0}
    OBVIOUS
  <1>2. \A s \in SUBSET S : Total(f, S)[s] \in {0}
    BY <1>1, TotalIn, Zenon
  <1>3. Total(f, S)[S] = 0
    BY <1>2, Zenon
  <1> QED BY <1>3, SumUnfolds, Zenon

\* Changing one addend changes the sum by the difference.
LEMMA SumUpdate ==
  ASSUME NEW S, IsFiniteSet(S), NEW f \in [S -> Int], NEW h \in [S -> Int],
         NEW r \in S, \A q \in S \ {r} : h[q] = f[q]
  PROVE  /\ SumFunctionOnSet(f, S) \in Int
         /\ SumFunctionOnSet(h, S) = SumFunctionOnSet(f, S) + h[r] - f[r]
  <1>1. SumFunctionOnSet(f, S) = Total(f, S)[S]
    BY SumUnfolds, Zenon
  <1>2. SumFunctionOnSet(h, S) = Total(h, S)[S]
    BY SumUnfolds, Zenon
  <1>3. S \in SUBSET S
    OBVIOUS
  <1>4. Total(f, S)[S] \in Int
    <2>1. 0 \in Int /\ \A x, y \in Int : x + y \in Int
      OBVIOUS
    <2> QED BY <1>3, <2>1, TotalIn, Zenon
  <1>5. ShiftedTotal(f, h, r, S, S)
    BY <1>3, TotalUpdate
  <1> QED BY <1>1, <1>2, <1>4, <1>5 DEF ShiftedTotal

-----------------------------------------------------------------------------
(***************************************************************************)
(* Conservation.                                                            *)
(***************************************************************************)
USE ConstantsAssumption, FiniteAssumption

\* The columns of a well-formed item are numbers.
LEMMA ItemColumns ==
  ASSUME TypeOK, NEW q \in Reservation, NEW p \in Pot
  PROVE  /\ items[q][p].held \in Nat
         /\ items[q][p].committed \in Nat
         /\ items[q][p].released \in Nat
         /\ items[q][p].reserved \in Nat
  <1>1. items[q][p] \in Item
    BY DEF TypeOK
  <1> QED BY <1>1 DEF Item

LEMMA NextItemColumns ==
  ASSUME TypeOK', NEW q \in Reservation, NEW p \in Pot
  PROVE  /\ items'[q][p].held \in Nat
         /\ items'[q][p].committed \in Nat
         /\ items'[q][p].released \in Nat
         /\ items'[q][p].reserved \in Nat
  <1>1. items'[q][p] \in Item
    BY DEF TypeOK
  <1> QED BY <1>1 DEF Item

\* The sums on a pot are natural numbers.
LEMMA SumsType ==
  ASSUME TypeOK, NEW p \in Pot
  PROVE  HeldOn(p) \in Nat /\ CommittedOn(p) \in Nat /\ ReleasedOn(p) \in Nat
  <1>1. HeldOn(p) \in Nat
    <2>1. [r \in Reservation |-> items[r][p].held] \in [Reservation -> Nat]
      BY ItemColumns
    <2> QED BY <2>1, SumOfNaturals, Zenon DEF HeldOn
  <1>2. CommittedOn(p) \in Nat
    <2>1. [r \in Reservation |-> items[r][p].committed] \in [Reservation -> Nat]
      BY ItemColumns
    <2> QED BY <2>1, SumOfNaturals, Zenon DEF CommittedOn
  <1>3. ReleasedOn(p) \in Nat
    <2>1. [r \in Reservation |-> items[r][p].released] \in [Reservation -> Nat]
      BY ItemColumns
    <2> QED BY <2>1, SumOfNaturals, Zenon DEF ReleasedOn
  <1> QED BY <1>1, <1>2, <1>3

\* A step that changes the items of r only changes the sums on a pot by what it
\* changes of r's item on it.
LEMMA SumsMove ==
  ASSUME TypeOK, TypeOK', NEW r \in Reservation, NEW p \in Pot,
         \A q \in Reservation \ {r} : items'[q] = items[q]
  PROVE  /\ HeldOn(p) \in Int /\ CommittedOn(p) \in Int /\ ReleasedOn(p) \in Int
         /\ HeldOn(p)' = HeldOn(p) + items'[r][p].held - items[r][p].held
         /\ CommittedOn(p)' = CommittedOn(p) + items'[r][p].committed
                                - items[r][p].committed
         /\ ReleasedOn(p)' = ReleasedOn(p) + items'[r][p].released
                               - items[r][p].released
  <1>0. ASSUME NEW f \in [Reservation -> Int], NEW h \in [Reservation -> Int],
               \A q \in Reservation \ {r} : h[q] = f[q]
        PROVE  /\ SumFunctionOnSet(f, Reservation) \in Int
               /\ SumFunctionOnSet(h, Reservation)
                    = SumFunctionOnSet(f, Reservation) + h[r] - f[r]
    BY <1>0, SumUpdate
  <1>1. /\ HeldOn(p) \in Int
        /\ HeldOn(p)' = HeldOn(p) + items'[r][p].held - items[r][p].held
    <2> DEFINE f == [q \in Reservation |-> items[q][p].held]
               h == [q \in Reservation |-> items'[q][p].held]
    <2>1. f \in [Reservation -> Int] /\ h \in [Reservation -> Int]
      BY ItemColumns, NextItemColumns
    <2>2. \A q \in Reservation \ {r} : h[q] = f[q]
      OBVIOUS
    <2>3. h[r] = items'[r][p].held /\ f[r] = items[r][p].held
      OBVIOUS
    <2>4. /\ HeldOn(p) = SumFunctionOnSet(f, Reservation)
          /\ HeldOn(p)' = SumFunctionOnSet(h, Reservation)
      BY DEF HeldOn
    <2> HIDE DEF f, h
    <2> QED BY <1>0, <2>1, <2>2, <2>3, <2>4
  <1>2. /\ CommittedOn(p) \in Int
        /\ CommittedOn(p)' = CommittedOn(p) + items'[r][p].committed
                               - items[r][p].committed
    <2> DEFINE f == [q \in Reservation |-> items[q][p].committed]
               h == [q \in Reservation |-> items'[q][p].committed]
    <2>1. f \in [Reservation -> Int] /\ h \in [Reservation -> Int]
      BY ItemColumns, NextItemColumns
    <2>2. \A q \in Reservation \ {r} : h[q] = f[q]
      OBVIOUS
    <2>3. h[r] = items'[r][p].committed /\ f[r] = items[r][p].committed
      OBVIOUS
    <2>4. /\ CommittedOn(p) = SumFunctionOnSet(f, Reservation)
          /\ CommittedOn(p)' = SumFunctionOnSet(h, Reservation)
      BY DEF CommittedOn
    <2> HIDE DEF f, h
    <2> QED BY <1>0, <2>1, <2>2, <2>3, <2>4
  <1>3. /\ ReleasedOn(p) \in Int
        /\ ReleasedOn(p)' = ReleasedOn(p) + items'[r][p].released
                              - items[r][p].released
    <2> DEFINE f == [q \in Reservation |-> items[q][p].released]
               h == [q \in Reservation |-> items'[q][p].released]
    <2>1. f \in [Reservation -> Int] /\ h \in [Reservation -> Int]
      BY ItemColumns, NextItemColumns
    <2>2. \A q \in Reservation \ {r} : h[q] = f[q]
      OBVIOUS
    <2>3. h[r] = items'[r][p].released /\ f[r] = items[r][p].released
      OBVIOUS
    <2>4. /\ ReleasedOn(p) = SumFunctionOnSet(f, Reservation)
          /\ ReleasedOn(p)' = SumFunctionOnSet(h, Reservation)
      BY DEF ReleasedOn
    <2> HIDE DEF f, h
    <2> QED BY <1>0, <2>1, <2>2, <2>3, <2>4
  <1> QED BY <1>1, <1>2, <1>3

\* While the items stand still, so do their sums.
LEMMA SumsStand ==
  ASSUME items' = items, NEW p
  PROVE  /\ HeldOn(p)' = HeldOn(p)
         /\ CommittedOn(p)' = CommittedOn(p)
         /\ ReleasedOn(p)' = ReleasedOn(p)
         /\ OverrunOn(p)' = OverrunOn(p)
  BY DEF HeldOn, CommittedOn, ReleasedOn, OverrunOn

Conserved == QuotaConservation /\ AccountsMatchItems

LEMMA InitConserved == Init => Conserved
  <1> SUFFICES ASSUME Init PROVE Conserved
    OBVIOUS
  <1>1. ASSUME NEW p \in Pot
        PROVE  HeldOn(p) = 0 /\ CommittedOn(p) = 0 /\ ReleasedOn(p) = 0
    <2> DEFINE zero == [r \in Reservation |-> 0]
    <2>1. /\ HeldOn(p) = SumFunctionOnSet(zero, Reservation)
          /\ CommittedOn(p) = SumFunctionOnSet(zero, Reservation)
          /\ ReleasedOn(p) = SumFunctionOnSet(zero, Reservation)
      <3>1. \A r \in Reservation :
              /\ items[r][p].held = 0
              /\ items[r][p].committed = 0
              /\ items[r][p].released = 0
        BY DEF Init, NoItem
      <3>2. [r \in Reservation |-> items[r][p].held] = zero
        BY <3>1
      <3>3. [r \in Reservation |-> items[r][p].committed] = zero
        BY <3>1
      <3>4. [r \in Reservation |-> items[r][p].released] = zero
        BY <3>1
      <3> HIDE DEF zero
      <3> QED BY <3>2, <3>3, <3>4 DEF HeldOn, CommittedOn, ReleasedOn
    <2>2. zero \in [Reservation -> {0}]
      OBVIOUS
    <2> HIDE DEF zero
    <2>3. SumFunctionOnSet(zero, Reservation) = 0
      BY <2>2, SumOfZeros, Zenon
    <2> QED BY <2>1, <2>3
  <1>2. QuotaConservation
    <2>1. \A s \in Scope : quotas[s].balance = 0 /\ deposited[s] = 0
      BY DEF Init, NoQuota
    <2>2. \A s \in Scope : HeldOn(s) = 0 /\ CommittedOn(s) = 0
      BY <1>1 DEF Pot
    <2> QED BY <2>1, <2>2 DEF QuotaConservation
  <1>3. AccountsMatchItems
    <2>1. \A a \in Account : /\ accounts[a].reserved = 0
                             /\ accounts[a].committed = 0
                             /\ accounts[a].released = 0
      BY DEF Init, NoAccount
    <2>2. \A a \in Account : HeldOn(a) = 0 /\ CommittedOn(a) = 0 /\ ReleasedOn(a) = 0
      BY <1>1 DEF Pot
    <2> QED BY <2>1, <2>2 DEF AccountsMatchItems
  <1> QED BY <1>2, <1>3 DEF Conserved

\* Money that moves with the items of one reservation keeps every total.
LEMMA ItemsStepConserves ==
  ASSUME TypeOK, TypeOK', Conserved, NEW r \in Reservation, ItemsStep(r)
  PROVE  Conserved'
  <1>0. \A q \in Reservation \ {r} : items'[q] = items[q]
    BY DEF ItemsStep
  <1>1. QuotaConservation'
    <2> SUFFICES ASSUME NEW s \in Scope
                 PROVE  quotas'[s].balance
                          = deposited'[s] - HeldOn(s)' - CommittedOn(s)'
      BY DEF QuotaConservation
    <2>1. s \in Pot
      BY DEF Pot
    <2>2. /\ items[r][s].held \in Nat /\ items[r][s].committed \in Nat
          /\ items'[r][s].held \in Nat /\ items'[r][s].committed \in Nat
      BY <2>1, ItemColumns, NextItemColumns
    <2>3. /\ HeldOn(s) \in Int /\ CommittedOn(s) \in Int
          /\ HeldOn(s)' = HeldOn(s) + items'[r][s].held - items[r][s].held
          /\ CommittedOn(s)' = CommittedOn(s) + items'[r][s].committed
                                 - items[r][s].committed
      BY <1>0, <2>1, SumsMove
    <2>4. /\ deposited'[s] = deposited[s] /\ deposited[s] \in Nat
          /\ quotas'[s].balance \in Int /\ quotas[s].balance \in Int
      BY DEF ItemsStep, TypeOK, Quota
    <2>5. quotas'[s].balance + items'[r][s].held + items'[r][s].committed
            = quotas[s].balance + items[r][s].held + items[r][s].committed
      BY DEF ItemsStep, BalanceStep
    <2>6. quotas[s].balance = deposited[s] - HeldOn(s) - CommittedOn(s)
      BY DEF Conserved, QuotaConservation
    <2> QED BY <2>2, <2>3, <2>4, <2>5, <2>6
  <1>2. AccountsMatchItems'
    <2> SUFFICES ASSUME NEW a \in Account
                 PROVE  /\ accounts'[a].reserved = HeldOn(a)'
                        /\ accounts'[a].committed = CommittedOn(a)'
                        /\ accounts'[a].released = ReleasedOn(a)'
      BY DEF AccountsMatchItems
    <2>1. a \in Pot
      BY DEF Pot
    <2>2. /\ items[r][a].held \in Nat /\ items[r][a].committed \in Nat
          /\ items'[r][a].held \in Nat /\ items'[r][a].committed \in Nat
          /\ items[r][a].released \in Nat /\ items'[r][a].released \in Nat
      BY <2>1, ItemColumns, NextItemColumns
    <2>3. /\ HeldOn(a) \in Int /\ CommittedOn(a) \in Int /\ ReleasedOn(a) \in Int
          /\ HeldOn(a)' = HeldOn(a) + items'[r][a].held - items[r][a].held
          /\ CommittedOn(a)' = CommittedOn(a) + items'[r][a].committed
                                 - items[r][a].committed
          /\ ReleasedOn(a)' = ReleasedOn(a) + items'[r][a].released
                                - items[r][a].released
      BY <1>0, <2>1, SumsMove
    <2>4. /\ accounts[a].reserved \in Int /\ accounts[a].committed \in Int
          /\ accounts[a].released \in Int
          /\ accounts'[a].reserved \in Int /\ accounts'[a].committed \in Int
          /\ accounts'[a].released \in Int
      BY DEF TypeOK, AccountRow
    <2>5. /\ accounts'[a].reserved - accounts[a].reserved
               = items'[r][a].held - items[r][a].held
          /\ accounts'[a].committed - accounts[a].committed
               = items'[r][a].committed - items[r][a].committed
          /\ accounts'[a].released - accounts[a].released
               = items'[r][a].released - items[r][a].released
      BY DEF ItemsStep, AccountStep
    <2>6. /\ accounts[a].reserved = HeldOn(a)
          /\ accounts[a].committed = CommittedOn(a)
          /\ accounts[a].released = ReleasedOn(a)
      BY DEF Conserved, AccountsMatchItems
    <2> QED BY <2>2, <2>3, <2>4, <2>5, <2>6
  <1> QED BY <1>1, <1>2 DEF Conserved

\* So does a step that moves no item.
LEMMA NoItemsStepConserves ==
  ASSUME TypeOK, TypeOK', Conserved, items' = items, NoItemsStep
  PROVE  Conserved'
  <1>1. QuotaConservation'
    <2> SUFFICES ASSUME NEW s \in Scope
                 PROVE  quotas'[s].balance
                          = deposited'[s] - HeldOn(s)' - CommittedOn(s)'
      BY DEF QuotaConservation
    <2>1. HeldOn(s)' = HeldOn(s) /\ CommittedOn(s)' = CommittedOn(s)
      BY SumsStand
    <2>2. /\ deposited'[s] \in Nat /\ deposited[s] \in Nat
          /\ quotas'[s].balance \in Int /\ quotas[s].balance \in Int
      BY DEF TypeOK, Quota
    <2>3. quotas'[s].balance - quotas[s].balance = deposited'[s] - deposited[s]
      BY DEF NoItemsStep
    <2>4. quotas[s].balance = deposited[s] - HeldOn(s) - CommittedOn(s)
      BY DEF Conserved, QuotaConservation
    <2>5. HeldOn(s) \in Int /\ CommittedOn(s) \in Int
      BY SumsType DEF Pot
    <2> QED BY <2>1, <2>2, <2>3, <2>4, <2>5
  <1>2. AccountsMatchItems'
    BY SumsStand DEF NoItemsStep, Conserved, AccountsMatchItems
  <1> QED BY <1>1, <1>2 DEF Conserved

TotalsInv == StepInv /\ Conserved

LEMMA NextTotals == TotalsInv /\ [Next]_vars => TotalsInv'
  <1> SUFFICES ASSUME TotalsInv, [Next]_vars
               PROVE  TotalsInv'
    OBVIOUS
  <1>1. StepInv'
    BY NextInv, NextAccountsOpened DEF TotalsInv, StepInv
  <1>2. TypeOK /\ TypeOK' /\ Conserved /\ StepInv
    BY <1>1 DEF TotalsInv, StepInv, Inv
  <1>3. CASE UNCHANGED vars
    <2>1. items' = items /\ NoItemsStep
      <3>1. \A s \in Scope : quotas[s].balance \in Int /\ deposited[s] \in Nat
        BY <1>2 DEF TypeOK, Quota
      <3> QED BY <1>3, <3>1 DEF vars, NoItemsStep
    <2> QED BY <1>1, <1>2, <2>1, NoItemsStepConserves DEF TotalsInv
  <1>4. CASE Next
    <2>1. MoneyStep
      BY <1>2, <1>4, NextMoney
    <2>2. CASE items' = items /\ NoItemsStep
      BY <1>1, <1>2, <2>2, NoItemsStepConserves DEF TotalsInv
    <2>3. ASSUME NEW r \in Reservation, ItemsStep(r)
          PROVE  TotalsInv'
      BY <1>1, <1>2, <2>3, ItemsStepConserves DEF TotalsInv
    <2> QED BY <2>1, <2>2, <2>3 DEF MoneyStep, ItemsStep
  <1> QED BY <1>3, <1>4

LEMMA TotalsInvHolds == Spec => []TotalsInv
  <1>1. Init => TotalsInv
    BY InitInv, InitAccountsOpened, InitConserved DEF TotalsInv, StepInv
  <1> QED BY <1>1, NextTotals, PTL DEF Spec

\* A quota's balance is always what was paid in less what its reservations hold
\* and were charged, for any finite number of reservations.
THEOREM QuotasConserved == Spec => []QuotaConservation
  <1>1. TotalsInv => QuotaConservation
    BY DEF TotalsInv, Conserved
  <1> QED BY <1>1, TotalsInvHolds, PTL

\* The running totals of every period account always agree with the items.
THEOREM AccountsAgree == Spec => []AccountsMatchItems
  <1>1. TotalsInv => AccountsMatchItems
    BY DEF TotalsInv, Conserved
  <1> QED BY <1>1, TotalsInvHolds, PTL

-----------------------------------------------------------------------------
(***************************************************************************)
(* Bounded overdraft.                                                       *)
(***************************************************************************)
\* No item is short: what it holds, was charged and gave back covers what was
\* set aside for it.
NoShortfall ==
  \A r \in Reservation, p \in Pot :
    items[r][p].held + items[r][p].committed + items[r][p].released
      >= items[r][p].reserved

\* A policy that was never created has no open account and admits nothing.
UncreatedUnused ==
  \A p \in Policy :
    policies[p].version = 0 =>
      /\ ~policies[p].enabled
      /\ \A t \in Period : ~accounts[<<p, t>>].open

OverdraftInv == StepInv /\ NoShortfall /\ UncreatedUnused /\ OverdraftBounded

\* Without shortfalls the overruns on a pot are a natural number.
LEMMA OverrunType ==
  ASSUME TypeOK, NoShortfall, NEW p \in Pot
  PROVE  OverrunOn(p) \in Nat
  <1> DEFINE f == [r \in Reservation |->
                     items[r][p].held + items[r][p].committed
                       + items[r][p].released - items[r][p].reserved]
  <1>1. f \in [Reservation -> Nat]
    BY ItemColumns DEF NoShortfall
  <1> QED BY <1>1, SumOfNaturals, Zenon DEF OverrunOn

LEMMA OverrunMoves ==
  ASSUME TypeOK, TypeOK', NEW r \in Reservation, NEW p \in Pot,
         \A q \in Reservation \ {r} : items'[q] = items[q]
  PROVE  /\ OverrunOn(p) \in Int
         /\ OverrunOn(p)' =
              OverrunOn(p)
                + (items'[r][p].held + items'[r][p].committed
                     + items'[r][p].released - items'[r][p].reserved)
                - (items[r][p].held + items[r][p].committed
                     + items[r][p].released - items[r][p].reserved)
  <1> DEFINE f == [q \in Reservation |->
                     items[q][p].held + items[q][p].committed
                       + items[q][p].released - items[q][p].reserved]
             h == [q \in Reservation |->
                     items'[q][p].held + items'[q][p].committed
                       + items'[q][p].released - items'[q][p].reserved]
  <1>1. f \in [Reservation -> Int] /\ h \in [Reservation -> Int]
    BY ItemColumns, NextItemColumns
  <1>2. \A q \in Reservation \ {r} : h[q] = f[q]
    OBVIOUS
  <1>3. /\ f[r] = items[r][p].held + items[r][p].committed
                    + items[r][p].released - items[r][p].reserved
        /\ h[r] = items'[r][p].held + items'[r][p].committed
                    + items'[r][p].released - items'[r][p].reserved
    OBVIOUS
  <1>4. OverrunOn(p) = SumFunctionOnSet(f, Reservation)
    BY DEF OverrunOn
  <1>5. OverrunOn(p)' = SumFunctionOnSet(h, Reservation)
    BY DEF OverrunOn
  <1> HIDE DEF f, h
  <1>6. /\ SumFunctionOnSet(f, Reservation) \in Int
        /\ SumFunctionOnSet(h, Reservation)
             = SumFunctionOnSet(f, Reservation) + h[r] - f[r]
    BY <1>1, <1>2, SumUpdate
  <1> QED BY <1>3, <1>4, <1>5, <1>6

\* Reserve gives a free id items that overrun nothing.
LEMMA ReserveItems ==
  ASSUME Inv, NEW r \in Reservation, NEW est \in Amount, NEW cur \in Currency,
         NEW t \in Period, Reserve(r, est, cur, t), NEW p \in Pot
  PROVE  /\ items[r][p].held = 0 /\ items[r][p].committed = 0
         /\ items[r][p].released = 0 /\ items[r][p].reserved = 0
         /\ items'[r][p].committed = 0 /\ items'[r][p].released = 0
         /\ items'[r][p].held = items'[r][p].reserved
         /\ items'[r][p].held =
              IF p \in ConfiguredScopes(r) \cup {<<b, t>> : b \in EnabledPolicies(r)}
              THEN est ELSE 0
  <1> DEFINE pots == ConfiguredScopes(r) \cup {<<b, t>> : b \in EnabledPolicies(r)}
             new == [NoItem EXCEPT !.on = TRUE, !.reserved = est, !.held = est]
  <1>1. items[r][p] = NoItem
    BY FreeItems DEF Reserve
  <1>2. items'[r] = [b \in Pot |-> IF b \in pots THEN new ELSE NoItem]
    BY DEF Reserve, Inv, TypeOK
  <1>3. /\ new.held = est /\ new.reserved = est /\ new.committed = 0
        /\ new.released = 0
    BY DEF NoItem
  <1> HIDE DEF pots, new
  <1>4. items'[r][p] = IF p \in pots THEN new ELSE NoItem
    BY <1>2
  <1>5. CASE p \in pots
    BY <1>1, <1>3, <1>4, <1>5 DEF NoItem, pots
  <1>6. CASE p \notin pots
    BY <1>1, <1>4, <1>6 DEF NoItem, pots
  <1> QED BY <1>5, <1>6

\* The account row Reserve writes.
LEMMA ReserveAccount ==
  ASSUME StepInv, NEW r \in Reservation, NEW est \in Amount, NEW cur \in Currency,
         NEW t \in Period, Reserve(r, est, cur, t), NEW p \in Policy,
         NEW b \in Period
  PROVE  \/ accounts'[<<p, b>>] = accounts[<<p, b>>] /\ items'[r][<<p, b>>].held = 0
         \/ /\ b = t /\ policies[p].enabled
            /\ accounts'[<<p, b>>].open
            /\ accounts'[<<p, b>>].committed = accounts[<<p, b>>].committed
            /\ accounts'[<<p, b>>].limit = IF accounts[<<p, b>>].open
                                           THEN accounts[<<p, b>>].limit
                                           ELSE policies[p].limit
            /\ Mode[p] = "enforce" =>
                 accounts'[<<p, b>>].committed + accounts'[<<p, b>>].reserved
                   <= accounts'[<<p, b>>].limit
  <1> USE DEF StepInv
  <1> DEFINE pots == ConfiguredScopes(r) \cup {<<x, t>> : x \in EnabledPolicies(r)}
             a == <<p, b>>
  <1>1. a \in Account /\ a \in Pot /\ a[1] = p /\ a[2] = b
    BY DEF Account, Pot
  <1>2. a \notin ConfiguredScopes(r)
    BY <1>1, PotAssumption DEF ConfiguredScopes
  <1>3. CASE a \notin pots
    <2>1. accounts'[a] = accounts[a]
      BY <1>1, <1>3 DEF Reserve
    <2>2. items'[r][a].held = 0
      BY <1>1, <1>3, ReserveItems
    <2> QED BY <2>1, <2>2
  <1>4. CASE a \in pots
    <2>1. b = t /\ p \in EnabledPolicies(r)
      BY <1>2, <1>4
    <2>2. policies[p].enabled
      BY <2>1 DEF EnabledPolicies
    <2>3. accounts'[a] = [OpenedAccount(p, b) EXCEPT !.reserved = @ + est]
      BY <1>1, <1>4 DEF Reserve
    <2>4. BudgetAdmits(p, b, est, cur)
      BY <2>1 DEF Reserve
    <2>5. /\ accounts[a] \in AccountRow /\ policies[p].limit \in Nat /\ est \in Nat
          /\ ~accounts[a].open => accounts[a] = NoAccount
      BY <1>1 DEF Inv, TypeOK, PolicyRow, AccountsOpened
    <2>6. /\ OpenedAccount(p, b) \in AccountRow /\ OpenedAccount(p, b).open
          /\ OpenedAccount(p, b).committed = accounts[a].committed
          /\ OpenedAccount(p, b).limit = IF accounts[a].open THEN accounts[a].limit
                                         ELSE policies[p].limit
      <3>1. CASE accounts[a].open
        BY <2>5, <3>1 DEF OpenedAccount
      <3>2. CASE ~accounts[a].open
        <4>1. OpenedAccount(p, b) = [open |-> TRUE, limit |-> policies[p].limit,
                                     reserved |-> 0, committed |-> 0,
                                     released |-> 0]
          BY <3>2 DEF OpenedAccount, NoAccount
        <4>2. OpenedAccount(p, b) \in AccountRow
          BY <2>5, <4>1 DEF AccountRow
        <4> QED BY <2>5, <3>2, <4>1, <4>2 DEF NoAccount
      <3> QED BY <3>1, <3>2
    <2>7. Mode[p] = "enforce" =>
            OpenedAccount(p, b).limit - OpenedAccount(p, b).committed
              - OpenedAccount(p, b).reserved >= est
      BY <2>4 DEF BudgetAdmits
    <2> DEFINE opened == OpenedAccount(p, b)
    <2> HIDE DEF opened
    <2>8. /\ opened \in AccountRow
          /\ accounts'[a] = [opened EXCEPT !.reserved = @ + est]
          /\ Mode[p] = "enforce" =>
               opened.limit - opened.committed - opened.reserved >= est
      BY <2>3, <2>6, <2>7 DEF opened
    <2>9. /\ accounts'[a].open = opened.open
          /\ accounts'[a].limit = opened.limit
          /\ accounts'[a].committed = opened.committed
          /\ accounts'[a].reserved = opened.reserved + est
          /\ opened.limit \in Nat /\ opened.committed \in Int
          /\ opened.reserved \in Int
      BY <2>8 DEF AccountRow
    <2>10. Mode[p] = "enforce" =>
             accounts'[a].committed + accounts'[a].reserved <= accounts'[a].limit
      BY <2>5, <2>8, <2>9
    <2> QED BY <2>1, <2>2, <2>6, <2>9, <2>10 DEF opened
  <1> QED BY <1>3, <1>4

LEMMA ReserveOverdraft ==
  ASSUME OverdraftInv, TypeOK', NEW r \in Reservation, NEW est \in Amount,
         NEW cur \in Currency, NEW t \in Period, Reserve(r, est, cur, t)
  PROVE  NoShortfall' /\ UncreatedUnused' /\ OverdraftBounded'
  <1> USE DEF OverdraftInv, StepInv
  <1>0. TypeOK /\ policies' = policies /\ est \in Nat
    BY DEF Inv, Reserve
  <1>1. \A q \in Reservation \ {r} : items'[q] = items[q]
    BY ReserveOthers
  <1>2. ItemsStep(r)
    BY ReserveMoney
  <1>3. NoShortfall'
    <2> SUFFICES ASSUME NEW q \in Reservation, NEW p \in Pot
                 PROVE  items'[q][p].held + items'[q][p].committed
                          + items'[q][p].released >= items'[q][p].reserved
      BY DEF NoShortfall
    <2>1. CASE q = r
      <3>1. items'[q][p].reserved \in Nat
        BY <1>0, NextItemColumns
      <3> QED BY <2>1, <3>1, ReserveItems
    <2>2. CASE q # r
      BY <1>1, <2>2 DEF NoShortfall
    <2> QED BY <2>1, <2>2
  <1>4. ASSUME NEW p \in Pot
        PROVE  OverrunOn(p)' = OverrunOn(p) /\ OverrunOn(p)' \in Nat
    <2>1. /\ items'[r][p].held \in Nat
          /\ items'[r][p].reserved \in Nat
      BY NextItemColumns
    <2>2. OverrunOn(p) \in Nat
      BY <1>0, OverrunType
    <2>3. OverrunOn(p)' =
            OverrunOn(p)
              + (items'[r][p].held + items'[r][p].committed
                   + items'[r][p].released - items'[r][p].reserved)
              - (items[r][p].held + items[r][p].committed
                   + items[r][p].released - items[r][p].reserved)
      BY <1>0, <1>1, OverrunMoves
    <2>4. /\ items[r][p].held = 0 /\ items[r][p].committed = 0
          /\ items[r][p].released = 0 /\ items[r][p].reserved = 0
          /\ items'[r][p].committed = 0 /\ items'[r][p].released = 0
          /\ items'[r][p].held = items'[r][p].reserved
      BY ReserveItems
    <2> QED BY <2>1, <2>2, <2>3, <2>4
  <1>5. UncreatedUnused'
    <2> SUFFICES ASSUME NEW p \in Policy, policies[p].version = 0, NEW b \in Period
                 PROVE  ~policies[p].enabled /\ ~accounts'[<<p, b>>].open
      BY <1>0 DEF UncreatedUnused
    <2>1. ~policies[p].enabled /\ ~accounts[<<p, b>>].open
      BY DEF UncreatedUnused
    <2> QED BY <2>1, ReserveAccount
  <1>6. ASSUME NEW s \in Scope
        PROVE  quotas'[s].balance >= - OverrunOn(s)'
    <2> DEFINE pots == ConfiguredScopes(r) \cup {<<x, t>> : x \in EnabledPolicies(r)}
    <2>1. /\ s \in Pot /\ quotas[s].balance \in Int /\ quotas'[s].balance \in Int
          /\ quotas[s].balance >= - OverrunOn(s)
      BY <1>0 DEF Pot, TypeOK, Quota, OverdraftBounded
    <2>2. quotas'[s].balance + items'[r][s].held + items'[r][s].committed
            = quotas[s].balance + items[r][s].held + items[r][s].committed
      BY <1>2 DEF ItemsStep, BalanceStep
    <2>3. /\ items[r][s].held = 0 /\ items[r][s].committed = 0
          /\ items'[r][s].committed = 0
          /\ items'[r][s].held = IF s \in pots THEN est ELSE 0
      BY <2>1, ReserveItems
    <2>4. s \in pots => quotas[s].balance >= est
      <3>1. s \in pots => s \in ConfiguredScopes(r)
        <4>1. s \notin Account
          BY PotAssumption
        <4>2. \A x \in EnabledPolicies(r) : <<x, t>> \in Account
          BY DEF EnabledPolicies, Account
        <4> QED BY <4>1, <4>2
      <3>2. \A z \in ConfiguredScopes(r) : quotas[z].balance >= est
        BY DEF Reserve, QuotaAdmits
      <3> QED BY <3>1, <3>2
    <2> HIDE DEF pots
    <2>5. OverrunOn(s)' = OverrunOn(s) /\ OverrunOn(s)' \in Nat
      BY <1>4, <2>1
    <2> QED BY <1>0, <2>1, <2>2, <2>3, <2>4, <2>5
  <1>7. ASSUME NEW p \in Policy, NEW b \in Period, Mode[p] = "enforce",
               policies[p].version = 1
        PROVE  accounts'[<<p, b>>].reserved + accounts'[<<p, b>>].committed
                 <= accounts'[<<p, b>>].limit + OverrunOn(<<p, b>>)'
    <2> DEFINE a == <<p, b>>
    <2>1. a \in Account /\ a \in Pot
      BY DEF Account, Pot
    <2>2. /\ accounts'[a].reserved \in Int /\ accounts'[a].committed \in Int
          /\ accounts'[a].limit \in Nat
      BY <2>1 DEF TypeOK, AccountRow
    <2>3. OverrunOn(a)' = OverrunOn(a) /\ OverrunOn(a)' \in Nat
      BY <1>4, <2>1
    <2>4. CASE accounts'[a] = accounts[a]
      <3>1. accounts[a].reserved + accounts[a].committed
              <= accounts[a].limit + OverrunOn(a)
        BY <1>7 DEF OverdraftBounded
      <3> HIDE DEF a
      <3> QED BY <2>3, <2>4, <3>1 DEF a
    <2>5. CASE accounts'[a].committed + accounts'[a].reserved <= accounts'[a].limit
      <3> HIDE DEF a
      <3>1. accounts'[a].reserved + accounts'[a].committed
              <= accounts'[a].limit + OverrunOn(a)'
        BY <2>2, <2>3, <2>5
      <3> QED BY <3>1 DEF a
    <2> QED BY <1>7, <2>4, <2>5, ReserveAccount
  <1>8. OverdraftBounded'
    BY <1>0, <1>6, <1>7 DEF OverdraftBounded
  <1> QED BY <1>3, <1>5, <1>8

\* What applying a verdict leaves of an item and of its account: the amount set
\* aside and the limit stay, and what was given back only grows.
LEMMA ApplyColumns ==
  ASSUME Inv, NEW r \in Reservation, NEW res \in Result, NEW status,
         NEW resolved, ApplyReservation(r, res, status, resolved)
  PROVE  /\ policies' = policies
         /\ \A p \in Pot :
              /\ items'[r][p].reserved = items[r][p].reserved
              /\ items'[r][p].released >= items[r][p].released
              /\ items'[r][p].held + items'[r][p].committed + items'[r][p].released
                   >= items[r][p].held + items[r][p].committed + items[r][p].released
         /\ \A a \in Account :
              /\ accounts'[a].limit = accounts[a].limit
              /\ accounts'[a].open = accounts[a].open
  <1>0. policies' = policies /\ res.actual \in Nat
    BY DEF ApplyReservation, Result
  <1>1. ASSUME NEW p \in Pot
        PROVE  /\ items'[r][p].reserved = items[r][p].reserved
               /\ items'[r][p].released >= items[r][p].released
               /\ items'[r][p].held + items'[r][p].committed + items'[r][p].released
                    >= items[r][p].held + items[r][p].committed + items[r][p].released
    <2>1. /\ items[r][p] \in Item
          /\ items'[r][p] = AppliedItem(items[r][p], res.actual)
      BY ApplyEffect
    <2>2. /\ items[r][p].held \in Nat /\ items[r][p].committed \in Nat
          /\ items[r][p].released \in Nat
      BY <2>1 DEF Item
    <2> DEFINE back == Refund(items[r][p], res.actual)
    <2>3. /\ back \in Nat
          /\ res.actual + back >= items[r][p].held + items[r][p].committed
      BY <1>0, <2>2 DEF Refund
    <2> HIDE DEF back
    <2>4. CASE items[r][p].on
      <3>1. /\ items'[r][p].held = 0 /\ items'[r][p].committed = res.actual
            /\ items'[r][p].released = items[r][p].released + back
            /\ items'[r][p].reserved = items[r][p].reserved
        BY <2>1, <2>4 DEF AppliedItem, Item, back
      <3> QED BY <1>0, <2>2, <2>3, <3>1
    <2>5. CASE ~items[r][p].on
      <3>1. items'[r][p] = items[r][p]
        BY <2>1, <2>5 DEF AppliedItem
      <3> QED BY <2>2, <3>1
    <2> QED BY <2>4, <2>5
  <1>2. ASSUME NEW a \in Account
        PROVE  /\ accounts'[a].limit = accounts[a].limit
               /\ accounts'[a].open = accounts[a].open
    <2>1. accounts[a] \in AccountRow
      BY DEF Inv, TypeOK
    <2>2. accounts'[a] = AppliedAccount(a, items[r][a], res.actual)
      BY DEF ApplyReservation
    <2> QED BY <2>1, <2>2 DEF AppliedAccount, AccountRow
  <1> QED BY <1>0, <1>1, <1>2

LEMMA ApplyOverdraft ==
  ASSUME OverdraftInv, TypeOK', NEW r \in Reservation, NEW res \in Result,
         NEW status, NEW resolved, ApplyReservation(r, res, status, resolved)
  PROVE  NoShortfall' /\ UncreatedUnused' /\ OverdraftBounded'
  <1> USE DEF OverdraftInv, StepInv
  <1>0. TypeOK
    BY DEF Inv
  <1>1. ItemsStep(r) /\ \A q \in Reservation \ {r} : items'[q] = items[q]
    BY ApplyMoney DEF ItemsStep
  <1>2. /\ policies' = policies
        /\ \A p \in Pot :
             /\ items'[r][p].reserved = items[r][p].reserved
             /\ items'[r][p].released >= items[r][p].released
             /\ items'[r][p].held + items'[r][p].committed + items'[r][p].released
                  >= items[r][p].held + items[r][p].committed + items[r][p].released
        /\ \A a \in Account :
             /\ accounts'[a].limit = accounts[a].limit
             /\ accounts'[a].open = accounts[a].open
    BY ApplyColumns
  <1>3. ASSUME NEW p \in Pot
        PROVE  /\ items[r][p].held \in Nat /\ items[r][p].committed \in Nat
               /\ items[r][p].released \in Nat /\ items[r][p].reserved \in Nat
               /\ items'[r][p].held \in Nat /\ items'[r][p].committed \in Nat
               /\ items'[r][p].released \in Nat
    BY <1>0, ItemColumns, NextItemColumns
  <1>4. NoShortfall'
    <2> SUFFICES ASSUME NEW q \in Reservation, NEW p \in Pot
                 PROVE  items'[q][p].held + items'[q][p].committed
                          + items'[q][p].released >= items'[q][p].reserved
      BY DEF NoShortfall
    <2>1. items[q][p].held + items[q][p].committed
                          + items[q][p].released >= items[q][p].reserved
      BY DEF NoShortfall
    <2>2. CASE q = r
      BY <1>2, <1>3, <2>1, <2>2
    <2>3. CASE q # r
      BY <1>1, <2>1, <2>3
    <2> QED BY <2>2, <2>3
  <1>5. ASSUME NEW p \in Pot
        PROVE  /\ OverrunOn(p) \in Int
               /\ OverrunOn(p)' = OverrunOn(p)
                    + (items'[r][p].held + items'[r][p].committed
                         + items'[r][p].released - items[r][p].reserved)
                    - (items[r][p].held + items[r][p].committed
                         + items[r][p].released - items[r][p].reserved)
    <2>1. /\ OverrunOn(p) \in Int
          /\ OverrunOn(p)' =
               OverrunOn(p)
                 + (items'[r][p].held + items'[r][p].committed
                      + items'[r][p].released - items'[r][p].reserved)
                 - (items[r][p].held + items[r][p].committed
                      + items[r][p].released - items[r][p].reserved)
      BY <1>0, <1>1, OverrunMoves
    <2>2. items'[r][p].reserved = items[r][p].reserved
      BY <1>2
    <2> QED BY <2>1, <2>2
  <1>6. UncreatedUnused'
    <2>1. \A p \in Policy, t \in Period : <<p, t>> \in Account
      BY DEF Account
    <2> QED BY <1>2, <2>1 DEF UncreatedUnused
  <1>7. ASSUME NEW s \in Scope
        PROVE  quotas'[s].balance >= - OverrunOn(s)'
    <2>1. /\ s \in Pot /\ quotas[s].balance \in Int /\ quotas'[s].balance \in Int
          /\ quotas[s].balance >= - OverrunOn(s)
      BY <1>0 DEF Pot, TypeOK, Quota, OverdraftBounded
    <2>2. quotas'[s].balance + items'[r][s].held + items'[r][s].committed
            = quotas[s].balance + items[r][s].held + items[r][s].committed
      BY <1>1 DEF ItemsStep, BalanceStep
    <2>3. items'[r][s].released >= items[r][s].released
      BY <1>2, <2>1
    <2> QED BY <1>3, <1>5, <2>1, <2>2, <2>3
  <1>8. ASSUME NEW p \in Policy, NEW t \in Period, Mode[p] = "enforce",
               policies[p].version = 1
        PROVE  accounts'[<<p, t>>].reserved + accounts'[<<p, t>>].committed
                 <= accounts'[<<p, t>>].limit + OverrunOn(<<p, t>>)'
    <2> DEFINE a == <<p, t>>
    <2>1. a \in Account /\ a \in Pot
      BY DEF Account, Pot
    <2>2. accounts[a].reserved + accounts[a].committed
            <= accounts[a].limit + OverrunOn(a)
      BY <1>8 DEF OverdraftBounded
    <2> HIDE DEF a
    <2>3. /\ accounts[a].reserved \in Int /\ accounts[a].committed \in Int
          /\ accounts[a].limit \in Nat
          /\ accounts'[a].reserved \in Int /\ accounts'[a].committed \in Int
      BY <1>0, <2>1 DEF TypeOK, AccountRow
    <2>4. /\ accounts'[a].reserved - accounts[a].reserved
               = items'[r][a].held - items[r][a].held
          /\ accounts'[a].committed - accounts[a].committed
               = items'[r][a].committed - items[r][a].committed
      BY <1>1, <2>1 DEF ItemsStep, AccountStep
    <2>5. /\ items'[r][a].released >= items[r][a].released
          /\ accounts'[a].limit = accounts[a].limit
      BY <1>2, <2>1
    <2>6. accounts'[a].reserved + accounts'[a].committed
            <= accounts'[a].limit + OverrunOn(a)'
      BY <1>3, <1>5, <2>1, <2>2, <2>3, <2>4, <2>5
    <2> QED BY <2>6 DEF a
  <1>9. OverdraftBounded'
    BY <1>2, <1>7, <1>8 DEF OverdraftBounded
  <1> QED BY <1>4, <1>6, <1>9

\* The admin plane only adds money, and a policy's limit is part of the claim
\* only until its first patch.
LEMMA AdminOverdraft ==
  ASSUME OverdraftInv, AdminStep
  PROVE  NoShortfall' /\ UncreatedUnused' /\ OverdraftBounded'
  <1> USE DEF OverdraftInv, StepInv
  <1>0. TypeOK /\ items' = items
    BY ItemsUnchanged DEF Inv, ItemlessStep
  <1>1. NoShortfall'
    BY <1>0 DEF NoShortfall
  <1>2. ASSUME NEW p \in Pot
        PROVE  OverrunOn(p)' = OverrunOn(p) /\ OverrunOn(p) \in Nat
    BY <1>0, SumsStand, OverrunType
  <1>3. ASSUME NEW z \in Scope, NEW delta \in Amount, NEW cur \in Currency,
               TopUp(z, delta, cur)
        PROVE  UncreatedUnused' /\ OverdraftBounded'
    <2>1. accounts' = accounts /\ policies' = policies /\ delta \in Nat
      BY <1>3 DEF TopUp
    <2>2. UncreatedUnused'
      BY <2>1 DEF UncreatedUnused
    <2>3. ASSUME NEW s \in Scope
          PROVE  quotas'[s].balance >= - OverrunOn(s)'
      <3>1. /\ quotas[s] \in Quota /\ quotas[s].balance \in Int /\ s \in Pot
            /\ quotas[s].balance >= - OverrunOn(s)
        BY <1>0 DEF TypeOK, Quota, Pot, OverdraftBounded
      <3>2. quotas'[s].balance >= quotas[s].balance /\ quotas'[s].balance \in Int
        <4>1. CASE s = z
          <5>1. quotas'[s].balance = quotas[s].balance + delta
            BY <1>0, <1>3, <3>1, <4>1 DEF TopUp, TypeOK, Quota
          <5> QED BY <2>1, <3>1, <5>1
        <4>2. CASE s # z
          <5>1. quotas'[s] = quotas[s]
            BY <1>0, <1>3, <4>2 DEF TopUp, TypeOK
          <5> QED BY <3>1, <5>1
        <4> QED BY <4>1, <4>2
      <3>3. OverrunOn(s)' = OverrunOn(s) /\ OverrunOn(s) \in Nat
        BY <1>2, <3>1
      <3> QED BY <3>1, <3>2, <3>3
    <2>4. \A p \in Policy, t \in Period : OverrunOn(<<p, t>>)' = OverrunOn(<<p, t>>)
      BY <1>0, SumsStand
    <2> QED BY <2>1, <2>2, <2>3, <2>4 DEF OverdraftBounded
  <1>4. ASSUME UNCHANGED quotas
        PROVE  \A s \in Scope : quotas'[s].balance >= - OverrunOn(s)'
    BY <1>0, <1>4, SumsStand DEF OverdraftBounded
  <1>5. ASSUME NEW q \in Policy, NEW limit \in Amount, CreatePolicy(q, limit)
        PROVE  UncreatedUnused' /\ OverdraftBounded'
    <2>1. /\ policies[q].version = 0 /\ accounts' = accounts /\ quotas' = quotas
          /\ policies'[q] = [enabled |-> TRUE, limit |-> limit, version |-> 1]
          /\ \A p \in Policy \ {q} : policies'[p] = policies[p]
      BY <1>0, <1>5 DEF CreatePolicy, TypeOK, money
    <2>2. UncreatedUnused'
      BY <2>1 DEF UncreatedUnused
    <2>3. ASSUME NEW p \in Policy, NEW t \in Period, Mode[p] = "enforce",
                 policies'[p].version = 1
          PROVE  accounts[<<p, t>>].reserved + accounts[<<p, t>>].committed
                   <= accounts[<<p, t>>].limit + OverrunOn(<<p, t>>)'
      <3> DEFINE a == <<p, t>>
      <3>1. a \in Account /\ a \in Pot
        BY DEF Account, Pot
      <3>2. OverrunOn(a)' = OverrunOn(a) /\ OverrunOn(a) \in Nat
        BY <1>2, <3>1
      <3>3. CASE p # q
        <4>1. accounts[a].reserved + accounts[a].committed
                <= accounts[a].limit + OverrunOn(a)
          BY <2>1, <2>3, <3>3 DEF OverdraftBounded
        <4> HIDE DEF a
        <4> QED BY <3>2, <4>1 DEF a
      <3>4. CASE p = q
        <4>1. accounts[a] = NoAccount
          BY <2>1, <3>1, <3>4 DEF UncreatedUnused, AccountsOpened
        <4>2. /\ accounts[a].reserved = 0 /\ accounts[a].committed = 0
              /\ accounts[a].limit = 0
          BY <4>1 DEF NoAccount
        <4> HIDE DEF a
        <4> QED BY <3>2, <4>2 DEF a
      <3> QED BY <3>3, <3>4
    <2> QED BY <1>4, <2>1, <2>2, <2>3 DEF OverdraftBounded
  <1>6. ASSUME NEW q \in Policy, NEW limit \in Amount, NEW enabled \in BOOLEAN,
               PatchPolicy(q, limit, enabled, policies[q].version)
        PROVE  UncreatedUnused' /\ OverdraftBounded'
    <2>1. /\ quotas' = quotas /\ policies[q].version \in 1..MaxPolicyVersion
          /\ policies'[q] = [enabled |-> enabled, limit |-> limit,
                             version |-> policies[q].version + 1]
          /\ \A p \in Policy \ {q} : policies'[p] = policies[p]
      BY <1>0, <1>6 DEF PatchPolicy, TypeOK
    <2>2. policies'[q].version # 0 /\ policies'[q].version # 1
      BY <2>1
    <2>3. ASSUME NEW p \in Policy \ {q}, NEW t \in Period
          PROVE  accounts'[<<p, t>>] = accounts[<<p, t>>]
      BY <1>0, <1>6 DEF PatchPolicy, TypeOK, Account
    <2>4. UncreatedUnused'
      BY <2>1, <2>2, <2>3 DEF UncreatedUnused
    <2>5. \A p \in Policy, t \in Period : OverrunOn(<<p, t>>)' = OverrunOn(<<p, t>>)
      BY <1>0, SumsStand
    <2> QED BY <1>4, <2>1, <2>2, <2>3, <2>4, <2>5 DEF OverdraftBounded
  <1> QED BY <1>1, <1>3, <1>5, <1>6 DEF AdminStep

LEMMA NextOverdraft == OverdraftInv /\ [Next]_vars => OverdraftInv'
  <1> SUFFICES ASSUME OverdraftInv, [Next]_vars
               PROVE  OverdraftInv'
    OBVIOUS
  <1>1. StepInv' /\ TypeOK'
    BY NextInv, NextAccountsOpened DEF OverdraftInv, StepInv, Inv
  <1> DEFINE Goal == NoShortfall' /\ UncreatedUnused' /\ OverdraftBounded'
  <1>2. ASSUME NEW r \in Reservation, NEW est \in Amount, NEW cur \in Currency,
               NEW t \in Period, Reserve(r, est, cur, t)
        PROVE  Goal
    BY <1>1, <1>2, ReserveOverdraft
  <1>3. ASSUME NEW r \in Reservation, ApplyPending(r) \/ OperatorStep(r)
        PROVE  Goal
    <2>1. PICK res \in Result, status \in Status, resolved \in BOOLEAN :
            ApplyReservation(r, res, status, resolved)
      BY <1>3, ApplyCallers DEF OverdraftInv, StepInv
    <2> QED BY <1>1, <2>1, ApplyOverdraft
  <1>4. ASSUME AdminStep
        PROVE  Goal
    BY <1>4, AdminOverdraft
  <1>5. ASSUME UNCHANGED <<quotas, policies, accounts, items>>
        PROVE  Goal
    <2>1. NoShortfall' /\ UncreatedUnused'
      BY <1>5 DEF OverdraftInv, NoShortfall, UncreatedUnused
    <2>2. OverdraftBounded'
      BY <1>5, SumsStand DEF OverdraftInv, OverdraftBounded
    <2> QED BY <2>1, <2>2
  <1>6. \/ UNCHANGED <<quotas, policies, accounts, items>>
        \/ AdminStep
        \/ \E r \in Reservation : ApplyPending(r) \/ OperatorStep(r)
        \/ \E r \in Reservation, est \in Amount, cur \in Currency, t \in Period :
             Reserve(r, est, cur, t)
    BY DEF Next, RequestStep, MarkDispatched, PersistResult, MarkUnknown, MarkStale,
           MarkReservationsUnknown, Rollover, vars, money
  <1> HIDE DEF Goal
  <1>7. Goal
    BY <1>2, <1>3, <1>4, <1>5, <1>6
  <1> QED BY <1>1, <1>7 DEF OverdraftInv, Goal

\* A prepaid balance, and the account of an enforce policy that was never
\* patched, are overdrawn only by what charges overran their estimates, however
\* many reservations race.
THEOREM OverdraftIsBounded == Spec => []OverdraftBounded
  <1>1. Init => OverdraftInv
    <2> SUFFICES ASSUME Init PROVE OverdraftInv
      OBVIOUS
    <2>1. StepInv /\ TypeOK
      BY InitInv, InitAccountsOpened DEF StepInv, Inv
    <2>2. NoShortfall
      <3>1. \A r \in Reservation, p \in Pot : items[r][p] = NoItem
        BY DEF Init
      <3> QED BY <3>1 DEF NoShortfall, NoItem
    <2>3. UncreatedUnused
      <3>1. \A p \in Policy : policies[p] = NoPolicy
        BY DEF Init
      <3>2. \A p \in Policy, t \in Period : accounts[<<p, t>>] = NoAccount
        BY DEF Init, Account
      <3> QED BY <3>1, <3>2 DEF UncreatedUnused, NoPolicy, NoAccount
    <2>4. OverdraftBounded
      <3>1. ASSUME NEW s \in Scope
            PROVE  quotas[s].balance >= - OverrunOn(s)
        <4>1. OverrunOn(s) \in Nat
          BY <2>1, <2>2, OverrunType DEF Pot
        <4>2. quotas[s].balance = 0
          BY DEF Init, NoQuota
        <4> QED BY <4>1, <4>2
      <3>2. ASSUME NEW p \in Policy, policies[p].version = 1
            PROVE  FALSE
        BY <3>2 DEF Init, NoPolicy
      <3> QED BY <3>1, <3>2 DEF OverdraftBounded
    <2> QED BY <2>1, <2>2, <2>3, <2>4 DEF OverdraftInv
  <1>2. OverdraftInv => OverdraftBounded
    BY DEF OverdraftInv
  <1> QED BY <1>1, <1>2, NextOverdraft, PTL DEF Spec

-----------------------------------------------------------------------------
(***************************************************************************)
(* Alerts.                                                                  *)
(***************************************************************************)
\* What AlertsComplete asks of one account.
Alerted(a) ==
  /\ \A th \in Thresholds[a[1]] :
       Reached(accounts[a], th) => <<a, th>> \in events.thresholds
  /\ accounts[a].committed > accounts[a].limit => a \in events.overspends

\* An account whose committed amount and limit stand, or that has nothing
\* committed, calls for no new alert.
LEMMA StillAlerted ==
  ASSUME NEW a \in Account, Alerted(a), TypeOK',
         events.thresholds \subseteq events'.thresholds,
         events.overspends \subseteq events'.overspends,
         \/ /\ accounts'[a].committed = accounts[a].committed
            /\ accounts'[a].limit = accounts[a].limit
         \/ accounts'[a].committed = 0
  PROVE  Alerted(a)'
  <1>1. accounts'[a].limit \in Nat
    BY DEF TypeOK, AccountRow
  <1>2. CASE accounts'[a].committed = 0
    BY <1>1, <1>2 DEF Alerted, Reached
  <1>3. CASE /\ accounts'[a].committed = accounts[a].committed
             /\ accounts'[a].limit = accounts[a].limit
    BY <1>3 DEF Alerted, Reached
  <1> QED BY <1>2, <1>3

\* emitBudgetThresholds records every alert an account it is given calls for.
LEMMA TouchedAlerted ==
  ASSUME NEW touched, NEW a \in Account, a \in touched,
         ThresholdEvents(accounts', touched) \subseteq events'.thresholds,
         OverspendEvents(accounts', touched) \subseteq events'.overspends
  PROVE  Alerted(a)'
  <1>1. ASSUME NEW th \in Thresholds[a[1]], Reached(accounts'[a], th)
        PROVE  <<a, th>> \in events'.thresholds
    <2>1. a[1] \in Policy
      BY DEF Account
    <2>2. th \in 1..100
      BY <2>1
    <2>3. <<a, th>> \in ThresholdEvents(accounts', touched)
      BY <1>1, <2>2 DEF ThresholdEvents
    <2> QED BY <2>3
  <1>2. ASSUME accounts'[a].committed > accounts'[a].limit
        PROVE  a \in events'.overspends
    BY <1>2 DEF OverspendEvents
  <1> QED BY <1>1, <1>2 DEF Alerted

LEMMA NextAlerts == StepInv /\ AlertsComplete /\ [Next]_vars => AlertsComplete'
  <1> SUFFICES ASSUME StepInv, AlertsComplete, [Next]_vars, NEW a \in Account
               PROVE  Alerted(a)'
    BY DEF AlertsComplete, Alerted
  <1> USE DEF StepInv
  <1>1. TypeOK /\ TypeOK'
    BY NextInv DEF Inv
  <1>2. Alerted(a)
    BY DEF AlertsComplete, Alerted
  <1>3. ASSUME UNCHANGED accounts, events'.thresholds = events.thresholds,
               events'.overspends = events.overspends
        PROVE  Alerted(a)'
    BY <1>1, <1>2, <1>3, StillAlerted
  <1>4. ASSUME NEW r \in Reservation, NEW est \in Amount, NEW cur \in Currency,
               NEW t \in Period, Reserve(r, est, cur, t)
        PROVE  Alerted(a)'
    <2>1. events' = events
      BY <1>4 DEF Reserve
    <2>2. PICK p \in Policy, b \in Period : a = <<p, b>>
      BY DEF Account
    <2>3. ~accounts[a].open => accounts[a].committed = 0
      BY DEF AccountsOpened, NoAccount
    <2>4. \/ accounts'[a] = accounts[a]
          \/ /\ accounts'[a].committed = accounts[a].committed
             /\ accounts'[a].limit = IF accounts[a].open THEN accounts[a].limit
                                     ELSE policies[p].limit
      BY <1>4, <2>2, ReserveAccount
    <2>5. \/ /\ accounts'[a].committed = accounts[a].committed
             /\ accounts'[a].limit = accounts[a].limit
          \/ accounts'[a].committed = 0
      BY <2>3, <2>4
    <2> QED BY <1>1, <1>2, <2>1, <2>5, StillAlerted
  <1>5. ASSUME NEW r \in Reservation, ApplyPending(r) \/ OperatorStep(r)
        PROVE  Alerted(a)'
    <2>1. PICK res \in Result, status \in Status, resolved \in BOOLEAN :
            ApplyReservation(r, res, status, resolved)
      BY <1>5, ApplyCallers
    <2> DEFINE touched == {x \in Account : items[r][x].on}
    <2>2. /\ events'.thresholds
               = events.thresholds \cup ThresholdEvents(accounts', touched)
          /\ events'.overspends
               = events.overspends \cup OverspendEvents(accounts', touched)
      BY <1>1, <2>1 DEF ApplyReservation, TypeOK, Events
    <2>3. CASE items[r][a].on
      <3>1. a \in touched
        BY <2>3
      <3> HIDE DEF touched
      <3> QED BY <2>2, <3>1, TouchedAlerted
    <2>4. CASE ~items[r][a].on
      <3>1. accounts'[a] = accounts[a]
        BY <2>1, <2>4 DEF ApplyReservation, AppliedAccount
      <3> HIDE DEF touched
      <3> QED BY <1>1, <1>2, <2>2, <3>1, StillAlerted
    <2> QED BY <2>3, <2>4
  <1>6. ASSUME NEW p \in Policy, NEW limit \in Amount, NEW enabled \in BOOLEAN,
               PatchPolicy(p, limit, enabled, policies[p].version)
        PROVE  Alerted(a)'
    <2> DEFINE touched == {b \in {<<p, period>>} : accounts[b].open}
    <2>1. /\ events'.thresholds
               = events.thresholds \cup ThresholdEvents(accounts', touched)
          /\ events'.overspends
               = events.overspends \cup OverspendEvents(accounts', touched)
          /\ accounts' = [accounts EXCEPT ![<<p, period>>].limit =
                            IF accounts[<<p, period>>].open THEN limit ELSE @]
      BY <1>1, <1>6 DEF PatchPolicy, TypeOK, Events
    <2>2. CASE a \in touched
      <3> HIDE DEF touched
      <3> QED BY <2>1, <2>2, TouchedAlerted
    <2>3. CASE a \notin touched
      <3>1. /\ accounts'[a].committed = accounts[a].committed
            /\ accounts'[a].limit = accounts[a].limit
        <4>1. accounts[a] \in AccountRow
          BY <1>1 DEF TypeOK
        <4>2. CASE a = <<p, period>>
          BY <1>1, <2>1, <2>3, <4>1, <4>2 DEF TypeOK, AccountRow
        <4>3. CASE a # <<p, period>>
          BY <1>1, <2>1, <4>3 DEF TypeOK
        <4> QED BY <4>2, <4>3
      <3> HIDE DEF touched
      <3> QED BY <1>1, <1>2, <2>1, <3>1, StillAlerted
    <2> QED BY <2>2, <2>3
  <1>7. ASSUME NEW rs, MarkReservationsUnknown(rs)
        PROVE  Alerted(a)'
    <2>1. /\ accounts' = accounts
          /\ events'.thresholds = events.thresholds
          /\ events'.overspends = events.overspends
      BY <1>1, <1>7 DEF MarkReservationsUnknown, money, TypeOK, Events
    <2> QED BY <1>3, <2>1
  <1>8. CASE UNCHANGED <<accounts, events>>
    BY <1>3, <1>8
  <1>9. \/ UNCHANGED <<accounts, events>>
        \/ \E rs : MarkReservationsUnknown(rs)
        \/ \E r \in Reservation : ApplyPending(r) \/ OperatorStep(r)
        \/ \E r \in Reservation, est \in Amount, cur \in Currency, t \in Period :
             Reserve(r, est, cur, t)
        \/ \E p \in Policy, limit \in Amount, enabled \in BOOLEAN :
             PatchPolicy(p, limit, enabled, policies[p].version)
    BY DEF Next, RequestStep, MarkDispatched, PersistResult, MarkUnknown, MarkStale,
           AdminStep, TopUp, CreatePolicy, Rollover, vars, money
  <1> QED BY <1>4, <1>5, <1>6, <1>7, <1>8, <1>9

\* No threshold is reached and no account overspent without the alert on record,
\* also when the limit is lowered under what is already committed.
THEOREM AlertsAreComplete == Spec => []AlertsComplete
  <1>1. Init => AlertsComplete
    <2> SUFFICES ASSUME Init, NEW a \in Account
                 PROVE  Alerted(a)
      BY DEF AlertsComplete, Alerted
    <2>1. accounts[a].committed = 0 /\ accounts[a].limit = 0
      BY DEF Init, NoAccount
    <2> QED BY <2>1 DEF Alerted, Reached
  <1> QED BY <1>1, NextAlerts, StepInvHolds, PTL DEF Spec

-----------------------------------------------------------------------------
(***************************************************************************)
(* The refinement.  Every transaction maps to one ledger step or to a       *)
(* stutter; the argument needs StepInv, because only LifecycleConsistent    *)
(* tells that the items of a claim all hold the same amount.                *)
(***************************************************************************)
HIDE FiniteAssumption

\* An item of an existing claim has what the claim holds, in every pot.
LEMMA ItemHold ==
  ASSUME Inv, NEW r \in Reservation, NEW p \in Pot, items[r][p].on
  PROVE  items[r][p].held + items[r][p].committed = ClaimHold(reservations[r])
  <1>1. /\ items[r][p].held \in Nat /\ items[r][p].committed \in Nat
        /\ reservations[r].estimate \in Nat
        /\ reservations[r].status \in Status
        /\ reservations[r].result.actual \in Nat
    BY DEF Inv, TypeOK, Item, Row, Result
  <1>2. ItemConsistent(reservations[r], items[r][p])
    BY DEF Inv, LifecycleConsistent
  <1> QED BY <1>1, <1>2 DEF ItemConsistent, ClaimHold, Status, Open

\* An item that does not exist has no money.
LEMMA NoItemHold ==
  ASSUME Inv, NEW r \in Reservation, NEW p \in Pot, ~items[r][p].on
  PROVE  items[r][p].held = 0 /\ items[r][p].committed = 0
  <1>1. items[r][p] = NoItem
    BY DEF Inv, LifecycleConsistent, ItemConsistent
  <1> QED BY <1>1 DEF NoItem

\* A step that changes the row and items of r only changes the claim of r only.
LEMMA OneClaim ==
  ASSUME NEW r \in Reservation, NEW state, NEW pots, NEW hold, NEW charge,
         \A q \in Reservation \ {r} :
           reservations'[q] = reservations[q] /\ items'[q] = items[q],
         Claim(reservations'[r], items'[r])
           = [state |-> state, pots |-> pots, hold |-> hold, charge |-> charge]
  PROVE  Ledger!Become(r, state, pots, hold, charge)
  BY Zenon DEF Claims, Claim, Ledger!Become

\* A step whose items move n in the given pots moves n in the ledger.
LEMMA PotsMove ==
  ASSUME Inv, Inv', NEW r \in Reservation, ItemsStep(r),
         NEW pots \in SUBSET Pot, NEW n \in Int,
         \A p \in Pot :
           items'[r][p].held + items'[r][p].committed
             = items[r][p].held + items[r][p].committed
                 + (IF p \in pots THEN n ELSE 0)
  PROVE  Ledger!Move(pots, n)
  <1> DEFINE d(p) == IF p \in pots THEN n ELSE 0
  <1>1. ASSUME NEW p \in Pot
        PROVE  /\ items[r][p].held \in Nat /\ items[r][p].committed \in Nat
               /\ items'[r][p].held \in Nat /\ items'[r][p].committed \in Nat
               /\ d(p) \in Int
    BY DEF Inv, TypeOK, Item
  <1>2. ASSUME NEW p \in Scope
        PROVE  deposited'[p] - quotas'[p].balance
                 = deposited[p] - quotas[p].balance + d(p)
    <2>1. p \in Pot /\ deposited[p] \in Nat /\ quotas[p].balance \in Int
          /\ quotas'[p].balance \in Int /\ deposited'[p] = deposited[p]
      BY DEF Pot, Inv, TypeOK, Quota, ItemsStep
    <2>2. quotas'[p].balance + items'[r][p].held + items'[r][p].committed
            = quotas[p].balance + items[r][p].held + items[r][p].committed
      BY DEF ItemsStep, BalanceStep
    <2>3. items'[r][p].held + items'[r][p].committed
            = items[r][p].held + items[r][p].committed + d(p)
      BY <2>1
    <2>4. /\ items[r][p].held \in Nat /\ items[r][p].committed \in Nat
          /\ items'[r][p].held \in Nat /\ items'[r][p].committed \in Nat
          /\ d(p) \in Int
      BY <1>1, <2>1
    <2> HIDE DEF d
    <2> QED BY <2>1, <2>2, <2>3, <2>4
  <1>3. ASSUME NEW p \in Account
        PROVE  accounts'[p].reserved + accounts'[p].committed
                 = accounts[p].reserved + accounts[p].committed + d(p)
    <2>1. /\ p \in Pot
          /\ accounts[p].reserved \in Int /\ accounts[p].committed \in Int
          /\ accounts'[p].reserved \in Int /\ accounts'[p].committed \in Int
      BY DEF Pot, Inv, TypeOK, AccountRow
    <2>2. /\ accounts'[p].reserved - accounts[p].reserved
               = items'[r][p].held - items[r][p].held
          /\ accounts'[p].committed - accounts[p].committed
               = items'[r][p].committed - items[r][p].committed
      BY DEF ItemsStep, AccountStep
    <2>3. items'[r][p].held + items'[r][p].committed
            = items[r][p].held + items[r][p].committed + d(p)
      BY <2>1
    <2>4. /\ items[r][p].held \in Nat /\ items[r][p].committed \in Nat
          /\ items'[r][p].held \in Nat /\ items'[r][p].committed \in Nat
          /\ d(p) \in Int
      BY <1>1, <2>1
    <2> HIDE DEF d
    <2> HIDE ConstantsAssumption
    <2> QED BY <2>1, <2>2, <2>3, <2>4
  <1>4. ASSUME NEW p \in Pot
        PROVE  Taken'[p] = Taken[p] + d(p) /\ Taken[p] \in Int
    <2>1. CASE p \in Scope
      <3>1. /\ Taken[p] = deposited[p] - quotas[p].balance
            /\ Taken'[p] = deposited'[p] - quotas'[p].balance
        BY <2>1 DEF Taken
      <3>2. deposited[p] \in Nat /\ quotas[p].balance \in Int
        BY <2>1 DEF Inv, TypeOK, Quota
      <3> QED BY <1>2, <2>1, <3>1, <3>2
    <2>2. CASE p \notin Scope
      <3>0. p \in Account
        BY <2>2 DEF Pot
      <3>1. /\ Taken[p] = accounts[p].reserved + accounts[p].committed
            /\ Taken'[p] = accounts'[p].reserved + accounts'[p].committed
        BY <2>2 DEF Taken
      <3>2. accounts[p].reserved \in Int /\ accounts[p].committed \in Int
        BY <3>0 DEF Inv, TypeOK, AccountRow
      <3> QED BY <1>3, <3>0, <3>1, <3>2
    <2> QED BY <2>1, <2>2
  <1>5. Taken' = [p \in Pot |-> Taken'[p]]
    BY DEF Taken
  <1>6. ASSUME NEW p \in Pot
        PROVE  Taken'[p] = IF p \in pots THEN Taken[p] + n ELSE Taken[p]
    BY <1>4
  <1> QED BY <1>5, <1>6 DEF Ledger!Move

-----------------------------------------------------------------------------
LEMMA LedgerInit == Init => Ledger!Init
  <1> SUFFICES ASSUME Init
               PROVE  Ledger!Init
    OBVIOUS
  <1>1. ASSUME NEW r \in Reservation
        PROVE  Claim(reservations[r], items[r]) = Ledger!NoClaim
    <2>1. reservations[r] = NoRow /\ \A p \in Pot : ~items[r][p].on
      BY DEF Init, NoItem
    <2>2. /\ ClaimState(NoRow) = "none" /\ ClaimHold(NoRow) = 0
          /\ NoRow.result.actual = 0
      BY DEF ClaimState, ClaimHold, NoRow, NoResult, Open
    <2> QED BY <2>1, <2>2 DEF Claim, Ledger!NoClaim
  <1>2. ASSUME NEW p \in Pot
        PROVE  Taken[p] = 0
    BY DEF Taken, Init, Pot, NoQuota, NoAccount
  <1> QED BY <1>1, <1>2 DEF Ledger!Init, Claims, Taken

-----------------------------------------------------------------------------
\* What a row's claim looks like, by the stage of the reservation.
LEMMA ClaimStages ==
  ASSUME NEW row \in Row, RowConsistent(row)
  PROVE  /\ row.status = "none" => ClaimState(row) = "none"
         /\ row.applied => ClaimState(row) = "closed"
         /\ row.result # NoResult /\ ~row.applied => ClaimState(row) = "due"
         /\ row.result = NoResult /\ row.status \in Open
              => ClaimState(row) = "open"
         /\ row.result = NoResult /\ row.status = "released_unknown"
              => ClaimState(row) = "risk"
  <1>1. row.status = "none" => row.result = NoResult /\ ~row.applied
    BY DEF RowConsistent, NoRow
  <1>2. row.applied => row.status \notin Open \cup {"none", "released_unknown"}
    BY DEF RowConsistent, Open
  <1> QED BY <1>1, <1>2 DEF ClaimState, Open

\* The rows before a step, and in the invariant, have one of those stages.
LEMMA RowFacts ==
  ASSUME Inv, NEW r \in Reservation
  PROVE  reservations[r] \in Row /\ RowConsistent(reservations[r])
  BY DEF Inv, TypeOK, LifecycleConsistent

\* Reserve is Make.
LEMMA ReserveMakes ==
  ASSUME StepInv, Inv', NEW r \in Reservation, NEW est \in Amount,
         NEW cur \in Currency, NEW t \in Period, Reserve(r, est, cur, t)
  PROVE  Ledger!Next
  <1> DEFINE pots == ConfiguredScopes(r) \cup {<<p, t>> : p \in EnabledPolicies(r)}
             new == [NoRow EXCEPT !.status = "reserved", !.currency = cur,
                                  !.estimate = est, !.version = 1]
  <1>0. Inv
    BY DEF StepInv
  <1>1. pots \in SUBSET Pot
    BY DEF ConfiguredScopes, EnabledPolicies, Pot, Account
  <1>2. reservations[r] = NoRow /\ Claims[r].state = "none"
    <2>1. reservations[r] = NoRow
      BY <1>0, ReserveOthers
    <2>2. ClaimState(reservations[r]) = "none"
      BY <1>0, <2>1, RowFacts, ClaimStages DEF NoRow
    <2> QED BY <2>1, <2>2 DEF Claims, Claim
  <1>3. reservations'[r] = new
    BY <1>0 DEF Reserve, Inv, TypeOK
  <1>4. /\ new.status = "reserved" /\ new.result = NoResult /\ ~new.applied
        /\ new.estimate = est /\ new.result.actual = 0
    BY DEF NoRow, NoResult
  <1> HIDE DEF pots, new
  <1>5. Claim(reservations'[r], items'[r])
          = [state |-> "open", pots |-> pots, hold |-> est, charge |-> 0]
    <2>1. ClaimState(new) = "open" /\ ClaimHold(new) = est
      BY <1>4 DEF ClaimState, ClaimHold, Open
    <2>2. \A p \in Pot : items'[r][p].on <=> p \in pots
      BY <1>0, ReserveEffect DEF pots
    <2>3. {p \in Pot : items'[r][p].on} = pots
      BY <1>1, <2>2
    <2> QED BY <1>3, <1>4, <2>1, <2>3 DEF Claim
  <1>6. \A q \in Reservation \ {r} :
          reservations'[q] = reservations[q] /\ items'[q] = items[q]
    BY <1>0, ReserveOthers
  <1>7. Ledger!Become(r, "open", pots, est, 0)
    BY <1>5, <1>6, OneClaim
  <1>8. ASSUME NEW p \in Pot
        PROVE  items'[r][p].held + items'[r][p].committed
                 = items[r][p].held + items[r][p].committed
                     + (IF p \in pots THEN est ELSE 0)
    <2>1. items[r][p].held = 0 /\ items[r][p].committed = 0
      BY <1>0, FreeItems DEF NoItem, Reserve
    <2>2. /\ items'[r][p].committed = 0
          /\ items'[r][p].held = IF p \in pots THEN est ELSE 0
      BY <1>0, ReserveEffect DEF pots
    <2>3. est \in Nat
      OBVIOUS
    <2> QED BY <2>1, <2>2, <2>3
  <1>9. Ledger!Move(pots, est)
    <2>1. est \in Int
      OBVIOUS
    <2>2. ItemsStep(r)
      BY ReserveMoney
    <2> QED BY <1>0, <1>1, <1>8, <2>1, <2>2, PotsMove
  <1>10. Ledger!Make(r, pots, est)
    BY <1>2, <1>7, <1>9 DEF Ledger!Make
  <1> QED BY <1>1, <1>10 DEF Ledger!Next

\* Finish, phase one, is Decide.
LEMMA PersistDecides ==
  ASSUME Inv, Inv', NEW r \in Reservation, NEW res \in Settlement,
         PersistResult(r, res)
  PROVE  Ledger!Next
  <1> DEFINE row == reservations[r]
             new == reservations'[r]
  <1>1. /\ row \in Row /\ RowConsistent(row)
        /\ new \in Row /\ RowConsistent(new)
    BY DEF Inv, TypeOK, LifecycleConsistent
  <1>2. /\ res # NoResult /\ res.actual \in Amount \cup {0}
    BY DEF Settlement, NoResult
  <1>3. /\ row.result = NoResult
        /\ row.status \in Open \cup {"released_unknown"}
    BY DEF PersistResult, MayPersist
  <1>4. /\ new.status = row.status /\ new.estimate = row.estimate
        /\ new.result = res /\ ~new.applied
    BY <1>1 DEF PersistResult, Inv, TypeOK, Row
  <1>5. ClaimState(row) \in Ledger!Undecided
    BY <1>1, <1>3, ClaimStages DEF Ledger!Undecided
  <1>6. ClaimState(new) = "due"
    BY <1>1, <1>2, <1>4, ClaimStages
  <1>7. ClaimHold(new) = ClaimHold(row)
    BY <1>3, <1>4 DEF ClaimHold, Open
  <1>8. /\ items' = items
        /\ \A q \in Reservation \ {r} : reservations'[q] = reservations[q]
        /\ UNCHANGED <<quotas, accounts, deposited>>
    BY DEF PersistResult, money, Inv, TypeOK
  <1> HIDE DEF row, new
  <1>9. Claims[r].pots = {p \in Pot : items[r][p].on}
        /\ Claims[r].hold = ClaimHold(row)
        /\ Claims[r].state = ClaimState(row)
    BY DEF Claims, Claim, row
  <1>10. Claim(new, items'[r])
           = [state |-> "due", pots |-> Claims[r].pots, hold |-> Claims[r].hold,
              charge |-> res.actual]
    BY <1>4, <1>6, <1>7, <1>8, <1>9, Zenon DEF Claim
  <1>11. Ledger!Become(r, "due", Claims[r].pots, Claims[r].hold, res.actual)
    BY <1>8, <1>10, OneClaim DEF new
  <1>12. Claims[r].state \in Ledger!Undecided
    BY <1>5, <1>9
  <1>13. UNCHANGED Taken
    BY <1>8 DEF Taken
  <1>14. Ledger!Decide(r, res.actual)
    BY <1>11, <1>12, <1>13 DEF Ledger!Decide
  <1> QED BY <1>2, <1>14 DEF Ledger!Next

-----------------------------------------------------------------------------
\* applyReservation moves the difference to the charge in every pot of the claim.
LEMMA ApplyMoves ==
  ASSUME Inv, Inv', NEW r \in Reservation, NEW res \in Result, NEW status,
         NEW resolved, ApplyReservation(r, res, status, resolved)
  PROVE  /\ {p \in Pot : items'[r][p].on} = {p \in Pot : items[r][p].on}
         /\ Ledger!Move({p \in Pot : items[r][p].on},
                        res.actual - ClaimHold(reservations[r]))
  <1> DEFINE pots == {p \in Pot : items[r][p].on}
             hold == ClaimHold(reservations[r])
             n == res.actual - hold
  <1>1. res.actual \in Nat /\ hold \in Nat
    BY DEF Result, ClaimHold, Inv, TypeOK, Row
  <1>2. {p \in Pot : items'[r][p].on} = pots
    BY ApplyEffect
  <1>3. ASSUME NEW p \in Pot
        PROVE  items'[r][p].held + items'[r][p].committed
                 = items[r][p].held + items[r][p].committed
                     + (IF p \in pots THEN n ELSE 0)
    <2>1. /\ items[r][p] \in Item
          /\ items'[r][p] = AppliedItem(items[r][p], res.actual)
      BY ApplyEffect
    <2>2. CASE items[r][p].on
      <3>1. items'[r][p].held = 0 /\ items'[r][p].committed = res.actual
        BY <2>1, <2>2 DEF AppliedItem, Item
      <3>2. items[r][p].held + items[r][p].committed = hold
        BY <2>2, ItemHold
      <3>3. p \in pots
        BY <2>2
      <3> HIDE DEF hold, pots
      <3> QED BY <1>1, <3>1, <3>2, <3>3
    <2>3. CASE ~items[r][p].on
      <3>1. items'[r][p] = items[r][p]
        BY <2>1, <2>3 DEF AppliedItem
      <3>2. items[r][p].held = 0 /\ items[r][p].committed = 0 /\ p \notin pots
        BY <2>3, NoItemHold
      <3> HIDE DEF pots
      <3> QED BY <3>1, <3>2
    <2> QED BY <2>2, <2>3
  <1>4. pots \in SUBSET Pot /\ n \in Int
    BY <1>1
  <1>5. ItemsStep(r)
    BY ApplyMoney
  <1> HIDE DEF pots, n
  <1>6. Ledger!Move(pots, n)
    BY <1>3, <1>4, <1>5, PotsMove
  <1> QED BY <1>2, <1>6 DEF pots, n

\* A verdict that is final closes the claim at the charge it names.
LEMMA ApplyCloses ==
  ASSUME Inv, Inv', NEW r \in Reservation, NEW res \in Result,
         NEW status \in {"settled", "released"}, NEW resolved,
         ApplyReservation(r, res, status, resolved)
  PROVE  Ledger!Closing(r, res.actual)
  <1> DEFINE row == reservations[r]
             new == reservations'[r]
             pots == {p \in Pot : items[r][p].on}
  <1>1. new.status = status /\ new.result = res /\ new.applied
    BY DEF ApplyReservation, Inv, TypeOK, Row
  <1>2. new \in Row /\ RowConsistent(new)
    BY DEF Inv, TypeOK, LifecycleConsistent
  <1>3. ClaimState(new) = "closed"
    BY <1>1, <1>2, ClaimStages
  <1>4. status = "released" => res.actual = 0
    BY <1>1, <1>2 DEF RowConsistent, NoResult
  <1>5. ClaimHold(new) = res.actual
    BY <1>1, <1>4 DEF ClaimHold, Open
  <1>6. /\ {p \in Pot : items'[r][p].on} = pots
        /\ Ledger!Move(pots, res.actual - ClaimHold(row))
    BY ApplyMoves
  <1>7. \A q \in Reservation \ {r} :
          reservations'[q] = reservations[q] /\ items'[q] = items[q]
    BY ApplyEffect
  <1> HIDE DEF row, new, pots
  <1>8. Claims[r].pots = pots /\ Claims[r].hold = ClaimHold(row)
    BY DEF Claims, Claim, row, pots
  <1>9. Claim(new, items'[r])
          = [state |-> "closed", pots |-> Claims[r].pots, hold |-> res.actual,
             charge |-> res.actual]
    BY <1>1, <1>3, <1>5, <1>6, <1>8, Zenon DEF Claim
  <1>10. Ledger!Become(r, "closed", Claims[r].pots, res.actual, res.actual)
    BY <1>7, <1>9, OneClaim DEF new
  <1> QED BY <1>6, <1>8, <1>10 DEF Ledger!Closing

\* Finish, phase two, is Close.
LEMMA PendingCloses ==
  ASSUME Inv, Inv', NEW r \in Reservation, ApplyPending(r)
  PROVE  Ledger!Next
  <1> DEFINE row == reservations[r]
             status == IF row.result.outcome = "released"
                       THEN "released" ELSE "settled"
  <1>1. /\ row.result # NoResult /\ ~row.applied
        /\ ApplyReservation(r, row.result, status, FALSE)
    BY DEF ApplyPending
  <1>2. row \in Row /\ RowConsistent(row) /\ row.result \in Result
    BY RowFacts DEF Row
  <1>3. ClaimState(row) = "due"
    BY <1>1, <1>2, ClaimStages
  <1>4. Claims[r].state = "due" /\ Claims[r].charge = row.result.actual
    BY <1>3 DEF Claims, Claim
  <1>5. status \in {"settled", "released"}
    OBVIOUS
  <1> HIDE DEF row, status
  <1>6. Ledger!Closing(r, row.result.actual)
    BY <1>1, <1>2, <1>5, ApplyCloses
  <1> QED BY <1>4, <1>6 DEF Ledger!Next, Ledger!Close

\* An operator's decision is Resolve, or LetGo for a release at risk.
LEMMA OperatorResolves ==
  ASSUME Inv, Inv', NEW r \in Reservation, OperatorStep(r)
  PROVE  Ledger!Next
  <1> DEFINE row == reservations[r]
             new == reservations'[r]
  <1>1. PICK action \in {"settle", "release", "release_unknown"}, n \in Amount :
          Resolve(r, action, n, row.version)
    BY DEF OperatorStep
  <1> DEFINE res == Resolution(action, n)
  <1>2. /\ row.result = NoResult
        /\ \/ row.status = "unknown"
           \/ row.status = "released_unknown" /\ action = "settle"
        /\ ApplyReservation(r, res, ResolvedStatus(action), TRUE)
    BY <1>1 DEF Resolve
  <1>3. res \in Result /\ res.actual \in Amount \cup {0}
    BY ResolutionType DEF Resolution, NoResult
  <1>4. row \in Row /\ RowConsistent(row)
    BY RowFacts
  <1>5. CASE action # "release_unknown"
    <2>1. ResolvedStatus(action) \in {"settled", "released"}
      BY <1>5 DEF ResolvedStatus
    <2>2. Ledger!Closing(r, res.actual)
      BY <1>2, <1>3, <2>1, ApplyCloses
    <2>3. ClaimState(row) \in Ledger!Undecided
      BY <1>2, <1>4, ClaimStages DEF Open, Ledger!Undecided
    <2>4. Claims[r].state \in Ledger!Undecided
      BY <2>3 DEF Claims, Claim
    <2>5. Ledger!Resolve(r, res.actual)
      BY <2>2, <2>4 DEF Ledger!Resolve
    <2> QED BY <1>3, <2>5 DEF Ledger!Next
  <1>6. CASE action = "release_unknown"
    <2> DEFINE pots == {p \in Pot : items[r][p].on}
    <2>1. ResolvedStatus(action) = "released_unknown" /\ res.actual = 0
      BY <1>6 DEF ResolvedStatus, Resolution, NoResult
    <2>2. row.status = "unknown"
      BY <1>2, <1>6
    <2>3. /\ new.status = "released_unknown"
          /\ new.result = NoResult
      BY <1>2, <1>4, <2>1 DEF ApplyReservation, Inv, TypeOK, Row
    <2>4. new \in Row /\ RowConsistent(new)
      BY DEF Inv, TypeOK, LifecycleConsistent
    <2>5. ClaimState(row) = "open" /\ ClaimState(new) = "risk"
      BY <1>2, <1>4, <2>2, <2>3, <2>4, ClaimStages DEF Open
    <2>6. ClaimHold(new) = 0
      BY <2>3 DEF ClaimHold, Open
    <2>7. /\ {p \in Pot : items'[r][p].on} = pots
          /\ Ledger!Move(pots, res.actual - ClaimHold(row))
      BY <1>2, <1>3, ApplyMoves
    <2>8. \A q \in Reservation \ {r} :
            reservations'[q] = reservations[q] /\ items'[q] = items[q]
      BY <1>2, <1>3, ApplyEffect
    <2>9. ClaimHold(row) \in Nat
      BY <1>4 DEF ClaimHold, Row, Result
    <2> HIDE DEF row, new, pots, res
    <2>10. res.actual - ClaimHold(row) = - ClaimHold(row)
      BY <2>1, <2>9
    <2>11. /\ Claims[r].state = "open" /\ Claims[r].pots = pots
           /\ Claims[r].hold = ClaimHold(row)
           /\ Claims[r].charge = row.result.actual
      BY <2>5 DEF Claims, Claim, pots, row
    <2>12. Claim(new, items'[r])
             = [state |-> "risk", pots |-> Claims[r].pots, hold |-> 0,
                charge |-> Claims[r].charge]
      BY <1>2, <2>3, <2>5, <2>6, <2>7, <2>11, Zenon DEF Claim
    <2>13. Ledger!Become(r, "risk", Claims[r].pots, 0, Claims[r].charge)
      BY <2>8, <2>12, OneClaim DEF new
    <2>14. Ledger!LetGo(r)
      BY <2>7, <2>10, <2>11, <2>13 DEF Ledger!LetGo
    <2> QED BY <2>14 DEF Ledger!Next
  <1> QED BY <1>5, <1>6

-----------------------------------------------------------------------------
\* The rest is invisible in the ledger: a dispatch marker, a parked
\* reservation, a top-up, a policy change, a new period.
LEMMA RestStutters ==
  ASSUME StepInv, ItemlessStep,
         ~ \E r \in Reservation, res \in Settlement : PersistResult(r, res)
  PROVE  UNCHANGED <<Claims, Taken>>
  <1>0. Inv
    BY DEF StepInv
  <1>1. items' = items
    BY ItemsUnchanged
  <1>2. ASSUME NEW q \in Reservation
        PROVE  \/ reservations'[q] = reservations[q]
               \/ /\ reservations[q].status \in Open
                  /\ reservations'[q].status \in Open
                  /\ reservations'[q].result = reservations[q].result
                  /\ reservations'[q].applied = reservations[q].applied
                  /\ reservations'[q].estimate = reservations[q].estimate
    <2>0. reservations[q] \in Row
      BY <1>0, RowFacts
    <2>1. ASSUME NEW r \in Reservation, MarkDispatched(r)
          PROVE  \/ reservations'[q] = reservations[q]
                 \/ /\ reservations[q].status \in Open
                    /\ reservations'[q].status \in Open
                    /\ reservations'[q].result = reservations[q].result
                    /\ reservations'[q].applied = reservations[q].applied
                    /\ reservations'[q].estimate = reservations[q].estimate
      BY <1>0, <2>0, <2>1 DEF MarkDispatched, Open, Row, Inv, TypeOK
    <2>2. ASSUME NEW rs \in SUBSET Reservation, \A r \in rs : MayBecomeUnknown(r),
                 MarkReservationsUnknown(rs)
          PROVE  \/ reservations'[q] = reservations[q]
                 \/ /\ reservations[q].status \in Open
                    /\ reservations'[q].status \in Open
                    /\ reservations'[q].result = reservations[q].result
                    /\ reservations'[q].applied = reservations[q].applied
                    /\ reservations'[q].estimate = reservations[q].estimate
      BY <2>0, <2>2 DEF MarkReservationsUnknown, MayBecomeUnknown, Open, Row
    <2>3. CASE AdminStep \/ Rollover
      BY <2>3 DEF AdminStep, TopUp, CreatePolicy, PatchPolicy, Rollover
    <2>4. CASE \E r \in Reservation : MarkUnknown(r)
      BY <2>2, <2>4 DEF MarkUnknown
    <2>5. CASE \E rs \in SUBSET Reservation : MarkStale(rs)
      BY <2>2, <2>5 DEF MarkStale
    <2> QED BY <2>1, <2>3, <2>4, <2>5 DEF ItemlessStep
  <1>3. ASSUME NEW q \in Reservation
        PROVE  /\ ClaimState(reservations'[q]) = ClaimState(reservations[q])
               /\ ClaimHold(reservations'[q]) = ClaimHold(reservations[q])
               /\ reservations'[q].result.actual = reservations[q].result.actual
    BY <1>2 DEF ClaimState, ClaimHold, Open
  <1>4. Claims' = Claims
    BY <1>1, <1>3 DEF Claims, Claim
  <1>5. Taken' = Taken
    <2>1. NoItemsStep
      BY <1>0, OtherMoney
    <2>2. ASSUME NEW s \in Scope
          PROVE  deposited'[s] - quotas'[s].balance = deposited[s] - quotas[s].balance
      <3>1. quotas'[s].balance - quotas[s].balance = deposited'[s] - deposited[s]
        BY <2>1 DEF NoItemsStep
      <3>2. /\ quotas[s].balance \in Int /\ deposited[s] \in Int
            /\ quotas'[s].balance \in Int /\ deposited'[s] \in Int
        <4>1. Inv'
          BY <1>0, NextInv DEF ItemlessStep, Next, RequestStep
        <4> QED BY <1>0, <4>1 DEF Inv, TypeOK, Quota
      <3> QED BY <3>1, <3>2
    <2>3. ASSUME NEW a \in Account
          PROVE  accounts'[a].reserved + accounts'[a].committed
                   = accounts[a].reserved + accounts[a].committed
      BY <2>1 DEF NoItemsStep
    <2>4. ASSUME NEW p \in Pot
          PROVE  Taken'[p] = Taken[p]
      BY <2>2, <2>3 DEF Taken, Pot
    <2> QED BY <2>4 DEF Taken
  <1> QED BY <1>4, <1>5

LEMMA LedgerNext ==
  ASSUME StepInv, [Next]_vars
  PROVE  [Ledger!Next]_<<Claims, Taken>>
  <1>0. Inv /\ Inv'
    BY NextInv DEF StepInv
  <1>1. ASSUME NEW r \in Reservation, RequestStep(r)
        PROVE  Ledger!Next \/ ItemlessStep
    BY <1>0, <1>1, ReserveMakes DEF RequestStep, ItemlessStep
  <1>2. ASSUME NEW r \in Reservation, ApplyPending(r) \/ OperatorStep(r)
        PROVE  Ledger!Next
    BY <1>0, <1>2, PendingCloses, OperatorResolves
  <1>3. CASE Next
    <2>1. Ledger!Next \/ ItemlessStep
      BY <1>1, <1>2, <1>3 DEF Next, ItemlessStep
    <2>2. CASE ItemlessStep
      BY <1>0, <2>2, PersistDecides, RestStutters
    <2> QED BY <2>1, <2>2
  <1>4. CASE UNCHANGED vars
    BY <1>4 DEF vars, Claims, Taken
  <1> QED BY <1>3, <1>4

\* The two-phase settlement of the spend store implements the one-step ledger,
\* for any number of reservations, quotas, policies and periods.
THEOREM LedgerImplemented == Spec => ImplementsLedger
  <1>1. Init => Ledger!Init
    BY LedgerInit
  <1>2. StepInv /\ [Next]_vars => [Ledger!Next]_<<Claims, Taken>>
    BY LedgerNext
  <1> QED BY <1>1, <1>2, StepInvHolds, PTL
          DEF Spec, ImplementsLedger, Ledger!Spec
=============================================================================
