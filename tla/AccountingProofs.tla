-------------------------- MODULE AccountingProofs --------------------------
(***************************************************************************)
(* Proofs about Accounting, for any set of reservations, scopes, policies   *)
(* and amounts.                                                             *)
(***************************************************************************)
EXTENDS Accounting, TLAPS

USE ConstantsAssumption

-----------------------------------------------------------------------------
(***************************************************************************)
(* Type correctness.                                                        *)
(***************************************************************************)
\* Every settlement a client may hand to Finish is a well-formed result.
LEMMA SettlementType == Settlement \subseteq Result
  <1>1. ASSUME NEW n \in Amount, NEW b \in BOOLEAN
        PROVE  [outcome |-> "known", actual |-> n, usage |-> TRUE, risk |-> b]
                 \in Result
    BY DEF Result
  <1>2. [NoResult EXCEPT !.outcome = "released"] \in Result
    BY DEF Result, NoResult
  <1> QED BY <1>1, <1>2 DEF Settlement

\* The rows of the empty store are well formed.
LEMMA EmptyRows ==
  /\ NoResult \in Result
  /\ NoRow \in Row
  /\ NoItem \in Item
  /\ NoAccount \in AccountRow
  /\ NoQuota \in Quota
  /\ NoPolicy \in PolicyRow
  BY DEF NoResult, Result, NoRow, Row, Status, Open, NoItem, Item, NoAccount,
         AccountRow, NoQuota, Quota, NoPolicy, PolicyRow

\* Applying an actual charge to an item yields an item.
LEMMA AppliedItemType ==
  ASSUME NEW item \in Item, NEW actual \in Nat
  PROVE  AppliedItem(item, actual) \in Item
  <1>1. /\ item.held \in Nat
        /\ item.committed \in Nat
        /\ item.released \in Nat
    BY DEF Item
  <1>2. item.released + Refund(item, actual) \in Nat
    BY <1>1 DEF Refund
  <1>3. [item EXCEPT !.held = 0, !.committed = actual,
                     !.released = @ + Refund(item, actual)] \in Item
    BY <1>2 DEF Item
  <1> QED BY <1>3 DEF AppliedItem

LEMMA InitType == Init => TypeOK
  <1> SUFFICES ASSUME Init PROVE TypeOK
    OBVIOUS
  <1>1. events \in Events
    BY DEF Init, Events, Zero
  <1>2. period \in Period /\ deposited \in [Scope -> Nat]
    BY DEF Init, Period
  <1> QED BY <1>1, <1>2, EmptyRows DEF Init, TypeOK

LEMMA ReserveType ==
  ASSUME TypeOK, NEW r \in Reservation, NEW est \in Amount,
         NEW cur \in Currency, NEW t \in Period, Reserve(r, est, cur, t)
  PROVE  TypeOK'
  <1> DEFINE pots == ConfiguredScopes(r) \cup {<<p, t>> : p \in EnabledPolicies(r)}
  <1>0. est \in Nat
    OBVIOUS
  <1>1. quotas' \in [Scope -> Quota]
    <2>1. ASSUME NEW s \in Scope
          PROVE  [quotas[s] EXCEPT !.balance = @ - est] \in Quota
      <3>1. quotas[s] \in Quota
        BY DEF TypeOK
      <3>2. quotas[s].balance - est \in Int
        BY <1>0, <3>1 DEF Quota
      <3> QED BY <3>1, <3>2 DEF Quota
    <2> QED BY <2>1 DEF Reserve, TypeOK
  <1>2. accounts' \in [Account -> AccountRow]
    <2>1. ASSUME NEW a \in Account
          PROVE  OpenedAccount(a[1], a[2]) \in AccountRow
      <3>1. a[1] \in Policy /\ a[2] \in Period /\ a = <<a[1], a[2]>>
        BY DEF Account
      <3>2. policies[a[1]].limit \in Nat
        BY <3>1 DEF TypeOK, PolicyRow
      <3>3. [NoAccount EXCEPT !.open = TRUE, !.limit = policies[a[1]].limit]
              \in AccountRow
        BY <3>2, EmptyRows DEF AccountRow
      <3>4. accounts[<<a[1], a[2]>>] \in AccountRow
        BY <3>1 DEF TypeOK
      <3> QED BY <3>3, <3>4 DEF OpenedAccount
    <2>2. ASSUME NEW a \in Account
          PROVE  [OpenedAccount(a[1], a[2]) EXCEPT !.reserved = @ + est]
                   \in AccountRow
      BY <1>0, <2>1 DEF AccountRow
    <2> QED BY <2>2 DEF Reserve, TypeOK
  <1>3. items' \in [Reservation -> [Pot -> Item]]
    <2>1. [NoItem EXCEPT !.on = TRUE, !.reserved = est, !.held = est] \in Item
      BY <1>0 DEF NoItem, Item
    <2> QED BY <2>1, EmptyRows DEF Reserve, TypeOK
  <1>4. reservations' \in [Reservation -> Row]
    <2>1. [NoRow EXCEPT !.status = "reserved", !.currency = cur,
                        !.estimate = est, !.version = 1] \in Row
      BY <1>0, EmptyRows DEF NoRow, Row, Status, Open
    <2> QED BY <2>1 DEF Reserve, TypeOK
  <1> QED BY <1>1, <1>2, <1>3, <1>4 DEF Reserve, TypeOK

LEMMA ApplyReservationType ==
  ASSUME TypeOK, NEW r \in Reservation, NEW res \in Result,
         NEW status \in Status, NEW resolved \in BOOLEAN,
         ApplyReservation(r, res, status, resolved)
  PROVE  TypeOK'
  <1>0. res.actual \in Nat
    BY DEF Result
  <1>1. quotas' \in [Scope -> Quota]
    <2>1. ASSUME NEW s \in Scope
          PROVE  AppliedQuota(s, items[r][s], res.actual) \in Quota
      <3>1. items[r][s] \in Item /\ quotas[s] \in Quota
        BY DEF TypeOK, Pot
      <3> QED BY <1>0, <3>1 DEF AppliedQuota, Quota, Item
    <2> QED BY <2>1 DEF ApplyReservation
  <1>2. accounts' \in [Account -> AccountRow]
    <2>1. ASSUME NEW a \in Account
          PROVE  AppliedAccount(a, items[r][a], res.actual) \in AccountRow
      <3>1. items[r][a] \in Item /\ accounts[a] \in AccountRow
        BY DEF TypeOK, Pot
      <3>2. /\ items[r][a].held \in Nat /\ items[r][a].committed \in Nat
            /\ accounts[a].reserved \in Int /\ accounts[a].committed \in Int
            /\ accounts[a].released \in Int
        BY <3>1 DEF Item, AccountRow
      <3>3. /\ accounts[a].reserved - items[r][a].held \in Int
            /\ accounts[a].committed + res.actual - items[r][a].committed \in Int
            /\ accounts[a].released + Refund(items[r][a], res.actual) \in Int
        BY <1>0, <3>2 DEF Refund
      <3> QED BY <3>1, <3>3 DEF AppliedAccount, AccountRow
    <2> QED BY <2>1 DEF ApplyReservation
  <1>3. items' \in [Reservation -> [Pot -> Item]]
    <2>1. [p \in Pot |-> AppliedItem(items[r][p], res.actual)] \in [Pot -> Item]
      BY <1>0, AppliedItemType DEF TypeOK
    <2> QED BY <2>1 DEF ApplyReservation, TypeOK
  <1>4. events' \in Events
    <2> DEFINE touched == {a \in Account : items[r][a].on}
    <2>1. /\ ThresholdEvents(accounts', touched) \subseteq Account \X (1..100)
          /\ OverspendEvents(accounts', touched) \subseteq Account
      BY DEF ThresholdEvents, OverspendEvents
    <2>2. \A b \in BOOLEAN : (IF b THEN 1 ELSE 0) \in Nat
      OBVIOUS
    <2>3. res.usage \in BOOLEAN /\ res.risk \in BOOLEAN
      BY DEF Result
    <2>4. /\ events \in Events
          /\ events.usages[r] \in Nat /\ events.risks[r] \in Nat
          /\ events.resolutions[r] \in Nat
      BY DEF TypeOK, Events
    <2>5. /\ events.usages[r] + (IF res.usage THEN 1 ELSE 0) \in Nat
          /\ events.risks[r] + (IF res.risk THEN 1 ELSE 0) \in Nat
          /\ events.resolutions[r] + (IF resolved THEN 1 ELSE 0) \in Nat
      BY <2>2, <2>3, <2>4
    <2>6. events' =
            [events EXCEPT
               !.thresholds = @ \cup ThresholdEvents(accounts', touched),
               !.overspends = @ \cup OverspendEvents(accounts', touched),
               !.usages[r] = @ + (IF res.usage THEN 1 ELSE 0),
               !.risks[r] = @ + (IF res.risk THEN 1 ELSE 0),
               !.resolutions[r] = @ + (IF resolved THEN 1 ELSE 0)]
      BY DEF ApplyReservation
    <2> HIDE DEF touched
    <2> QED BY <2>1, <2>4, <2>5, <2>6 DEF Events
  <1>5. reservations' \in [Reservation -> Row]
    <2>1. reservations[r] \in Row
      BY DEF TypeOK
    <2>2. reservations'[r] \in Row
      <3>1. /\ reservations[r].version + 1 \in Nat
            /\ reservations[r].result \in Result
            /\ reservations[r].applied \in BOOLEAN
        BY <2>1 DEF Row
      <3> QED BY <2>1, <3>1 DEF ApplyReservation, TypeOK, Row
    <2> QED BY <2>2 DEF ApplyReservation, TypeOK
  <1> QED BY <1>1, <1>2, <1>3, <1>4, <1>5 DEF ApplyReservation, TypeOK

LEMMA ApplyPendingType ==
  ASSUME TypeOK, NEW r \in Reservation, ApplyPending(r)
  PROVE  TypeOK'
  <1>1. reservations[r].result \in Result
    BY DEF TypeOK, Row
  <1>2. CASE reservations[r].result.outcome = "released"
    <2>1. ApplyReservation(r, reservations[r].result, "released", FALSE)
      BY <1>2 DEF ApplyPending
    <2>2. "released" \in Status
      BY DEF Status
    <2> QED BY <1>1, <2>1, <2>2, ApplyReservationType
  <1>3. CASE reservations[r].result.outcome # "released"
    <2>1. ApplyReservation(r, reservations[r].result, "settled", FALSE)
      BY <1>3 DEF ApplyPending
    <2>2. "settled" \in Status
      BY DEF Status
    <2> QED BY <1>1, <2>1, <2>2, ApplyReservationType
  <1> QED BY <1>2, <1>3

\* What an operator's decision amounts to.
LEMMA ResolveCases ==
  ASSUME NEW r \in Reservation, NEW actual \in Amount, NEW version,
         NEW action \in {"settle", "release", "release_unknown"},
         Resolve(r, action, actual, version)
  PROVE  /\ reservations[r].result = NoResult
         /\ \/ /\ reservations[r].status \in {"unknown", "released_unknown"}
               /\ ApplyReservation(r, [NoResult EXCEPT !.outcome = "known",
                                                       !.actual = actual],
                                   "settled", TRUE)
            \/ /\ reservations[r].status = "unknown"
               /\ \/ ApplyReservation(r, [NoResult EXCEPT !.outcome = "released"],
                                      "released", TRUE)
                  \/ ApplyReservation(r, [NoResult EXCEPT !.outcome = "released"],
                                      "released_unknown", TRUE)
  <1>1. CASE action = "settle"
    BY <1>1 DEF Resolve, ResolvedStatus, Resolution
  <1>2. CASE action = "release"
    BY <1>2 DEF Resolve, ResolvedStatus, Resolution
  <1>3. CASE action = "release_unknown"
    BY <1>3 DEF Resolve, ResolvedStatus, Resolution
  <1> QED BY <1>1, <1>2, <1>3

\* The results an operator's decision records are well formed.
LEMMA ResolutionType ==
  ASSUME NEW actual \in Amount
  PROVE  /\ [NoResult EXCEPT !.outcome = "known", !.actual = actual] \in Result
         /\ [NoResult EXCEPT !.outcome = "released"] \in Result
  BY DEF NoResult, Result

LEMMA ResolveType ==
  ASSUME TypeOK, NEW r \in Reservation, NEW actual \in Amount, NEW version,
         NEW action \in {"settle", "release", "release_unknown"},
         Resolve(r, action, actual, version)
  PROVE  TypeOK'
  <1>1. Resolution(action, actual) \in Result
    BY ResolutionType DEF Resolution
  <1>2. ResolvedStatus(action) \in Status
    BY DEF ResolvedStatus, Status
  <1>3. ApplyReservation(r, Resolution(action, actual), ResolvedStatus(action),
                         TRUE)
    BY DEF Resolve
  <1> QED BY <1>1, <1>2, <1>3, ApplyReservationType

LEMMA MarkReservationsUnknownType ==
  ASSUME TypeOK, NEW rs \in SUBSET Reservation, MarkReservationsUnknown(rs)
  PROVE  TypeOK'
  <1>1. ASSUME NEW r \in Reservation
        PROVE  [reservations[r] EXCEPT !.status = "unknown",
                                       !.version = @ + 1] \in Row
    <2>1. reservations[r] \in Row /\ reservations[r].version + 1 \in Nat
      BY DEF TypeOK, Row
    <2> QED BY <2>1 DEF Row, Status, Open
  <1>2. reservations' \in [Reservation -> Row]
    BY <1>1 DEF MarkReservationsUnknown, TypeOK
  <1>3. events' \in Events
    BY DEF MarkReservationsUnknown, TypeOK, Events
  <1> QED BY <1>2, <1>3 DEF MarkReservationsUnknown, TypeOK, money

LEMMA RowStepType ==
  ASSUME TypeOK, NEW r \in Reservation,
         MarkDispatched(r) \/ \E res \in Settlement : PersistResult(r, res)
  PROVE  TypeOK'
  <1>0. reservations[r] \in Row /\ reservations[r].version + 1 \in Nat
    BY DEF TypeOK, Row
  <1>1. CASE MarkDispatched(r)
    <2>1. [reservations[r] EXCEPT !.status = "dispatched", !.version = @ + 1]
            \in Row
      BY <1>0 DEF Row, Status, Open
    <2> QED BY <1>1, <2>1 DEF MarkDispatched, TypeOK, money
  <1>2. ASSUME NEW res \in Settlement, PersistResult(r, res)
        PROVE  TypeOK'
    <2>1. [reservations[r] EXCEPT !.result = res, !.applied = FALSE,
                                  !.version = @ + 1] \in Row
      BY <1>0, SettlementType DEF Row
    <2> QED BY <1>2, <2>1 DEF PersistResult, TypeOK, money
  <1> QED BY <1>1, <1>2

LEMMA AdminStepType ==
  ASSUME TypeOK, AdminStep
  PROVE  TypeOK'
  <1>1. ASSUME NEW s \in Scope, NEW delta \in Amount, NEW cur \in Currency,
               TopUp(s, delta, cur)
        PROVE  TypeOK'
    <2>1. quotas[s] \in Quota /\ quotas[s].balance + delta \in Int
      BY DEF TypeOK, Quota
    <2>2. [quotas[s] EXCEPT !.currency = cur, !.balance = @ + delta] \in Quota
      BY <2>1 DEF Quota
    <2>3. deposited[s] + delta \in Nat
      BY DEF TypeOK
    <2> QED BY <1>1, <2>2, <2>3 DEF TopUp, TypeOK
  <1>2. ASSUME NEW p \in Policy, NEW limit \in Amount, CreatePolicy(p, limit)
        PROVE  TypeOK'
    <2>1. [enabled |-> TRUE, limit |-> limit, version |-> 1] \in PolicyRow
      BY DEF PolicyRow
    <2> QED BY <1>2, <2>1 DEF CreatePolicy, TypeOK, money
  <1>3. ASSUME NEW p \in Policy, NEW limit \in Amount, NEW enabled \in BOOLEAN,
               PatchPolicy(p, limit, enabled, policies[p].version)
        PROVE  TypeOK'
    <2> DEFINE a == <<p, period>>
               touched == {b \in {a} : accounts[b].open}
    <2>0. a \in Account
      BY DEF TypeOK, Account
    <2>1. policies' \in [Policy -> PolicyRow]
      <3>1. policies[p].version + 1 \in Nat
        BY DEF TypeOK, PolicyRow
      <3>2. [enabled |-> enabled, limit |-> limit,
             version |-> policies[p].version + 1] \in PolicyRow
        BY <3>1 DEF PolicyRow
      <3> QED BY <1>3, <3>2 DEF PatchPolicy, TypeOK
    <2>2. accounts' \in [Account -> AccountRow]
      <3>1. accounts[a] \in AccountRow
        BY <2>0 DEF TypeOK
      <3>2. [accounts[a] EXCEPT !.limit = IF accounts[a].open THEN limit ELSE @]
              \in AccountRow
        BY <3>1 DEF AccountRow
      <3> QED BY <1>3, <2>0, <3>2 DEF PatchPolicy, TypeOK
    <2>3. events' \in Events
      <3>1. /\ ThresholdEvents(accounts', touched) \subseteq Account \X (1..100)
            /\ OverspendEvents(accounts', touched) \subseteq Account
        BY <2>0 DEF ThresholdEvents, OverspendEvents
      <3> QED BY <1>3, <3>1 DEF PatchPolicy, TypeOK, Events
    <2> QED BY <1>3, <2>1, <2>2, <2>3 DEF PatchPolicy, TypeOK
  <1> QED BY <1>1, <1>2, <1>3 DEF AdminStep

LEMMA NextType == TypeOK /\ [Next]_vars => TypeOK'
  <1> SUFFICES ASSUME TypeOK, [Next]_vars
               PROVE  TypeOK'
    OBVIOUS
  <1>1. ASSUME NEW r \in Reservation, RequestStep(r)
        PROVE  TypeOK'
    BY <1>1, ReserveType, RowStepType, MarkReservationsUnknownType
       DEF RequestStep, MarkUnknown
  <1>2. ASSUME NEW r \in Reservation, ApplyPending(r)
        PROVE  TypeOK'
    BY <1>2, ApplyPendingType
  <1>3. ASSUME NEW r \in Reservation, OperatorStep(r)
        PROVE  TypeOK'
    BY <1>3, ResolveType DEF OperatorStep
  <1>4. ASSUME NEW rs \in SUBSET Reservation, MarkStale(rs)
        PROVE  TypeOK'
    BY <1>4, MarkReservationsUnknownType DEF MarkStale
  <1>5. CASE AdminStep
    BY <1>5, AdminStepType
  <1>6. CASE Rollover
    BY <1>6 DEF Rollover, TypeOK, money, Period
  <1>7. CASE UNCHANGED vars
    BY <1>7 DEF vars, TypeOK
  <1> QED BY <1>1, <1>2, <1>3, <1>4, <1>5, <1>6, <1>7 DEF Next

\* The store's rows stay well formed: in particular the held, committed and
\* released columns of an item never become negative.
THEOREM TypeCorrect == Spec => []TypeOK
  BY InitType, NextType, PTL DEF Spec

-----------------------------------------------------------------------------
(***************************************************************************)
(* The lifecycle of a reservation.  LifecycleConsistent is inductive on top *)
(* of TypeOK: it ties status, result and money together tightly enough that *)
(* each transaction's guard excludes every row it would corrupt.            *)
(* LedgerRowsExactlyOnce and SettlementAlwaysApplicable are carried along.  *)
(***************************************************************************)
Inv ==
  /\ TypeOK
  /\ LifecycleConsistent
  /\ LedgerRowsExactlyOnce
  /\ SettlementAlwaysApplicable

LEMMA InitInv == Init => Inv
  <1> SUFFICES ASSUME Init PROVE Inv
    OBVIOUS
  <1>1. LifecycleConsistent
    BY DEF Init, LifecycleConsistent, RowConsistent, ItemConsistent, NoRow,
           NoItem, NoResult
  <1>2. LedgerRowsExactlyOnce
    BY DEF Init, LedgerRowsExactlyOnce, NoRow, NoResult, Zero
  <1>3. SettlementAlwaysApplicable
    BY DEF Init, SettlementAlwaysApplicable, ItemsApplicable, NoItem, Pot
  <1> QED BY <1>1, <1>2, <1>3, InitType DEF Inv

\* Applying an admissible verdict to an unapplied reservation keeps all four
\* parts of the invariant.
LEMMA ApplyReservationInv ==
  ASSUME Inv, NEW r \in Reservation, NEW res \in Result,
         NEW status \in {"settled", "released", "released_unknown"},
         NEW resolved \in BOOLEAN,
         ApplyReservation(r, res, status, resolved),
         reservations[r].status \in Open \cup {"released_unknown"},
         status = "settled" => res.outcome = "known",
         status # "settled" =>
           /\ reservations[r].status \in Open
           /\ res = [NoResult EXCEPT !.outcome = "released"],
         status = "released_unknown" => reservations[r].result = NoResult
  PROVE  Inv'
  <1> DEFINE row == reservations[r]
  <1>0. /\ row \in Row /\ RowConsistent(row) /\ ~row.applied
        /\ \A p \in Pot : items[r][p] \in Item /\ ItemConsistent(row, items[r][p])
    BY DEF Inv, TypeOK, LifecycleConsistent, RowConsistent, Open
  <1>1. TypeOK'
    BY ApplyReservationType DEF Inv, Status
  <1>2. /\ reservations' = [reservations EXCEPT ![r] = reservations'[r]]
        /\ reservations'[r].status = status
        /\ reservations'[r].currency = row.currency
        /\ reservations'[r].estimate = row.estimate
        /\ reservations'[r].result =
             IF status = "released_unknown" THEN row.result ELSE res
        /\ reservations'[r].applied =
             IF status = "released_unknown" THEN row.applied ELSE TRUE
    BY <1>0 DEF ApplyReservation, Inv, TypeOK, Row
  <1>3. RowConsistent(reservations'[r])
    <2>1. CASE status = "settled"
      BY <1>0, <1>2, <2>1 DEF RowConsistent, Open, Result, Row
    <2>2. CASE status = "released"
      BY <1>0, <1>2, <2>2 DEF RowConsistent, Open, Result, NoResult, Row
    <2>3. CASE status = "released_unknown"
      BY <1>0, <1>2, <2>3 DEF RowConsistent, Open, NoResult, Row
    <2> QED BY <2>1, <2>2, <2>3
  <1>4. ASSUME NEW p \in Pot
        PROVE  ItemConsistent(reservations'[r], items'[r][p])
    <2>1. items'[r][p] = AppliedItem(items[r][p], res.actual)
      BY DEF ApplyReservation, Inv, TypeOK
    <2>2. CASE ~items[r][p].on
      BY <1>0, <2>1, <2>2 DEF AppliedItem, ItemConsistent
    <2>3. CASE items[r][p].on
      <3>1. /\ items[r][p].reserved = row.estimate
            /\ items[r][p].held \in Nat /\ items[r][p].committed \in Nat
            /\ items[r][p].released \in Nat /\ row.estimate \in Nat
        BY <1>0, <2>3 DEF ItemConsistent, Item, Row
      <3>2. /\ items'[r][p].on
            /\ items'[r][p].reserved = row.estimate
            /\ items'[r][p].held = 0
            /\ items'[r][p].committed = res.actual
            /\ items'[r][p].released
                 = items[r][p].released + Refund(items[r][p], res.actual)
        BY <1>0, <2>1, <2>3, <3>1 DEF AppliedItem, Item
      <3>3. CASE status = "settled"
        BY <1>2, <3>2, <3>3 DEF ItemConsistent, Open
      <3>4. CASE status # "settled"
        <4>1. /\ items[r][p].held = row.estimate /\ items[r][p].committed = 0
              /\ items[r][p].released = 0
          BY <1>0, <2>3, <3>4 DEF ItemConsistent
        <4>2. res.actual = 0
          BY <3>4 DEF NoResult
        <4>3. items'[r][p].released = row.estimate
          BY <3>1, <3>2, <4>1, <4>2 DEF Refund
        <4> QED BY <1>2, <3>2, <3>4, <4>2, <4>3 DEF ItemConsistent, Open
      <3> QED BY <3>3, <3>4
    <2> QED BY <2>2, <2>3
  <1>5. LifecycleConsistent'
    <2>1. ASSUME NEW q \in Reservation, q # r
          PROVE  reservations'[q] = reservations[q] /\ items'[q] = items[q]
      BY <2>1 DEF ApplyReservation, Inv, TypeOK
    <2>2. ASSUME NEW q \in Reservation
          PROVE  /\ RowConsistent(reservations'[q])
                 /\ \A p \in Pot : ItemConsistent(reservations'[q], items'[q][p])
      BY <1>3, <1>4, <2>1 DEF Inv, LifecycleConsistent
    <2> QED BY <2>2 DEF LifecycleConsistent, RowConsistent, ItemConsistent
  <1>6. LedgerRowsExactlyOnce'
    <2>1. events.usages[r] = 0 /\ events.risks[r] = 0
      BY <1>0 DEF Inv, LedgerRowsExactlyOnce
    <2>2. /\ events'.usages[r] = IF res.usage THEN 1 ELSE 0
          /\ events'.risks[r] = IF res.risk THEN 1 ELSE 0
      BY <2>1 DEF ApplyReservation, Inv, TypeOK, Events
    <2>3. ASSUME NEW q \in Reservation, q # r
          PROVE  /\ events'.usages[q] = events.usages[q]
                 /\ events'.risks[q] = events.risks[q]
                 /\ reservations'[q] = reservations[q]
      BY <2>3 DEF ApplyReservation, Inv, TypeOK, Events
    <2>4. status # "settled" => ~res.usage /\ ~res.risk
      BY DEF NoResult
    <2>5. /\ events'.usages[r] = IF reservations'[r].applied
                                      /\ reservations'[r].result.usage
                                 THEN 1 ELSE 0
          /\ events'.risks[r] = IF reservations'[r].applied
                                     /\ reservations'[r].result.risk
                                THEN 1 ELSE 0
      BY <1>0, <1>2, <2>2, <2>4
    <2> QED BY <2>3, <2>5 DEF Inv, LedgerRowsExactlyOnce
  <1>7. SettlementAlwaysApplicable'
    <2>1. ASSUME NEW q \in Reservation, NEW s \in Scope
          PROVE  /\ quotas'[s].currency = quotas[s].currency
                 /\ items'[q][s].on = items[q][s].on
                 /\ reservations'[q].currency = reservations[q].currency
      <3>1. quotas'[s].currency = quotas[s].currency
        BY DEF ApplyReservation, AppliedQuota, Inv, TypeOK, Quota
      <3>2. items'[q][s].on = items[q][s].on
        <4>1. CASE q = r
          <5>1. s \in Pot
            BY DEF Pot
          <5>2. items[r][s] \in Item
            BY <1>0, <5>1
          <5>3. items'[r][s] = AppliedItem(items[r][s], res.actual)
            BY <5>1 DEF ApplyReservation, Inv, TypeOK
          <5>4. AppliedItem(items[r][s], res.actual).on = items[r][s].on
            BY <5>2 DEF AppliedItem, Item
          <5> QED BY <4>1, <5>3, <5>4
        <4>2. CASE q # r
          BY <4>2 DEF ApplyReservation, Inv, TypeOK
        <4> QED BY <4>1, <4>2
      <3>3. reservations'[q].currency = reservations[q].currency
        BY <1>2 DEF Inv, TypeOK
      <3> QED BY <3>1, <3>2, <3>3
    <2> QED BY <2>1 DEF Inv, SettlementAlwaysApplicable, ItemsApplicable
  <1> QED BY <1>1, <1>5, <1>6, <1>7 DEF Inv

LEMMA ApplyPendingInv ==
  ASSUME Inv, NEW r \in Reservation, ApplyPending(r)
  PROVE  Inv'
  <1> DEFINE row == reservations[r]
             res == row.result
             status == IF res.outcome = "released" THEN "released" ELSE "settled"
  <1>1. row \in Row /\ res \in Result /\ RowConsistent(row)
    BY DEF Inv, TypeOK, LifecycleConsistent, Row
  <1>2. res # NoResult /\ ~row.applied
        /\ ApplyReservation(r, res, status, FALSE)
    BY DEF ApplyPending
  <1>3. row.status \in Open \cup {"released_unknown"}
    BY <1>1, <1>2 DEF RowConsistent, Row, Status, NoRow, NoResult
  <1>4. res.outcome \in {"known", "released"}
    BY <1>1, <1>2 DEF RowConsistent, Result
  <1>5. status = "settled" => res.outcome = "known"
    BY <1>4
  <1>6. status # "settled" =>
          /\ row.status \in Open
          /\ res = [NoResult EXCEPT !.outcome = "released"]
    <2> SUFFICES ASSUME status # "settled"
                 PROVE  /\ row.status \in Open
                        /\ res = [NoResult EXCEPT !.outcome = "released"]
      OBVIOUS
    <2>1. res.outcome = "released"
      OBVIOUS
    <2> QED BY <1>1, <1>3, <2>1 DEF RowConsistent
  <1>7. status \in {"settled", "released", "released_unknown"}
        /\ (status = "released_unknown" => res = NoResult)
    OBVIOUS
  <1> HIDE DEF status
  <1> QED BY <1>1, <1>2, <1>3, <1>5, <1>6, <1>7, ApplyReservationInv

LEMMA ResolveInv ==
  ASSUME Inv, NEW r \in Reservation,
         NEW action \in {"settle", "release", "release_unknown"},
         NEW n \in Amount, NEW version \in Nat, Resolve(r, action, n, version)
  PROVE  Inv'
  <1> DEFINE row == reservations[r]
  <1>1. /\ row.result = NoResult
        /\ row.status \in Open \cup {"released_unknown"}
        /\ action # "settle" => row.status \in Open
        /\ ApplyReservation(r, Resolution(action, n), ResolvedStatus(action),
                            TRUE)
    BY DEF Resolve, Open
  <1>2. Resolution(action, n) \in Result
    BY ResolutionType DEF Resolution
  <1>3. ResolvedStatus(action) \in {"settled", "released", "released_unknown"}
    BY DEF ResolvedStatus
  <1>4. ResolvedStatus(action) = "settled" =>
          Resolution(action, n).outcome = "known"
    BY DEF ResolvedStatus, Resolution, NoResult
  <1>5. ResolvedStatus(action) # "settled" =>
          /\ row.status \in Open
          /\ Resolution(action, n) = [NoResult EXCEPT !.outcome = "released"]
    BY <1>1 DEF ResolvedStatus, Resolution
  <1> QED BY <1>1, <1>2, <1>3, <1>4, <1>5, ApplyReservationInv

\* Steps that leave every item, event count, quota currency and the identity of
\* a row alone keep the invariant if the rows they write are consistent.
LEMMA RowChangeInv ==
  ASSUME Inv, TypeOK',
         \A r \in Reservation :
           /\ RowConsistent(reservations'[r])
           /\ reservations'[r].currency = reservations[r].currency
           /\ reservations'[r].estimate = reservations[r].estimate
           /\ reservations'[r] = reservations[r] \/
                /\ reservations[r].status # "none"
                /\ reservations'[r].status # "none"
                /\ ~reservations[r].applied /\ ~reservations'[r].applied
                /\ \/ reservations'[r].status = reservations[r].status
                   \/ /\ reservations[r].status \in Open
                      /\ reservations'[r].status \in Open,
         UNCHANGED items,
         events'.usages = events.usages, events'.risks = events.risks,
         \A s \in Scope : quotas[s].currency # NoCurrency =>
                             quotas'[s].currency = quotas[s].currency
  PROVE  Inv'
  <1>1. ASSUME NEW r \in Reservation, NEW p \in Pot
        PROVE  ItemConsistent(reservations'[r], items'[r][p])
    <2>1. ItemConsistent(reservations[r], items[r][p]) /\ items' = items
      BY DEF Inv, LifecycleConsistent
    <2>2. CASE reservations'[r] = reservations[r]
      BY <2>1, <2>2
    <2>3. CASE ~items[r][p].on
      BY <2>1, <2>3 DEF ItemConsistent
    <2>4. CASE items[r][p].on /\ reservations'[r] # reservations[r]
      <3>1. reservations[r].status # "settled"
            /\ reservations'[r].status # "settled"
        BY <2>4 DEF Inv, LifecycleConsistent, RowConsistent
      <3>2. /\ reservations'[r].status # "none"
            /\ reservations'[r].estimate = reservations[r].estimate
            /\ \/ reservations'[r].status = reservations[r].status
               \/ /\ reservations[r].status \in Open
                  /\ reservations'[r].status \in Open
        BY <2>4
      <3> QED BY <2>1, <2>4, <3>1, <3>2 DEF ItemConsistent, Open
    <2> QED BY <2>2, <2>3, <2>4
  <1>2. LifecycleConsistent'
    BY <1>1 DEF LifecycleConsistent, RowConsistent, ItemConsistent
  <1>3. LedgerRowsExactlyOnce'
    BY DEF Inv, LedgerRowsExactlyOnce
  <1>4. SettlementAlwaysApplicable'
    <2> SUFFICES ASSUME NEW r \in Reservation, NEW s \in Scope,
                        items[r][s].on
                 PROVE  quotas'[s].currency = reservations[r].currency
      BY DEF SettlementAlwaysApplicable, ItemsApplicable
    <2>1. s \in Pot
      BY DEF Pot
    <2>2. reservations[r].status # "none"
      BY <2>1 DEF Inv, LifecycleConsistent, ItemConsistent
    <2>3. reservations[r].currency \in Currency
      BY <2>2 DEF Inv, LifecycleConsistent, RowConsistent
    <2>4. quotas[s].currency = reservations[r].currency
      BY DEF Inv, SettlementAlwaysApplicable, ItemsApplicable
    <2> QED BY <2>3, <2>4
  <1> QED BY <1>2, <1>3, <1>4 DEF Inv

LEMMA ReserveInv ==
  ASSUME Inv, NEW r \in Reservation, NEW est \in Amount, NEW cur \in Currency,
         NEW t \in Period, Reserve(r, est, cur, t)
  PROVE  Inv'
  <1> DEFINE pots == ConfiguredScopes(r) \cup {<<p, t>> : p \in EnabledPolicies(r)}
             new == [NoItem EXCEPT !.on = TRUE, !.reserved = est, !.held = est]
  <1>1. TypeOK'
    BY ReserveType DEF Inv
  <1>2. /\ reservations' = [reservations EXCEPT ![r] = reservations'[r]]
        /\ reservations'[r] = [NoRow EXCEPT !.status = "reserved",
                                 !.currency = cur, !.estimate = est,
                                 !.version = 1]
        /\ items' = [items EXCEPT ![r] =
                       [p \in Pot |-> IF p \in pots THEN new ELSE NoItem]]
    BY DEF Reserve, Inv, TypeOK
  <1>3. reservations[r] = NoRow /\ ~reservations[r].applied
    BY DEF Reserve, Inv, LifecycleConsistent, RowConsistent, NoRow
  <1>4. /\ reservations'[r].status = "reserved"
        /\ reservations'[r].currency = cur
        /\ reservations'[r].estimate = est
        /\ reservations'[r].result = NoResult
        /\ reservations'[r].applied = FALSE
    BY <1>2 DEF NoRow
  <1>5. RowConsistent(reservations'[r])
    BY <1>4 DEF RowConsistent, NoResult
  <1>6. ASSUME NEW q \in Reservation, q # r
        PROVE  reservations'[q] = reservations[q] /\ items'[q] = items[q]
    BY <1>2, <1>6 DEF Inv, TypeOK
  <1>7. ASSUME NEW p \in Pot
        PROVE  items'[r][p] = IF p \in pots THEN new ELSE NoItem
    BY <1>2 DEF Inv, TypeOK
  <1>8. /\ new.on /\ new.reserved = est /\ new.held = est
        /\ new.committed = 0 /\ new.released = 0 /\ ~NoItem.on
    BY DEF NoItem
  <1> HIDE DEF pots, new
  <1>9. LifecycleConsistent'
    <2>1. ASSUME NEW p \in Pot
          PROVE  ItemConsistent(reservations'[r], items'[r][p])
      BY <1>4, <1>7, <1>8 DEF ItemConsistent, Open
    <2>2. ASSUME NEW q \in Reservation
          PROVE  /\ RowConsistent(reservations'[q])
                 /\ \A p \in Pot : ItemConsistent(reservations'[q], items'[q][p])
      BY <1>5, <1>6, <2>1 DEF Inv, LifecycleConsistent
    <2> QED BY <2>2 DEF LifecycleConsistent, RowConsistent, ItemConsistent
  <1>10. LedgerRowsExactlyOnce'
    <2>1. events' = events
      BY DEF Reserve
    <2> QED BY <1>3, <1>4, <1>6, <2>1 DEF Inv, LedgerRowsExactlyOnce
  <1>11. SettlementAlwaysApplicable'
    <2>1. ASSUME NEW s \in Scope
          PROVE  quotas'[s].currency = quotas[s].currency
      BY DEF Reserve, Inv, TypeOK, Quota
    <2>2. ASSUME NEW s \in Scope, items'[r][s].on
          PROVE  quotas[s].currency = cur
      <3>1. s \in Pot /\ s \in pots
        BY <1>7, <1>8, <2>2 DEF Pot
      <3>2. ASSUME NEW p \in Policy
            PROVE  s # <<p, t>>
        BY PotAssumption DEF Account
      <3>3. s \in ConfiguredScopes(r)
        BY <3>1, <3>2 DEF pots, EnabledPolicies
      <3> QED BY <3>3 DEF Reserve, QuotaAdmits
    <2>3. ASSUME NEW q \in Reservation, NEW s \in Scope, items'[q][s].on
          PROVE  quotas'[s].currency = reservations'[q].currency
      BY <1>4, <1>6, <2>1, <2>2, <2>3
         DEF Inv, SettlementAlwaysApplicable, ItemsApplicable
    <2> QED BY <2>3 DEF SettlementAlwaysApplicable, ItemsApplicable
  <1> QED BY <1>1, <1>9, <1>10, <1>11 DEF Inv

LEMMA MarkReservationsUnknownInv ==
  ASSUME Inv, NEW rs \in SUBSET Reservation,
         \A r \in rs : MayBecomeUnknown(r), MarkReservationsUnknown(rs)
  PROVE  Inv'
  <1>1. TypeOK'
    BY MarkReservationsUnknownType DEF Inv
  <1>2. /\ UNCHANGED <<items, quotas>>
        /\ events'.usages = events.usages /\ events'.risks = events.risks
    BY DEF MarkReservationsUnknown, money, Inv, TypeOK, Events
  <1>3. ASSUME NEW r \in rs
        PROVE  /\ reservations[r].status \in {"reserved", "dispatched"}
               /\ reservations'[r].status = "unknown"
               /\ reservations'[r].currency = reservations[r].currency
               /\ reservations'[r].estimate = reservations[r].estimate
               /\ reservations'[r].result = reservations[r].result
               /\ reservations'[r].applied = reservations[r].applied
    <2>1. reservations[r] \in Row /\ MayBecomeUnknown(r)
      BY DEF Inv, TypeOK
    <2>2. reservations'[r] = [reservations[r] EXCEPT !.status = "unknown",
                                                     !.version = @ + 1]
      BY DEF MarkReservationsUnknown
    <2> QED BY <2>1, <2>2 DEF MayBecomeUnknown, Row
  <1>4. ASSUME NEW r \in Reservation, r \notin rs
        PROVE  reservations'[r] = reservations[r]
    BY <1>4 DEF MarkReservationsUnknown
  <1>5. ASSUME NEW r \in Reservation
        PROVE  RowConsistent(reservations[r])
    BY DEF Inv, LifecycleConsistent
  <1>6. ASSUME NEW r \in rs
        PROVE  RowConsistent(reservations'[r]) /\ ~reservations[r].applied
    BY <1>3, <1>5 DEF RowConsistent
  <1>7. \A r \in rs : r \in Reservation
    OBVIOUS
  <1> QED BY <1>1, <1>2, <1>3, <1>4, <1>5, <1>6, <1>7, RowChangeInv DEF Open

LEMMA RowStepInv ==
  ASSUME Inv, NEW r \in Reservation,
         MarkDispatched(r) \/ \E res \in Settlement : PersistResult(r, res)
  PROVE  Inv'
  <1>1. TypeOK'
    BY RowStepType DEF Inv
  <1>2. UNCHANGED <<items, quotas, events>>
    BY DEF MarkDispatched, PersistResult, money
  <1>3. ASSUME NEW q \in Reservation, q # r
        PROVE  reservations'[q] = reservations[q]
    BY <1>3 DEF MarkDispatched, PersistResult, Inv, TypeOK
  <1>4. ASSUME NEW q \in Reservation
        PROVE  RowConsistent(reservations[q])
    BY DEF Inv, LifecycleConsistent
  <1>5. reservations[r] \in Row
    BY DEF Inv, TypeOK
  <1>6. CASE MarkDispatched(r)
    <2>1. /\ reservations[r].status = "reserved"
          /\ reservations'[r].status = "dispatched"
          /\ reservations'[r].currency = reservations[r].currency
          /\ reservations'[r].estimate = reservations[r].estimate
          /\ reservations'[r].result = reservations[r].result
          /\ reservations'[r].applied = reservations[r].applied
      BY <1>5, <1>6 DEF MarkDispatched, Inv, TypeOK, Row
    <2>2. RowConsistent(reservations'[r]) /\ ~reservations[r].applied
      BY <1>4, <2>1 DEF RowConsistent
    <2> QED BY <1>1, <1>2, <1>3, <1>4, <2>1, <2>2, RowChangeInv DEF Open
  <1>7. ASSUME NEW res \in Settlement, PersistResult(r, res)
        PROVE  Inv'
    <2>1. /\ reservations[r].status \in Open \cup {"released_unknown"}
          /\ reservations[r].status = "released_unknown" => res.outcome = "known"
          /\ reservations'[r].status = reservations[r].status
          /\ reservations'[r].currency = reservations[r].currency
          /\ reservations'[r].estimate = reservations[r].estimate
          /\ reservations'[r].result = res
          /\ reservations'[r].applied = FALSE
      <3>1. reservations'[r] = [reservations[r] EXCEPT !.result = res,
                                  !.applied = FALSE, !.version = @ + 1]
        BY <1>7 DEF PersistResult, Inv, TypeOK
      <3>2. MayPersist(r, res.outcome)
        BY <1>7 DEF PersistResult
      <3>3. /\ reservations[r].status \in Open \cup {"released_unknown"}
            /\ reservations[r].status = "released_unknown" =>
                 res.outcome = "known"
        BY <3>2 DEF MayPersist, Open
      <3> QED BY <1>5, <3>1, <3>3 DEF Row
    <2>2. /\ res.outcome \in {"known", "released"}
          /\ res.outcome = "released" =>
               res = [NoResult EXCEPT !.outcome = "released"]
      BY DEF Settlement, NoResult
    <2>3. RowConsistent(reservations'[r]) /\ ~reservations[r].applied
      BY <1>4, <2>1, <2>2 DEF RowConsistent, Open
    <2> QED BY <1>1, <1>2, <1>3, <1>4, <2>1, <2>3, RowChangeInv DEF Open
  <1> QED BY <1>6, <1>7

LEMMA AdminStepInv ==
  ASSUME Inv, AdminStep \/ Rollover \/ UNCHANGED vars
  PROVE  Inv'
  <1>1. TypeOK'
    BY NextType DEF Inv, Next
  <1>2. UNCHANGED <<reservations, items>>
    BY DEF AdminStep, TopUp, CreatePolicy, PatchPolicy, Rollover, vars, money
  <1>3. events'.usages = events.usages /\ events'.risks = events.risks
    BY DEF AdminStep, TopUp, CreatePolicy, PatchPolicy, Rollover, vars, money,
           Inv, TypeOK, Events
  <1>4. \A s \in Scope : quotas[s].currency # NoCurrency =>
                            quotas'[s].currency = quotas[s].currency
    <2>1. ASSUME NEW s \in Scope, NEW delta \in Amount, NEW cur \in Currency,
                 TopUp(s, delta, cur), NEW z \in Scope,
                 quotas[z].currency # NoCurrency
          PROVE  quotas'[z].currency = quotas[z].currency
      BY <2>1 DEF TopUp, Inv, TypeOK, Quota
    <2>2. CASE UNCHANGED quotas
      BY <2>2
    <2>3. \/ UNCHANGED quotas
          \/ \E s \in Scope, delta \in Amount, cur \in Currency :
               TopUp(s, delta, cur)
      BY DEF AdminStep, CreatePolicy, PatchPolicy, Rollover, vars, money
    <2> QED BY <2>1, <2>2, <2>3
  <1>5. \A r \in Reservation : RowConsistent(reservations'[r])
    BY <1>2 DEF Inv, LifecycleConsistent
  <1> QED BY <1>1, <1>2, <1>3, <1>4, <1>5, RowChangeInv

LEMMA NextInv == Inv /\ [Next]_vars => Inv'
  <1> SUFFICES ASSUME Inv, [Next]_vars
               PROVE  Inv'
    OBVIOUS
  <1>1. ASSUME NEW r \in Reservation, RequestStep(r)
        PROVE  Inv'
    BY <1>1, ReserveInv, RowStepInv, MarkReservationsUnknownInv
       DEF RequestStep, MarkUnknown
  <1>2. ASSUME NEW r \in Reservation, ApplyPending(r)
        PROVE  Inv'
    BY <1>2, ApplyPendingInv
  <1>3. ASSUME NEW r \in Reservation, OperatorStep(r)
        PROVE  Inv'
    <2>1. reservations[r].version \in Nat
      BY DEF Inv, TypeOK, Row
    <2> QED BY <1>3, <2>1, ResolveInv DEF OperatorStep
  <1>4. ASSUME NEW rs \in SUBSET Reservation, MarkStale(rs)
        PROVE  Inv'
    BY <1>4, MarkReservationsUnknownInv DEF MarkStale
  <1>5. CASE AdminStep \/ Rollover \/ UNCHANGED vars
    BY <1>5, AdminStepInv
  <1> QED BY <1>1, <1>2, <1>3, <1>4, <1>5 DEF Next

LEMMA InvHolds == Spec => []Inv
  BY InitInv, NextInv, PTL DEF Spec

\* Status, durable result and money of every reservation agree in every
\* reachable state, for any number of reservations, scopes, policies, amounts
\* and periods.
THEOREM LifecycleCorrect == Spec => []LifecycleConsistent
  <1>1. Inv => LifecycleConsistent
    BY DEF Inv
  <1> QED BY InvHolds, <1>1, PTL

\* However often a result is retried, its usage row and its attempt_risk event
\* are written exactly once, by the transaction that applies it.
THEOREM LedgerExactlyOnce == Spec => []LedgerRowsExactlyOnce
  <1>1. Inv => LedgerRowsExactlyOnce
    BY DEF Inv
  <1> QED BY InvHolds, <1>1, PTL

\* No interleaving of top-ups and settlements leaves a result that can never
\* be applied because a quota changed its currency.
THEOREM SettlementNeverBlocked == Spec => []SettlementAlwaysApplicable
  <1>1. Inv => SettlementAlwaysApplicable
    BY DEF Inv
  <1> QED BY InvHolds, <1>1, PTL

-----------------------------------------------------------------------------
(***************************************************************************)
(* What a step of the spend store may never do: replace a persisted result, *)
(* touch a reservation whose result was applied, let go of held money       *)
(* without a verdict, or move money without the items that account for it.  *)
(***************************************************************************)
\* A budget account that was never opened is empty, and an item draws only on
\* an opened one: Reserve opens the account in the transaction that adds the
\* item.
AccountsOpened ==
  \A a \in Account :
    /\ ~accounts[a].open => accounts[a] = NoAccount
    /\ \A r \in Reservation : items[r][a].on => accounts[a].open

\* What the action properties need to know of the state before a step.
StepInv == Inv /\ AccountsOpened

\* The items of a free id, which Reserve is about to overwrite, hold nothing.
LEMMA FreeItems ==
  ASSUME Inv, NEW r \in Reservation, reservations[r].status = "none", NEW p \in Pot
  PROVE  items[r][p] = NoItem
  BY DEF Inv, LifecycleConsistent, ItemConsistent

\* Reserve changes one row and its items, in the way the item columns say.
LEMMA ReserveEffect ==
  ASSUME Inv, NEW r \in Reservation, NEW est \in Amount, NEW cur \in Currency,
         NEW t \in Period, Reserve(r, est, cur, t)
  PROVE  /\ reservations[r] = NoRow
         /\ \A q \in Reservation \ {r} :
              reservations'[q] = reservations[q] /\ items'[q] = items[q]
         /\ \A p \in Pot :
              /\ items'[r][p].held = IF p \in ConfiguredScopes(r)
                                          \cup {<<b, t>> : b \in EnabledPolicies(r)}
                                     THEN est ELSE 0
              /\ items'[r][p].on <=> p \in ConfiguredScopes(r)
                                          \cup {<<b, t>> : b \in EnabledPolicies(r)}
              /\ items'[r][p].committed = 0
              /\ items'[r][p].released = 0
  <1> DEFINE pots == ConfiguredScopes(r) \cup {<<p, t>> : p \in EnabledPolicies(r)}
             new == [NoItem EXCEPT !.on = TRUE, !.reserved = est, !.held = est]
  <1>1. reservations[r] = NoRow
    BY DEF Reserve, Inv, LifecycleConsistent, RowConsistent
  <1>2. /\ items' = [items EXCEPT ![r] =
                       [p \in Pot |-> IF p \in pots THEN new ELSE NoItem]]
        /\ \A q \in Reservation \ {r} : reservations'[q] = reservations[q]
    BY DEF Reserve, Inv, TypeOK
  <1>3. /\ new.on /\ new.held = est /\ new.committed = 0 /\ new.released = 0
        /\ ~NoItem.on /\ NoItem.held = 0 /\ NoItem.committed = 0
        /\ NoItem.released = 0
    BY DEF NoItem
  <1> HIDE DEF pots, new
  <1>4. \A q \in Reservation \ {r} : items'[q] = items[q]
    BY <1>2 DEF Inv, TypeOK
  <1>5. \A p \in Pot : items'[r][p] = IF p \in pots THEN new ELSE NoItem
    BY <1>2 DEF Inv, TypeOK
  <1>6. \A p \in Pot :
              /\ items'[r][p].held = IF p \in pots THEN est ELSE 0
              /\ items'[r][p].on <=> p \in pots
              /\ items'[r][p].committed = 0
              /\ items'[r][p].released = 0
    BY <1>3, <1>5
  <1> QED BY <1>1, <1>2, <1>4, <1>6 DEF pots

\* The part of it that says what Reserve leaves alone.
LEMMA ReserveOthers ==
  ASSUME Inv, NEW r \in Reservation, NEW est \in Amount, NEW cur \in Currency,
         NEW t \in Period, Reserve(r, est, cur, t)
  PROVE  /\ reservations[r] = NoRow
         /\ \A q \in Reservation \ {r} :
              reservations'[q] = reservations[q] /\ items'[q] = items[q]
  <1>1. reservations[r] = NoRow
    BY DEF Reserve, Inv, LifecycleConsistent, RowConsistent
  <1>2. \A q \in Reservation \ {r} :
          reservations'[q] = reservations[q] /\ items'[q] = items[q]
    BY DEF Reserve, Inv, TypeOK
  <1> QED BY <1>1, <1>2

\* Applying a verdict changes one row and its items.
LEMMA ApplyEffect ==
  ASSUME Inv, NEW r \in Reservation, NEW res \in Result, NEW status,
         NEW resolved, ApplyReservation(r, res, status, resolved)
  PROVE  /\ \A q \in Reservation \ {r} :
              reservations'[q] = reservations[q] /\ items'[q] = items[q]
         /\ \A p \in Pot :
              /\ items[r][p] \in Item
              /\ items'[r][p] = AppliedItem(items[r][p], res.actual)
              /\ items'[r][p].on = items[r][p].on
  <1>1. \A q \in Reservation \ {r} :
          reservations'[q] = reservations[q] /\ items'[q] = items[q]
    BY DEF ApplyReservation, Inv, TypeOK
  <1>2. ASSUME NEW p \in Pot
        PROVE  /\ items[r][p] \in Item
               /\ items'[r][p] = AppliedItem(items[r][p], res.actual)
    BY DEF ApplyReservation, Inv, TypeOK
  <1>3. ASSUME NEW p \in Pot
        PROVE  AppliedItem(items[r][p], res.actual).on = items[r][p].on
    BY <1>2 DEF AppliedItem, Item
  <1> QED BY <1>1, <1>2, <1>3

\* The two callers of applyReservation.
LEMMA ApplyCallers ==
  ASSUME Inv, NEW r \in Reservation, ApplyPending(r) \/ OperatorStep(r)
  PROVE  \E res \in Result, status \in Status, resolved \in BOOLEAN :
           /\ ApplyReservation(r, res, status, resolved)
           /\ ~reservations[r].applied
           /\ \/ /\ reservations[r].result = res
                 /\ status # "released_unknown"
              \/ reservations[r].result = NoResult /\ resolved
  <1>1. CASE ApplyPending(r)
    <2> DEFINE res == reservations[r].result
               status == IF res.outcome = "released" THEN "released" ELSE "settled"
    <2>1. res \in Result
      BY DEF Inv, TypeOK, Row
    <2>2. ApplyReservation(r, res, status, FALSE) /\ ~reservations[r].applied
      BY <1>1 DEF ApplyPending
    <2>3. status \in Status /\ status # "released_unknown"
      BY DEF Status
    <2> HIDE DEF status
    <2> QED BY <2>1, <2>2, <2>3
  <1>2. CASE OperatorStep(r)
    <2>1. PICK action \in {"settle", "release", "release_unknown"}, n \in Amount :
            Resolve(r, action, n, reservations[r].version)
      BY <1>2 DEF OperatorStep
    <2>2. Resolution(action, n) \in Result
      BY ResolutionType DEF Resolution
    <2>3. ResolvedStatus(action) \in Status
      BY DEF ResolvedStatus, Status
    <2>4. /\ reservations[r].result = NoResult
          /\ reservations[r].status \in {"unknown", "released_unknown"}
          /\ ApplyReservation(r, Resolution(action, n), ResolvedStatus(action),
                              TRUE)
      BY <2>1 DEF Resolve
    <2>5. ~reservations[r].applied
      BY <2>4 DEF Inv, LifecycleConsistent, RowConsistent
    <2> QED BY <2>2, <2>3, <2>4, <2>5
  <1> QED BY <1>1, <1>2

\* Every other step leaves the items alone.
ItemlessStep ==
  \/ \E r \in Reservation :
       \/ MarkDispatched(r)
       \/ \E res \in Settlement : PersistResult(r, res)
       \/ MarkUnknown(r)
  \/ \E rs \in SUBSET Reservation : MarkStale(rs)
  \/ AdminStep
  \/ Rollover

LEMMA ItemsUnchanged ==
  ASSUME ItemlessStep
  PROVE  items' = items
  BY DEF ItemlessStep, MarkDispatched, PersistResult, MarkUnknown, MarkStale,
         MarkReservationsUnknown, AdminStep, TopUp, CreatePolicy, PatchPolicy,
         Rollover, money

-----------------------------------------------------------------------------
LEMMA InitAccountsOpened == Init => AccountsOpened
  BY DEF Init, AccountsOpened, NoAccount, NoItem, Pot

LEMMA NextAccountsOpened == StepInv /\ [Next]_vars => AccountsOpened'
  <1> SUFFICES ASSUME StepInv, [Next]_vars
               PROVE  AccountsOpened'
    OBVIOUS
  <1> USE DEF StepInv
  <1>1. ASSUME NEW r \in Reservation, NEW est \in Amount, NEW cur \in Currency,
               NEW t \in Period, Reserve(r, est, cur, t)
        PROVE  AccountsOpened'
    <2> DEFINE pots == ConfiguredScopes(r) \cup {<<p, t>> : p \in EnabledPolicies(r)}
    <2> SUFFICES ASSUME NEW a \in Account
                 PROVE  /\ ~accounts'[a].open => accounts'[a] = NoAccount
                        /\ \A q \in Reservation : items'[q][a].on => accounts'[a].open
      BY DEF AccountsOpened
    <2>1. a \in Pot
      BY DEF Pot
    <2>2. CASE a \in pots
      <3>1. accounts'[a] = [OpenedAccount(a[1], a[2]) EXCEPT !.reserved = @ + est]
        BY <1>1, <2>2 DEF Reserve
      <3>2. OpenedAccount(a[1], a[2]) \in AccountRow /\ OpenedAccount(a[1], a[2]).open
        <4>1. a[1] \in Policy /\ a = <<a[1], a[2]>> /\ accounts[a] \in AccountRow
              /\ policies[a[1]].limit \in Nat
          BY DEF Account, Inv, TypeOK, PolicyRow
        <4>2. CASE accounts[a].open
          BY <4>1, <4>2 DEF OpenedAccount
        <4>3. CASE ~accounts[a].open
          <5>1. OpenedAccount(a[1], a[2]) =
                  [NoAccount EXCEPT !.open = TRUE, !.limit = policies[a[1]].limit]
            BY <4>1, <4>3 DEF OpenedAccount
          <5>2. OpenedAccount(a[1], a[2]) =
                  [open |-> TRUE, limit |-> policies[a[1]].limit,
                   reserved |-> 0, committed |-> 0, released |-> 0]
            BY <5>1 DEF NoAccount
          <5>3. OpenedAccount(a[1], a[2]).open
            BY <5>2
          <5>4. OpenedAccount(a[1], a[2]) \in AccountRow
            BY <4>1, <5>2 DEF AccountRow
          <5> QED BY <5>3, <5>4
        <4> QED BY <4>2, <4>3
      <3>3. accounts'[a].open
        BY <3>1, <3>2 DEF AccountRow
      <3> QED BY <3>3
    <2>3. CASE a \notin pots
      <3>1. accounts'[a] = accounts[a]
        BY <1>1, <2>3 DEF Reserve
      <3>2. ~items'[r][a].on /\ \A q \in Reservation \ {r} : items'[q] = items[q]
        BY <1>1, <2>1, <2>3, ReserveEffect
      <3> QED BY <3>1, <3>2 DEF AccountsOpened
    <2> QED BY <2>2, <2>3
  <1>2. ASSUME NEW r \in Reservation, ApplyPending(r) \/ OperatorStep(r)
        PROVE  AccountsOpened'
    <2>1. PICK res \in Result, status \in Status, resolved \in BOOLEAN :
            ApplyReservation(r, res, status, resolved)
      BY <1>2, ApplyCallers
    <2> SUFFICES ASSUME NEW a \in Account
                 PROVE  /\ ~accounts'[a].open => accounts'[a] = NoAccount
                        /\ \A q \in Reservation : items'[q][a].on => accounts'[a].open
      BY DEF AccountsOpened
    <2>2. a \in Pot /\ accounts[a] \in AccountRow
      BY DEF Pot, Inv, TypeOK
    <2>3. accounts'[a] = AppliedAccount(a, items[r][a], res.actual)
      BY <2>1 DEF ApplyReservation
    <2>4. /\ accounts'[a].open = accounts[a].open
          /\ ~items[r][a].on => accounts'[a] = accounts[a]
      BY <2>2, <2>3 DEF AppliedAccount, AccountRow
    <2>5. \A q \in Reservation : items'[q][a].on = items[q][a].on
      BY <2>1, <2>2, ApplyEffect
    <2> QED BY <2>4, <2>5 DEF AccountsOpened
  <1>3. ASSUME NEW p \in Policy, NEW limit \in Amount, NEW enabled \in BOOLEAN,
               PatchPolicy(p, limit, enabled, policies[p].version)
        PROVE  AccountsOpened'
    <2> SUFFICES ASSUME NEW a \in Account
                 PROVE  /\ accounts'[a].open = accounts[a].open
                        /\ ~accounts[a].open => accounts'[a] = accounts[a]
      BY <1>3 DEF AccountsOpened, PatchPolicy
    <2>1. accounts[a] \in AccountRow
      BY DEF Inv, TypeOK
    <2>2. CASE a = <<p, period>>
      <3>1. accounts'[a] = [accounts[a] EXCEPT !.limit =
                              IF accounts[a].open THEN limit ELSE @]
        BY <1>3, <2>2 DEF PatchPolicy, Inv, TypeOK
      <3> QED BY <2>1, <3>1 DEF AccountRow
    <2>3. CASE a # <<p, period>>
      BY <1>3, <2>3 DEF PatchPolicy, Inv, TypeOK
    <2> QED BY <2>2, <2>3
  <1>4. CASE UNCHANGED <<accounts, items>>
    BY <1>4 DEF AccountsOpened
  <1>5. \/ UNCHANGED <<accounts, items>>
        \/ \E r \in Reservation : ApplyPending(r) \/ OperatorStep(r)
        \/ \E r \in Reservation, est \in Amount, cur \in Currency, t \in Period :
             Reserve(r, est, cur, t)
        \/ \E p \in Policy, limit \in Amount, enabled \in BOOLEAN :
             PatchPolicy(p, limit, enabled, policies[p].version)
    BY DEF Next, RequestStep, AdminStep, MarkDispatched, PersistResult,
           MarkUnknown, MarkStale, MarkReservationsUnknown, TopUp, CreatePolicy,
           Rollover, vars, money
  <1> QED BY <1>1, <1>2, <1>3, <1>4, <1>5

LEMMA StepInvHolds == Spec => []StepInv
  <1>1. Init => StepInv
    BY InitInv, InitAccountsOpened DEF StepInv
  <1>2. StepInv /\ [Next]_vars => StepInv'
    BY NextInv, NextAccountsOpened DEF StepInv
  <1> QED BY <1>1, <1>2, PTL DEF Spec

-----------------------------------------------------------------------------
LEMMA NextFinal == Inv /\ Next => FinalStep
  <1> SUFFICES ASSUME Inv, Next, NEW q \in Reservation
               PROVE  /\ reservations[q].result # NoResult =>
                           reservations'[q].result = reservations[q].result
                      /\ reservations[q].applied =>
                           /\ reservations'[q] = reservations[q]
                           /\ items'[q] = items[q]
    BY DEF FinalStep
  <1> DEFINE row == reservations[q]
             Goal == /\ row.result # NoResult =>
                          reservations'[q].result = row.result
                     /\ row.applied =>
                          /\ reservations'[q] = row
                          /\ items'[q] = items[q]
  <1>0. /\ row \in Row
        /\ row.applied => row.status \in {"settled", "released"}
    BY DEF Inv, TypeOK, LifecycleConsistent, RowConsistent
  <1>1. ASSUME NEW r \in Reservation, NEW est \in Amount, NEW cur \in Currency,
               NEW t \in Period, Reserve(r, est, cur, t)
        PROVE  Goal
    BY <1>1, ReserveOthers DEF NoRow
  <1>2. ASSUME NEW r \in Reservation, MarkDispatched(r)
        PROVE  Goal
    BY <1>0, <1>2 DEF MarkDispatched, money, Inv, TypeOK
  <1>3. ASSUME NEW r \in Reservation, NEW res \in Settlement, PersistResult(r, res)
        PROVE  Goal
    BY <1>0, <1>3 DEF PersistResult, MayPersist, Open, money, Inv, TypeOK
  <1>4. ASSUME NEW rs \in SUBSET Reservation, \A r \in rs : MayBecomeUnknown(r),
               MarkReservationsUnknown(rs)
        PROVE  Goal
    BY <1>0, <1>4 DEF MarkReservationsUnknown, MayBecomeUnknown, money
  <1>5. ASSUME NEW r \in Reservation, ApplyPending(r) \/ OperatorStep(r)
        PROVE  Goal
    <2>1. PICK res \in Result, status \in Status, resolved \in BOOLEAN :
            /\ ApplyReservation(r, res, status, resolved)
            /\ ~reservations[r].applied
            /\ \/ /\ reservations[r].result = res
                  /\ status # "released_unknown"
               \/ reservations[r].result = NoResult /\ resolved
      BY <1>5, ApplyCallers
    <2>2. CASE q # r
      BY <2>1, <2>2, ApplyEffect
    <2>3. CASE q = r
      <3>1. reservations'[r].result =
              IF status = "released_unknown" THEN reservations[r].result ELSE res
        BY <1>0, <2>1, <2>3 DEF ApplyReservation, Inv, TypeOK, Row
      <3> QED BY <2>1, <2>3, <3>1
    <2> QED BY <2>2, <2>3
  <1>6. ASSUME AdminStep \/ Rollover
        PROVE  Goal
    <2>1. UNCHANGED <<reservations, items>>
      BY <1>6 DEF AdminStep, TopUp, CreatePolicy, PatchPolicy, Rollover, money
    <2> QED BY <2>1
  <1> HIDE DEF Goal
  <1>7. Goal
    <2>1. ASSUME NEW r \in Reservation, RequestStep(r)
          PROVE  Goal
      <3>1. CASE MarkUnknown(r)
        BY <1>4, <3>1 DEF MarkUnknown
      <3> QED BY <1>1, <1>2, <1>3, <2>1, <3>1 DEF RequestStep
    <2>2. ASSUME NEW rs \in SUBSET Reservation, MarkStale(rs)
          PROVE  Goal
      BY <1>4, <2>2 DEF MarkStale
    <2> QED BY <1>5, <1>6, <2>1, <2>2 DEF Next
  <1> QED BY <1>7 DEF Goal

\* A persisted result is never replaced and an applied reservation never
\* changes again, for any number of concurrent retries.
THEOREM FinalityHolds == Spec => SettledIsFinal
  <1>1. Inv /\ [Next]_vars => [FinalStep]_vars
    BY NextFinal
  <1> QED BY InvHolds, <1>1, PTL DEF Spec, SettledIsFinal

-----------------------------------------------------------------------------
LEMMA NextVerdict == Inv /\ Next => VerdictStep
  <1> SUFFICES ASSUME Inv, Next, NEW q \in Reservation, NEW p \in Pot,
                      items'[q][p].held < items[q][p].held
               PROVE  \/ reservations[q].result # NoResult
                      \/ events'.resolutions[q] > events.resolutions[q]
    BY DEF VerdictStep
  <1> DEFINE Goal == \/ reservations[q].result # NoResult
                     \/ events'.resolutions[q] > events.resolutions[q]
  <1>0. items[q][p].held \in Nat
    BY DEF Inv, TypeOK, Item
  <1>1. ASSUME NEW r \in Reservation, NEW est \in Amount, NEW cur \in Currency,
               NEW t \in Period, Reserve(r, est, cur, t)
        PROVE  FALSE
    <2>1. CASE q # r
      <3>1. items'[q] = items[q]
        BY <1>1, <2>1, ReserveOthers
      <3> QED BY <1>0, <3>1
    <2>2. CASE q = r
      <3>1. items[r][p] = NoItem
        BY <1>1, FreeItems DEF Reserve
      <3>2. items[q][p].held = 0
        BY <2>2, <3>1 DEF NoItem
      <3>3. items'[q][p].held \in {0, est}
        <4> DEFINE pots == ConfiguredScopes(r)
                             \cup {<<b, t>> : b \in EnabledPolicies(r)}
        <4>1. items'[r][p].held = IF p \in pots THEN est ELSE 0
          BY <1>1, ReserveEffect
        <4> HIDE DEF pots
        <4> QED BY <2>2, <4>1
      <3>4. est \in Nat
        OBVIOUS
      <3> QED BY <3>2, <3>3, <3>4
    <2> QED BY <2>1, <2>2
  <1>2. ASSUME NEW r \in Reservation, ApplyPending(r)
        PROVE  Goal
    <2>1. reservations[r].result # NoResult
      BY <1>2 DEF ApplyPending
    <2>2. PICK res \in Result, status \in Status, resolved \in BOOLEAN :
            ApplyReservation(r, res, status, resolved)
      BY <1>2, ApplyCallers
    <2>3. ASSUME q # r
          PROVE  items'[q] = items[q]
      BY <2>2, <2>3, ApplyEffect
    <2>4. q = r
      BY <1>0, <2>3
    <2> QED BY <2>1, <2>4
  <1>3. ASSUME NEW r \in Reservation, OperatorStep(r)
        PROVE  Goal
    <2>1. PICK action \in {"settle", "release", "release_unknown"}, n \in Amount :
            ApplyReservation(r, Resolution(action, n), ResolvedStatus(action), TRUE)
      BY <1>3 DEF OperatorStep, Resolve
    <2>2. Resolution(action, n) \in Result
      BY ResolutionType DEF Resolution
    <2>3. q = r
      <3>1. ASSUME q # r
            PROVE  items'[q] = items[q]
        BY <2>1, <2>2, <3>1, ApplyEffect
      <3> QED BY <1>0, <3>1
    <2>4. events'.resolutions[r] = events.resolutions[r] + 1
          /\ events.resolutions[r] \in Nat
      BY <2>1 DEF ApplyReservation, Inv, TypeOK, Events
    <2> QED BY <2>3, <2>4
  <1>4. ASSUME items' = items
        PROVE  Goal
    BY <1>0, <1>4
  <1> HIDE DEF Goal
  <1>5. ASSUME NEW r \in Reservation, RequestStep(r)
        PROVE  Goal
    <2>1. CASE \E est \in Amount, cur \in Currency, t \in Period :
                 Reserve(r, est, cur, t)
      BY <1>1, <2>1
    <2>2. CASE \/ MarkDispatched(r)
               \/ \E res \in Settlement : PersistResult(r, res)
               \/ MarkUnknown(r)
      BY <1>4, <2>2, ItemsUnchanged DEF ItemlessStep
    <2> QED BY <1>5, <2>1, <2>2 DEF RequestStep
  <1>6. ASSUME \/ \E rs \in SUBSET Reservation : MarkStale(rs)
               \/ AdminStep \/ Rollover
        PROVE  Goal
    BY <1>4, <1>6, ItemsUnchanged DEF ItemlessStep
  <1>7. Goal
    BY <1>2, <1>3, <1>5, <1>6 DEF Next
  <1> QED BY <1>7 DEF Goal

\* Money held for a request is only ever let go for a durable result or an
\* audited operator decision.
THEOREM RefundsNeedVerdict == Spec => NoRefundWithoutVerdict
  <1>1. Inv /\ [Next]_vars => [VerdictStep]_vars
    BY NextVerdict
  <1> QED BY InvHolds, <1>1, PTL DEF Spec, NoRefundWithoutVerdict

-----------------------------------------------------------------------------
\* The money a step moves is what the items of r say.
ItemsStep(r) ==
  /\ \A q \in Reservation \ {r} : items'[q] = items[q]
  /\ deposited' = deposited
  /\ BalanceStep(r)
  /\ AccountStep(r)

\* Reserve moves est from every pot to the reservation's item on it.
LEMMA ReserveMoney ==
  ASSUME StepInv, NEW r \in Reservation, NEW est \in Amount, NEW cur \in Currency,
         NEW t \in Period, Reserve(r, est, cur, t)
  PROVE  ItemsStep(r)
  <1> USE DEF StepInv
  <1> DEFINE pots == ConfiguredScopes(r) \cup {<<p, t>> : p \in EnabledPolicies(r)}
  <1>1. /\ deposited' = deposited
        /\ \A q \in Reservation \ {r} : items'[q] = items[q]
    BY ReserveOthers DEF Reserve
  <1>2. ASSUME NEW p \in Pot
        PROVE  /\ items[r][p].held = 0 /\ items[r][p].committed = 0
               /\ items[r][p].released = 0
               /\ items'[r][p].committed = 0 /\ items'[r][p].released = 0
               /\ items'[r][p].held = IF p \in pots THEN est ELSE 0
    <2>1. items[r][p] = NoItem
      BY FreeItems DEF Reserve
    <2> QED BY <2>1, ReserveEffect DEF NoItem
  <1>3. BalanceStep(r)
    <2> SUFFICES ASSUME NEW s \in Scope
                 PROVE  quotas'[s].balance + items'[r][s].held
                            + items'[r][s].committed
                          = quotas[s].balance + items[r][s].held
                            + items[r][s].committed
      BY DEF BalanceStep
    <2>1. s \in Pot /\ quotas[s] \in Quota
      BY DEF Pot, Inv, TypeOK
    <2>2. quotas[s].balance \in Int
      BY <2>1 DEF Quota
    <2>3. quotas'[s].balance = quotas[s].balance - (IF s \in pots THEN est ELSE 0)
      BY <2>1, <2>2 DEF Reserve, Quota
    <2>4. /\ items[r][s].held = 0 /\ items[r][s].committed = 0
          /\ items'[r][s].committed = 0
          /\ items'[r][s].held = IF s \in pots THEN est ELSE 0
      BY <1>2, <2>1
    <2> HIDE DEF pots
    <2>5. est \in Nat
      OBVIOUS
    <2> QED BY <2>2, <2>3, <2>4, <2>5
  <1>4. AccountStep(r)
    <2> SUFFICES ASSUME NEW a \in Account
                 PROVE  /\ accounts'[a].reserved - accounts[a].reserved
                             = items'[r][a].held - items[r][a].held
                        /\ accounts'[a].committed - accounts[a].committed
                             = items'[r][a].committed - items[r][a].committed
                        /\ accounts'[a].released - accounts[a].released
                             = items'[r][a].released - items[r][a].released
      BY DEF AccountStep
    <2>1. a \in Pot /\ accounts[a] \in AccountRow /\ a = <<a[1], a[2]>>
      BY DEF Pot, Inv, TypeOK, Account
    <2>2. /\ accounts[a].reserved \in Int /\ accounts[a].committed \in Int
          /\ accounts[a].released \in Int
      BY <2>1 DEF AccountRow
    <2>3. CASE a \in pots
      <3>1. accounts'[a] = [OpenedAccount(a[1], a[2]) EXCEPT !.reserved = @ + est]
        BY <2>3 DEF Reserve
      <3>2. /\ OpenedAccount(a[1], a[2]).reserved = accounts[a].reserved
            /\ OpenedAccount(a[1], a[2]).committed = accounts[a].committed
            /\ OpenedAccount(a[1], a[2]).released = accounts[a].released
            /\ accounts'[a].reserved = accounts[a].reserved + est
            /\ accounts'[a].committed = accounts[a].committed
            /\ accounts'[a].released = accounts[a].released
        <4>1. CASE accounts[a].open
          BY <2>1, <3>1, <4>1 DEF OpenedAccount, AccountRow
        <4>2. CASE ~accounts[a].open
          <5>1. accounts[a] = NoAccount
            BY <4>2 DEF AccountsOpened
          <5>2. accounts'[a] = [[NoAccount EXCEPT !.open = TRUE,
                                   !.limit = policies[a[1]].limit]
                                  EXCEPT !.reserved = @ + est]
            BY <2>1, <3>1, <4>2 DEF OpenedAccount
          <5>3. OpenedAccount(a[1], a[2]) =
                  [NoAccount EXCEPT !.open = TRUE, !.limit = policies[a[1]].limit]
            BY <2>1, <4>2 DEF OpenedAccount
          <5> QED BY <5>1, <5>2, <5>3 DEF NoAccount
        <4> QED BY <4>1, <4>2
      <3>3. /\ items[r][a].held = 0 /\ items[r][a].committed = 0
            /\ items[r][a].released = 0 /\ items'[r][a].released = 0
            /\ items'[r][a].committed = 0 /\ items'[r][a].held = est
        BY <1>2, <2>1, <2>3
      <3>4. est \in Nat
        OBVIOUS
      <3> QED BY <2>2, <3>2, <3>3, <3>4
    <2>4. CASE a \notin pots
      <3>1. accounts'[a] = accounts[a]
        BY <2>4 DEF Reserve
      <3>2. /\ items[r][a].held = 0 /\ items[r][a].committed = 0
            /\ items[r][a].released = 0 /\ items'[r][a].released = 0
            /\ items'[r][a].committed = 0 /\ items'[r][a].held = 0
        BY <1>2, <2>1, <2>4
      <3> QED BY <2>2, <3>1, <3>2
    <2> QED BY <2>3, <2>4
  <1> QED BY <1>1, <1>3, <1>4 DEF ItemsStep

\* Applying a verdict moves exactly what the items say between held, committed
\* and the pots.
LEMMA ApplyMoney ==
  ASSUME Inv, NEW r \in Reservation, NEW res \in Result, NEW status,
         NEW resolved, ApplyReservation(r, res, status, resolved)
  PROVE  ItemsStep(r)
  <1>0. res.actual \in Nat
    BY DEF Result
  <1>1. /\ deposited' = deposited
        /\ \A q \in Reservation \ {r} : items'[q] = items[q]
    <2>1. deposited' = deposited
      BY DEF ApplyReservation
    <2> QED BY <2>1, ApplyEffect
  <1>2. ASSUME NEW p \in Pot
        PROVE  /\ items[r][p].held \in Nat /\ items[r][p].committed \in Nat
               /\ items[r][p].released \in Nat
               /\ Refund(items[r][p], res.actual) \in Nat
               /\ items'[r][p] = AppliedItem(items[r][p], res.actual)
               /\ items[r][p] \in Item
    <2>1. /\ items[r][p] \in Item
          /\ items'[r][p] = AppliedItem(items[r][p], res.actual)
      BY ApplyEffect
    <2>2. /\ items[r][p].held \in Nat /\ items[r][p].committed \in Nat
          /\ items[r][p].released \in Nat
      BY <2>1 DEF Item
    <2> QED BY <1>0, <2>1, <2>2 DEF Refund
  <1>3. ASSUME NEW p \in Pot
        PROVE  /\ items[r][p].on =>
                    /\ items'[r][p].held = 0 /\ items'[r][p].committed = res.actual
                    /\ items'[r][p].released
                         = items[r][p].released + Refund(items[r][p], res.actual)
               /\ ~items[r][p].on => items'[r][p] = items[r][p]
    BY <1>2 DEF AppliedItem, Item
  <1>4. BalanceStep(r)
    <2> SUFFICES ASSUME NEW s \in Scope
                 PROVE  quotas'[s].balance + items'[r][s].held
                            + items'[r][s].committed
                          = quotas[s].balance + items[r][s].held
                            + items[r][s].committed
      BY DEF BalanceStep
    <2>1. /\ s \in Pot /\ quotas[s] \in Quota /\ quotas[s].balance \in Int
          /\ quotas'[s] = AppliedQuota(s, items[r][s], res.actual)
      BY DEF Pot, Inv, TypeOK, Quota, ApplyReservation
    <2>2. CASE items[r][s].on
      <3>1. quotas'[s].balance = quotas[s].balance + items[r][s].held
                                   + items[r][s].committed - res.actual
        BY <2>1, <2>2 DEF AppliedQuota, Quota
      <3> QED BY <1>0, <1>2, <1>3, <2>1, <2>2, <3>1
    <2>3. CASE ~items[r][s].on
      BY <1>3, <2>1, <2>3 DEF AppliedQuota
    <2> QED BY <2>2, <2>3
  <1>5. AccountStep(r)
    <2> SUFFICES ASSUME NEW a \in Account
                 PROVE  /\ accounts'[a].reserved - accounts[a].reserved
                             = items'[r][a].held - items[r][a].held
                        /\ accounts'[a].committed - accounts[a].committed
                             = items'[r][a].committed - items[r][a].committed
                        /\ accounts'[a].released - accounts[a].released
                             = items'[r][a].released - items[r][a].released
      BY DEF AccountStep
    <2>1. /\ a \in Pot /\ accounts[a] \in AccountRow
          /\ accounts'[a] = AppliedAccount(a, items[r][a], res.actual)
      BY DEF Pot, Inv, TypeOK, ApplyReservation
    <2>2. /\ accounts[a].reserved \in Int /\ accounts[a].committed \in Int
          /\ accounts[a].released \in Int
      BY <2>1 DEF AccountRow
    <2>3. CASE items[r][a].on
      <3>1. /\ accounts'[a].reserved = accounts[a].reserved - items[r][a].held
            /\ accounts'[a].committed
                 = accounts[a].committed + res.actual - items[r][a].committed
            /\ accounts'[a].released
                 = accounts[a].released + Refund(items[r][a], res.actual)
        BY <2>1, <2>3 DEF AppliedAccount, AccountRow
      <3> QED BY <1>0, <1>2, <1>3, <2>1, <2>2, <2>3, <3>1
    <2>4. CASE ~items[r][a].on
      <3>1. accounts'[a] = accounts[a] /\ items'[r][a] = items[r][a]
        BY <1>3, <2>1, <2>4 DEF AppliedAccount
      <3> QED BY <1>2, <2>1, <2>2, <3>1
    <2> QED BY <2>3, <2>4
  <1> QED BY <1>1, <1>4, <1>5 DEF ItemsStep

\* Steps that move no item move no money except a top-up's deposit.
LEMMA OtherMoney ==
  ASSUME Inv, ItemlessStep
  PROVE  NoItemsStep
  <1>1. CASE UNCHANGED <<quotas, accounts, deposited>>
    <2>1. \A s \in Scope : quotas[s].balance \in Int /\ deposited[s] \in Nat
      BY DEF Inv, TypeOK, Quota
    <2> QED BY <1>1, <2>1 DEF NoItemsStep
  <1>2. ASSUME NEW z \in Scope, NEW delta \in Amount, NEW cur \in Currency,
               TopUp(z, delta, cur)
        PROVE  NoItemsStep
    <2>1. ASSUME NEW s \in Scope
          PROVE  quotas'[s].balance - quotas[s].balance
                   = deposited'[s] - deposited[s]
      <3>1. /\ quotas[s] \in Quota /\ quotas[s].balance \in Int
            /\ deposited[s] \in Nat /\ delta \in Int
        BY DEF Inv, TypeOK, Quota
      <3>2. CASE s = z
        <4>1. /\ quotas'[s].balance = quotas[s].balance + delta
              /\ deposited'[s] = deposited[s] + delta
          BY <1>2, <3>1, <3>2 DEF TopUp, Inv, TypeOK, Quota
        <4> QED BY <3>1, <4>1
      <3>3. CASE s # z
        <4>1. quotas'[s] = quotas[s] /\ deposited'[s] = deposited[s]
          BY <1>2, <3>3 DEF TopUp, Inv, TypeOK
        <4> QED BY <3>1, <4>1
      <3> QED BY <3>2, <3>3
    <2> QED BY <1>2, <2>1 DEF TopUp, NoItemsStep
  <1>3. ASSUME NEW p \in Policy, NEW limit \in Amount, NEW enabled \in BOOLEAN,
               PatchPolicy(p, limit, enabled, policies[p].version)
        PROVE  NoItemsStep
    <2>1. ASSUME NEW a \in Account
          PROVE  /\ accounts'[a].reserved = accounts[a].reserved
                 /\ accounts'[a].committed = accounts[a].committed
                 /\ accounts'[a].released = accounts[a].released
      BY <1>3 DEF PatchPolicy, Inv, TypeOK, AccountRow
    <2>2. \A s \in Scope : quotas[s].balance \in Int /\ deposited[s] \in Nat
      BY DEF Inv, TypeOK, Quota
    <2>3. UNCHANGED <<quotas, deposited>>
      BY <1>3 DEF PatchPolicy
    <2> QED BY <2>1, <2>2, <2>3 DEF NoItemsStep
  <1>4. \/ UNCHANGED <<quotas, accounts, deposited>>
        \/ \E z \in Scope, delta \in Amount, cur \in Currency : TopUp(z, delta, cur)
        \/ \E p \in Policy, limit \in Amount, enabled \in BOOLEAN :
             PatchPolicy(p, limit, enabled, policies[p].version)
    BY DEF ItemlessStep, MarkDispatched, PersistResult, MarkUnknown, MarkStale,
           MarkReservationsUnknown, AdminStep, CreatePolicy, Rollover, money
  <1> QED BY <1>1, <1>2, <1>3, <1>4

LEMMA NextMoney == StepInv /\ Next => MoneyStep
  <1> SUFFICES ASSUME StepInv, Next
               PROVE  MoneyStep
    OBVIOUS
  <1> USE DEF StepInv
  <1>0. ASSUME NEW r \in Reservation, ItemsStep(r)
        PROVE  MoneyStep
    BY <1>0 DEF ItemsStep, MoneyStep
  <1>1. ASSUME NEW r \in Reservation, RequestStep(r)
        PROVE  MoneyStep
    BY <1>0, <1>1, ReserveMoney, OtherMoney, ItemsUnchanged
       DEF RequestStep, ItemlessStep, MoneyStep
  <1>2. ASSUME NEW r \in Reservation, ApplyPending(r) \/ OperatorStep(r)
        PROVE  MoneyStep
    <2>1. PICK res \in Result, status \in Status, resolved \in BOOLEAN :
            ApplyReservation(r, res, status, resolved)
      BY <1>2, ApplyCallers
    <2> QED BY <1>0, <2>1, ApplyMoney
  <1>3. CASE ItemlessStep
    BY <1>3, OtherMoney, ItemsUnchanged DEF MoneyStep
  <1> QED BY <1>1, <1>2, <1>3 DEF Next, ItemlessStep

\* Every step that moves money moves it between the pots and the items of one
\* reservation, or pays a deposit in.
THEOREM MoneyConserved == Spec => MoneyMovesWithItems
  <1>1. StepInv /\ [Next]_vars => [MoneyStep]_vars
    BY NextMoney
  <1> QED BY StepInvHolds, <1>1, PTL DEF Spec, MoneyMovesWithItems
=============================================================================
