----------------------------- MODULE Accounting -----------------------------
(***************************************************************************)
(* The spend store of the gateway: AccountingRepo, BudgetRepo and          *)
(* QuotaRepo.TopUp (internal/store/accounting.go, budget.go, quota.go) over *)
(* the tables of migration 00031.  A request reserves an estimate from      *)
(* every prepaid quota and every calendar budget that applies to it, and    *)
(* the reservation is later settled, released, or parked as "unknown" for   *)
(* an operator.  Finishing has two phases, each a transaction of its own:   *)
(* persist the result, then apply the money; a crash between them leaves a  *)
(* pending result for the recovery loop.                                    *)
(*                                                                          *)
(* Every PostgreSQL transaction is one action: it takes the tenant row,     *)
(* then the reservation row, then the money rows in one canonical order,    *)
(* and keeps the locks to its end.  A transaction that fails is rolled back *)
(* and is a stuttering step.  Who calls which operation when is left open   *)
(* here (any client, any order); RequestBilling restricts it to what the    *)
(* request handler does.                                                    *)
(***************************************************************************)
EXTENDS Integers, FiniteSets, Functions

CONSTANTS
  Reservation,     \* server-generated reservation ids
  Scope,           \* quota scopes: tenant:X, group:X/Y, key:Z
  Policy,          \* budget policy ids
  Currency,
  NoCurrency,      \* the scope has no quotas row, hence is unlimited
  ScopesOf,        \* scopes of the caller's identity, per reservation
  PoliciesOf,      \* policies whose scope matches the caller, per reservation
  Mode,            \* "soft" or "enforce", per policy; never patched
  PolicyCurrency,  \* per policy; never patched
  Thresholds,      \* alert percentages, per policy; never patched
  Amount,          \* money a caller may estimate, charge, top up or set as limit
  MaxPeriod,       \* bound: number of period rollovers
  MaxDeposit,      \* bound: money ever topped up per scope
  MaxPolicyVersion \* bound: number of times a policy is patched

ASSUME ConstantsAssumption ==
  /\ NoCurrency \notin Currency
  /\ ScopesOf \in [Reservation -> SUBSET Scope]
  /\ PoliciesOf \in [Reservation -> SUBSET Policy]
  /\ Mode \in [Policy -> {"soft", "enforce"}]
  /\ PolicyCurrency \in [Policy -> Currency]
  /\ Thresholds \in [Policy -> SUBSET (1..100)]
  /\ Amount \subseteq Nat
  /\ MaxPeriod \in Nat
  /\ MaxDeposit \in Nat
  /\ MaxPolicyVersion \in Nat

\* The ids are fixed-width (16 random bytes), so there are finitely many.
ASSUME FiniteAssumption == IsFiniteSet(Reservation)

Period == 0..MaxPeriod

\* A budget_accounts row: one policy in one calendar period.
Account == Policy \X Period

\* What a reservation item draws on: a prepaid quota or a period account.
Pot == Scope \cup Account

ASSUME PotAssumption == Scope \cap Account = {}

-----------------------------------------------------------------------------
(***************************************************************************)
(* Rows.                                                                    *)
(***************************************************************************)
Open == {"reserved", "dispatched", "unknown"}
Status == {"none", "settled", "released", "released_unknown"} \cup Open

\* The durable result column: the settlement handed to Finish.
Result == [outcome: {"none", "known", "released"}, actual: Nat,
           usage: BOOLEAN, risk: BOOLEAN]
NoResult == [outcome |-> "none", actual |-> 0, usage |-> FALSE, risk |-> FALSE]

Quota == [currency: Currency \cup {NoCurrency}, balance: Int]
PolicyRow == [enabled: BOOLEAN, limit: Nat, version: Nat]  \* version 0: absent
AccountRow == [open: BOOLEAN, limit: Nat, reserved: Int, committed: Int,
               released: Int]
Row == [status: Status, currency: Currency \cup {NoCurrency}, estimate: Nat,
        result: Result, applied: BOOLEAN, version: Nat]
Item == [on: BOOLEAN, reserved: Nat, held: Nat, committed: Nat, released: Nat]

NoQuota == [currency |-> NoCurrency, balance |-> 0]
NoPolicy == [enabled |-> FALSE, limit |-> 0, version |-> 0]
NoAccount == [open |-> FALSE, limit |-> 0, reserved |-> 0, committed |-> 0,
              released |-> 0]
NoRow == [status |-> "none", currency |-> NoCurrency, estimate |-> 0,
          result |-> NoResult, applied |-> FALSE, version |-> 0]
NoItem == [on |-> FALSE, reserved |-> 0, held |-> 0, committed |-> 0,
           released |-> 0]

VARIABLES
  quotas,       \* [Scope -> Quota]
  policies,     \* [Policy -> PolicyRow]
  accounts,     \* [Account -> AccountRow]
  reservations, \* [Reservation -> Row]
  items,        \* [Reservation -> [Pot -> Item]]
  events,       \* budget_events and usage_records, see Events
  period,       \* the calendar period of the wall clock
  deposited     \* history: money topped up, per scope

money == <<quotas, accounts, items>>
vars == <<quotas, policies, accounts, reservations, items, events, period,
          deposited>>

\* thresholds and overspends have a unique index per account, unknowns one per
\* reservation; the other three are plain inserts, so they are counted.
Events == [thresholds: SUBSET (Account \X (1..100)),
           overspends: SUBSET Account,
           unknowns: SUBSET Reservation,
           risks: [Reservation -> Nat],
           resolutions: [Reservation -> Nat],
           usages: [Reservation -> Nat]]

\* Every row variable holds well-formed rows.
TypeOK ==
  /\ quotas \in [Scope -> Quota]
  /\ policies \in [Policy -> PolicyRow]
  /\ accounts \in [Account -> AccountRow]
  /\ reservations \in [Reservation -> Row]
  /\ items \in [Reservation -> [Pot -> Item]]
  /\ events \in Events
  /\ period \in Period
  /\ deposited \in [Scope -> Nat]

Zero == [r \in Reservation |-> 0]

Init ==
  /\ quotas = [s \in Scope |-> NoQuota]
  /\ policies = [p \in Policy |-> NoPolicy]
  /\ accounts = [a \in Account |-> NoAccount]
  /\ reservations = [r \in Reservation |-> NoRow]
  /\ items = [r \in Reservation |-> [p \in Pot |-> NoItem]]
  /\ events = [thresholds |-> {}, overspends |-> {}, unknowns |-> {},
               risks |-> Zero, resolutions |-> Zero, usages |-> Zero]
  /\ period = 0
  /\ deposited = [s \in Scope |-> 0]


-----------------------------------------------------------------------------
(***************************************************************************)
(* Reserve: all-or-nothing over the configured quotas and enabled policies. *)
(* The request's instant is read before the transaction starts, so the      *)
(* period it falls in may already be over when the row locks are granted.   *)
(***************************************************************************)
ConfiguredScopes(r) == {s \in ScopesOf[r] : quotas[s].currency # NoCurrency}
EnabledPolicies(r) == {p \in PoliciesOf[r] : policies[p].enabled}

\* Mutant: the estimate is not compared with the balance.
QuotaAdmitsAnyPositive(s, est, cur) ==
  quotas[s].currency = cur /\ quotas[s].balance > 0

QuotaAdmits(s, est, cur) ==
  /\ quotas[s].currency = cur
  /\ quotas[s].balance > 0
  /\ quotas[s].balance >= est

\* Mutant: opening a period account resets the totals it already has.
ResetAccount(p, t) ==
  [NoAccount EXCEPT !.open = TRUE, !.limit = policies[p].limit]

\* The period account, created on demand with the policy's current limit.
OpenedAccount(p, t) ==
  IF accounts[<<p, t>>].open
  THEN accounts[<<p, t>>]
  ELSE [NoAccount EXCEPT !.open = TRUE, !.limit = policies[p].limit]

\* Mutant: money reserved by requests in flight is still available.
BudgetAdmitsIgnoringReserved(p, t, est, cur) ==
  LET a == OpenedAccount(p, t)
      available == a.limit - a.committed
  IN /\ PolicyCurrency[p] = cur
     /\ \/ Mode[p] = "soft"
        \/ available > 0 /\ available >= est

BudgetAdmits(p, t, est, cur) ==
  LET a == OpenedAccount(p, t)
      available == a.limit - a.committed - a.reserved
  IN /\ PolicyCurrency[p] = cur
     /\ \/ Mode[p] = "soft"
        \/ available > 0 /\ available >= est

Reserve(r, est, cur, t) ==
  LET pots == ConfiguredScopes(r) \cup {<<p, t>> : p \in EnabledPolicies(r)}
  IN /\ reservations[r].status = "none"
     /\ t <= period
     /\ \A s \in ConfiguredScopes(r) : QuotaAdmits(s, est, cur)
     /\ \A p \in EnabledPolicies(r) : BudgetAdmits(p, t, est, cur)
     /\ quotas' = [s \in Scope |->
                     IF s \in pots
                     THEN [quotas[s] EXCEPT !.balance = @ - est]
                     ELSE quotas[s]]
     /\ accounts' = [a \in Account |->
                       IF a \in pots
                       THEN [OpenedAccount(a[1], a[2]) EXCEPT
                               !.reserved = @ + est]
                       ELSE accounts[a]]
     /\ items' = [items EXCEPT ![r] =
                    [p \in Pot |->
                       IF p \in pots
                       THEN [NoItem EXCEPT !.on = TRUE, !.reserved = est,
                                           !.held = est]
                       ELSE NoItem]]
     /\ reservations' = [reservations EXCEPT ![r] =
                           [NoRow EXCEPT !.status = "reserved",
                                         !.currency = cur,
                                         !.estimate = est, !.version = 1]]
     /\ UNCHANGED <<policies, events, period, deposited>>

-----------------------------------------------------------------------------
(***************************************************************************)
(* The dispatch marker.  A later attempt of the same request finds the      *)
(* marker already set and changes nothing.                                  *)
(***************************************************************************)
MarkDispatched(r) ==
  /\ reservations[r].status = "reserved"
  /\ reservations[r].result = NoResult
  /\ reservations' = [reservations EXCEPT ![r].status = "dispatched",
                                          ![r].version = @ + 1]
  /\ UNCHANGED <<money, policies, events, period, deposited>>

\* MarkDispatched returns nil: the caller may contact an upstream.
DispatchAllowed(r) ==
  /\ reservations[r].status \in {"reserved", "dispatched"}
  /\ reservations[r].result = NoResult

-----------------------------------------------------------------------------
(***************************************************************************)
(* Finish, phase one: persist the result of a known or released outcome.    *)
(***************************************************************************)
\* Mutant: a risk-released reservation accepts a second release.
MayPersistAnyOutcome(r, outcome) ==
  reservations[r].status \in Open \cup {"released_unknown"}

MayPersist(r, outcome) ==
  \/ reservations[r].status \in Open
  \/ reservations[r].status = "released_unknown" /\ outcome = "known"

\* Mutant: a result already persisted is overwritten.
PersistResultOverwrites(r, res) ==
  /\ MayPersist(r, res.outcome)
  /\ reservations' = [reservations EXCEPT ![r].result = res,
                                          ![r].applied = FALSE,
                                          ![r].version = @ + 1]
  /\ UNCHANGED <<money, policies, events, period, deposited>>

\* Mutant: persisting the result does not advance the row version.
PersistResultSameVersion(r, res) ==
  /\ reservations[r].result = NoResult
  /\ MayPersist(r, res.outcome)
  /\ reservations' = [reservations EXCEPT ![r].result = res,
                                          ![r].applied = FALSE]
  /\ UNCHANGED <<money, policies, events, period, deposited>>

PersistResult(r, res) ==
  /\ reservations[r].result = NoResult
  /\ MayPersist(r, res.outcome)
  /\ reservations' = [reservations EXCEPT ![r].result = res,
                                          ![r].applied = FALSE,
                                          ![r].version = @ + 1]
  /\ UNCHANGED <<money, policies, events, period, deposited>>

(***************************************************************************)
(* emitBudgetThresholds over the accounts in touched, whose new rows are    *)
(* in accts.                                                                *)
(***************************************************************************)
Reached(row, threshold) ==
  row.committed > 0 /\ row.committed * 100 >= row.limit * threshold

ThresholdEvents(accts, touched) ==
  {e \in touched \X (1..100) :
     e[2] \in Thresholds[e[1][1]] /\ Reached(accts[e[1]], e[2])}

OverspendEvents(accts, touched) ==
  {a \in touched : accts[a].committed > accts[a].limit}

(***************************************************************************)
(* applyReservation: move every item of r from held to committed = actual.  *)
(* The refund is what was held or committed beyond actual; the quota update *)
(* matches no row when the currency changed, which aborts the transaction.  *)
(***************************************************************************)
\* Mutant: the refund is not clamped when a charge overruns its estimate.
RefundUnclamped(item, actual) == item.held + item.committed - actual

Refund(item, actual) ==
  IF item.held + item.committed > actual
  THEN item.held + item.committed - actual
  ELSE 0

ItemsApplicable(r) ==
  \A s \in Scope :
    items[r][s].on => quotas[s].currency = reservations[r].currency

AppliedItem(item, actual) ==
  IF item.on
  THEN [item EXCEPT !.held = 0, !.committed = actual,
                    !.released = @ + Refund(item, actual)]
  ELSE item

\* Mutant: only refunds reach the balance, overruns are never debited.
AppliedQuotaRefundOnly(s, item, actual) ==
  IF item.on
  THEN [quotas[s] EXCEPT !.balance = @ + Refund(item, actual)]
  ELSE quotas[s]

AppliedQuota(s, item, actual) ==
  IF item.on
  THEN [quotas[s] EXCEPT !.balance = @ + item.held + item.committed - actual]
  ELSE quotas[s]

AppliedAccount(a, item, actual) ==
  IF item.on
  THEN [accounts[a] EXCEPT !.reserved = @ - item.held,
                           !.committed = @ + actual - item.committed,
                           !.released = @ + Refund(item, actual)]
  ELSE accounts[a]

ApplyReservation(r, res, status, resolved) ==
  LET touched == {a \in Account : items[r][a].on}
  IN /\ ItemsApplicable(r)
     /\ quotas' = [s \in Scope |-> AppliedQuota(s, items[r][s], res.actual)]
     /\ accounts' = [a \in Account |->
                       AppliedAccount(a, items[r][a], res.actual)]
     /\ items' = [items EXCEPT ![r] =
                    [p \in Pot |-> AppliedItem(items[r][p], res.actual)]]
     /\ events' =
          [events EXCEPT
             !.thresholds = @ \cup ThresholdEvents(accounts', touched),
             !.overspends = @ \cup OverspendEvents(accounts', touched),
             !.usages[r] = @ + (IF res.usage THEN 1 ELSE 0),
             !.risks[r] = @ + (IF res.risk THEN 1 ELSE 0),
             !.resolutions[r] = @ + (IF resolved THEN 1 ELSE 0)]
     /\ reservations' =
          [reservations EXCEPT
             ![r].status = status,
             ![r].version = @ + 1,
             ![r].result = IF status = "released_unknown" THEN @ ELSE res,
             ![r].applied = IF status = "released_unknown" THEN @ ELSE TRUE]
     /\ UNCHANGED <<policies, period, deposited>>

\* Mutant: a result that was already applied is applied again.
ApplyPendingAgain(r) ==
  LET res == reservations[r].result
  IN /\ res # NoResult
     /\ ApplyReservation(r, res,
          IF res.outcome = "released" THEN "released" ELSE "settled", FALSE)

\* Mutant: only open reservations are retried, so a late charge for a
\* risk-released one is never applied.
ApplyPendingOpenOnly(r) ==
  LET res == reservations[r].result
  IN /\ res # NoResult
     /\ reservations[r].status \in Open
     /\ ApplyReservation(r, res,
          IF res.outcome = "released" THEN "released" ELSE "settled", FALSE)

\* Finish, phase two, and each row of RetryPending.
ApplyPending(r) ==
  LET res == reservations[r].result
  IN /\ res # NoResult
     /\ ~reservations[r].applied
     /\ ApplyReservation(r, res,
          IF res.outcome = "released" THEN "released" ELSE "settled", FALSE)

-----------------------------------------------------------------------------
(***************************************************************************)
(* Parking a charge nobody can confirm: Finish("unknown") for one request,  *)
(* MarkStale for the rows the recovery loop finds older than a day.  Time   *)
(* is not modelled: any set of eligible rows may have grown old.            *)
(***************************************************************************)
\* Mutant: reservations that were never dispatched are not scanned.
MayBecomeUnknownDispatchedOnly(r) ==
  /\ reservations[r].status = "dispatched"
  /\ reservations[r].result = NoResult

MayBecomeUnknown(r) ==
  /\ reservations[r].status \in {"reserved", "dispatched"}
  /\ reservations[r].result = NoResult

MarkReservationsUnknown(rs) ==
  /\ reservations' = [r \in Reservation |->
                        IF r \in rs
                        THEN [reservations[r] EXCEPT !.status = "unknown",
                                                     !.version = @ + 1]
                        ELSE reservations[r]]
  /\ events' = [events EXCEPT !.unknowns = @ \cup rs]
  /\ UNCHANGED <<money, policies, period, deposited>>

MarkUnknown(r) ==
  /\ MayBecomeUnknown(r)
  /\ MarkReservationsUnknown({r})

\* Mutant: a reservation that grew old is refunded.
MarkStaleRefunds(rs) ==
  \E r \in rs :
    /\ MayBecomeUnknown(r)
    /\ ApplyReservation(r, [NoResult EXCEPT !.outcome = "released"], "released",
                        FALSE)

MarkStale(rs) ==
  /\ rs # {}
  /\ \A r \in rs : MayBecomeUnknown(r)
  /\ MarkReservationsUnknown(rs)

-----------------------------------------------------------------------------
(***************************************************************************)
(* The management plane: an operator resolves an unknown charge under the   *)
(* version it has read, money is topped up, policies are created/patched.   *)
(***************************************************************************)
ResolvedStatus(action) ==
  CASE action = "settle"          -> "settled"
    [] action = "release"         -> "released"
    [] action = "release_unknown" -> "released_unknown"

Resolution(action, actual) ==
  IF action = "settle"
  THEN [NoResult EXCEPT !.outcome = "known", !.actual = actual]
  ELSE [NoResult EXCEPT !.outcome = "released"]

Resolve(r, action, actual, version) ==
  /\ version = reservations[r].version
  /\ reservations[r].result = NoResult
  /\ \/ reservations[r].status = "unknown"
     \/ reservations[r].status = "released_unknown" /\ action = "settle"
  /\ ApplyReservation(r, Resolution(action, actual), ResolvedStatus(action),
                      TRUE)

\* Mutant: a top-up overwrites the currency of an existing quota.
TopUpAnyCurrency(s, delta, cur) ==
  /\ delta > 0
  /\ deposited[s] + delta <= MaxDeposit
  /\ quotas' = [quotas EXCEPT ![s].currency = cur, ![s].balance = @ + delta]
  /\ deposited' = [deposited EXCEPT ![s] = @ + delta]
  /\ UNCHANGED <<policies, accounts, reservations, items, events, period>>

TopUp(s, delta, cur) ==
  /\ delta > 0
  /\ quotas[s].currency \in {NoCurrency, cur}
  /\ deposited[s] + delta <= MaxDeposit
  /\ quotas' = [quotas EXCEPT ![s].currency = cur, ![s].balance = @ + delta]
  /\ deposited' = [deposited EXCEPT ![s] = @ + delta]
  /\ UNCHANGED <<policies, accounts, reservations, items, events, period>>

CreatePolicy(p, limit) ==
  /\ policies[p].version = 0
  /\ policies' = [policies EXCEPT ![p] =
                    [enabled |-> TRUE, limit |-> limit, version |-> 1]]
  /\ UNCHANGED <<money, reservations, events, period, deposited>>

\* Mutant: lowering a limit raises no alert.
PatchPolicySilently(p, limit, enabled, version) ==
  LET a == <<p, period>>
  IN /\ version = policies[p].version
     /\ version \in 1..MaxPolicyVersion
     /\ policies' = [policies EXCEPT ![p] =
                       [enabled |-> enabled, limit |-> limit,
                        version |-> version + 1]]
     /\ accounts' = [accounts EXCEPT ![a].limit =
                       IF accounts[a].open THEN limit ELSE @]
     /\ UNCHANGED <<quotas, reservations, items, events, period, deposited>>

\* Only the account of the current period takes the new limit.
PatchPolicy(p, limit, enabled, version) ==
  LET a == <<p, period>>
      touched == {b \in {a} : accounts[b].open}
  IN /\ version = policies[p].version
     /\ version \in 1..MaxPolicyVersion
     /\ policies' = [policies EXCEPT ![p] =
                       [enabled |-> enabled, limit |-> limit,
                        version |-> version + 1]]
     /\ accounts' = [accounts EXCEPT ![a].limit =
                       IF accounts[a].open THEN limit ELSE @]
     /\ events' = [events EXCEPT
                     !.thresholds = @ \cup ThresholdEvents(accounts', touched),
                     !.overspends = @ \cup OverspendEvents(accounts', touched)]
     /\ UNCHANGED <<quotas, reservations, items, period, deposited>>

Rollover ==
  /\ period < MaxPeriod
  /\ period' = period + 1
  /\ UNCHANGED <<money, policies, reservations, events, deposited>>

-----------------------------------------------------------------------------
\* What Finish may be handed: a known charge, with or without a risky earlier
\* attempt, or a proven zero charge (validateSettlement).
Settlement ==
  {[outcome |-> "known", actual |-> n, usage |-> TRUE, risk |-> b] :
     n \in Amount, b \in BOOLEAN}
  \cup {[NoResult EXCEPT !.outcome = "released"]}

RequestStep(r) ==
  \/ \E est \in Amount, cur \in Currency, t \in Period : Reserve(r, est, cur, t)
  \/ MarkDispatched(r)
  \/ \E res \in Settlement : PersistResult(r, res)
  \/ MarkUnknown(r)

OperatorStep(r) ==
  \E action \in {"settle", "release", "release_unknown"}, n \in Amount :
    Resolve(r, action, n, reservations[r].version)

AdminStep ==
  \/ \E s \in Scope, delta \in Amount, cur \in Currency : TopUp(s, delta, cur)
  \/ \E p \in Policy, limit \in Amount : CreatePolicy(p, limit)
  \/ \E p \in Policy, limit \in Amount, enabled \in BOOLEAN :
       PatchPolicy(p, limit, enabled, policies[p].version)

Next ==
  \/ \E r \in Reservation : RequestStep(r) \/ ApplyPending(r) \/ OperatorStep(r)
  \/ \E rs \in SUBSET Reservation : MarkStale(rs)
  \/ AdminStep
  \/ Rollover

Spec == Init /\ [][Next]_vars

\* The recovery loop runs every minute for the life of the process: it retries
\* every pending result and marks every row older than a day.
RecoveryFairness ==
  \A r \in Reservation :
    /\ WF_vars(ApplyPending(r))
    /\ WF_vars(\E rs \in SUBSET Reservation : r \in rs /\ MarkStale(rs))

FairSpec == Spec /\ RecoveryFairness

-----------------------------------------------------------------------------
(***************************************************************************)
(* Safety.                                                                  *)
(***************************************************************************)
HeldOn(p) == SumFunctionOnSet([r \in Reservation |-> items[r][p].held],
                              Reservation)
CommittedOn(p) == SumFunctionOnSet(
                    [r \in Reservation |-> items[r][p].committed], Reservation)
ReleasedOn(p) == SumFunctionOnSet(
                   [r \in Reservation |-> items[r][p].released], Reservation)

\* What the charges on p exceeded the money set aside for them by.
OverrunOn(p) ==
  SumFunctionOnSet([r \in Reservation |->
    items[r][p].held + items[r][p].committed + items[r][p].released
      - items[r][p].reserved], Reservation)

\* No money is created or lost by any interleaving of reservations,
\* settlements, late charges and top-ups: a quota's balance is what was paid in
\* less what its reservations still hold and what they were charged
\* (Reserve's debit against applyReservation's balance update).
QuotaConservation ==
  \A s \in Scope :
    quotas[s].balance = deposited[s] - HeldOn(s) - CommittedOn(s)

\* The running totals of a period account agree with the items drawn on it, so
\* a late settlement charges the period it was reserved in and the CHECK
\* (reserved >= 0) of the table can never abort a settlement.
AccountsMatchItems ==
  \A a \in Account :
    /\ accounts[a].reserved = HeldOn(a)
    /\ accounts[a].committed = CommittedOn(a)
    /\ accounts[a].released = ReleasedOn(a)

\* A prepaid balance is overdrawn, and the account of a never patched enforce
\* policy exceeded, only by what charges overran their estimates: two racing
\* reservations never spend the same money (the balance and available guards
\* of Reserve).
OverdraftBounded ==
  /\ \A s \in Scope : quotas[s].balance >= - OverrunOn(s)
  /\ \A p \in Policy, t \in Period :
       LET a == accounts[<<p, t>>]
       IN Mode[p] = "enforce" /\ policies[p].version = 1
            => a.reserved + a.committed <= a.limit + OverrunOn(<<p, t>>)

\* Status, durable result and money of a reservation agree at all times: open
\* reservations hold exactly their estimate, closed ones hold nothing, a
\* settled one was charged its result, and a result stays pending only while
\* the row is open or risk-released.
ItemConsistent(row, item) ==
  IF ~item.on
  THEN item = NoItem
  ELSE /\ row.status # "none"
       /\ item.reserved = row.estimate
       /\ row.status \in Open =>
            item.held = row.estimate /\ item.committed = 0 /\ item.released = 0
       /\ row.status = "settled" =>
            item.held = 0 /\ item.committed = row.result.actual
       /\ row.status \in {"released", "released_unknown"} =>
            item.held = 0 /\ item.committed = 0 /\ item.released = row.estimate

RowConsistent(row) ==
  /\ row.status = "none" => row = NoRow
  /\ row.status # "none" => row.currency \in Currency
  /\ row.applied <=> row.status \in {"settled", "released"}
  /\ row.status = "settled" => row.result.outcome = "known"
  /\ row.status = "released" => row.result.outcome = "released"
  /\ row.status = "released_unknown" => row.result.outcome # "released"
  /\ row.result.outcome = "none" => row.result = NoResult
  /\ row.result.outcome = "released" =>
       row.result = [NoResult EXCEPT !.outcome = "released"]

LifecycleConsistent ==
  \A r \in Reservation :
    /\ RowConsistent(reservations[r])
    /\ \A p \in Pot : ItemConsistent(reservations[r], items[r][p])

\* The usage row and the attempt_risk event of a known result are written by
\* the transaction that applies it, exactly once however often the result is
\* retried by the request and by the recovery loop.
LedgerRowsExactlyOnce ==
  \A r \in Reservation :
    LET row == reservations[r]
        once(b) == IF row.applied /\ b THEN 1 ELSE 0
    IN /\ events.usages[r] = once(row.result.usage)
       /\ events.risks[r] = once(row.result.risk)

\* No settlement can be blocked for good by a changed quota currency: every
\* quota a reservation drew on keeps the reservation's currency (TopUp's
\* currency check against applyReservation's WHERE clause).
SettlementAlwaysApplicable ==
  \A r \in Reservation : ItemsApplicable(r)

\* Every alert the accounts call for has been recorded: each threshold that the
\* committed amount reaches and each overspent account, also when a patch
\* lowers the limit below what is already committed.
AlertsComplete ==
  \A a \in Account :
    /\ \A th \in Thresholds[a[1]] :
         Reached(accounts[a], th) => <<a, th>> \in events.thresholds
    /\ accounts[a].committed > accounts[a].limit => a \in events.overspends

\* A persisted result is never replaced, and a row whose result was applied
\* never changes again, nor do its items: retries and late finishes of the
\* same reservation have no effect.
FinalStep ==
  \A r \in Reservation :
    /\ reservations[r].result # NoResult =>
         reservations'[r].result = reservations[r].result
    /\ reservations[r].applied =>
         /\ reservations'[r] = reservations[r]
         /\ items'[r] = items[r]

SettledIsFinal == [][FinalStep]_vars

\* Money moves only together with the items of one reservation: each step
\* changes the items of at most one, and the quotas and accounts by exactly the
\* difference, so their totals always agree; without items moving only a top-up
\* changes a balance.
BalanceStep(r) ==
  \A s \in Scope :
    quotas'[s].balance + items'[r][s].held + items'[r][s].committed
      = quotas[s].balance + items[r][s].held + items[r][s].committed

AccountStep(r) ==
  \A a \in Account :
    /\ accounts'[a].reserved - accounts[a].reserved
         = items'[r][a].held - items[r][a].held
    /\ accounts'[a].committed - accounts[a].committed
         = items'[r][a].committed - items[r][a].committed
    /\ accounts'[a].released - accounts[a].released
         = items'[r][a].released - items[r][a].released

NoItemsStep ==
  /\ \A s \in Scope : quotas'[s].balance - quotas[s].balance
                        = deposited'[s] - deposited[s]
  /\ \A a \in Account : /\ accounts'[a].reserved = accounts[a].reserved
                         /\ accounts'[a].committed = accounts[a].committed
                         /\ accounts'[a].released = accounts[a].released

MoneyStep ==
  \/ /\ items' = items
     /\ NoItemsStep
  \/ \E r \in Reservation :
       /\ \A q \in Reservation \ {r} : items'[q] = items[q]
       /\ deposited' = deposited
       /\ BalanceStep(r)
       /\ AccountStep(r)

MoneyMovesWithItems == [][MoneyStep]_vars

\* Held money is let go only for a durable result or an audited operator
\* decision, never because time passed (MarkStale "never refunds").
VerdictStep ==
  \A r \in Reservation, p \in Pot :
    items'[r][p].held < items[r][p].held =>
      \/ reservations[r].result # NoResult
      \/ events'.resolutions[r] > events.resolutions[r]

NoRefundWithoutVerdict == [][VerdictStep]_vars

(***************************************************************************)
(* Liveness, under RecoveryFairness.                                        *)
(***************************************************************************)
\* A durable result is eventually applied, whatever crashed in between.
PendingEventuallyApplied ==
  \A r \in Reservation :
    reservations[r].result # NoResult ~> reservations[r].applied

\* No reservation holds money unnoticed: it gets a result or is parked for an
\* operator.
NothingStaysInFlight ==
  \A r \in Reservation :
    reservations[r].status \in {"reserved", "dispatched"}
      ~> reservations[r].status \notin {"reserved", "dispatched"}

=============================================================================
