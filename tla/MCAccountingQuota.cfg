SPECIFICATION Spec
CONSTANTS
  r1 = r1
  r2 = r2
  s1 = s1
  p1 = p1
  usd = usd
  cny = cny
  Reservation = {r1, r2}
  Scope = {s1}
  Policy = {}
  Currency = {usd}
  NoCurrency = NoCurrency
  ScopesOf <- AllScopes
  PoliciesOf <- AllPolicies
  Mode <- AllEnforce
  PolicyCurrency <- AllUsd
  Thresholds <- HalfAndFull
  Amount = {0, 1, 2}
  MaxPeriod = 0
  MaxDeposit = 2
  MaxPolicyVersion = 1
SYMMETRY ReservationSymmetry
CHECK_DEADLOCK FALSE
INVARIANTS
  TypeOK
  QuotaConservation
  LifecycleConsistent
  OverdraftBounded
  LedgerRowsExactlyOnce
PROPERTIES
  ImplementsLedger
  NoRefundWithoutVerdict
