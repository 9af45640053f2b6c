SPECIFICATION Spec
CONSTANTS
  r1 = r1
  r2 = r2
  s1 = s1
  p1 = p1
  usd = usd
  cny = cny
  Reservation = {r1, r2}
  Scope = {}
  Policy = {p1}
  Currency = {usd}
  NoCurrency = NoCurrency
  ScopesOf <- AllScopes
  PoliciesOf <- AllPolicies
  Mode <- AllEnforce
  PolicyCurrency <- AllUsd
  Thresholds <- HalfAndFull
  Amount = {1, 2}
  MaxPeriod = 1
  MaxDeposit = 2
  MaxPolicyVersion = 1
SYMMETRY ReservationSymmetry
CHECK_DEADLOCK FALSE
INVARIANTS
  AccountsMatchItems
  OverdraftBounded
  AlertsComplete
