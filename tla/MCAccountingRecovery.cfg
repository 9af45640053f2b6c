SPECIFICATION FairSpec
CONSTANTS
  r1 = r1
  r2 = r2
  s1 = s1
  p1 = p1
  usd = usd
  cny = cny
  Reservation = {r1}
  Scope = {s1}
  Policy = {p1}
  Currency = {usd, cny}
  NoCurrency = NoCurrency
  ScopesOf <- AllScopes
  PoliciesOf <- AllPolicies
  Mode <- AllSoft
  PolicyCurrency <- AllUsd
  Thresholds <- HalfAndFull
  Amount = {0, 1, 2}
  MaxPeriod = 0
  MaxDeposit = 2
  MaxPolicyVersion = 1
CHECK_DEADLOCK FALSE
INVARIANTS
  SettlementAlwaysApplicable
PROPERTIES
  PendingEventuallyApplied
  NothingStaysInFlight
