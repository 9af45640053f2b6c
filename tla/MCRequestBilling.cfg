SPECIFICATION RequestSpec
CONSTANTS
  r1 = r1
  s1 = s1
  usd = usd
  Reservation = {r1}
  Scope = {s1}
  Policy = {}
  Currency = {usd}
  NoCurrency = NoCurrency
  ScopesOf <- AllScopes
  PoliciesOf <- NoPolicies
  Mode <- NoPolicyData
  PolicyCurrency <- NoPolicyData
  Thresholds <- NoPolicyData
  Amount = {1, 2}
  MaxPeriod = 0
  MaxDeposit = 2
  MaxPolicyVersion = 1
  MaxAttempts = 2
CHECK_DEADLOCK FALSE
INVARIANTS
  ConsumedNeverReleasedSilently
  SettledAtTrueCost
  VersionDetectsChange
