SPECIFICATION FairFailoverSpec
CONSTANTS
  q1 = q1
  q2 = q2
  p1 = p1
  p2 = p2
  e1 = e1
  e2 = e2
  openai = openai
  anthropic = anthropic
  Request = {q1, q2}
  Provider = {p1, p2}
  Protocol = {openai, anthropic}
  Endpoint = {e1, e2}
  EndpointOf <- OwnEndpoints
  Route <- Twice
  Strategy = "priority"
  Unusable <- FirstUnusable
  TimeLimited <- SecondLimited
  Streaming = {q1}
  FailureThreshold = 2
  Cooldown = 2
INVARIANTS
  CoolingAvoided
  NeverExhaustedUntried
PROPERTIES
  RequestsEnd
  CooldownElapses
