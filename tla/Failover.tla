------------------------------ MODULE Failover ------------------------------
(***************************************************************************)
(* Routing and failover of one model alias: the candidate selection         *)
(* (internal/proxy/router_select.go), the failover loops Forward and        *)
(* ForwardStream (dispatcher.go) and the circuit breaker they share         *)
(* (breaker.go), for requests that run concurrently.                        *)
(*                                                                          *)
(* Each breaker call takes the breaker's lock for itself, so other requests *)
(* may mark results between two health checks of one request.  Wall-clock   *)
(* time is abstracted to the ticks an open breaker still has to cool down.  *)
(***************************************************************************)
EXTENDS Integers, Sequences, FiniteSets, SequencesExt

CONSTANTS
  Request,     \* requests served at a time; a finished one makes room for another
  Provider,
  Protocol,    \* ingress protocols
  Endpoint,
  EndpointOf,  \* endpoint of a provider that serves a protocol (pickEndpoint)
  Route,       \* the route's providers, in configuration order
  Strategy,    \* "priority", "round_robin", "weighted" or "session_affinity"
  Unusable,    \* keys without a forwarder, or not serving the alias
  TimeLimited, \* keys whose provider sets an overall timeout; none has to
  Streaming,   \* requests that go through ForwardStream
  FailureThreshold,
  Cooldown     \* in ticks

ASSUME FailoverAssumption ==
  /\ EndpointOf \in [Provider -> [Protocol -> Endpoint]]
  /\ Route \in Seq(Provider)
  /\ Protocol # {}
  /\ FailureThreshold \in Nat \ {0}
  /\ Cooldown \in Nat \ {0}

KeyOf(p, proto) == <<p, EndpointOf[p][proto]>>
Key == {KeyOf(p, proto) : p \in Provider, proto \in Protocol}

State == [failures: 0..FailureThreshold, open: BOOLEAN, left: 0..Cooldown]
Closed == [failures |-> 0, open |-> FALSE, left |-> 0]

Stage == {"idle", "filter", "next", "calling", "done"}
Outcome == {"none", "served", "error", "exhausted"}

VARIABLES
  breaker,  \* [Key -> State]; an endpoint never marked is closed
  cursor,   \* the round-robin cursor
  req,      \* [Request -> Progress]
  stale     \* history: [Key -> requests that held it when it last opened]

failoverVars == <<breaker, cursor, req, stale>>

\* rest holds the healthy candidates found so far and, from "next" on, the
\* candidates still to be tried; todo the ones still to be checked.
Progress == [pc: Stage, protocol: Protocol, names: Seq(Provider),
             todo: Seq(Provider), rest: Seq(Provider),
             degraded: BOOLEAN, tried: BOOLEAN, cancelled: BOOLEAN,
             outcome: Outcome]

NewProgress(pc, proto, order) ==
  [pc |-> pc, protocol |-> proto, names |-> order, todo |-> order,
   rest |-> <<>>, degraded |-> FALSE, tried |-> FALSE,
   cancelled |-> FALSE, outcome |-> "none"]

\* The breaker's states and the requests' progress are well formed.
FailoverTypeOK ==
  /\ breaker \in [Key -> State]
  /\ cursor \in 0..Len(Route)
  /\ req \in [Request -> Progress]
  /\ stale \in [Key -> SUBSET Request]

FailoverInit ==
  /\ breaker = [k \in Key |-> Closed]
  /\ cursor = 0
  /\ req = [q \in Request |->
               NewProgress("idle", CHOOSE proto \in Protocol : TRUE, <<>>)]
  /\ stale = [k \in Key |-> {}]

-----------------------------------------------------------------------------
(***************************************************************************)
(* The circuit breaker.                                                     *)
(***************************************************************************)
Cooling(s) == s.open /\ s.left > 0

\* Mutant: an open breaker that cools down is taken for healthy.
HealthyAlways(k) == TRUE

Healthy(k) == ~Cooling(breaker[k])

\* Mutant: every failure restarts the cooldown, also one during it.
FailedRestartsCooldown(s) ==
  IF s.open THEN [s EXCEPT !.left = Cooldown]
  ELSE IF s.failures + 1 >= FailureThreshold
       THEN [failures |-> s.failures + 1, open |-> TRUE, left |-> Cooldown]
       ELSE [s EXCEPT !.failures = @ + 1]

\* The state after MarkFailure.
Failed(s) ==
  IF s.open THEN [s EXCEPT !.left = IF s.left = 0 THEN Cooldown ELSE @]
  ELSE IF s.failures + 1 >= FailureThreshold
       THEN [failures |-> s.failures + 1, open |-> TRUE, left |-> Cooldown]
       ELSE [s EXCEPT !.failures = @ + 1]

\* The state after MarkSuccess.
Succeeded(s) == Closed

\* Requests that hold k among their candidates: they found it healthy, or found
\* nothing healthy at all.
Holding(k) ==
  {q \in Request :
     /\ req[q].pc \in {"filter", "next", "calling"}
     /\ \E p \in Range(req[q].rest) : KeyOf(p, req[q].protocol) = k}

MarkFailure(k) ==
  /\ breaker' = [breaker EXCEPT ![k] = Failed(@)]
  /\ stale' = [stale EXCEPT ![k] =
                 IF ~Cooling(breaker[k]) /\ Cooling(breaker'[k])
                 THEN Holding(k) ELSE @]

MarkSuccess(k) ==
  /\ breaker' = [breaker EXCEPT ![k] = Succeeded(@)]
  /\ UNCHANGED stale

\* Time passes.
Tick ==
  /\ \E k \in Key : Cooling(breaker[k])
  /\ breaker' = [k \in Key |-> IF Cooling(breaker[k])
                               THEN [breaker[k] EXCEPT !.left = @ - 1]
                               ELSE breaker[k]]
  /\ UNCHANGED <<cursor, req, stale>>

-----------------------------------------------------------------------------
(***************************************************************************)
(* Candidates, which holds the router's lock to its end.  The weighted      *)
(* order is random, the session order fixed by a hash of the session:       *)
(* either may be any permutation.  A route may name a provider twice.       *)
(***************************************************************************)
Rotated == SubSeq(Route, cursor + 1, Len(Route)) \o SubSeq(Route, 1, cursor)

Orders ==
  CASE Strategy = "round_robin" -> {Rotated}
    [] Strategy \in {"weighted", "session_affinity"} ->
         {[i \in DOMAIN Route |-> Route[f[i]]] : f \in SetToSeqs(DOMAIN Route)}
    [] OTHER -> {Route}

Begin(q) ==
  /\ req[q].pc \in {"idle", "done"}
  /\ \A other \in Request : req[other].pc # "filter"
  /\ \E proto \in Protocol, order \in Orders :
       req' = [req EXCEPT ![q] = NewProgress("filter", proto, order)]
  /\ cursor' = IF Strategy = "round_robin" /\ Route # <<>>
               THEN (cursor + 1) % Len(Route) ELSE cursor
  /\ stale' = [k \in Key |-> stale[k] \ {q}]
  /\ UNCHANGED breaker

CheckHealth(q) ==
  LET p == Head(req[q].todo)
      k == KeyOf(p, req[q].protocol)
  IN /\ req[q].pc = "filter"
     /\ req[q].todo # <<>>
     /\ req' = [req EXCEPT
                  ![q].todo = Tail(@),
                  ![q].rest = IF Healthy(k) THEN Append(@, p) ELSE @]
     /\ UNCHANGED <<breaker, cursor, stale>>

\* Mutant: no degraded fallback when every candidate is unhealthy.
SelectHealthyOnly(q) ==
  /\ req[q].pc = "filter"
  /\ req[q].todo = <<>>
  /\ req' = [req EXCEPT ![q].pc = "next", ![q].names = <<>>]
  /\ UNCHANGED <<breaker, cursor, stale>>

\* The end of filterHealthy.
Select(q) ==
  /\ req[q].pc = "filter"
  /\ req[q].todo = <<>>
  /\ req' = [req EXCEPT
               ![q].pc = "next",
               ![q].names = <<>>,
               ![q].degraded = req[q].rest = <<>>,
               ![q].rest = IF @ = <<>> THEN req[q].names ELSE @]
  /\ UNCHANGED <<breaker, cursor, stale>>

-----------------------------------------------------------------------------
(***************************************************************************)
(* Forward and ForwardStream.                                               *)
(***************************************************************************)
CurrentKey(q) == KeyOf(Head(req[q].rest), req[q].protocol)
HasCandidate(q) == req[q].pc = "next" /\ req[q].rest # <<>>

\* The handler returns; of its locals only what the properties ask for is kept.
Finish(q, outcome) ==
  req' = [req EXCEPT ![q] = [NewProgress("done", req[q].protocol, <<>>) EXCEPT
                               !.tried = req[q].tried, !.outcome = outcome]]

Skip(q) ==
  /\ HasCandidate(q)
  /\ CurrentKey(q) \in Unusable
  /\ req' = [req EXCEPT ![q].rest = Tail(@)]
  /\ UNCHANGED <<breaker, cursor, stale>>

Call(q) ==
  /\ HasCandidate(q)
  /\ CurrentKey(q) \notin Unusable
  /\ req' = [req EXCEPT ![q].pc = "calling", ![q].tried = TRUE]
  /\ UNCHANGED <<breaker, cursor, stale>>

\* BeforeUpstream fails: the dispatch marker cannot be written, which is also
\* what happens under the context of a client that has gone.
RefuseCall(q) ==
  /\ HasCandidate(q)
  /\ CurrentKey(q) \notin Unusable
  /\ Finish(q, "error")
  /\ UNCHANGED <<breaker, cursor, stale>>

Exhaust(q) ==
  /\ req[q].pc = "next"
  /\ req[q].rest = <<>>
  /\ Finish(q, "exhausted")
  /\ UNCHANGED <<breaker, cursor, stale>>

\* An upstream's answer, of whatever kind, reaches a request still waiting.
Answers(q) == req[q].pc = "calling" /\ ~req[q].cancelled

UpstreamServes(q) ==
  /\ Answers(q)
  /\ MarkSuccess(CurrentKey(q))
  /\ Finish(q, "served")
  /\ UNCHANGED cursor

\* A build error or 4xx: not retryable and no verdict on the endpoint.
UpstreamRejects(q) ==
  /\ Answers(q)
  /\ Finish(q, "error")
  /\ UNCHANGED <<breaker, cursor, stale>>

\* Mutant: the failed candidate is tried again.
UpstreamFailsSticks(q) ==
  /\ Answers(q)
  /\ MarkFailure(CurrentKey(q))
  /\ req' = [req EXCEPT ![q].pc = "next"]
  /\ UNCHANGED cursor

UpstreamFails(q) ==
  /\ Answers(q)
  /\ MarkFailure(CurrentKey(q))
  /\ req' = [req EXCEPT ![q].pc = "next", ![q].rest = Tail(@)]
  /\ UNCHANGED cursor

\* The cancelled context surfaces as a transport error that is no timeout,
\* which classifyTransportErr takes for a fault of the upstream; where no billing
\* plugin refuses the next call, that call fails in the same way at once.
ClientLeaves(q) ==
  /\ req[q].pc = "calling"
  /\ MarkFailure(CurrentKey(q))
  /\ req' = [req EXCEPT ![q].pc = "next", ![q].rest = Tail(@),
                        ![q].cancelled = TRUE]
  /\ UNCHANGED cursor

\* What a handler does without waiting for anybody.
OwnStep(q) ==
  \/ CheckHealth(q) \/ Select(q)
  \/ Skip(q) \/ Call(q) \/ RefuseCall(q) \/ Exhaust(q)

\* A call to an upstream ends.
CallEnds(q) ==
  \/ UpstreamServes(q) \/ UpstreamRejects(q) \/ UpstreamFails(q)
  \/ ClientLeaves(q)

HandlerStep(q) == OwnStep(q) \/ CallEnds(q)

FailoverNext ==
  \/ \E q \in Request : Begin(q) \/ HandlerStep(q)
  \/ Tick

FailoverSpec == FailoverInit /\ [][FailoverNext]_failoverVars

\* The gateway itself ends the call under way: Forward applies the overall timeout
\* where the provider sets one, and a cancelled context ends any call.  Nothing
\* bounds the others: the first-byte timeout, also optional, ends with the
\* headers, and a body may follow them for ever.
CallLimited(q) ==
  \/ req[q].cancelled
  \/ q \notin Streaming /\ CurrentKey(q) \in TimeLimited

\* Handlers run, calls with a limit end, time passes.  An upstream owes no answer
\* and a client no patience: nothing is assumed of the other calls.
FairFailoverSpec ==
  /\ FailoverSpec
  /\ \A q \in Request :
       /\ WF_failoverVars(OwnStep(q))
       /\ WF_failoverVars(req[q].pc = "calling" /\ CallLimited(q) /\ CallEnds(q))
  /\ WF_failoverVars(Tick)

-----------------------------------------------------------------------------
\* An endpoint that is cooling down is called only by requests that had found it
\* healthy before its breaker opened, or that found no healthy candidate at all.
CoolingAvoided ==
  \A q \in Request :
    req[q].pc = "calling" /\ Cooling(breaker[CurrentKey(q)]) =>
      req[q].degraded \/ q \in stale[CurrentKey(q)]

\* Where every endpoint of the route can serve the request's protocol, no request
\* is turned away as exhausted without having tried one, however many breakers
\* are open (the degraded fallback of filterHealthy).
AllUsable(proto) ==
  Route # <<>> /\ \A p \in Range(Route) : KeyOf(p, proto) \notin Unusable

NeverExhaustedUntried ==
  \A q \in Request :
    req[q].outcome = "exhausted" /\ AllUsable(req[q].protocol) =>
      req[q].tried

\* Failover goes round no loop: every request ends, unless it waits for ever in
\* one call, to an upstream that does not answer and that no timeout limits.
RequestsEnd ==
  \A q \in Request :
    \/ []<>(req[q].pc \in {"idle", "done"})
    \/ <>[](req[q].pc = "calling" /\ ~CallLimited(q))

\* An open breaker becomes healthy again even under constant failing traffic,
\* because failures during the cooldown (degraded fallback, requests that were
\* already under way) do not prolong it.
CooldownElapses == \A k \in Key : breaker[k].open ~> Healthy(k)

=============================================================================
