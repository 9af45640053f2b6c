--------------------------- MODULE FailoverProofs ---------------------------
(***************************************************************************)
(* Proofs about Failover, for any number of concurrent requests, any route, *)
(* any strategy and any breaker parameters.                                 *)
(***************************************************************************)
EXTENDS Failover, FiniteSetTheorems, SequenceTheorems, TLAPS

-----------------------------------------------------------------------------
(***************************************************************************)
(* The inductive invariant.                                                 *)
(***************************************************************************)
\* A closed breaker has not reached its threshold.
BreakerSound ==
  \A k \in Key : ~breaker[k].open => breaker[k].failures < FailureThreshold

Selecting(x) == x.pc = "filter"
Forwarding(x) == x.pc \in {"next", "calling"}

\* The selection walks an order of the route's providers.
SelectionSound(x) ==
  Selecting(x) =>
    /\ Range(x.todo) \subseteq Range(Route)
    /\ Range(x.names) \subseteq Range(Route)
    /\ Route # <<>> => x.names # <<>>
    /\ ~x.degraded

\* Every candidate is a provider of the route, and the breaker of one that is
\* cooling down opened while the request q, whose progress is x, held it.
CandidatesSound(q, x) ==
  Selecting(x) \/ Forwarding(x) =>
    \A p \in Range(x.rest) :
      /\ p \in Range(Route)
      /\ Cooling(breaker[KeyOf(p, x.protocol)]) =>
           x.degraded \/ q \in stale[KeyOf(p, x.protocol)]

\* A request that has tried no candidate still has one, if it can use any.
TriedSound(x) ==
  /\ x.pc # "done" => x.outcome = "none"
  /\ x.pc = "calling" => x.tried /\ x.rest # <<>>
  /\ x.pc = "next" /\ AllUsable(x.protocol) => x.tried \/ x.rest # <<>>
  /\ x.outcome = "exhausted" /\ AllUsable(x.protocol) => x.tried

FailoverInv ==
  /\ FailoverTypeOK
  /\ BreakerSound
  /\ \A q \in Request :
       SelectionSound(req[q]) /\ CandidatesSound(q, req[q]) /\ TriedSound(req[q])

-----------------------------------------------------------------------------
(***************************************************************************)
(* Sequences of providers.                                                  *)
(***************************************************************************)
\* Taking the first provider of a sequence.
LEMMA HeadTailRange ==
  ASSUME NEW s \in Seq(Provider), s # <<>>
  PROVE  /\ Head(s) \in Provider
         /\ Head(s) \in Range(s)
         /\ Tail(s) \in Seq(Provider)
         /\ Range(Tail(s)) \subseteq Range(s)
  BY DEF Range

LEMMA AppendRange ==
  ASSUME NEW s \in Seq(Provider), NEW p \in Provider
  PROVE  Append(s, p) \in Seq(Provider) /\ Range(Append(s, p)) \subseteq Range(s) \cup {p}
  <1>1. Append(s, p) \in Seq(Provider)
    OBVIOUS
  <1>2. ASSUME NEW i \in DOMAIN Append(s, p)
        PROVE  Append(s, p)[i] \in Range(s) \cup {p}
    <2>1. i \in 1..Len(s) + 1
      BY <1>2
    <2>2. CASE i = Len(s) + 1
      BY <2>2
    <2>3. CASE i \in 1..Len(s)
      BY <2>3 DEF Range
    <2> QED BY <2>1, <2>2, <2>3
  <1>3. Range(Append(s, p)) \subseteq Range(s) \cup {p}
    BY <1>2 DEF Range
  <1> QED BY <1>1, <1>3

\* The elements of a sequence of providers are providers; an empty one has none.
LEMMA SeqRange ==
  /\ \A s \in Seq(Provider) : Range(s) \subseteq Provider
  /\ Range(<<>>) = {}
  /\ <<>> \in Seq(Provider)
  BY DEF Range

\* The round-robin order is a rotation of the route.
LEMMA RotatedOrder ==
  ASSUME FailoverAssumption, cursor \in 0..Len(Route)
  PROVE  /\ Rotated \in Seq(Provider)
         /\ Len(Rotated) = Len(Route)
         /\ \A i \in 1..Len(Route) :
              Rotated[i] = IF i <= Len(Route) - cursor THEN Route[cursor + i]
                           ELSE Route[i - (Len(Route) - cursor)]
  <1>1. Route \in Seq(Provider) /\ Len(Route) \in Nat /\ cursor \in Nat
    BY DEF FailoverAssumption
  <1> DEFINE a == SubSeq(Route, cursor + 1, Len(Route))
             b == SubSeq(Route, 1, cursor)
  <1>2. /\ a \in Seq(Provider) /\ Len(a) = Len(Route) - cursor
        /\ \A i \in 1..Len(Route) - cursor : a[i] = Route[cursor + i]
    BY <1>1
  <1>3. /\ b \in Seq(Provider) /\ Len(b) = cursor
        /\ \A i \in 1..cursor : b[i] = Route[i]
    BY <1>1
  <1> HIDE DEF a, b
  <1>4. /\ a \o b \in Seq(Provider)
        /\ Len(a \o b) = Len(Route)
        /\ \A i \in 1..Len(Route) :
             (a \o b)[i] = IF i <= Len(a) THEN a[i] ELSE b[i - Len(a)]
    <2>1. /\ a \o b \in Seq(Provider)
          /\ Len(a \o b) = Len(a) + Len(b)
          /\ \A i \in 1..Len(a) + Len(b) :
               (a \o b)[i] = IF i <= Len(a) THEN a[i] ELSE b[i - Len(a)]
      BY <1>2, <1>3, ConcatProperties
    <2>2. Len(a) + Len(b) = Len(Route)
      BY <1>1, <1>2, <1>3
    <2> QED BY <2>1, <2>2
  <1>5. Rotated = a \o b
    BY DEF Rotated, a, b
  <1>6. ASSUME NEW i \in 1..Len(Route)
        PROVE  (a \o b)[i] = IF i <= Len(Route) - cursor THEN Route[cursor + i]
                             ELSE Route[i - (Len(Route) - cursor)]
    BY <1>1, <1>2, <1>3, <1>4
  <1> QED BY <1>4, <1>5, <1>6

\* Every order a strategy may choose visits providers of the route, and at least
\* one if there is one.
LEMMA OrdersSound ==
  ASSUME FailoverAssumption, cursor \in 0..Len(Route), NEW order \in Orders
  PROVE  /\ order \in Seq(Provider)
         /\ Range(order) \subseteq Range(Route)
         /\ Route # <<>> => order # <<>>
  <1>0. Route \in Seq(Provider) /\ Len(Route) \in Nat /\ cursor \in Nat
    BY DEF FailoverAssumption
  <1>1. CASE order = Route
    BY <1>0, <1>1
  <1>2. CASE order = Rotated
    <2>1. /\ order \in Seq(Provider)
          /\ DOMAIN order = 1..Len(Route)
          /\ Len(order) = Len(Route)
      BY <1>0, <1>2, RotatedOrder
    <2>2. \A i \in 1..Len(Route) :
            order[i] = IF i <= Len(Route) - cursor THEN Route[cursor + i]
                       ELSE Route[i - (Len(Route) - cursor)]
      BY <1>2, RotatedOrder
    <2>4. Range(order) \subseteq Range(Route)
      <3>1. ASSUME NEW i \in 1..Len(Route) PROVE order[i] \in Range(Route)
        BY <1>0, <2>2 DEF Range
      <3> QED BY <2>1, <3>1 DEF Range
    <2>5. Route # <<>> => order # <<>>
      BY <1>0, <2>1
    <2> QED BY <2>1, <2>4, <2>5
  <1>3. ASSUME NEW f \in SetToSeqs(DOMAIN Route),
               order = [i \in DOMAIN Route |-> Route[f[i]]]
        PROVE  /\ order \in Seq(Provider)
               /\ Range(order) \subseteq Range(Route)
               /\ Route # <<>> => order # <<>>
    <2>1. DOMAIN Route = 1..Len(Route) /\ Cardinality(1..Len(Route)) = Len(Route)
      <3>1. Cardinality(1..Len(Route)) =
              IF 1 > Len(Route) THEN 0 ELSE Len(Route) - 1 + 1
        BY <1>0, 1 \in Int, Len(Route) \in Int, FS_Interval, Zenon
      <3> QED BY <1>0, <3>1
    <2>2. f \in [1..Len(Route) -> 1..Len(Route)]
      BY <2>1 DEF SetToSeqs
    <2>3. ASSUME NEW i \in 1..Len(Route)
          PROVE  order[i] \in Range(Route) /\ order[i] \in Provider
      <3>1. f[i] \in 1..Len(Route)
        BY <2>2
      <3>2. order[i] = Route[f[i]]
        BY <1>3, <2>1
      <3>3. Route[f[i]] \in Range(Route) /\ Route[f[i]] \in Provider
        BY <1>0, <2>1, <3>1 DEF Range
      <3> QED BY <3>2, <3>3
    <2>4. DOMAIN order = 1..Len(Route)
      BY <1>3, <2>1
    <2>5. order \in [1..Len(Route) -> Provider]
      BY <1>3, <2>1, <2>3
    <2>6. order \in Seq(Provider) /\ Len(order) = Len(Route)
      BY <1>0, <2>5
    <2>7. Range(order) \subseteq Range(Route)
      BY <2>3, <2>4 DEF Range
    <2>8. Route # <<>> => order # <<>>
      BY <1>0, <2>6
    <2> QED BY <2>6, <2>7, <2>8
  <1> QED BY <1>1, <1>2, <1>3 DEF Orders

-----------------------------------------------------------------------------
(***************************************************************************)
(* The breakers.                                                            *)
(***************************************************************************)
USE FailoverAssumption

BreakerOK(s) == s \in State /\ (~s.open => s.failures < FailureThreshold)

\* MarkFailure keeps the state of a breaker within its bounds.
LEMMA FailedSound ==
  ASSUME NEW s, BreakerOK(s)
  PROVE  BreakerOK(Failed(s)) /\ (Cooling(s) => Cooling(Failed(s)))
  <1>0. /\ s \in State
        /\ s.failures \in 0..FailureThreshold
        /\ s.open \in BOOLEAN
        /\ s.left \in 0..Cooldown
        /\ FailureThreshold \in Nat \ {0} /\ Cooldown \in Nat \ {0}
    BY DEF BreakerOK, State
  <1>1. CASE s.open
    <2> DEFINE n == IF s.left = 0 THEN Cooldown ELSE s.left
    <2>1. n \in 0..Cooldown /\ n > 0
      BY <1>0
    <2>2. Failed(s) = [s EXCEPT !.left = n]
      BY <1>1 DEF Failed
    <2> HIDE DEF n
    <2>3. Failed(s) \in State /\ Failed(s).open = s.open /\ Failed(s).left = n
      BY <1>0, <2>1, <2>2 DEF State
    <2> QED BY <1>1, <2>1, <2>3 DEF BreakerOK, Cooling
  <1>2. CASE ~s.open /\ s.failures + 1 >= FailureThreshold
    <2>1. Failed(s) = [failures |-> s.failures + 1, open |-> TRUE, left |-> Cooldown]
      BY <1>2 DEF Failed
    <2>2. s.failures + 1 \in 0..FailureThreshold /\ Cooldown \in 0..Cooldown
      BY <1>0, <1>2 DEF BreakerOK
    <2>3. Failed(s) \in State /\ Failed(s).open = TRUE
      BY <2>1, <2>2 DEF State
    <2> QED BY <1>2, <2>3 DEF BreakerOK, Cooling
  <1>3. CASE ~s.open /\ ~(s.failures + 1 >= FailureThreshold)
    <2>1. Failed(s) = [s EXCEPT !.failures = s.failures + 1]
      BY <1>3 DEF Failed
    <2>2. s.failures + 1 \in 0..FailureThreshold /\ s.failures + 1 < FailureThreshold
      BY <1>0, <1>3
    <2>3. Failed(s) \in State /\ Failed(s).failures = s.failures + 1
      BY <1>0, <2>1, <2>2 DEF State
    <2> QED BY <1>3, <2>2, <2>3 DEF BreakerOK, Cooling
  <1> QED BY <1>1, <1>2, <1>3

LEMMA ClosedSound == BreakerOK(Closed) /\ ~Cooling(Closed)
  BY DEF BreakerOK, State, Closed, Cooling

\* What a step does to the breakers: they stay well formed, and one that cools
\* down now did so before, or has just opened and knows who holds it.
BreakersMove ==
  /\ breaker' \in [Key -> State]
  /\ BreakerSound'
  /\ stale' \in [Key -> SUBSET Request]
  /\ \A k \in Key :
       Cooling(breaker'[k]) =>
         \/ Cooling(breaker[k]) /\ stale'[k] = stale[k]
         \/ stale'[k] = Holding(k)

LEMMA BreakersStand ==
  ASSUME FailoverInv, UNCHANGED <<breaker, stale>>
  PROVE  BreakersMove
  BY DEF FailoverInv, FailoverTypeOK, BreakerSound, BreakersMove

LEMMA MarkFailureMoves ==
  ASSUME FailoverInv, NEW k \in Key, MarkFailure(k)
  PROVE  BreakersMove
  <1>0. /\ breaker \in [Key -> State]
        /\ stale \in [Key -> SUBSET Request]
        /\ \A j \in Key : BreakerOK(breaker[j])
    BY DEF FailoverInv, FailoverTypeOK, BreakerSound, BreakerOK
  <1>1. breaker' = [breaker EXCEPT ![k] = Failed(breaker[k])]
    BY DEF MarkFailure
  <1>2. BreakerOK(Failed(breaker[k]))
    BY <1>0, FailedSound
  <1>3. breaker' \in [Key -> State] /\ \A j \in Key : BreakerOK(breaker'[j])
    BY <1>0, <1>1, <1>2 DEF BreakerOK
  <1>4. Holding(k) \subseteq Request
    BY DEF Holding
  <1>5. stale' \in [Key -> SUBSET Request]
    BY <1>0, <1>4 DEF MarkFailure
  <1>6. ASSUME NEW j \in Key, Cooling(breaker'[j])
        PROVE  \/ Cooling(breaker[j]) /\ stale'[j] = stale[j]
               \/ stale'[j] = Holding(j)
    <2>1. CASE j # k
      <3>1. breaker'[j] = breaker[j] /\ stale'[j] = stale[j]
        BY <1>0, <1>1, <2>1 DEF MarkFailure
      <3> QED BY <1>6, <3>1
    <2>2. CASE j = k
      <3>1. stale'[k] = IF ~Cooling(breaker[k]) /\ Cooling(breaker'[k])
                        THEN Holding(k) ELSE stale[k]
        BY <1>0 DEF MarkFailure
      <3> QED BY <1>6, <2>2, <3>1
    <2> QED BY <2>1, <2>2
  <1> QED BY <1>3, <1>5, <1>6 DEF BreakersMove, BreakerSound, BreakerOK

LEMMA MarkSuccessMoves ==
  ASSUME FailoverInv, NEW k \in Key, MarkSuccess(k)
  PROVE  BreakersMove
  <1>0. /\ breaker \in [Key -> State]
        /\ stale \in [Key -> SUBSET Request]
        /\ \A j \in Key : BreakerOK(breaker[j])
    BY DEF FailoverInv, FailoverTypeOK, BreakerSound, BreakerOK
  <1>1. breaker' = [breaker EXCEPT ![k] = Closed] /\ stale' = stale
    BY DEF MarkSuccess, Succeeded
  <1>2. breaker' \in [Key -> State] /\ \A j \in Key : BreakerOK(breaker'[j])
    BY <1>0, <1>1, ClosedSound DEF BreakerOK
  <1>3. \A j \in Key : Cooling(breaker'[j]) => Cooling(breaker[j])
    BY <1>0, <1>1, ClosedSound
  <1> QED BY <1>0, <1>1, <1>2, <1>3 DEF BreakersMove, BreakerSound, BreakerOK

LEMMA TickMoves ==
  ASSUME FailoverInv, Tick
  PROVE  BreakersMove
  <1>0. /\ breaker \in [Key -> State]
        /\ stale \in [Key -> SUBSET Request]
        /\ \A j \in Key : BreakerOK(breaker[j])
    BY DEF FailoverInv, FailoverTypeOK, BreakerSound, BreakerOK
  <1>1. ASSUME NEW j \in Key
        PROVE  BreakerOK(breaker'[j]) /\ (Cooling(breaker'[j]) => Cooling(breaker[j]))
    <2>1. CASE Cooling(breaker[j])
      <3>1. breaker'[j] = [breaker[j] EXCEPT !.left = breaker[j].left - 1]
        BY <2>1 DEF Tick
      <3>2. breaker[j] \in State /\ breaker[j].left - 1 \in 0..Cooldown
        BY <1>0, <2>1 DEF Cooling, State
      <3>3. /\ breaker'[j] \in State
            /\ breaker'[j].open = breaker[j].open
            /\ breaker'[j].failures = breaker[j].failures
        BY <3>1, <3>2 DEF State
      <3> QED BY <1>0, <2>1, <3>3 DEF BreakerOK
    <2>2. CASE ~Cooling(breaker[j])
      <3>1. breaker'[j] = breaker[j]
        BY <2>2 DEF Tick
      <3> QED BY <1>0, <3>1
    <2> QED BY <2>1, <2>2
  <1>2. breaker' \in [Key -> State]
    <2>1. \A j \in Key : breaker'[j] \in State
      BY <1>1 DEF BreakerOK
    <2> QED BY <2>1 DEF Tick
  <1> QED BY <1>0, <1>1, <1>2 DEF BreakersMove, BreakerSound, BreakerOK, Tick

-----------------------------------------------------------------------------
(***************************************************************************)
(* The requests.                                                            *)
(***************************************************************************)
\* CandidatesSound of the next state.
CandidatesNext(q, x) ==
  Selecting(x) \/ Forwarding(x) =>
    \A p \in Range(x.rest) :
      /\ p \in Range(Route)
      /\ Cooling(breaker'[KeyOf(p, x.protocol)]) =>
           x.degraded \/ q \in stale'[KeyOf(p, x.protocol)]

ProgressSound(q, x) ==
  /\ x \in Progress
  /\ SelectionSound(x)
  /\ CandidatesNext(q, x)
  /\ TriedSound(x)

LEMMA KeyType ==
  ASSUME NEW p \in Provider, NEW proto \in Protocol
  PROVE  KeyOf(p, proto) \in Key
  BY DEF Key, KeyOf

\* Whatever the breakers do, the candidates of a request stay accounted for.
LEMMA CandidatesKept ==
  ASSUME FailoverInv, BreakersMove, NEW q \in Request,
         Selecting(req[q]) \/ Forwarding(req[q]), NEW p \in Range(req[q].rest)
  PROVE  /\ p \in Range(Route)
         /\ Cooling(breaker'[KeyOf(p, req[q].protocol)]) =>
              req[q].degraded \/ q \in stale'[KeyOf(p, req[q].protocol)]
  <1> DEFINE k == KeyOf(p, req[q].protocol)
  <1>0. /\ req[q].rest \in Seq(Provider) /\ req[q].protocol \in Protocol
        /\ CandidatesSound(q, req[q])
    BY DEF FailoverInv, FailoverTypeOK, Progress
  <1>1. k \in Key
    BY <1>0, SeqRange, KeyType
  <1>2. q \in Holding(k)
    BY DEF Holding, Selecting, Forwarding
  <1>3. p \in Range(Route) /\ (Cooling(breaker[k]) => req[q].degraded \/ q \in stale[k])
    BY <1>0 DEF CandidatesSound
  <1> HIDE DEF k
  <1>4. ASSUME Cooling(breaker'[k]) PROVE req[q].degraded \/ q \in stale'[k]
    BY <1>1, <1>2, <1>3, <1>4 DEF BreakersMove
  <1> QED BY <1>3, <1>4 DEF k

\* A request that does not move stays sound.
LEMMA WaitingSound ==
  ASSUME FailoverInv, BreakersMove, NEW q \in Request
  PROVE  ProgressSound(q, req[q])
  <1>1. CandidatesNext(q, req[q])
    BY CandidatesKept DEF CandidatesNext
  <1> QED BY <1>1 DEF ProgressSound, FailoverInv, FailoverTypeOK

\* A request that has ended claims nothing about candidates.
LEMMA FinishSound ==
  ASSUME FailoverInv, NEW q \in Request, NEW outcome \in {"served", "error", "exhausted"},
         outcome = "exhausted" /\ AllUsable(req[q].protocol) => req[q].tried
  PROVE  ProgressSound(q, [NewProgress("done", req[q].protocol, <<>>) EXCEPT
                             !.tried = req[q].tried, !.outcome = outcome])
  <1> DEFINE x == [NewProgress("done", req[q].protocol, <<>>) EXCEPT
                     !.tried = req[q].tried, !.outcome = outcome]
  <1>0. /\ req[q].protocol \in Protocol /\ req[q].tried \in BOOLEAN
        /\ <<>> \in Seq(Provider)
    BY SeqRange DEF FailoverInv, FailoverTypeOK, Progress
  <1>1. /\ x \in Progress /\ x.pc = "done" /\ x.protocol = req[q].protocol
        /\ x.tried = req[q].tried /\ x.outcome = outcome
    BY <1>0 DEF NewProgress, Progress, Stage, Outcome
  <1> HIDE DEF x
  <1>2. ProgressSound(q, x)
    BY <1>1 DEF ProgressSound, SelectionSound, CandidatesNext, TriedSound, Selecting,
                Forwarding
  <1> QED BY <1>2 DEF x

\* On to the next candidate, after a failure or without a call.
LEMMA TailSound ==
  ASSUME FailoverInv, BreakersMove, NEW q \in Request, req[q].rest # <<>>,
         Forwarding(req[q]), NEW cancelled \in BOOLEAN,
         AllUsable(req[q].protocol) => req[q].tried
  PROVE  ProgressSound(q, [req[q] EXCEPT !.pc = "next", !.rest = Tail(req[q].rest),
                                         !.cancelled = cancelled])
  <1> DEFINE x == [req[q] EXCEPT !.pc = "next", !.rest = Tail(req[q].rest),
                                 !.cancelled = cancelled]
  <1>0. req[q] \in Progress /\ req[q].rest \in Seq(Provider) /\ TriedSound(req[q])
    BY DEF FailoverInv, FailoverTypeOK, Progress
  <1>1. Tail(req[q].rest) \in Seq(Provider)
        /\ Range(Tail(req[q].rest)) \subseteq Range(req[q].rest)
    BY <1>0, HeadTailRange
  <1>2. /\ x \in Progress /\ x.pc = "next" /\ x.rest = Tail(req[q].rest)
        /\ x.protocol = req[q].protocol /\ x.tried = req[q].tried
        /\ x.degraded = req[q].degraded /\ x.outcome = req[q].outcome
    BY <1>0, <1>1 DEF Progress, Stage
  <1> HIDE DEF x
  <1>3. CandidatesNext(q, x)
    BY <1>1, <1>2, CandidatesKept DEF CandidatesNext
  <1>4. SelectionSound(x) /\ TriedSound(x)
    BY <1>0, <1>2 DEF SelectionSound, TriedSound, Selecting, Forwarding
  <1>5. ProgressSound(q, x)
    BY <1>2, <1>3, <1>4 DEF ProgressSound
  <1> QED BY <1>5 DEF x

-----------------------------------------------------------------------------
(***************************************************************************)
(* The steps.                                                               *)
(***************************************************************************)
\* What a step has to show: breakers that are well formed and the progress of
\* each request, moved or not, sound beside them.
LEMMA Assembled ==
  ASSUME breaker' \in [Key -> State], BreakerSound',
         stale' \in [Key -> SUBSET Request], cursor' \in 0..Len(Route),
         req \in [Request -> Progress], NEW q \in Request, NEW x,
         req' = [req EXCEPT ![q] = x], ProgressSound(q, x),
         \A r \in Request \ {q} : ProgressSound(r, req[r])
  PROVE  FailoverInv'
  <1>1. ASSUME NEW r \in Request PROVE ProgressSound(r, req'[r])
    <2>1. CASE r = q
      BY <2>1
    <2>2. CASE r # q
      <3>1. req'[r] = req[r]
        BY <2>2
      <3> QED BY <2>2, <3>1
    <2> QED BY <2>1, <2>2
  <1>2. req' \in [Request -> Progress]
    BY DEF ProgressSound
  <1>3. \A r \in Request : /\ SelectionSound(req'[r]) /\ CandidatesNext(r, req'[r])
                           /\ TriedSound(req'[r])
    BY <1>1 DEF ProgressSound
  <1>4. \A r \in Request : (/\ SelectionSound(req[r]) /\ CandidatesSound(r, req[r])
                            /\ TriedSound(req[r]))'
    BY <1>3 DEF CandidatesNext, CandidatesSound, SelectionSound, TriedSound, Selecting,
                Forwarding, AllUsable
  <1> QED BY <1>2, <1>4 DEF FailoverInv, FailoverTypeOK

\* The same for a step that moves one request and breakers as BreakersMove says.
LEMMA MovedSound ==
  ASSUME FailoverInv, BreakersMove, UNCHANGED cursor, NEW q \in Request, NEW x,
         req' = [req EXCEPT ![q] = x], ProgressSound(q, x)
  PROVE  FailoverInv'
  <1>1. \A r \in Request : ProgressSound(r, req[r])
    BY WaitingSound
  <1>2. req \in [Request -> Progress] /\ cursor' \in 0..Len(Route)
    BY DEF FailoverInv, FailoverTypeOK
  <1> QED BY <1>1, <1>2, Assembled DEF BreakersMove

LEMMA InitFailoverInv == FailoverInit => FailoverInv
  <1> SUFFICES ASSUME FailoverInit PROVE FailoverInv
    OBVIOUS
  <1> DEFINE proto == CHOOSE protocol \in Protocol : TRUE
             x == NewProgress("idle", proto, <<>>)
  <1>1. proto \in Protocol
    BY DEF FailoverAssumption
  <1> HIDE DEF proto
  <1>2. x \in Progress /\ x.pc = "idle" /\ x.outcome = "none"
    BY <1>1, SeqRange DEF NewProgress, Progress, Stage, Outcome
  <1>3. req = [q \in Request |-> x]
    BY DEF FailoverInit, proto
  <1> HIDE DEF x
  <1>4. SelectionSound(x) /\ TriedSound(x)
    BY <1>2 DEF SelectionSound, TriedSound, Selecting
  <1>5. \A q \in Request : CandidatesSound(q, x)
    BY <1>2 DEF CandidatesSound, Selecting, Forwarding
  <1>6. breaker \in [Key -> State] /\ BreakerSound /\ stale \in [Key -> SUBSET Request]
    BY ClosedSound DEF FailoverInit, BreakerSound, BreakerOK
  <1>7. cursor \in 0..Len(Route)
    BY DEF FailoverInit, FailoverAssumption
  <1> QED BY <1>2, <1>3, <1>4, <1>5, <1>6, <1>7 DEF FailoverInv, FailoverTypeOK

LEMMA BeginKeeps ==
  ASSUME FailoverInv, NEW q \in Request, Begin(q)
  PROVE  FailoverInv'
  <1>0. /\ breaker \in [Key -> State] /\ BreakerSound
        /\ stale \in [Key -> SUBSET Request] /\ cursor \in 0..Len(Route)
        /\ req \in [Request -> Progress]
        /\ \A r \in Request : /\ SelectionSound(req[r]) /\ CandidatesSound(r, req[r])
                              /\ TriedSound(req[r])
    BY DEF FailoverInv, FailoverTypeOK
  <1>1. PICK proto \in Protocol, order \in Orders :
          req' = [req EXCEPT ![q] = NewProgress("filter", proto, order)]
    BY DEF Begin
  <1> DEFINE x == NewProgress("filter", proto, order)
  <1>2. /\ order \in Seq(Provider)
        /\ Range(order) \subseteq Range(Route) /\ (Route # <<>> => order # <<>>)
    BY <1>0, OrdersSound
  <1>3. /\ x \in Progress /\ x.pc = "filter" /\ x.todo = order /\ x.names = order
        /\ x.rest = <<>> /\ x.degraded = FALSE /\ x.outcome = "none"
    BY <1>2, SeqRange DEF NewProgress, Progress, Stage, Outcome
  <1>4. req' = [req EXCEPT ![q] = x]
    BY <1>1
  <1> HIDE DEF x
  <1>5. ProgressSound(q, x)
    BY <1>2, <1>3, SeqRange DEF ProgressSound, SelectionSound, CandidatesNext, TriedSound,
                                Selecting, Forwarding
  <1>6. /\ breaker' = breaker
        /\ stale' \in [Key -> SUBSET Request]
        /\ \A k \in Key : stale'[k] = stale[k] \ {q}
    BY <1>0 DEF Begin
  <1>7. ASSUME NEW r \in Request \ {q} PROVE ProgressSound(r, req[r])
    <2> DEFINE y == req[r]
    <2>1. y \in Progress /\ SelectionSound(y) /\ CandidatesSound(r, y) /\ TriedSound(y)
      BY <1>0
    <2>2. y.rest \in Seq(Provider) /\ y.protocol \in Protocol
      BY <2>1 DEF Progress
    <2> HIDE DEF y
    <2>3. \A p \in Range(y.rest) : KeyOf(p, y.protocol) \in Key
      BY <2>2, SeqRange, KeyType
    <2>4. CandidatesNext(r, y)
      BY <1>6, <2>1, <2>3 DEF CandidatesNext, CandidatesSound
    <2>5. ProgressSound(r, y)
      BY <2>1, <2>4 DEF ProgressSound
    <2> QED BY <2>5 DEF y
  <1>8. cursor' \in 0..Len(Route)
    <2>1. CASE Strategy = "round_robin" /\ Route # <<>>
      <3>1. cursor' = (cursor + 1) % Len(Route)
        BY <2>1 DEF Begin
      <3>2. Len(Route) \in Nat \ {0}
        BY <2>1 DEF FailoverAssumption
      <3>3. cursor + 1 \in Nat
        BY <1>0, <3>2
      <3> HIDE DEF FailoverAssumption
      <3> QED BY <3>1, <3>2, <3>3
    <2>2. CASE ~(Strategy = "round_robin" /\ Route # <<>>)
      BY <1>0, <2>2 DEF Begin
    <2> QED BY <2>1, <2>2
  <1>9. BreakerSound'
    BY <1>0, <1>6 DEF BreakerSound
  <1> QED BY <1>0, <1>4, <1>5, <1>6, <1>7, <1>8, <1>9, Assembled

\* A health check keeps the candidate only if its breaker is not cooling down.
LEMMA CheckHealthKeeps ==
  ASSUME FailoverInv, NEW q \in Request, CheckHealth(q)
  PROVE  FailoverInv'
  <1> DEFINE p == Head(req[q].todo)
             todo == Tail(req[q].todo)
             rest == IF Healthy(KeyOf(p, req[q].protocol)) THEN Append(req[q].rest, p)
                     ELSE req[q].rest
             x == [req[q] EXCEPT !.todo = todo, !.rest = rest]
  <1>0. /\ req \in [Request -> Progress] /\ req[q] \in Progress
        /\ req[q].todo \in Seq(Provider) /\ req[q].rest \in Seq(Provider)
        /\ req[q].protocol \in Protocol
        /\ SelectionSound(req[q]) /\ TriedSound(req[q])
        /\ Selecting(req[q]) /\ req[q].todo # <<>> /\ req[q].pc = "filter"
    BY DEF FailoverInv, FailoverTypeOK, Progress, CheckHealth, Selecting
  <1>1. BreakersMove /\ UNCHANGED <<breaker, cursor, stale>>
    BY BreakersStand DEF CheckHealth
  <1>2. req' = [req EXCEPT ![q] = x]
    BY <1>0 DEF CheckHealth
  <1>3. /\ p \in Provider /\ p \in Range(req[q].todo) /\ p \in Range(Route)
        /\ todo \in Seq(Provider) /\ Range(todo) \subseteq Range(req[q].todo)
    BY <1>0, HeadTailRange DEF SelectionSound
  <1> HIDE DEF p, todo
  <1>4. /\ rest \in Seq(Provider)
        /\ Range(rest) \subseteq Range(req[q].rest) \cup {p}
        /\ p \in Range(rest) =>
             p \in Range(req[q].rest) \/ ~Cooling(breaker[KeyOf(p, req[q].protocol)])
    BY <1>0, <1>3, AppendRange DEF Healthy
  <1> HIDE DEF rest
  <1>5. /\ x \in Progress /\ x.pc = "filter" /\ x.todo = todo /\ x.rest = rest
        /\ x.names = req[q].names /\ x.protocol = req[q].protocol
        /\ x.degraded = req[q].degraded /\ x.tried = req[q].tried
        /\ x.outcome = req[q].outcome
    BY <1>0, <1>3, <1>4 DEF Progress
  <1> HIDE DEF x
  <1>6. SelectionSound(x)
    BY <1>0, <1>3, <1>4, <1>5 DEF SelectionSound, Selecting
  <1>7. TriedSound(x)
    BY <1>0, <1>5 DEF TriedSound
  <1>8. CandidatesNext(q, x)
    <2>1. ASSUME NEW c \in Range(rest)
          PROVE  /\ c \in Range(Route)
                 /\ Cooling(breaker'[KeyOf(c, req[q].protocol)]) =>
                      req[q].degraded \/ q \in stale'[KeyOf(c, req[q].protocol)]
      <3>1. CASE c \in Range(req[q].rest)
        BY <1>0, <1>1, <3>1, CandidatesKept
      <3>2. CASE c \notin Range(req[q].rest)
        BY <1>1, <1>3, <1>4, <2>1, <3>2
      <3> QED BY <3>1, <3>2
    <2> QED BY <1>5, <2>1 DEF CandidatesNext
  <1>9. ProgressSound(q, x)
    BY <1>5, <1>6, <1>7, <1>8 DEF ProgressSound
  <1> QED BY <1>1, <1>2, <1>9, MovedSound

\* With no healthy candidate the whole order is taken, marked as degraded.
LEMMA SelectKeeps ==
  ASSUME FailoverInv, NEW q \in Request, Select(q)
  PROVE  FailoverInv'
  <1> DEFINE degraded == (req[q].rest = <<>>)
             rest == IF req[q].rest = <<>> THEN req[q].names ELSE req[q].rest
             x == [req[q] EXCEPT !.pc = "next", !.names = <<>>, !.degraded = degraded,
                                 !.rest = rest]
  <1>0. /\ req \in [Request -> Progress] /\ req[q] \in Progress
        /\ req[q].names \in Seq(Provider) /\ req[q].rest \in Seq(Provider)
        /\ req[q].protocol \in Protocol
        /\ SelectionSound(req[q]) /\ TriedSound(req[q])
        /\ Selecting(req[q]) /\ req[q].pc = "filter"
    BY DEF FailoverInv, FailoverTypeOK, Progress, Select, Selecting
  <1>1. BreakersMove /\ UNCHANGED <<breaker, cursor, stale>>
    BY BreakersStand DEF Select
  <1>2. req' = [req EXCEPT ![q] = x]
    BY <1>0 DEF Select
  <1>3. /\ rest \in Seq(Provider) /\ degraded \in BOOLEAN
        /\ (~degraded => rest = req[q].rest)
        /\ (degraded => rest = req[q].names)
        /\ (~degraded => rest # <<>>)
    BY <1>0
  <1> HIDE DEF rest, degraded
  <1>4. /\ x \in Progress /\ x.pc = "next" /\ x.rest = rest
        /\ x.protocol = req[q].protocol /\ x.degraded = degraded
        /\ x.tried = req[q].tried /\ x.outcome = req[q].outcome
    BY <1>0, <1>3, SeqRange DEF Progress, Stage
  <1> HIDE DEF x
  <1>5. SelectionSound(x)
    BY <1>4 DEF SelectionSound, Selecting
  <1>6. TriedSound(x)
    <2>1. Route # <<>> => rest # <<>>
      BY <1>0, <1>3 DEF SelectionSound
    <2> QED BY <1>0, <1>4, <2>1 DEF TriedSound, AllUsable
  <1>7. CandidatesNext(q, x)
    <2>1. CASE degraded
      <3>1. Range(rest) \subseteq Range(Route)
        BY <1>0, <1>3, <2>1 DEF SelectionSound
      <3> QED BY <1>4, <2>1, <3>1 DEF CandidatesNext
    <2>2. CASE ~degraded
      <3>1. ASSUME NEW c \in Range(rest)
            PROVE  /\ c \in Range(Route)
                   /\ Cooling(breaker'[KeyOf(c, req[q].protocol)]) =>
                        req[q].degraded \/ q \in stale'[KeyOf(c, req[q].protocol)]
        BY <1>0, <1>1, <1>3, <2>2, CandidatesKept
      <3>2. ~req[q].degraded
        BY <1>0 DEF SelectionSound
      <3> QED BY <1>4, <2>2, <3>1, <3>2 DEF CandidatesNext
    <2> QED BY <2>1, <2>2
  <1>8. ProgressSound(q, x)
    BY <1>4, <1>5, <1>6, <1>7 DEF ProgressSound
  <1> QED BY <1>1, <1>2, <1>8, MovedSound

\* The candidate a request is at has a breaker.
LEMMA CurrentKeyType ==
  ASSUME FailoverInv, NEW q \in Request, Forwarding(req[q]), req[q].rest # <<>>
  PROVE  /\ CurrentKey(q) \in Key
         /\ Head(req[q].rest) \in Range(req[q].rest)
         /\ Head(req[q].rest) \in Range(Route)
  <1>1. /\ req[q].rest \in Seq(Provider) /\ req[q].protocol \in Protocol
        /\ CandidatesSound(q, req[q])
    BY DEF FailoverInv, FailoverTypeOK, Progress
  <1>2. Head(req[q].rest) \in Range(req[q].rest) /\ Head(req[q].rest) \in Provider
    BY <1>1, HeadTailRange
  <1> QED BY <1>1, <1>2, KeyType DEF CurrentKey, CandidatesSound

LEMMA SkipKeeps ==
  ASSUME FailoverInv, NEW q \in Request, Skip(q)
  PROVE  FailoverInv'
  <1> DEFINE x == [req[q] EXCEPT !.pc = "next", !.rest = Tail(req[q].rest),
                                 !.cancelled = req[q].cancelled]
  <1>0. /\ req[q] \in Progress /\ req[q].cancelled \in BOOLEAN /\ Forwarding(req[q])
        /\ req[q].pc = "next" /\ req[q].rest # <<>>
    BY DEF FailoverInv, FailoverTypeOK, Progress, Skip, HasCandidate, Forwarding
  <1>1. BreakersMove /\ UNCHANGED cursor
    BY BreakersStand DEF Skip
  <1>2. x = [req[q] EXCEPT !.rest = Tail(req[q].rest)]
    BY <1>0 DEF Progress
  <1>3. req' = [req EXCEPT ![q] = x]
    BY <1>2 DEF Skip
  <1>4. ~AllUsable(req[q].protocol)
    BY <1>0, CurrentKeyType DEF Skip, CurrentKey, AllUsable
  <1>5. ProgressSound(q, x)
    BY <1>0, <1>1, <1>4, TailSound
  <1> HIDE DEF x
  <1> QED BY <1>1, <1>3, <1>5, MovedSound

LEMMA CallKeeps ==
  ASSUME FailoverInv, NEW q \in Request, Call(q)
  PROVE  FailoverInv'
  <1> DEFINE x == [req[q] EXCEPT !.pc = "calling", !.tried = TRUE]
  <1>0. /\ req[q] \in Progress /\ TriedSound(req[q]) /\ Forwarding(req[q])
        /\ req[q].pc = "next" /\ req[q].rest # <<>>
    BY DEF FailoverInv, FailoverTypeOK, Call, HasCandidate, Forwarding
  <1>1. BreakersMove /\ UNCHANGED cursor
    BY BreakersStand DEF Call
  <1>2. req' = [req EXCEPT ![q] = x]
    BY DEF Call
  <1>3. /\ x \in Progress /\ x.pc = "calling" /\ x.tried = TRUE
        /\ x.rest = req[q].rest /\ x.protocol = req[q].protocol
        /\ x.degraded = req[q].degraded /\ x.outcome = req[q].outcome
    BY <1>0 DEF Progress, Stage
  <1> HIDE DEF x
  <1>4. CandidatesNext(q, x)
    BY <1>0, <1>1, <1>3, CandidatesKept DEF CandidatesNext
  <1>5. SelectionSound(x) /\ TriedSound(x)
    BY <1>0, <1>3 DEF SelectionSound, TriedSound, Selecting
  <1>6. ProgressSound(q, x)
    BY <1>3, <1>4, <1>5 DEF ProgressSound
  <1> QED BY <1>1, <1>2, <1>6, MovedSound

\* A request returns: refused, rejected, served, or out of candidates.
LEMMA FinishKeeps ==
  ASSUME FailoverInv, BreakersMove, UNCHANGED cursor, NEW q \in Request,
         NEW outcome \in {"served", "error", "exhausted"}, Finish(q, outcome),
         outcome = "exhausted" /\ AllUsable(req[q].protocol) => req[q].tried
  PROVE  FailoverInv'
  <1> DEFINE x == [NewProgress("done", req[q].protocol, <<>>) EXCEPT
                     !.tried = req[q].tried, !.outcome = outcome]
  <1>1. ProgressSound(q, x)
    BY FinishSound
  <1>2. req' = [req EXCEPT ![q] = x]
    BY DEF Finish
  <1> HIDE DEF x
  <1> QED BY <1>1, <1>2, MovedSound

\* A failed call, of a client that is still there or not.
LEMMA FailureKeeps ==
  ASSUME FailoverInv, UNCHANGED cursor, NEW q \in Request, req[q].pc = "calling",
         MarkFailure(CurrentKey(q)), NEW cancelled \in BOOLEAN,
         req' = [req EXCEPT ![q] = [req[q] EXCEPT !.pc = "next",
                                                  !.rest = Tail(req[q].rest),
                                                  !.cancelled = cancelled]]
  PROVE  FailoverInv'
  <1> DEFINE x == [req[q] EXCEPT !.pc = "next", !.rest = Tail(req[q].rest),
                                 !.cancelled = cancelled]
  <1>1. TriedSound(req[q])
    BY DEF FailoverInv
  <1>2. req[q].tried /\ req[q].rest # <<>> /\ Forwarding(req[q])
    BY <1>1 DEF TriedSound, Forwarding
  <1>3. BreakersMove
    BY <1>2, CurrentKeyType, MarkFailureMoves
  <1>4. ProgressSound(q, x)
    BY <1>2, <1>3, TailSound
  <1>5. req' = [req EXCEPT ![q] = x]
    OBVIOUS
  <1> HIDE DEF x
  <1> QED BY <1>3, <1>4, <1>5, MovedSound

LEMMA HandlerKeeps ==
  ASSUME FailoverInv, NEW q \in Request, HandlerStep(q)
  PROVE  FailoverInv'
  <1>0. /\ req[q] \in Progress /\ TriedSound(req[q])
        /\ req[q].cancelled \in BOOLEAN
    BY DEF FailoverInv, FailoverTypeOK, Progress
  <1>1. CASE CheckHealth(q)
    BY <1>1, CheckHealthKeeps
  <1>2. CASE Select(q)
    BY <1>2, SelectKeeps
  <1>3. CASE Skip(q)
    BY <1>3, SkipKeeps
  <1>4. CASE Call(q)
    BY <1>4, CallKeeps
  <1>5. CASE RefuseCall(q)
    <2>1. BreakersMove
      BY <1>5, BreakersStand DEF RefuseCall
    <2>2. Finish(q, "error") /\ UNCHANGED cursor
      BY <1>5 DEF RefuseCall
    <2> QED BY <2>1, <2>2, FinishKeeps
  <1>6. CASE Exhaust(q)
    <2>1. BreakersMove
      BY <1>6, BreakersStand DEF Exhaust
    <2>2. Finish(q, "exhausted") /\ UNCHANGED cursor
      BY <1>6 DEF Exhaust
    <2>3. AllUsable(req[q].protocol) => req[q].tried
      BY <1>0, <1>6 DEF Exhaust, TriedSound
    <2> QED BY <2>1, <2>2, <2>3, FinishKeeps
  <1>7. CASE UpstreamServes(q)
    <2>1. Forwarding(req[q]) /\ req[q].rest # <<>>
      BY <1>0, <1>7 DEF UpstreamServes, Answers, TriedSound, Forwarding
    <2>2. MarkSuccess(CurrentKey(q)) /\ Finish(q, "served") /\ UNCHANGED cursor
      BY <1>7 DEF UpstreamServes
    <2>3. BreakersMove
      BY <2>1, <2>2, CurrentKeyType, MarkSuccessMoves
    <2> QED BY <2>2, <2>3, FinishKeeps
  <1>8. CASE UpstreamRejects(q)
    <2>1. BreakersMove
      BY <1>8, BreakersStand DEF UpstreamRejects
    <2>2. Finish(q, "error") /\ UNCHANGED cursor
      BY <1>8 DEF UpstreamRejects
    <2> QED BY <2>1, <2>2, FinishKeeps
  <1>9. CASE UpstreamFails(q)
    <2>1. /\ req[q].pc = "calling" /\ MarkFailure(CurrentKey(q)) /\ UNCHANGED cursor
      BY <1>9 DEF UpstreamFails, Answers
    <2>2. [req[q] EXCEPT !.pc = "next", !.rest = Tail(req[q].rest)]
            = [req[q] EXCEPT !.pc = "next", !.rest = Tail(req[q].rest),
                             !.cancelled = req[q].cancelled]
      BY <1>0 DEF Progress
    <2>3. req' = [req EXCEPT ![q] = [req[q] EXCEPT !.pc = "next",
                                                   !.rest = Tail(req[q].rest),
                                                   !.cancelled = req[q].cancelled]]
      BY <1>9, <2>2 DEF UpstreamFails
    <2> QED BY <1>0, <2>1, <2>3, FailureKeeps
  <1>10. CASE ClientLeaves(q)
    <2>1. /\ req[q].pc = "calling" /\ MarkFailure(CurrentKey(q)) /\ UNCHANGED cursor
      BY <1>10 DEF ClientLeaves
    <2>2. req' = [req EXCEPT ![q] = [req[q] EXCEPT !.pc = "next",
                                                   !.rest = Tail(req[q].rest),
                                                   !.cancelled = TRUE]]
      BY <1>10 DEF ClientLeaves
    <2> QED BY <2>1, <2>2, FailureKeeps
  <1> QED BY <1>1, <1>2, <1>3, <1>4, <1>5, <1>6, <1>7, <1>8, <1>9, <1>10 DEF HandlerStep,
                                                                OwnStep, CallEnds

\* Steps that move no request.
LEMMA StandingKeeps ==
  ASSUME FailoverInv, BreakersMove, UNCHANGED <<cursor, req>>
  PROVE  FailoverInv'
  <1>1. \A r \in Request : ProgressSound(r, req[r])
    BY WaitingSound
  <1>2. \A r \in Request : (/\ SelectionSound(req[r]) /\ CandidatesSound(r, req[r])
                            /\ TriedSound(req[r]))'
    BY <1>1 DEF ProgressSound, CandidatesNext, CandidatesSound, SelectionSound,
                TriedSound, Selecting, Forwarding, AllUsable
  <1> QED BY <1>2 DEF FailoverInv, FailoverTypeOK, BreakersMove

LEMMA NextFailoverInv == FailoverInv /\ [FailoverNext]_failoverVars => FailoverInv'
  <1> SUFFICES ASSUME FailoverInv, [FailoverNext]_failoverVars PROVE FailoverInv'
    OBVIOUS
  <1>1. ASSUME NEW q \in Request, Begin(q) PROVE FailoverInv'
    BY <1>1, BeginKeeps
  <1>2. ASSUME NEW q \in Request, HandlerStep(q) PROVE FailoverInv'
    BY <1>2, HandlerKeeps
  <1>3. CASE Tick
    BY <1>3, TickMoves, StandingKeeps DEF Tick
  <1>4. CASE UNCHANGED failoverVars
    BY <1>4, BreakersStand, StandingKeeps DEF failoverVars
  <1> QED BY <1>1, <1>2, <1>3, <1>4 DEF FailoverNext

LEMMA FailoverInvHolds == FailoverSpec => []FailoverInv
  BY InitFailoverInv, NextFailoverInv, PTL DEF FailoverSpec

-----------------------------------------------------------------------------
(***************************************************************************)
(* The theorems.                                                            *)
(***************************************************************************)
\* The breakers (breaker.go) stay within their bounds, the round-robin cursor
\* within the route, and every request in flight has well-formed progress.
THEOREM FailoverTypeCorrect == FailoverSpec => []FailoverTypeOK
  <1>1. FailoverInv => FailoverTypeOK
    BY DEF FailoverInv
  <1> QED BY <1>1, FailoverInvHolds, PTL

\* However health checks, calls and marks of concurrent requests interleave, the
\* dispatcher calls an endpoint that is cooling down only for a request that
\* had found it healthy before it opened, or that found no healthy candidate at
\* all; whatever the route, one that names a provider twice included.
THEOREM CoolingIsAvoided == FailoverSpec => []CoolingAvoided
  <1>1. FailoverInv => CoolingAvoided
    <2> SUFFICES ASSUME FailoverInv, NEW q \in Request, req[q].pc = "calling",
                        Cooling(breaker[CurrentKey(q)])
                 PROVE  req[q].degraded \/ q \in stale[CurrentKey(q)]
      BY DEF CoolingAvoided
    <2>1. TriedSound(req[q]) /\ CandidatesSound(q, req[q])
      BY DEF FailoverInv
    <2>2. Forwarding(req[q]) /\ req[q].rest # <<>>
      BY <2>1 DEF TriedSound, Forwarding
    <2>3. Head(req[q].rest) \in Range(req[q].rest)
      BY <2>2, CurrentKeyType
    <2> QED BY <2>1, <2>2, <2>3 DEF CandidatesSound, CurrentKey
  <1> QED BY <1>1, FailoverInvHolds, PTL

\* Where every endpoint of the route can serve the request's protocol, Forward
\* and ForwardStream never answer "exhausted" to a request that tried none,
\* whatever the breakers do meanwhile (the fallback of filterHealthy).
THEOREM ExhaustedMeansTried == FailoverSpec => []NeverExhaustedUntried
  <1>1. FailoverInv => NeverExhaustedUntried
    BY DEF FailoverInv, TriedSound, NeverExhaustedUntried
  <1> QED BY <1>1, FailoverInvHolds, PTL

=============================================================================
