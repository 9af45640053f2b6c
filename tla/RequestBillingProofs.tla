------------------------ MODULE RequestBillingProofs ------------------------
(***************************************************************************)
(* Proofs about RequestBilling, for any set of requests, amounts and        *)
(* attempts: the request handler is a client of the spend store, and what   *)
(* it settles agrees with what the upstreams consumed.                      *)
(***************************************************************************)
EXTENDS RequestBilling, AccountingProofs

USE ConstantsAssumption, MaxAttemptsAssumption

-----------------------------------------------------------------------------
(***************************************************************************)
(* The inductive invariant.  What the context of a handler knows bounds     *)
(* what the upstreams consumed, and a durable result the gateway persisted  *)
(* agrees with it; from then on the handler never calls an upstream again.  *)
(***************************************************************************)
\* The handler may still learn of consumption.
Early == {"idle", "pre", "dispatch", "calling", "streaming"}

\* A handler that is about to settle has a settle call left.
TriesLeft(c) == c.pc \in {"settle", "applying"} => c.tries \in 1..2

\* What the context c of a request says against what its upstreams did (t): a
\* consumed token leaves chargePossible, a stray one leaves doubt or a risk,
\* and only the cost of the answer is settled as known.
ContextSound(c, t) ==
  /\ c.pc \notin {"done", "crashed"} /\ t.consumed => c.chargePossible
  /\ c.pc \in {"idle", "pre", "dispatch", "calling"} =>
       c.usage = NoUsage /\ (t.stray => c.uncertain)
  /\ c.pc = "streaming" => (t.stray => c.risk)
  /\ c.pc \in {"settle", "applying"} /\ Outcome(c) = "known" =>
       c.usage = t.cost /\ (t.stray => c.risk)

\* A result that no operator decided is the gateway's own, and true.
ResultTrue(result, t) ==
  /\ result.outcome = "released" => ~t.consumed
  /\ result.outcome = "known" =>
       result.actual = t.cost /\ (t.stray => result.risk)

ResultSound(r) ==
  reservations[r].result # NoResult /\ events.resolutions[r] = 0 =>
    /\ req[r].pc \notin Early
    /\ ResultTrue(reservations[r].result, truth[r])

\* What an operator has read is the row, or an older version of it.
ViewSound(r) ==
  /\ view[r].version <= reservations[r].version
  /\ view[r].version = reservations[r].version => view[r] = reservations[r]

RequestInv ==
  /\ RequestTypeOK
  /\ Inv
  /\ \A r \in Reservation :
       /\ TriesLeft(req[r])
       /\ ContextSound(req[r], truth[r])
       /\ ResultSound(r)
       /\ ViewSound(r)

-----------------------------------------------------------------------------
(***************************************************************************)
(* The context of the request that takes a step.                            *)
(***************************************************************************)
\* The handler of r moves on to context c, its upstreams to consumption t.
MovesTo(r, c, t) ==
  /\ c \in Context
  /\ t \in Consumption
  /\ req' = [req EXCEPT ![r] = c]
  /\ truth' = [truth EXCEPT ![r] = t]
  /\ TriesLeft(c)
  /\ ContextSound(c, t)
  /\ c.pc \in Early => req[r].pc \in Early
  /\ t = truth[r] \/ req[r].pc \in Early

ContextStep(r) == \E c, t : MovesTo(r, c, t)

\* What the lemmas below assume of the request that moves.
ContextBefore(r) ==
  /\ req \in [Reservation -> Context]
  /\ truth \in [Reservation -> Consumption]
  /\ TriesLeft(req[r])
  /\ ContextSound(req[r], truth[r])

LEMMA CostType == NoUsage \in Cost /\ Amount \subseteq Cost /\ NoUsage \notin Amount
  BY DEF Cost, NoUsage

\* The handler goes to pc; nothing else of its context changes.
LEMMA GotoMoves ==
  ASSUME NEW r \in Reservation, ContextBefore(r), NEW pc \in Stage, Goto(r, pc),
         UNCHANGED truth,
         \/ req[r].pc = "idle" /\ pc \in {"pre", "done"}
         \/ req[r].pc = "settle" /\ pc = "applying"
         \/ pc = "crashed"
  PROVE  ContextStep(r)
  <1> DEFINE c == [req[r] EXCEPT !.pc = pc]
             t == truth[r]
  <1>1. req[r] \in Context /\ t \in Consumption
    BY DEF ContextBefore
  <1>2. req' = [req EXCEPT ![r] = c] /\ truth' = [truth EXCEPT ![r] = t]
    BY DEF Goto, ContextBefore
  <1>3. /\ c \in Context
        /\ c.pc = pc
        /\ c.tries = req[r].tries
        /\ c.usage = req[r].usage
        /\ c.chargePossible = req[r].chargePossible
        /\ c.uncertain = req[r].uncertain
        /\ c.risk = req[r].risk
    BY <1>1 DEF Context
  <1> HIDE DEF c
  <1>4. TriesLeft(c) /\ ContextSound(c, t)
    BY <1>3 DEF ContextBefore, TriesLeft, ContextSound, Outcome
  <1>5. c.pc \in Early => req[r].pc \in Early
    BY <1>3 DEF Early
  <1>6. MovesTo(r, c, t)
    BY <1>1, <1>2, <1>3, <1>4, <1>5 DEF MovesTo
  <1> QED BY <1>6 DEF ContextStep

\* The handler leaves for its completion hook with its context as it is.
LEMMA CompleteMoves ==
  ASSUME NEW r \in Reservation, ContextBefore(r), NEW tries \in 1..2,
         CompleteWith(r, req[r], tries), UNCHANGED truth,
         req[r].pc \in {"pre", "dispatch", "calling"}
  PROVE  ContextStep(r)
  <1> DEFINE c == [req[r] EXCEPT !.pc = "settle", !.tries = tries]
             t == truth[r]
  <1>1. req[r] \in Context /\ t \in Consumption /\ tries \in 0..2
    BY DEF ContextBefore
  <1>2. req' = [req EXCEPT ![r] = c] /\ truth' = [truth EXCEPT ![r] = t]
    BY DEF CompleteWith, ContextBefore
  <1>3. /\ c \in Context
        /\ c.pc = "settle"
        /\ c.tries = tries
        /\ c.usage = req[r].usage
        /\ c.chargePossible = req[r].chargePossible
    BY <1>1 DEF Context, Stage
  <1> HIDE DEF c
  <1>4. req[r].usage = NoUsage /\ (t.consumed => req[r].chargePossible)
    BY DEF ContextBefore, ContextSound
  <1>5. TriesLeft(c) /\ ContextSound(c, t)
    BY <1>3, <1>4 DEF TriesLeft, ContextSound, Outcome
  <1>6. c.pc \notin Early
    BY <1>3 DEF Early
  <1>7. MovesTo(r, c, t)
    BY <1>1, <1>2, <1>3, <1>5, <1>6 DEF MovesTo
  <1> QED BY <1>7 DEF ContextStep

LEMMA ForwardFailedMoves ==
  ASSUME NEW r \in Reservation, ContextBefore(r), ForwardFailed(r), UNCHANGED truth,
         req[r].pc \in {"dispatch", "calling"}
  PROVE  ContextStep(r)
  <1>1. \E tries \in 1..2 : CompleteWith(r, req[r], tries)
    BY DEF ForwardFailed
  <1> QED BY <1>1, CompleteMoves

\* The failover loop starts, skips a candidate or calls one: doubt and usage
\* stay as they are.
LEMMA LoopMoves ==
  ASSUME NEW r \in Reservation, ContextBefore(r), UNCHANGED truth,
         NEW n \in 0..MaxAttempts, NEW stream \in BOOLEAN,
         NEW pc \in {"dispatch", "calling"},
         req' = [req EXCEPT ![r] = [req[r] EXCEPT !.pc = pc, !.left = n,
                                                  !.stream = stream]],
         req[r].pc \in {"pre", "dispatch"}
  PROVE  ContextStep(r)
  <1> DEFINE c == [req[r] EXCEPT !.pc = pc, !.left = n, !.stream = stream]
             t == truth[r]
  <1>1. req[r] \in Context /\ t \in Consumption
    BY DEF ContextBefore
  <1>2. truth' = [truth EXCEPT ![r] = t]
    BY DEF ContextBefore
  <1>3. /\ c \in Context
        /\ c.pc = pc
        /\ c.usage = req[r].usage
        /\ c.chargePossible = req[r].chargePossible
        /\ c.uncertain = req[r].uncertain
    BY <1>1 DEF Context, Stage
  <1>4. req' = [req EXCEPT ![r] = c]
    OBVIOUS
  <1> HIDE DEF c
  <1>5. TriesLeft(c) /\ ContextSound(c, t)
    BY <1>3 DEF ContextBefore, TriesLeft, ContextSound
  <1>6. req[r].pc \in Early
    BY DEF Early
  <1>7. MovesTo(r, c, t)
    BY <1>1, <1>2, <1>3, <1>4, <1>5, <1>6 DEF MovesTo
  <1> QED BY <1>7 DEF ContextStep

\* The end of a settle call.
LEMMA SettleReturnsMoves ==
  ASSUME NEW r \in Reservation, ContextBefore(r), NEW ok \in BOOLEAN,
         SettleReturns(r, ok), UNCHANGED truth, req[r].pc \in {"settle", "applying"}
  PROVE  ContextStep(r)
  <1> DEFINE pc == IF ok \/ req[r].tries = 1 THEN "done" ELSE "settle"
             c == [req[r] EXCEPT !.tries = @ - 1, !.pc = pc]
             t == truth[r]
  <1>1. req[r] \in Context /\ t \in Consumption /\ req[r].tries \in 1..2
    BY DEF ContextBefore, TriesLeft
  <1>2. truth' = [truth EXCEPT ![r] = t]
    BY DEF ContextBefore
  <1>3. req' = [req EXCEPT ![r] = c]
    BY DEF SettleReturns, ContextBefore
  <1>4. pc \in {"done", "settle"} /\ (pc = "settle" => req[r].tries - 1 \in 1..2)
    BY <1>1
  <1> HIDE DEF pc
  <1>5. req[r].tries - 1 \in 0..2 /\ pc \in Stage
    BY <1>1, <1>4 DEF Stage
  <1>6. /\ c \in Context
        /\ c.pc = pc
        /\ c.tries = req[r].tries - 1
        /\ c.usage = req[r].usage
        /\ c.chargePossible = req[r].chargePossible
        /\ c.uncertain = req[r].uncertain
        /\ c.risk = req[r].risk
    BY <1>1, <1>5 DEF Context
  <1> HIDE DEF c
  <1>7. TriesLeft(c) /\ ContextSound(c, t)
    BY <1>4, <1>6 DEF ContextBefore, TriesLeft, ContextSound, Outcome
  <1>8. c.pc \notin Early
    BY <1>4, <1>6 DEF Early
  <1>9. MovesTo(r, c, t)
    BY <1>1, <1>2, <1>3, <1>6, <1>7, <1>8 DEF MovesTo
  <1> QED BY <1>9 DEF ContextStep

\* accountUpstreamResult keeps what the context knew: on success earlier doubt
\* becomes risk, on failure the doubt stands.
LEMMA AccountedContext ==
  ASSUME NEW c \in Context
  PROVE  /\ Succeeded(c) \in Context
         /\ Succeeded(c).chargePossible
         /\ (c.uncertain => Succeeded(c).risk)
         /\ Succeeded(c).usage = c.usage
         /\ MayHaveCharged(c) \in Context
         /\ MayHaveCharged(c).chargePossible
         /\ MayHaveCharged(c).uncertain
         /\ MayHaveCharged(c).usage = c.usage
  <1>1. c.risk \in BOOLEAN /\ c.uncertain \in BOOLEAN
    BY DEF Context
  <1>2. /\ Succeeded(c) \in Context
        /\ Succeeded(c).chargePossible = TRUE
        /\ Succeeded(c).risk = (c.risk \/ c.uncertain)
        /\ Succeeded(c).usage = c.usage
    BY <1>1 DEF Succeeded, Context
  <1>3. /\ MayHaveCharged(c) \in Context
        /\ MayHaveCharged(c).chargePossible = TRUE
        /\ MayHaveCharged(c).uncertain = TRUE
        /\ MayHaveCharged(c).usage = c.usage
    BY DEF MayHaveCharged, Context
  <1> QED BY <1>2, <1>3

\* What CompleteWith makes of a context.
LEMMA CompletedContext ==
  ASSUME NEW u \in Context, NEW tries \in 0..2
  PROVE  LET c == [u EXCEPT !.pc = "settle", !.tries = tries]
         IN /\ c \in Context /\ c.pc = "settle" /\ c.tries = tries
            /\ c.usage = u.usage /\ c.chargePossible = u.chargePossible
            /\ c.risk = u.risk /\ c.uncertain = u.uncertain
  BY DEF Context, Stage

LEMMA UpstreamAnswersMoves ==
  ASSUME NEW r \in Reservation, ContextBefore(r), UpstreamAnswers(r)
  PROVE  ContextStep(r)
  <1>1. PICK n \in Amount, usage \in Cost :
          /\ usage \in {n, NoUsage}
          /\ CompleteWith(r, [Succeeded(req[r]) EXCEPT !.usage = usage], 2)
          /\ truth' = [truth EXCEPT ![r].consumed = TRUE, ![r].cost = n]
    BY DEF UpstreamAnswers
  <1> DEFINE s == Succeeded(req[r])
             u == [s EXCEPT !.usage = usage]
             c == [u EXCEPT !.pc = "settle", !.tries = 2]
             t == [truth[r] EXCEPT !.consumed = TRUE, !.cost = n]
  <1>2. req[r] \in Context /\ truth[r] \in Consumption /\ n \in Cost
    BY CostType DEF ContextBefore
  <1>3. s \in Context /\ s.chargePossible /\ (req[r].uncertain => s.risk)
    BY <1>2, AccountedContext
  <1>4. truth[r].stray => req[r].uncertain
    BY DEF ContextBefore, ContextSound, UpstreamAnswers, At
  <1>5. req' = [req EXCEPT ![r] = c] /\ truth' = [truth EXCEPT ![r] = t]
    BY <1>1 DEF CompleteWith, ContextBefore
  <1> HIDE DEF s
  <1>6. /\ c \in Context /\ c.pc = "settle" /\ c.tries = 2 /\ c.usage = usage
        /\ c.chargePossible = s.chargePossible /\ c.risk = s.risk
    <2>1. /\ u \in Context /\ u.usage = usage
          /\ u.chargePossible = s.chargePossible /\ u.risk = s.risk
      BY <1>3 DEF Context
    <2> HIDE DEF u
    <2>2. 2 \in 0..2
      OBVIOUS
    <2> QED BY <2>1, <2>2, CompletedContext
  <1>7. t \in Consumption /\ t.cost = n /\ t.stray = truth[r].stray
    BY <1>2 DEF Consumption
  <1> HIDE DEF c, t
  <1>8. TriesLeft(c) /\ ContextSound(c, t)
    BY <1>1, <1>3, <1>4, <1>6, <1>7 DEF TriesLeft, ContextSound, Outcome
  <1>9. req[r].pc \in Early
    BY DEF UpstreamAnswers, At, Early
  <1>10. MovesTo(r, c, t)
    BY <1>5, <1>6, <1>7, <1>8, <1>9 DEF MovesTo
  <1> QED BY <1>10 DEF ContextStep

LEMMA StreamOpensMoves ==
  ASSUME NEW r \in Reservation, ContextBefore(r), StreamOpens(r)
  PROVE  ContextStep(r)
  <1> DEFINE s == Succeeded(req[r])
             c == [s EXCEPT !.pc = "streaming"]
             t == [truth[r] EXCEPT !.consumed = TRUE]
  <1>1. req[r] \in Context /\ truth[r] \in Consumption
    BY DEF ContextBefore
  <1>2. s \in Context /\ s.chargePossible /\ (req[r].uncertain => s.risk)
    BY <1>1, AccountedContext
  <1>3. truth[r].stray => req[r].uncertain
    BY DEF ContextBefore, ContextSound, StreamOpens, At
  <1>4. req' = [req EXCEPT ![r] = c] /\ truth' = [truth EXCEPT ![r] = t]
    BY DEF StreamOpens, ContextBefore
  <1> HIDE DEF s
  <1>5. /\ c \in Context /\ c.pc = "streaming"
        /\ c.chargePossible = s.chargePossible /\ c.risk = s.risk
    BY <1>2 DEF Context, Stage
  <1>6. t \in Consumption /\ t.stray = truth[r].stray
    BY <1>1 DEF Consumption
  <1> HIDE DEF c, t
  <1>7. TriesLeft(c) /\ ContextSound(c, t)
    BY <1>2, <1>3, <1>5, <1>6 DEF TriesLeft, ContextSound
  <1>8. req[r].pc \in Early
    BY DEF StreamOpens, At, Early
  <1>9. MovesTo(r, c, t)
    BY <1>4, <1>5, <1>6, <1>7, <1>8 DEF MovesTo
  <1> QED BY <1>9 DEF ContextStep

\* A failed attempt leaves the doubt that covers its stray tokens.
LEMMA UpstreamFailsMoves ==
  ASSUME NEW r \in Reservation, ContextBefore(r), UpstreamFails(r)
  PROVE  ContextStep(r)
  <1> DEFINE m == MayHaveCharged(req[r])
             c == [m EXCEPT !.pc = "dispatch"]
  <1>1. req[r] \in Context /\ truth[r] \in Consumption /\ req[r].usage = NoUsage
    BY DEF ContextBefore, ContextSound, UpstreamFails, At
  <1>2. m \in Context /\ m.chargePossible /\ m.uncertain /\ m.usage = NoUsage
    BY <1>1, AccountedContext
  <1>3. req' = [req EXCEPT ![r] = c]
    BY DEF UpstreamFails
  <1> HIDE DEF m
  <1>4. /\ c \in Context /\ c.pc = "dispatch" /\ c.usage = m.usage
        /\ c.chargePossible = m.chargePossible /\ c.uncertain = m.uncertain
    BY <1>2 DEF Context, Stage
  <1> HIDE DEF c
  <1>5. ASSUME NEW t \in Consumption
        PROVE  TriesLeft(c) /\ ContextSound(c, t)
    BY <1>2, <1>4 DEF TriesLeft, ContextSound
  <1>6. req[r].pc \in Early
    BY DEF UpstreamFails, At, Early
  <1>7. \E t \in Consumption : truth' = [truth EXCEPT ![r] = t]
    <2>1. CASE UNCHANGED truth
      <3>1. truth' = [truth EXCEPT ![r] = truth[r]]
        BY <2>1 DEF ContextBefore
      <3> QED BY <1>1, <3>1
    <2>2. CASE truth' = [truth EXCEPT ![r].consumed = TRUE, ![r].stray = TRUE]
      <3> DEFINE t == [truth[r] EXCEPT !.consumed = TRUE, !.stray = TRUE]
      <3>1. t \in Consumption
        BY <1>1 DEF Consumption
      <3>2. truth' = [truth EXCEPT ![r] = t]
        BY <2>2 DEF ContextBefore
      <3> QED BY <3>1, <3>2
    <2> QED BY <2>1, <2>2 DEF UpstreamFails
  <1> QED BY <1>3, <1>4, <1>5, <1>6, <1>7 DEF ContextStep, MovesTo

LEMMA StreamEndsMoves ==
  ASSUME NEW r \in Reservation, ContextBefore(r), StreamEnds(r)
  PROVE  ContextStep(r)
  <1>1. PICK n \in Amount, usage \in Cost, broken \in BOOLEAN :
          /\ usage \in {n, NoUsage}
          /\ CompleteWith(r, [req[r] EXCEPT !.usage = usage, !.uncertain = broken], 2)
          /\ truth' = [truth EXCEPT ![r].cost = n]
    BY DEF StreamEnds
  <1> DEFINE u == [req[r] EXCEPT !.usage = usage, !.uncertain = broken]
             c == [u EXCEPT !.pc = "settle", !.tries = 2]
             t == [truth[r] EXCEPT !.cost = n]
  <1>2. req[r] \in Context /\ truth[r] \in Consumption /\ n \in Cost
    BY CostType DEF ContextBefore
  <1>3. (truth[r].stray => req[r].risk) /\ (truth[r].consumed => req[r].chargePossible)
    BY DEF ContextBefore, ContextSound, StreamEnds, At
  <1>4. req' = [req EXCEPT ![r] = c] /\ truth' = [truth EXCEPT ![r] = t]
    BY <1>1 DEF CompleteWith, ContextBefore
  <1>5. /\ c \in Context /\ c.pc = "settle" /\ c.tries = 2 /\ c.usage = usage
        /\ c.chargePossible = req[r].chargePossible /\ c.risk = req[r].risk
    <2>1. /\ u \in Context /\ u.usage = usage
          /\ u.chargePossible = req[r].chargePossible /\ u.risk = req[r].risk
      BY <1>2 DEF Context
    <2> HIDE DEF u
    <2>2. 2 \in 0..2
      OBVIOUS
    <2> QED BY <2>1, <2>2, CompletedContext
  <1>6. /\ t \in Consumption /\ t.cost = n /\ t.stray = truth[r].stray
        /\ t.consumed = truth[r].consumed
    BY <1>2 DEF Consumption
  <1> HIDE DEF c, t
  <1>7. TriesLeft(c) /\ ContextSound(c, t)
    BY <1>1, <1>3, <1>5, <1>6 DEF TriesLeft, ContextSound, Outcome
  <1>8. req[r].pc \in Early
    BY DEF StreamEnds, At, Early
  <1>9. MovesTo(r, c, t)
    BY <1>4, <1>5, <1>6, <1>7, <1>8 DEF MovesTo
  <1> QED BY <1>9 DEF ContextStep

\* A crash forgets the context; a call in flight may still consume.
LEMMA CrashMoves ==
  ASSUME NEW r \in Reservation, ContextBefore(r), Crash(r)
  PROVE  ContextStep(r)
  <1>1. CASE UNCHANGED truth
    <2>1. "crashed" \in Stage
      BY DEF Stage
    <2> QED BY <1>1, <2>1, GotoMoves DEF Crash
  <1>2. CASE At(r, "calling") /\ truth' = [truth EXCEPT ![r].consumed = TRUE,
                                                        ![r].stray = TRUE]
    <2> DEFINE c == [req[r] EXCEPT !.pc = "crashed"]
               t == [truth[r] EXCEPT !.consumed = TRUE, !.stray = TRUE]
    <2>1. req[r] \in Context /\ truth[r] \in Consumption
      BY DEF ContextBefore
    <2>2. req' = [req EXCEPT ![r] = c] /\ truth' = [truth EXCEPT ![r] = t]
      BY <1>2 DEF Crash, Goto, ContextBefore
    <2>3. c \in Context /\ c.pc = "crashed" /\ t \in Consumption
      BY <2>1 DEF Context, Stage, Consumption
    <2> HIDE DEF c, t
    <2>4. TriesLeft(c) /\ ContextSound(c, t)
      BY <2>3 DEF TriesLeft, ContextSound
    <2>5. req[r].pc \in Early
      BY <1>2 DEF At, Early
    <2>6. MovesTo(r, c, t)
      BY <2>2, <2>3, <2>4, <2>5 DEF MovesTo
    <2> QED BY <2>6 DEF ContextStep
  <1> QED BY <1>1, <1>2 DEF Crash

\* Every step of a handler moves the context of its own request only.
LEMMA HandlerMoves ==
  ASSUME NEW r \in Reservation, ContextBefore(r), HandlerStep(r) \/ Crash(r)
  PROVE  ContextStep(r)
  <1>0. /\ req[r] \in Context
        /\ req[r].left \in 0..MaxAttempts
        /\ req[r].stream \in BOOLEAN
    BY DEF ContextBefore, Context
  <1>1. CASE ReserveAccounted(r)
    <2>1. "pre" \in Stage /\ "done" \in Stage
      BY DEF Stage
    <2>2. /\ req[r].pc = "idle" /\ UNCHANGED truth
          /\ Goto(r, "pre") \/ Goto(r, "done")
      BY <1>1 DEF ReserveAccounted, At
    <2>3. CASE Goto(r, "pre")
      BY <2>1, <2>2, <2>3, GotoMoves
    <2>4. CASE Goto(r, "done")
      BY <2>1, <2>2, <2>4, GotoMoves
    <2> QED BY <2>2, <2>3, <2>4
  <1>2. CASE AbandonBeforeDispatch(r)
    <2>1. CompleteWith(r, req[r], 1) /\ UNCHANGED truth /\ req[r].pc = "pre"
      BY <1>2 DEF AbandonBeforeDispatch, At
    <2> QED BY <2>1, CompleteMoves
  <1>3. CASE BeginForward(r)
    <2>1. PICK n \in 0..MaxAttempts, stream \in BOOLEAN :
            req' = [req EXCEPT ![r].pc = "dispatch", ![r].left = n,
                               ![r].stream = stream]
      BY <1>3 DEF BeginForward
    <2>2. req' = [req EXCEPT ![r] = [req[r] EXCEPT !.pc = "dispatch", !.left = n,
                                                   !.stream = stream]]
      BY <2>1 DEF ContextBefore
    <2>3. req[r].pc = "pre" /\ UNCHANGED truth
      BY <1>3 DEF BeginForward, At
    <2> QED BY <2>2, <2>3, LoopMoves
  <1>4. CASE SkipCandidate(r)
    <2>1. /\ req[r].pc = "dispatch" /\ UNCHANGED truth
          /\ req[r].left - 1 \in 0..MaxAttempts
      BY <1>0, <1>4 DEF SkipCandidate, At
    <2>2. req' = [req EXCEPT ![r] = [req[r] EXCEPT !.left = req[r].left - 1]]
      BY <1>4 DEF SkipCandidate, ContextBefore
    <2>3. [req[r] EXCEPT !.left = req[r].left - 1]
            = [req[r] EXCEPT !.pc = "dispatch", !.left = req[r].left - 1,
                             !.stream = req[r].stream]
      BY <1>0, <2>1 DEF Context
    <2>4. req' = [req EXCEPT ![r] = [req[r] EXCEPT !.pc = "dispatch",
                               !.left = req[r].left - 1, !.stream = req[r].stream]]
      BY <2>2, <2>3
    <2> QED BY <1>0, <2>1, <2>4, LoopMoves
  <1>5. CASE CallUpstream(r)
    <2>1. /\ req[r].pc = "dispatch" /\ UNCHANGED truth
          /\ req[r].left - 1 \in 0..MaxAttempts
      BY <1>0, <1>5 DEF CallUpstream, At
    <2>2. req' = [req EXCEPT ![r] = [req[r] EXCEPT !.pc = "calling",
                                                   !.left = req[r].left - 1]]
      BY <1>5 DEF CallUpstream, ContextBefore
    <2>3. [req[r] EXCEPT !.pc = "calling", !.left = req[r].left - 1]
            = [req[r] EXCEPT !.pc = "calling", !.left = req[r].left - 1,
                             !.stream = req[r].stream]
      BY <1>0 DEF Context
    <2>4. req' = [req EXCEPT ![r] = [req[r] EXCEPT !.pc = "calling",
                               !.left = req[r].left - 1, !.stream = req[r].stream]]
      BY <2>2, <2>3
    <2> QED BY <1>0, <2>1, <2>4, LoopMoves
  <1>6. CASE DispatchMarkFails(r) \/ CandidatesExhausted(r) \/ UpstreamRejects(r)
    <2>1. /\ ForwardFailed(r) /\ UNCHANGED truth
          /\ req[r].pc \in {"dispatch", "calling"}
      BY <1>6 DEF DispatchMarkFails, CandidatesExhausted, UpstreamRejects, At
    <2> QED BY <2>1, ForwardFailedMoves
  <1>7. CASE UpstreamAnswers(r) \/ StreamOpens(r) \/ UpstreamFails(r) \/ StreamEnds(r)
    BY <1>7, UpstreamAnswersMoves, StreamOpensMoves, UpstreamFailsMoves, StreamEndsMoves
  <1>8. CASE FinishPersists(r)
    <2>1. req[r].pc = "settle" /\ UNCHANGED truth /\ Goto(r, "applying")
      BY <1>8 DEF FinishPersists, At
    <2>2. "applying" \in Stage
      BY DEF Stage
    <2> QED BY <2>1, <2>2, GotoMoves
  <1>9. CASE FinishUnknown(r) \/ FinishApplies(r) \/ FinishFails(r)
    <2>1. /\ req[r].pc \in {"settle", "applying"} /\ UNCHANGED truth
          /\ \E ok \in BOOLEAN : SettleReturns(r, ok)
      BY <1>9 DEF FinishUnknown, FinishApplies, FinishFails, At
    <2> QED BY <2>1, SettleReturnsMoves
  <1>10. CASE Crash(r)
    BY <1>10, CrashMoves
  <1> QED
    BY <1>1, <1>2, <1>3, <1>4, <1>5, <1>6, <1>7, <1>8, <1>9, <1>10 DEF HandlerStep

-----------------------------------------------------------------------------
(***************************************************************************)
(* What a step does to the spend store: either the handler of one request   *)
(* persists its result, or no result appears but by an operator's decision. *)
(***************************************************************************)
PersistStep(r) ==
  /\ At(r, "settle")
  /\ Outcome(req[r]) # "unknown"
  /\ PersistResult(r, SettlementOf(req[r]))
  /\ FinishPersists(r) \/ FinishFails(r)

PlainStep ==
  \/ \E r \in Reservation :
       \/ \E est \in Amount, cur \in Currency, t \in Period : Reserve(r, est, cur, t)
       \/ MarkDispatched(r)
       \/ MarkUnknown(r)
       \/ ApplyPending(r)
       \/ OperatorStep(r)
  \/ \E rs \in SUBSET Reservation : MarkStale(rs)
  \/ AdminStep
  \/ Rollover
  \/ UNCHANGED vars

\* A known charge is a settlement.
LEMMA KnownSettlement ==
  ASSUME NEW x,
         \E n \in Amount, b \in BOOLEAN :
           x = [outcome |-> "known", actual |-> n, usage |-> TRUE, risk |-> b]
  PROVE  x \in Settlement
  <1> DEFINE Known == {[outcome |-> "known", actual |-> n, usage |-> TRUE, risk |-> b] :
                         n \in Amount, b \in BOOLEAN}
  <1>1. x \in Known <=>
          \E n \in Amount, b \in BOOLEAN :
            x = [outcome |-> "known", actual |-> n, usage |-> TRUE, risk |-> b]
    BY SMT
  <1>2. Settlement = Known \cup {[NoResult EXCEPT !.outcome = "released"]}
    BY DEF Settlement
  <1> HIDE DEF Known
  <1> QED BY <1>1, <1>2

\* Finish is only handed settlements.
LEMMA SettlementOfType ==
  ASSUME NEW c \in Context
  PROVE  SettlementOf(c) \in Settlement
  <1>1. CASE Outcome(c) = "known"
    <2>1. c.usage \in Amount /\ c.risk \in BOOLEAN
      BY <1>1 DEF Outcome, Context, Cost
    <2>2. SettlementOf(c) = [outcome |-> "known", actual |-> c.usage, usage |-> TRUE,
                             risk |-> c.risk]
      BY <1>1 DEF SettlementOf
    <2>3. \E n \in Amount, b \in BOOLEAN :
            SettlementOf(c) = [outcome |-> "known", actual |-> n, usage |-> TRUE,
                               risk |-> b]
      BY <2>1, <2>2
    <2> QED BY <2>3, KnownSettlement
  <1>2. CASE Outcome(c) # "known"
    BY <1>2 DEF SettlementOf, Settlement
  <1> QED BY <1>1, <1>2

LEMMA RequestStoreStep ==
  ASSUME [RequestNext]_requestVars
  PROVE  PlainStep \/ \E r \in Reservation : PersistStep(r)
  <1>1. ASSUME NEW r \in Reservation, HandlerStep(r)
        PROVE  PlainStep \/ PersistStep(r)
    <2>1. CASE ReserveAccounted(r)
      BY <2>1 DEF ReserveAccounted, PlainStep
    <2>2. CASE CallUpstream(r) \/ DispatchMarkFails(r)
      BY <2>2 DEF CallUpstream, DispatchMarkFails, PlainStep
    <2>3. CASE \/ AbandonBeforeDispatch(r) \/ BeginForward(r) \/ SkipCandidate(r)
               \/ CandidatesExhausted(r) \/ UpstreamAnswers(r) \/ StreamOpens(r)
               \/ UpstreamRejects(r) \/ UpstreamFails(r) \/ StreamEnds(r)
      <3>1. UNCHANGED vars
        BY <2>3 DEF AbandonBeforeDispatch, BeginForward, SkipCandidate,
                    CandidatesExhausted, UpstreamAnswers, StreamOpens,
                    UpstreamRejects, UpstreamFails, StreamEnds
      <3> QED BY <3>1 DEF PlainStep
    <2>4. CASE FinishUnknown(r) \/ FinishApplies(r)
      BY <2>4 DEF FinishUnknown, FinishApplies, PlainStep
    <2>5. CASE FinishPersists(r)
      <3>1. PersistResult(r, SettlementOf(req[r])) \/ UNCHANGED vars
        BY <2>5 DEF FinishPersists
      <3> QED BY <2>5, <3>1 DEF PlainStep, PersistStep, FinishPersists
    <2>6. CASE FinishFails(r)
      <3>1. \/ UNCHANGED vars
            \/ /\ At(r, "settle") /\ Outcome(req[r]) # "unknown"
               /\ PersistResult(r, SettlementOf(req[r]))
            \/ MarkUnknown(r)
        BY <2>6 DEF FinishFails
      <3> QED BY <2>6, <3>1 DEF PlainStep, PersistStep
    <2> QED BY <1>1, <2>1, <2>2, <2>3, <2>4, <2>5, <2>6 DEF HandlerStep
  <1>2. ASSUME NEW r \in Reservation, Crash(r) \/ OperatorReads(r)
        PROVE  PlainStep
    BY <1>2 DEF Crash, OperatorReads, PlainStep
  <1>3. ASSUME NEW r \in Reservation, OperatorResolves(r)
        PROVE  PlainStep
    <2>1. PICK action \in {"settle", "release", "release_unknown"}, n \in Amount :
            Resolve(r, action, n, view[r].version)
      BY <1>3 DEF OperatorResolves
    <2>2. view[r].version = reservations[r].version
      BY <2>1 DEF Resolve
    <2>3. OperatorStep(r)
      BY <2>1, <2>2 DEF OperatorStep
    <2> QED BY <2>3 DEF PlainStep
  <1>4. CASE Recover
    BY <1>4 DEF Recover, PlainStep
  <1>5. CASE Administer
    BY <1>5 DEF Administer, PlainStep
  <1>6. CASE UNCHANGED requestVars
    BY <1>6 DEF requestVars, PlainStep
  <1> QED BY <1>1, <1>2, <1>3, <1>4, <1>5, <1>6 DEF RequestNext

\* A step of the composition is a step of the store or leaves it alone.
LEMMA StoreSteps ==
  ASSUME req \in [Reservation -> Context], [RequestNext]_requestVars
  PROVE  [Next]_vars
  <1>1. CASE PlainStep
    BY <1>1 DEF PlainStep, Next, RequestStep
  <1>2. ASSUME NEW r \in Reservation, PersistStep(r)
        PROVE  Next
    <2>1. SettlementOf(req[r]) \in Settlement
      BY SettlementOfType
    <2> QED BY <1>2, <2>1 DEF PersistStep, Next, RequestStep
  <1> QED BY <1>1, <1>2, RequestStoreStep

\* Reservation q gets no result, or an operator has decided it.
Quiet(q) ==
  \/ /\ reservations'[q].result = reservations[q].result
     /\ events'.resolutions[q] = events.resolutions[q]
  \/ events'.resolutions[q] > 0

\* The row of q is as it was or has a higher version.
Versioned(q) ==
  reservations'[q] = reservations[q] \/ reservations'[q].version > reservations[q].version

LEMMA ApplyQuiet ==
  ASSUME Inv, NEW r \in Reservation, NEW res \in Result, NEW status \in Status,
         NEW resolved \in BOOLEAN, ApplyReservation(r, res, status, resolved),
         resolved \/ (reservations[r].result = res /\ status # "released_unknown"),
         NEW q \in Reservation
  PROVE  Quiet(q) /\ Versioned(q)
  <1>1. reservations[r] \in Row /\ reservations[r].version \in Nat
    BY DEF Inv, TypeOK, Row
  <1>2. events \in Events /\ events.resolutions \in [Reservation -> Nat]
    BY DEF Inv, TypeOK, Events
  <1>3. events'.resolutions
          = [events.resolutions EXCEPT ![r] = @ + (IF resolved THEN 1 ELSE 0)]
    BY <1>2 DEF ApplyReservation, Events
  <1>4. /\ q # r => reservations'[q] = reservations[q]
        /\ reservations'[r].result = IF status = "released_unknown"
                                     THEN reservations[r].result ELSE res
        /\ reservations'[r].version = reservations[r].version + 1
    BY <1>1 DEF ApplyReservation, Inv, TypeOK, Row
  <1>5. CASE resolved
    <2>1. events'.resolutions = [events.resolutions EXCEPT ![r] = @ + 1]
      BY <1>3, <1>5
    <2> QED BY <1>1, <1>2, <1>4, <2>1 DEF Quiet, Versioned
  <1>6. CASE ~resolved
    <2>1. events'.resolutions = [events.resolutions EXCEPT ![r] = @ + 0]
      BY <1>3, <1>6
    <2>2. events'.resolutions[q] = events.resolutions[q]
      BY <1>2, <2>1
    <2> QED BY <1>1, <1>4, <1>6, <2>2 DEF Quiet, Versioned
  <1> QED BY <1>5, <1>6

LEMMA PlainStepQuiet ==
  ASSUME Inv, PlainStep, NEW q \in Reservation
  PROVE  Quiet(q) /\ Versioned(q)
  <1>0. /\ reservations[q] \in Row /\ reservations[q].version \in Nat
        /\ events \in Events
    BY DEF Inv, TypeOK, Row
  <1>1. ASSUME NEW r \in Reservation, NEW est \in Amount, NEW cur \in Currency,
               NEW t \in Period, Reserve(r, est, cur, t)
        PROVE  Quiet(q) /\ Versioned(q)
    <2>1. reservations[r] = NoRow
      BY <1>1, ReserveOthers
    <2>2. /\ q # r => reservations'[q] = reservations[q]
          /\ reservations'[r].result = NoResult
          /\ reservations'[r].version = 1
          /\ events' = events
      BY <1>1 DEF Reserve, NoRow, Inv, TypeOK
    <2> QED BY <2>1, <2>2 DEF Quiet, Versioned, NoRow
  <1>2. ASSUME NEW r \in Reservation, MarkDispatched(r)
        PROVE  Quiet(q) /\ Versioned(q)
    <2>1. /\ q # r => reservations'[q] = reservations[q]
          /\ q = r => /\ reservations'[q].result = reservations[q].result
                      /\ reservations'[q].version = reservations[q].version + 1
          /\ events' = events
      BY <1>0, <1>2 DEF MarkDispatched, Inv, TypeOK, Row
    <2> QED BY <1>0, <2>1 DEF Quiet, Versioned
  <1>3. ASSUME NEW rs \in SUBSET Reservation, MarkReservationsUnknown(rs)
        PROVE  Quiet(q) /\ Versioned(q)
    <2>1. /\ q \notin rs => reservations'[q] = reservations[q]
          /\ q \in rs => /\ reservations'[q].result = reservations[q].result
                         /\ reservations'[q].version = reservations[q].version + 1
      BY <1>0, <1>3 DEF MarkReservationsUnknown, Row
    <2>2. events'.resolutions = events.resolutions
      BY <1>0, <1>3 DEF MarkReservationsUnknown, Events
    <2> QED BY <1>0, <2>1, <2>2 DEF Quiet, Versioned
  <1>4. ASSUME NEW r \in Reservation, ApplyPending(r) \/ OperatorStep(r)
        PROVE  Quiet(q) /\ Versioned(q)
    <2>1. PICK res \in Result, status \in Status, resolved \in BOOLEAN :
            /\ ApplyReservation(r, res, status, resolved)
            /\ \/ /\ reservations[r].result = res
                  /\ status # "released_unknown"
               \/ resolved
      BY <1>4, ApplyCallers
    <2> QED BY <2>1, ApplyQuiet
  <1>5. ASSUME AdminStep \/ Rollover \/ UNCHANGED vars
        PROVE  Quiet(q) /\ Versioned(q)
    <2>1. UNCHANGED reservations
      BY <1>5 DEF AdminStep, TopUp, CreatePolicy, PatchPolicy, Rollover, vars, money
    <2>2. events'.resolutions = events.resolutions
      BY <1>0, <1>5 DEF AdminStep, TopUp, CreatePolicy, PatchPolicy, Rollover, vars,
                        money, Events
    <2> QED BY <2>1, <2>2 DEF Quiet, Versioned
  <1> QED
    BY <1>1, <1>2, <1>3, <1>4, <1>5 DEF PlainStep, MarkUnknown, MarkStale

LEMMA PersistStepEffect ==
  ASSUME Inv, NEW r \in Reservation, PersistStep(r), NEW q \in Reservation
  PROVE  /\ Versioned(q)
         /\ q # r => Quiet(q)
         /\ reservations'[r].result = SettlementOf(req[r])
         /\ events' = events
  <1>1. reservations[r] \in Row /\ reservations[r].version \in Nat
    BY DEF Inv, TypeOK, Row
  <1>2. PersistResult(r, SettlementOf(req[r]))
    BY DEF PersistStep
  <1>3. /\ q # r => reservations'[q] = reservations[q]
        /\ reservations'[r].result = SettlementOf(req[r])
        /\ reservations'[r].version = reservations[r].version + 1
        /\ events' = events
    BY <1>1, <1>2 DEF PersistResult, Inv, TypeOK, Row
  <1> QED BY <1>1, <1>3 DEF Quiet, Versioned

-----------------------------------------------------------------------------
(***************************************************************************)
(* The invariant is inductive.                                              *)
(***************************************************************************)
LEMMA InitRequestInv == RequestInit => RequestInv
  <1> SUFFICES ASSUME RequestInit PROVE RequestInv
    OBVIOUS
  <1>1. Inv
    BY InitInv DEF RequestInit
  <1>2. NewContext \in Context /\ NoConsumption \in Consumption
    BY CostType DEF NewContext, Context, Stage, NoConsumption, Consumption
  <1>3. RequestTypeOK
    BY <1>1, <1>2, EmptyRows DEF RequestInit, RequestTypeOK, Inv
  <1>4. ASSUME NEW r \in Reservation
        PROVE  TriesLeft(req[r]) /\ ContextSound(req[r], truth[r])
    BY DEF RequestInit, TriesLeft, ContextSound, NewContext, NoConsumption
  <1>5. ASSUME NEW r \in Reservation
        PROVE  ResultSound(r) /\ ViewSound(r)
    <2>1. reservations[r] = NoRow /\ view[r] = NoRow
      BY DEF RequestInit, Init
    <2>2. NoRow.result = NoResult /\ NoRow.version = 0
      BY DEF NoRow
    <2> QED BY <2>1, <2>2 DEF ResultSound, ViewSound
  <1> QED BY <1>1, <1>3, <1>4, <1>5 DEF RequestInv

\* The contexts after a step: at most one request moves, soundly.
LEMMA ContextsMove ==
  ASSUME RequestInv, [RequestNext]_requestVars
  PROVE  \/ UNCHANGED <<req, truth>>
         \/ \E r \in Reservation : ContextStep(r) /\ (HandlerStep(r) \/ Crash(r))
  <1>1. ASSUME NEW r \in Reservation, HandlerStep(r) \/ Crash(r)
        PROVE  ContextStep(r)
    <2>1. ContextBefore(r)
      BY DEF RequestInv, RequestTypeOK, ContextBefore
    <2> QED BY <1>1, <2>1, HandlerMoves
  <1>2. \/ \E r \in Reservation : HandlerStep(r) \/ Crash(r)
        \/ UNCHANGED <<req, truth>>
    BY DEF RequestNext, OperatorReads, OperatorResolves, Recover, Administer,
           requestVars
  <1> QED BY <1>1, <1>2

LEMMA ContextType ==
  ASSUME RequestInv, [RequestNext]_requestVars
  PROVE  req' \in [Reservation -> Context] /\ truth' \in [Reservation -> Consumption]
  <1>0. req \in [Reservation -> Context] /\ truth \in [Reservation -> Consumption]
    BY DEF RequestInv, RequestTypeOK
  <1>1. ASSUME NEW r \in Reservation, NEW c, NEW t, MovesTo(r, c, t)
        PROVE  req' \in [Reservation -> Context] /\ truth' \in [Reservation -> Consumption]
    BY <1>0, <1>1 DEF MovesTo
  <1> QED BY <1>0, <1>1, ContextsMove DEF ContextStep

\* What becomes of the context of any request q.
LEMMA ContextAfter ==
  ASSUME RequestInv, [RequestNext]_requestVars, NEW q \in Reservation
  PROVE  /\ TriesLeft(req'[q])
         /\ ContextSound(req'[q], truth'[q])
         /\ req'[q].pc \in Early => req[q].pc \in Early
         /\ truth'[q] = truth[q] \/ req[q].pc \in Early
  <1>0. /\ req \in [Reservation -> Context]
        /\ truth \in [Reservation -> Consumption]
        /\ TriesLeft(req[q])
        /\ ContextSound(req[q], truth[q])
    BY DEF RequestInv, RequestTypeOK
  <1>1. CASE UNCHANGED <<req, truth>>
    BY <1>0, <1>1
  <1>2. ASSUME NEW r \in Reservation, NEW c, NEW t, MovesTo(r, c, t)
        PROVE  /\ TriesLeft(req'[q])
               /\ ContextSound(req'[q], truth'[q])
               /\ req'[q].pc \in Early => req[q].pc \in Early
               /\ truth'[q] = truth[q] \/ req[q].pc \in Early
    <2>1. /\ req'[q] = IF q = r THEN c ELSE req[q]
          /\ truth'[q] = IF q = r THEN t ELSE truth[q]
      BY <1>0, <1>2 DEF MovesTo
    <2>2. CASE q = r
      BY <1>2, <2>1, <2>2 DEF MovesTo
    <2>3. CASE q # r
      BY <1>0, <2>1, <2>3
    <2> QED BY <2>2, <2>3
  <1> QED BY <1>1, <1>2, ContextsMove DEF ContextStep

\* What the handler persists is true of its upstreams.
LEMMA PersistedTrue ==
  ASSUME NEW c \in Context, NEW t \in Consumption, ContextSound(c, t),
         c.pc = "settle", Outcome(c) # "unknown"
  PROVE  ResultTrue(SettlementOf(c), t)
  <1>1. CASE Outcome(c) = "known"
    <2>1. /\ SettlementOf(c).outcome = "known"
          /\ SettlementOf(c).actual = c.usage
          /\ SettlementOf(c).risk = c.risk
      BY <1>1 DEF SettlementOf
    <2> QED BY <1>1, <2>1 DEF ContextSound, ResultTrue
  <1>2. CASE Outcome(c) = "released"
    <2>1. SettlementOf(c).outcome = "released"
      BY <1>2 DEF SettlementOf, NoResult
    <2>2. ~c.chargePossible
      BY <1>2 DEF Outcome
    <2> QED BY <2>1, <2>2 DEF ContextSound, ResultTrue
  <1> QED BY <1>1, <1>2 DEF Outcome

\* A result of the next state that no operator decided is true.
LEMMA ResultAfter ==
  ASSUME RequestInv, [RequestNext]_requestVars, NEW q \in Reservation,
         reservations'[q].result # NoResult, events'.resolutions[q] = 0
  PROVE  req'[q].pc \notin Early /\ ResultTrue(reservations'[q].result, truth'[q])
  <1>0. Inv /\ ResultSound(q) /\ ContextSound(req[q], truth[q])
        /\ req[q] \in Context /\ truth[q] \in Consumption
    BY DEF RequestInv, RequestTypeOK
  <1>1. /\ req'[q].pc \in Early => req[q].pc \in Early
        /\ truth'[q] = truth[q] \/ req[q].pc \in Early
    BY ContextAfter
  <1>2. CASE Quiet(q)
    <2>1. /\ reservations'[q].result = reservations[q].result
          /\ events.resolutions[q] = 0
      BY <1>2 DEF Quiet
    <2> QED BY <1>0, <1>1, <2>1 DEF ResultSound
  <1>3. CASE PersistStep(q)
    <2>1. reservations'[q].result = SettlementOf(req[q])
      BY <1>0, <1>3, PersistStepEffect
    <2>2. req[q].pc = "settle" /\ Outcome(req[q]) # "unknown"
      BY <1>3 DEF PersistStep, At
    <2>3. ResultTrue(SettlementOf(req[q]), truth[q])
      BY <1>0, <2>2, PersistedTrue
    <2>4. req[q].pc \notin Early
      BY <2>2 DEF Early
    <2> QED BY <1>1, <2>1, <2>3, <2>4
  <1>4. Quiet(q) \/ PersistStep(q)
    <2>1. ASSUME NEW r \in Reservation, PersistStep(r), q # r
          PROVE  Quiet(q)
      BY <1>0, <2>1, PersistStepEffect
    <2>2. ASSUME PlainStep
          PROVE  Quiet(q)
      BY <1>0, <2>2, PlainStepQuiet
    <2> QED BY <2>1, <2>2, RequestStoreStep
  <1> QED BY <1>2, <1>3, <1>4

\* An operator's view changes only by reading a row, which leaves the row alone.
LEMMA ViewsMove ==
  ASSUME [RequestNext]_requestVars
  PROVE  \/ UNCHANGED view
         \/ \E r \in Reservation : /\ view' = [view EXCEPT ![r] = reservations[r]]
                                   /\ UNCHANGED reservations
  <1>1. ASSUME NEW r \in Reservation, OperatorReads(r)
        PROVE  /\ view' = [view EXCEPT ![r] = reservations[r]]
               /\ UNCHANGED reservations
    BY <1>1 DEF OperatorReads, vars
  <1>2. UNCHANGED view \/ \E r \in Reservation : OperatorReads(r)
    BY DEF RequestNext, HandlerStep, ReserveAccounted, AbandonBeforeDispatch,
           BeginForward, SkipCandidate, CallUpstream, DispatchMarkFails,
           CandidatesExhausted, UpstreamAnswers, StreamOpens, UpstreamRejects,
           UpstreamFails, StreamEnds, FinishUnknown, FinishPersists, FinishApplies,
           FinishFails, Crash, OperatorResolves, Recover, Administer, requestVars
  <1> QED BY <1>1, <1>2

\* What an operator has read grows no newer than the row.
LEMMA ViewAfter ==
  ASSUME RequestInv, [RequestNext]_requestVars, NEW q \in Reservation,
         reservations' \in [Reservation -> Row]
  PROVE  /\ view'[q].version <= reservations'[q].version
         /\ view'[q].version = reservations'[q].version => view'[q] = reservations'[q]
  <1>0. /\ Inv /\ ViewSound(q) /\ view \in [Reservation -> Row]
        /\ reservations \in [Reservation -> Row]
    BY DEF RequestInv, RequestTypeOK, Inv, TypeOK
  <1>1. /\ reservations[q].version \in Nat /\ reservations'[q].version \in Nat
        /\ view[q].version \in Nat
    BY <1>0 DEF Row
  <1>2. CASE \E r \in Reservation : /\ view' = [view EXCEPT ![r] = reservations[r]]
                                    /\ UNCHANGED reservations
    BY <1>0, <1>1, <1>2 DEF ViewSound
  <1>3. CASE UNCHANGED view
    <2>1. Versioned(q)
      BY <1>0, RequestStoreStep, PlainStepQuiet, PersistStepEffect
    <2> QED BY <1>0, <1>1, <1>3, <2>1 DEF ViewSound, Versioned
  <1> QED BY <1>2, <1>3, ViewsMove

LEMMA NextRequestInv == RequestInv /\ [RequestNext]_requestVars => RequestInv'
  <1> SUFFICES ASSUME RequestInv, [RequestNext]_requestVars
               PROVE  RequestInv'
    OBVIOUS
  <1>1. Inv'
    <2>1. [Next]_vars
      BY StoreSteps DEF RequestInv, RequestTypeOK
    <2> QED BY <2>1, NextInv DEF RequestInv
  <1>2. TypeOK' /\ reservations' \in [Reservation -> Row]
    BY <1>1 DEF Inv, TypeOK
  <1>3. RequestTypeOK'
    <2>1. view' \in [Reservation -> Row]
      BY ViewsMove DEF RequestInv, RequestTypeOK, TypeOK
    <2> QED BY <1>2, <2>1, ContextType DEF RequestTypeOK
  <1>4. ASSUME NEW q \in Reservation
        PROVE  TriesLeft(req[q])' /\ ContextSound(req[q], truth[q])'
    <2>1. TriesLeft(req'[q]) /\ ContextSound(req'[q], truth'[q])
      BY ContextAfter
    <2> QED BY <2>1 DEF TriesLeft, ContextSound, Outcome
  <1>5. ASSUME NEW q \in Reservation
        PROVE  ViewSound(q)'
    BY <1>2, ViewAfter DEF ViewSound
  <1>6. ASSUME NEW q \in Reservation
        PROVE  ResultSound(q)'
    BY ResultAfter DEF ResultSound, ResultTrue
  <1> QED BY <1>1, <1>3, <1>4, <1>5, <1>6 DEF RequestInv

LEMMA RequestInvHolds == RequestSpec => []RequestInv
  BY InitRequestInv, NextRequestInv, PTL DEF RequestSpec

-----------------------------------------------------------------------------
(***************************************************************************)
(* The theorems.                                                            *)
(***************************************************************************)
\* The store's rows and the request contexts keep to their types.
THEOREM RequestTypeCorrect == RequestSpec => []RequestTypeOK
  <1>1. RequestInv => RequestTypeOK
    BY DEF RequestInv
  <1> QED BY <1>1, RequestInvHolds, PTL

\* The request handler, the recovery loop and the operator use the spend store
\* as it may be used: each of their steps is a transaction of Accounting, so
\* every safety property proved of Accounting holds of billed requests.
THEOREM RequestsUseStore == RequestSpec => Spec
  <1>1. RequestInit => Init
    BY DEF RequestInit
  <1>2. RequestInv /\ [RequestNext]_requestVars => [Next]_vars
    BY StoreSteps DEF RequestInv, RequestTypeOK
  <1> QED BY <1>1, <1>2, RequestInvHolds, PTL DEF RequestSpec, Spec

\* A token that any attempt consumed is never refunded by the gateway itself,
\* however attempts, crashes, lost answers and the recovery loop interleave
\* (ConsumedNeverReleasedSilently).
THEOREM ConsumedStaysCharged == RequestSpec => []ConsumedNeverReleasedSilently
  <1>1. ASSUME RequestInv PROVE ConsumedNeverReleasedSilently
    <2> SUFFICES ASSUME NEW r \in Reservation, truth[r].consumed,
                        reservations[r].status = "released"
                 PROVE  events.resolutions[r] > 0
      BY DEF ConsumedNeverReleasedSilently, ResolvedByOperator
    <2>1. events.resolutions[r] \in Nat
      BY <1>1 DEF RequestInv, RequestTypeOK, TypeOK, Events
    <2>2. reservations[r].result.outcome = "released"
      BY <1>1 DEF RequestInv, Inv, LifecycleConsistent, RowConsistent
    <2>3. reservations[r].result # NoResult
      BY <2>2 DEF NoResult
    <2>4. events.resolutions[r] # 0
      BY <1>1, <2>2, <2>3 DEF RequestInv, ResultSound, ResultTrue
    <2> QED BY <2>1, <2>4
  <1> QED BY <1>1, RequestInvHolds, PTL

\* What the gateway settles on its own account is exactly the cost of the
\* attempt that answered, and stray tokens of earlier attempts are on record
\* (SettledAtTrueCost).
THEOREM SettlementsAreTrue == RequestSpec => []SettledAtTrueCost
  <1>1. ASSUME RequestInv PROVE SettledAtTrueCost
    <2> SUFFICES ASSUME NEW r \in Reservation, reservations[r].status = "settled",
                        ~(events.resolutions[r] > 0)
                 PROVE  /\ reservations[r].result.actual = truth[r].cost
                        /\ truth[r].stray => events.risks[r] = 1
      BY DEF SettledAtTrueCost, ResolvedByOperator
    <2>1. events.resolutions[r] \in Nat
      BY <1>1 DEF RequestInv, RequestTypeOK, TypeOK, Events
    <2>2. events.resolutions[r] = 0
      BY <2>1
    <2>3. reservations[r].result.outcome = "known" /\ reservations[r].applied
      BY <1>1 DEF RequestInv, Inv, LifecycleConsistent, RowConsistent
    <2>4. reservations[r].result # NoResult
      BY <2>3 DEF NoResult
    <2>5. /\ reservations[r].result.actual = truth[r].cost
          /\ truth[r].stray => reservations[r].result.risk
      BY <1>1, <2>2, <2>3, <2>4 DEF RequestInv, ResultSound, ResultTrue
    <2>6. reservations[r].result.risk => events.risks[r] = 1
      BY <1>1, <2>3 DEF RequestInv, Inv, LedgerRowsExactlyOnce
    <2> QED BY <2>5, <2>6
  <1> QED BY <1>1, RequestInvHolds, PTL

\* An operator whose version still matches is looking at the very row it
\* resolves, whatever the gateway, the recovery loop and other operators did in
\* between (VersionDetectsChange).
THEOREM VersionsDetectChange == RequestSpec => []VersionDetectsChange
  <1>1. RequestInv => VersionDetectsChange
    BY DEF RequestInv, ViewSound, VersionDetectsChange
  <1> QED BY <1>1, RequestInvHolds, PTL

=============================================================================
