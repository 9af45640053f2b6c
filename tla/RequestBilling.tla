--------------------------- MODULE RequestBilling ---------------------------
(***************************************************************************)
(* One billed request against the spend store: the billing plugin           *)
(* (internal/billing/plugin.go, plugin_accounting.go), the failover loop    *)
(* that accounts for every upstream attempt (internal/proxy/dispatcher.go), *)
(* the stream relay (stream.go) and the handler's deferred finalisation     *)
(* (router.go), composed with Accounting, the recovery loop and an operator *)
(* who resolves parked charges under the row version it has read.           *)
(*                                                                          *)
(* A store call can fail, or commit with its answer lost; the process can   *)
(* crash between any two steps.  What the upstream really consumed is kept  *)
(* in truth, which the gateway never reads; a usage an upstream reports is  *)
(* taken to be the final one.                                               *)
(***************************************************************************)
EXTENDS Accounting

CONSTANT MaxAttempts  \* bound: candidates of one request

ASSUME MaxAttemptsAssumption == MaxAttempts \in Nat \ {0}

VARIABLES
  req,    \* the plugin.Context of each request, and where its handler stands
  truth,  \* history: what the upstreams consumed for each request
  view    \* the row an operator has read, per reservation

requestVars == <<vars, req, truth, view>>

NoUsage == -1
Cost == Amount \cup {NoUsage}

Stage == {"idle", "pre", "dispatch", "calling", "streaming", "settle",
          "applying", "done", "crashed"}

Context == [pc: Stage, left: 0..MaxAttempts, stream: BOOLEAN,
            chargePossible: BOOLEAN, uncertain: BOOLEAN, risk: BOOLEAN,
            usage: Cost, tries: 0..2]

NewContext == [pc |-> "idle", left |-> 0, stream |-> FALSE,
               chargePossible |-> FALSE, uncertain |-> FALSE, risk |-> FALSE,
               usage |-> NoUsage, tries |-> 0]

\* consumed: some attempt used tokens; stray: a failed attempt did; cost: what
\* the attempt that answered costs at the frozen price.
Consumption == [consumed: BOOLEAN, stray: BOOLEAN, cost: Cost]
NoConsumption == [consumed |-> FALSE, stray |-> FALSE, cost |-> NoUsage]

\* The store's rows and the request contexts are well formed.
RequestTypeOK ==
  /\ TypeOK
  /\ req \in [Reservation -> Context]
  /\ truth \in [Reservation -> Consumption]
  /\ view \in [Reservation -> Row]

RequestInit ==
  /\ Init
  /\ req = [r \in Reservation |-> NewContext]
  /\ truth = [r \in Reservation |-> NoConsumption]
  /\ view = [r \in Reservation |-> NoRow]

At(r, pc) == req[r].pc = pc
Goto(r, pc) == req' = [req EXCEPT ![r].pc = pc]

\* The handler leaves for its completion hook: runPost settles and, if that
\* fails, the deferred BillingFinalize settles once more.  Exits that skip
\* runPost have the deferred call only.
CompleteWith(r, context, tries) ==
  req' = [req EXCEPT ![r] = [context EXCEPT !.pc = "settle", !.tries = tries]]

ForwardFailed(r) == CompleteWith(r, req[r], IF req[r].stream THEN 1 ELSE 2)

-----------------------------------------------------------------------------
(***************************************************************************)
(* Pre: reserve.  When the answer is lost the plugin rejects the request    *)
(* and forgets the reservation, which only the stale scan will find.        *)
(***************************************************************************)
ReserveAccounted(r) ==
  /\ At(r, "idle")
  /\ \E est \in Amount, cur \in Currency, t \in Period : Reserve(r, est, cur, t)
  /\ Goto(r, "pre") \/ Goto(r, "done")
  /\ UNCHANGED <<truth, view>>

\* A later Pre plugin rejects, or the connection cannot stream.
AbandonBeforeDispatch(r) ==
  /\ At(r, "pre")
  /\ CompleteWith(r, req[r], 1)
  /\ UNCHANGED <<vars, truth, view>>

BeginForward(r) ==
  /\ At(r, "pre")
  /\ \E n \in 0..MaxAttempts, stream \in BOOLEAN :
       req' = [req EXCEPT ![r].pc = "dispatch", ![r].left = n,
                          ![r].stream = stream]
  /\ UNCHANGED <<vars, truth, view>>

-----------------------------------------------------------------------------
(***************************************************************************)
(* The failover loop.                                                       *)
(***************************************************************************)
\* No forwarder for the candidate, or it does not serve the model.
SkipCandidate(r) ==
  /\ At(r, "dispatch")
  /\ req[r].left > 0
  /\ req' = [req EXCEPT ![r].left = @ - 1]
  /\ UNCHANGED <<vars, truth, view>>

CallUpstream(r) ==
  /\ At(r, "dispatch")
  /\ req[r].left > 0
  /\ DispatchAllowed(r)
  /\ \/ MarkDispatched(r)
     \/ reservations[r].status = "dispatched" /\ UNCHANGED vars
  /\ req' = [req EXCEPT ![r].pc = "calling", ![r].left = @ - 1]
  /\ UNCHANGED <<truth, view>>

\* BeforeUpstream returned an error: conflict, store failure or lost answer.
DispatchMarkFails(r) ==
  /\ At(r, "dispatch")
  /\ req[r].left > 0
  /\ UNCHANGED vars \/ MarkDispatched(r)
  /\ ForwardFailed(r)
  /\ UNCHANGED <<truth, view>>

CandidatesExhausted(r) ==
  /\ At(r, "dispatch")
  /\ req[r].left = 0
  /\ ForwardFailed(r)
  /\ UNCHANGED <<vars, truth, view>>

\* Mutant: success clears earlier doubt without recording the risk.
SucceededForgetsRisk(c) == [c EXCEPT !.chargePossible = TRUE, !.uncertain = FALSE]

\* accountUpstreamResult on success: earlier doubt becomes a recorded risk.
Succeeded(c) ==
  [c EXCEPT !.chargePossible = TRUE, !.risk = @ \/ c.uncertain,
            !.uncertain = FALSE]

\* Mutant: a failed attempt is taken not to have been charged.
FailureChargesNothing(c) == [c EXCEPT !.uncertain = TRUE]

\* accountUpstreamResult on a timeout, 5xx or transport error.
MayHaveCharged(c) == [c EXCEPT !.chargePossible = TRUE, !.uncertain = TRUE]

\* A complete answer, with its usage or without.
UpstreamAnswers(r) ==
  /\ At(r, "calling")
  /\ ~req[r].stream
  /\ \E n \in Amount, usage \in Cost :
       /\ usage \in {n, NoUsage}
       /\ CompleteWith(r, [Succeeded(req[r]) EXCEPT !.usage = usage], 2)
       /\ truth' = [truth EXCEPT ![r].consumed = TRUE, ![r].cost = n]
  /\ UNCHANGED <<vars, view>>

StreamOpens(r) ==
  /\ At(r, "calling")
  /\ req[r].stream
  /\ req' = [req EXCEPT ![r] = [Succeeded(req[r]) EXCEPT !.pc = "streaming"]]
  /\ truth' = [truth EXCEPT ![r].consumed = TRUE]
  /\ UNCHANGED <<vars, view>>

\* 4xx with a body, or a request that could not be built: not retryable, and
\* proof that nothing was consumed.
UpstreamRejects(r) ==
  /\ At(r, "calling")
  /\ ForwardFailed(r)
  /\ UNCHANGED <<vars, truth, view>>

\* A timeout, 5xx, broken transport or unreadable answer: on to the next
\* candidate.
UpstreamFails(r) ==
  /\ At(r, "calling")
  /\ req' = [req EXCEPT ![r] = [MayHaveCharged(req[r]) EXCEPT !.pc = "dispatch"]]
  /\ \/ UNCHANGED truth
     \/ truth' = [truth EXCEPT ![r].consumed = TRUE, ![r].stray = TRUE]
  /\ UNCHANGED <<vars, view>>

(***************************************************************************)
(* The relay ends: at end of stream or because the client left (usage seen  *)
(* or not), or because the upstream broke off, which casts doubt even on    *)
(* usage already seen.                                                      *)
(***************************************************************************)
StreamEnds(r) ==
  /\ At(r, "streaming")
  /\ \E n \in Amount, usage \in Cost, broken \in BOOLEAN :
       /\ usage \in {n, NoUsage}
       /\ CompleteWith(r, [req[r] EXCEPT !.usage = usage, !.uncertain = broken],
                       2)
       /\ truth' = [truth EXCEPT ![r].cost = n]
  /\ UNCHANGED <<vars, view>>

-----------------------------------------------------------------------------
(***************************************************************************)
(* settle: choose the outcome and hand it to Finish.  A usage whose price   *)
(* is not in the frozen snapshot, or whose cost overflows, has the outcome  *)
(* of a missing usage: NoUsage stands for these too.                        *)
(***************************************************************************)
Outcome(c) ==
  IF ~c.chargePossible /\ c.usage = NoUsage THEN "released"
  ELSE IF c.uncertain \/ c.usage = NoUsage THEN "unknown"
  ELSE "known"

SettlementOf(c) ==
  IF Outcome(c) = "known"
  THEN [outcome |-> "known", actual |-> c.usage, usage |-> TRUE, risk |-> c.risk]
  ELSE [NoResult EXCEPT !.outcome = "released"]

SettleReturns(r, ok) ==
  req' = [req EXCEPT ![r].tries = @ - 1,
                     ![r].pc = IF ok \/ req[r].tries = 1 THEN "done" ELSE "settle"]

FinishUnknown(r) ==
  /\ At(r, "settle")
  /\ Outcome(req[r]) = "unknown"
  /\ \/ MarkUnknown(r)
     \/ /\ reservations[r].status \in {"unknown", "released_unknown"}
        /\ UNCHANGED vars
  /\ SettleReturns(r, TRUE)
  /\ UNCHANGED <<truth, view>>

\* Phase one, or its replay by the deferred second settle.
FinishPersists(r) ==
  /\ At(r, "settle")
  /\ Outcome(req[r]) # "unknown"
  /\ \/ PersistResult(r, SettlementOf(req[r]))
     \/ reservations[r].result = SettlementOf(req[r]) /\ UNCHANGED vars
  /\ Goto(r, "applying")
  /\ UNCHANGED <<truth, view>>

FinishApplies(r) ==
  /\ At(r, "applying")
  /\ ApplyPending(r) \/ (reservations[r].applied /\ UNCHANGED vars)
  /\ SettleReturns(r, TRUE)
  /\ UNCHANGED <<truth, view>>

\* A conflict or store failure in either phase; the last disjuncts are commits
\* whose answer was lost.
FinishFails(r) ==
  /\ \/ (At(r, "settle") \/ At(r, "applying")) /\ UNCHANGED vars
     \/ /\ At(r, "settle")
        /\ Outcome(req[r]) # "unknown"
        /\ PersistResult(r, SettlementOf(req[r]))
     \/ At(r, "settle") /\ Outcome(req[r]) = "unknown" /\ MarkUnknown(r)
  /\ SettleReturns(r, FALSE)
  /\ UNCHANGED <<truth, view>>

\* The process dies; a call in flight may or may not consume tokens.
Crash(r) ==
  /\ req[r].pc \notin {"idle", "done", "crashed"}
  /\ Goto(r, "crashed")
  /\ \/ UNCHANGED truth
     \/ At(r, "calling") /\ truth' = [truth EXCEPT ![r].consumed = TRUE,
                                                   ![r].stray = TRUE]
  /\ UNCHANGED <<vars, view>>

-----------------------------------------------------------------------------
(***************************************************************************)
(* The operator reads a row and later resolves it under that version.       *)
(***************************************************************************)
OperatorReads(r) ==
  /\ view' = [view EXCEPT ![r] = reservations[r]]
  /\ UNCHANGED <<vars, req, truth>>

OperatorResolves(r) ==
  /\ view[r].version > 0
  /\ \E action \in {"settle", "release", "release_unknown"}, n \in Amount :
       Resolve(r, action, n, view[r].version)
  /\ UNCHANGED <<req, truth, view>>

HandlerStep(r) ==
  \/ ReserveAccounted(r) \/ AbandonBeforeDispatch(r) \/ BeginForward(r)
  \/ SkipCandidate(r) \/ CallUpstream(r) \/ DispatchMarkFails(r)
  \/ CandidatesExhausted(r)
  \/ UpstreamAnswers(r) \/ StreamOpens(r) \/ UpstreamRejects(r)
  \/ UpstreamFails(r) \/ StreamEnds(r)
  \/ FinishUnknown(r) \/ FinishPersists(r) \/ FinishApplies(r)
  \/ FinishFails(r)

\* RetryPending and MarkStale.
Recover ==
  /\ \/ \E r \in Reservation : ApplyPending(r)
     \/ \E rs \in SUBSET Reservation : MarkStale(rs)
  /\ UNCHANGED <<req, truth, view>>

Administer == (AdminStep \/ Rollover) /\ UNCHANGED <<req, truth, view>>

RequestNext ==
  \/ \E r \in Reservation :
       HandlerStep(r) \/ Crash(r) \/ OperatorReads(r) \/ OperatorResolves(r)
  \/ Recover
  \/ Administer

RequestSpec == RequestInit /\ [][RequestNext]_requestVars

-----------------------------------------------------------------------------
ResolvedByOperator(r) == events.resolutions[r] > 0

\* Tokens that an upstream consumed are never refunded on the gateway's own
\* account: whatever attempts failed, crashed or lost their answer, only an
\* operator's audited decision releases such a reservation
\* (settle's "released" outcome against accountUpstreamResult).
ConsumedNeverReleasedSilently ==
  \A r \in Reservation :
    truth[r].consumed /\ reservations[r].status = "released"
      => ResolvedByOperator(r)

\* A reservation the gateway settled was charged exactly what the answering
\* attempt cost, and tokens burnt by earlier attempts are on record as an
\* attempt_risk event (failover success clears BillingUncertain).
SettledAtTrueCost ==
  \A r \in Reservation :
    reservations[r].status = "settled" /\ ~ResolvedByOperator(r) =>
      /\ reservations[r].result.actual = truth[r].cost
      /\ truth[r].stray => events.risks[r] = 1

\* Optimistic locking is sound: an operator whose version still matches is
\* looking at exactly the row it is about to resolve.
VersionDetectsChange ==
  \A r \in Reservation :
    view[r].version = reservations[r].version => view[r] = reservations[r]

=============================================================================
