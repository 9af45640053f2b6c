-------------------------- MODULE AccountingLedger --------------------------
(***************************************************************************)
(* The refinement mapping from the spend store to SpendLedger.              *)
(***************************************************************************)
EXTENDS Accounting

\* The state of the claim that a reservation row stands for.  Dispatching and
\* parking a reservation do not change it.
ClaimState(row) ==
  CASE row.status = "none" -> "none"
    [] row.applied -> "closed"
    [] ~row.applied /\ row.result # NoResult -> "due"
    [] row.status = "released_unknown" /\ row.result = NoResult -> "risk"
    [] row.status \in Open /\ row.result = NoResult -> "open"

\* The money the claim has in each of its pots.
ClaimHold(row) ==
  IF row.status \in Open
  THEN row.estimate
  ELSE IF row.status = "settled" THEN row.result.actual ELSE 0

Claim(row, its) ==
  [state |-> ClaimState(row), pots |-> {p \in Pot : its[p].on},
   hold |-> ClaimHold(row), charge |-> row.result.actual]

Claims == [r \in Reservation |-> Claim(reservations[r], items[r])]

\* The money missing from each pot.
Taken ==
  [p \in Pot |->
     IF p \in Scope
     THEN deposited[p] - quotas[p].balance
     ELSE accounts[p].reserved + accounts[p].committed]

Ledger == INSTANCE SpendLedger WITH claims <- Claims, taken <- Taken

\* The two-phase settlement over quotas, period accounts and items, with its
\* crashes, retries, stale scans, late charges and operators, is an
\* implementation of the one-step ledger: each claim takes and returns the same
\* amount in all of its pots at once, is decided once and closed once at what
\* was decided (Reserve, Finish, RetryPending and Resolve of AccountingRepo).
ImplementsLedger == Ledger!Spec

=============================================================================
