---------------------------- MODULE MCAccounting ----------------------------
(***************************************************************************)
(* Model instances of Accounting.  Every reservation belongs to a caller    *)
(* whose identity matches all scopes and all policies.                      *)
(***************************************************************************)
EXTENDS AccountingLedger, TLC

CONSTANTS r1, r2, s1, p1, usd, cny

AllScopes == [r \in Reservation |-> Scope]
AllPolicies == [r \in Reservation |-> Policy]
AllEnforce == [p \in Policy |-> "enforce"]
AllSoft == [p \in Policy |-> "soft"]
AllUsd == [p \in Policy |-> usd]
HalfAndFull == [p \in Policy |-> {50, 100}]

ReservationSymmetry == Permutations(Reservation)

=============================================================================
