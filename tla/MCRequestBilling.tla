-------------------------- MODULE MCRequestBilling --------------------------
(* Model instances of RequestBilling. *)
EXTENDS RequestBilling

CONSTANTS r1, s1, usd

AllScopes == [r \in Reservation |-> Scope]
NoPolicies == [r \in Reservation |-> {}]
NoPolicyData == [p \in {} |-> {}]

=============================================================================
