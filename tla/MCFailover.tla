----------------------------- MODULE MCFailover -----------------------------
(***************************************************************************)
(* Model instances of Failover: two providers, of which p1 has an endpoint  *)
(* of its own for each ingress protocol and is named twice by the route; the *)
(* calls of one request to p2 are the only ones that a timeout limits.      *)
(***************************************************************************)
EXTENDS Failover

CONSTANTS q1, q2, p1, p2, e1, e2, openai, anthropic

Twice == <<p1, p2, p1>>
OwnEndpoints ==
  [p \in Provider |-> [proto \in Protocol |->
     IF p = p1 /\ proto = anthropic THEN e2 ELSE e1]]
SecondLimited == {<<p2, e1>>}
FirstUnusable == {<<p1, e1>>}

=============================================================================
