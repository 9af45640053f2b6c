------------------------ MODULE MCConfigDistribution ------------------------
(* Model instances of ConfigDistribution. *)
EXTENDS ConfigDistribution

CONSTANTS g1, v1

=============================================================================
