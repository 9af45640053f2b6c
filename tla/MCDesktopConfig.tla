-------------------------- MODULE MCDesktopConfig --------------------------
(* Instances of DesktopConfig for TLC. *)
EXTENDS DesktopConfig, TLC

CONSTANTS p1, p2, a1, env, plain, unset, r1, r2, l1, l2

MCInitSetting == [gateway |-> "g1", trace |-> "on"]
MCSetting == {MCInitSetting, [gateway |-> "g2", trace |-> "off"]}

Symmetric == Permutations({r1, r2})
=============================================================================
