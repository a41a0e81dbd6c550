---------------------------- MODULE MCAbusHash ----------------------------
(* Instances of AbusHash for TLC: four names, three of which collide.      *)
EXTENDS AbusHash

FourKeys == {"k1", "k2", "k3", "k4"}
TwoAddresses == {0, 1}
Collide == [k \in FourKeys |-> IF k = "k4" THEN 1 ELSE 0]
=============================================================================
