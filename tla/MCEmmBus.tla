------------------------------ MODULE MCEmmBus ------------------------------
(* Instances of EmmBus for TLC: a timely line that loses requests and      *)
(* bytes (MCEmmBus), and a line on which replies may come late             *)
(* (MCEmmBusLate; Alike is its symmetry, no fairness there).               *)
EXTENDS EmmBus, TLC

CONSTANTS t1, t2, m1, m2

VelOther == {"vel", "other"}
Alike == Permutations({t1, t2}) \cup Permutations({m1, m2})
=============================================================================
