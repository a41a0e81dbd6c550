----------------------------- MODULE MCMotorHal -----------------------------
(* Instances of MotorHal for TLC: one application thread (MCMotorHal) and  *)
(* two of different priorities (MCMotorHalStop).                           *)
EXTENDS MotorHal

PrioOne == [t \in Threads |-> 10]
PrioTwo == [t \in Threads |-> IF t = "visual" THEN 10 ELSE 20]
OneThread == {"main"}
TwoThreads == {"main", "visual"}
=============================================================================
