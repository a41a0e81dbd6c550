---------------------------- MODULE MCTrajectory ----------------------------
(* An instance of Trajectory for TLC.                                      *)
EXTENDS Trajectory

(* Ways of at least 7 to positive targets, within whose planning the       *)
(* driver thread may come in twice, and ways to targets that are not       *)
(* positive, from 0 and undisturbed.                                       *)
Far == {w \in {0, 4, 9} \X {1, 4, 12, 20} : Abs(w[2] - w[1]) >= 7}
Back == {0} \X {-20, -12, -4, 0}
FarAndBack == Far \cup Back
BurstOnFar == [w \in FarAndBack |-> IF w \in Far THEN 2 ELSE 0]

AutoOnly == {0}
=============================================================================
