------------------------------ MODULE MCDjCan ------------------------------
(* Instances of DjCan for TLC. MCDjCanTurns: one motor on each frame, the  *)
(* rotor of the one on frame 0x200 turning. MCDjCanGate: two motors on     *)
(* frame 0x200, so that one can cause the frame that carries the other's   *)
(* current; their rotors rest. MCDjCanGroupsCal: one motor on each frame,  *)
(* rotors at rest.                                                         *)
EXTENDS DjCan

NoMotor == {}
Motor0 == {0}
Motors01 == {0, 1}
=============================================================================
