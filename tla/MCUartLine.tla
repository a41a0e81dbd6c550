----------------------------- MODULE MCUartLine -----------------------------
(* An instance of UartLine for TLC. The data of some frames has delimiters *)
(* in it: the two that start a frame where the device can send both in a   *)
(* row, and in the next frame the one that ends the false frame; one of    *)
(* those that start a frame otherwise.                                     *)
EXTENDS UartLine

Numbers == [dev \in Decoding |-> IF dev = "imu" THEN 4 ELSE 2]

Disguised(dev, n, i) ==
  CASE n = 0 /\ i = 1 /\ dev \in {"ibus", "imu"} -> Before[dev][1]
    [] n = 0 /\ i \in 2 .. 3 /\ dev \in {"flow", "action"} -> Before[dev][i - 1]
    [] n = 1 /\ i = 1 /\ dev = "flow" -> "55"
    [] OTHER -> "-"

(* The data that the device attached to the line of action, and camera,    *)
(* send here keeps to what OnlyWhole is proved from.                       *)
ASSUME MCUartLineAssumption == NoFalseFrame /\ CameraText
=============================================================================
