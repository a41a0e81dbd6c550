---------------------------- MODULE MCAbusTopic ----------------------------
(* An instance of AbusTopic for TLC: two publishers (the chassis thread    *)
(* and main) and one accounter, which may subscribe again, with a fifo and *)
(* either a callback of its own or an asynchronous subscription.           *)
EXTENDS AbusTopic

FifoBoth == [acc : {"acc"}, fifo : {TRUE}, cb : {"user", "notify"}]
Messages == [p \in Publishers |-> IF p = "chassis" THEN 3 ELSE 1]
=============================================================================
