--------------------------- MODULE MotorHalProofs ---------------------------
(***************************************************************************)
(* Proofs about MotorHal for any ratios of the loops, any values and any   *)
(* curves. The types and the unit of the output need nothing of the        *)
(* threads. That a stop is kept and that a command reaches the output      *)
(* holds for at most one application thread (OneThread): with two, the     *)
(* read-modify-write of the bit-fields loses one of them, which            *)
(* MCMotorHalStop shows.                                                   *)
(***************************************************************************)
EXTENDS MotorHal, TLAPS

OneThread == \A t, u \in Threads : t = u

(* motor_behiver_1 and _2: the torque loop is the innermost one that runs  *)
(* here, acc_out is taken from its target whatever the mode. Every DJI     *)
(* motor of motor_cfg.c is of this kind (MOTOR_CONTROL_SUPPORT_TORQUE);    *)
(* the stepper is not (MOTOR_CONTROL_SUPPORT_POS).                         *)
TorqueInnermost == Level < 2

-----------------------------------------------------------------------------
(***************************************************************************)
(* The counter the loops take their turn from.                             *)
(***************************************************************************)

LEMMA NextPhase ==
  ASSUME NEW r \in 1 .. 15, NEW s \in 1 .. 15, NEW x \in 0 .. r * s - 1
  PROVE  /\ x % r \in 0 .. r - 1
         /\ (x + 1) % r = IF x % r = r - 1 THEN 0 ELSE (x % r) + 1
         /\ x + 1 = r * s => x % r = r - 1
OBVIOUS

LEMMA Remainder ==
  ASSUME NEW a \in Nat, NEW r \in 1 .. 15
  PROVE  a % r \in Nat
OBVIOUS

LEMMA Wrap ==
  ASSUME NEW n \in Nat \ {0}, NEW a \in 0 .. n
  PROVE  a % n = IF a = n THEN 0 ELSE a
OBVIOUS

LEMMA CycleType ==
  /\ RatioPos \in 1 .. 15 /\ RatioSpeed \in 1 .. 15
  /\ Cycle \in Nat \ {0}
  /\ Cycle = RatioPos * RatioSpeed /\ Cycle = RatioSpeed * RatioPos
<1>1. RatioPos \in 1 .. 15 /\ RatioSpeed \in 1 .. 15
  BY MotorHalAssumption
<1> QED BY <1>1 DEF Cycle

(* A handling advances the phase of either loop by one, and the loop runs  *)
(* when its phase comes back to zero.                                      *)
LEMMA Phases ==
  ASSUME time \in 0 .. Cycle - 1, time' = (time + 1) % Cycle
  PROVE  /\ time' \in 0 .. Cycle - 1
         /\ time % RatioPos \in 0 .. RatioPos - 1
         /\ time % RatioSpeed \in 0 .. RatioSpeed - 1
         /\ time' % RatioPos = IF time % RatioPos = RatioPos - 1 THEN 0 ELSE (time % RatioPos) + 1
         /\ time' % RatioSpeed
              = IF time % RatioSpeed = RatioSpeed - 1 THEN 0 ELSE (time % RatioSpeed) + 1
<1> DEFINE n == Cycle
<1>1. n \in Nat \ {0} /\ time \in 0 .. n - 1 /\ time + 1 \in 0 .. n
  BY CycleType
<1>2. time' = IF time + 1 = n THEN 0 ELSE time + 1
  <2> HIDE DEF n
  <2>1. (time + 1) % n = IF time + 1 = n THEN 0 ELSE time + 1
    BY <1>1, Wrap
  <2> QED BY <2>1 DEF n
<1>3. /\ time % RatioPos \in 0 .. RatioPos - 1
      /\ (time + 1) % RatioPos = IF time % RatioPos = RatioPos - 1 THEN 0 ELSE (time % RatioPos) + 1
      /\ time + 1 = n => time % RatioPos = RatioPos - 1
  <2>1. time \in 0 .. RatioPos * RatioSpeed - 1
    BY <1>1, CycleType
  <2>2. n = RatioPos * RatioSpeed
    BY CycleType
  <2> HIDE DEF n
  <2> QED BY <2>1, <2>2, CycleType, NextPhase
<1>4. /\ time % RatioSpeed \in 0 .. RatioSpeed - 1
      /\ (time + 1) % RatioSpeed
           = IF time % RatioSpeed = RatioSpeed - 1 THEN 0 ELSE (time % RatioSpeed) + 1
      /\ time + 1 = n => time % RatioSpeed = RatioSpeed - 1
  <2>1. time \in 0 .. RatioSpeed * RatioPos - 1
    BY <1>1, CycleType
  <2>2. n = RatioSpeed * RatioPos
    BY CycleType
  <2> HIDE DEF n
  <2> QED BY <2>1, <2>2, CycleType, NextPhase
<1>5. 0 % RatioPos = 0 /\ 0 % RatioSpeed = 0
  BY CycleType
<1> HIDE DEF n
<1>6. time' \in 0 .. n - 1
  BY <1>1, <1>2
<1> QED BY <1>2, <1>3, <1>4, <1>5, <1>6 DEF n

-----------------------------------------------------------------------------
(***************************************************************************)
(* The cascade and the output.                                             *)
(***************************************************************************)

(* The cascade leaves the outermost target alone and passes each target on *)
(* to the next loop when that loop runs.                                   *)
LEMMA CascadeTargets ==
  ASSUME NEW s \in [Modes -> Targets]
  PROVE  /\ Cascade(s) \in [Modes -> Targets]
         /\ Cascade(s)["pos"] = s["pos"]
         /\ Cascade(s)["speed"]
              = IF flags.run_mode = "pos" /\ Level <= 2 /\ PosTime THEN s["pos"] ELSE s["speed"]
         /\ Cascade(s)["torque"]
              = IF flags.run_mode \in {"pos", "speed"} /\ Level < 2 /\ SpeedTime
                THEN Cascade(s)["speed"] ELSE s["torque"]
<1>1. Level \in 0 .. 3
  BY MotorHalAssumption
<1>2. Modes = {"torque", "speed", "pos"}
  BY DEF Modes
<1>3. \A f \in [Modes -> Targets] :
        /\ PosLoop(f) \in [Modes -> Targets] /\ SpeedLoop(f) \in [Modes -> Targets]
        /\ PosLoop(f)["pos"] = f["pos"] /\ PosLoop(f)["torque"] = f["torque"]
        /\ PosLoop(f)["speed"] = IF PosTime THEN f["pos"] ELSE f["speed"]
        /\ SpeedLoop(f)["pos"] = f["pos"] /\ SpeedLoop(f)["speed"] = f["speed"]
        /\ SpeedLoop(f)["torque"] = IF SpeedTime THEN f["speed"] ELSE f["torque"]
  BY <1>2 DEF PosLoop, SpeedLoop
<1>4. CASE flags.run_mode = "pos" /\ Level < 2
  <2>1. Cascade(s) = SpeedLoop(PosLoop(s))
    BY <1>4 DEF Cascade
  <2> QED BY <1>1, <1>3, <1>4, <2>1
<1>5. CASE flags.run_mode = "pos" /\ Level = 2
  <2>1. Cascade(s) = PosLoop(s)
    BY <1>5 DEF Cascade
  <2> QED BY <1>1, <1>3, <1>5, <2>1
<1>6. CASE flags.run_mode = "speed" /\ Level < 2
  <2>1. Cascade(s) = SpeedLoop(s)
    BY <1>6 DEF Cascade
  <2> QED BY <1>1, <1>3, <1>6, <2>1
<1>7. CASE ~(flags.run_mode = "pos" /\ Level <= 2) /\ ~(flags.run_mode = "speed" /\ Level < 2)
  <2>1. Cascade(s) = s
    BY <1>1, <1>7 DEF Cascade
  <2> QED BY <1>1, <1>7, <2>1
<1> QED BY <1>1, <1>4, <1>5, <1>6, <1>7

LEMMA AfterCurveType ==
  ASSUME tar \in [Modes -> Targets]
  PROVE  /\ AfterCurve \in [Modes -> Targets]
         /\ curve = 0 => AfterCurve = tar
<1>1. [source |-> "curve", mode |-> "pos"] \in Targets
  BY DEF Targets, Sources, Units, Modes
<1> QED BY <1>1 DEF AfterCurve

LEMMA OutputType ==
  ASSUME NEW s \in [Modes -> Targets], flags.run_mode \in Modes
  PROVE  /\ Output(s) \in Outputs
         /\ TorqueInnermost => Output(s).unit = OutMode
<1>1. Level \in 0 .. 3
  BY MotorHalAssumption
<1> DEFINE of == IF Level < 2 THEN "torque"
                 ELSE IF Level = 2 /\ flags.run_mode = "pos" THEN "speed"
                 ELSE flags.run_mode
<1>2. of \in Modes
  BY DEF Modes
<1>3. s[of] \in Targets
  BY <1>2
<1>4. /\ s[of].source \in Sources /\ s[of].mode \in Units
      /\ (IF Level = 0 THEN "none" ELSE of) \in Units
  BY <1>2, <1>3 DEF Targets, Units
<1>5. Output(s) = [source |-> s[of].source, mode |-> s[of].mode,
                   unit |-> IF Level = 0 THEN "none" ELSE of]
  BY DEF Output
<1>6. TorqueInnermost => (IF Level = 0 THEN "none" ELSE of) = OutMode
  BY <1>1 DEF TorqueInnermost, OutMode
<1> HIDE DEF of
<1> QED BY <1>4, <1>5, <1>6 DEF Outputs

-----------------------------------------------------------------------------
(***************************************************************************)
(* Types, for any threads.                                                 *)
(***************************************************************************)

(* A thread between the two stores of a setter carries out a setter.       *)
TypeInv ==
  /\ TypeOK
  /\ \A t \in Threads : pc[t] = "target" => todo[t] \in Set

LEMMA OperationKinds ==
  ASSUME NEW o \in Operations \cup {NoOp}
  PROVE  /\ o.op \in Modes => o \in Set /\ o.value \in Values
         /\ o.op \in Modes \cup {"stop", "start", "none"}
BY DEF Operations, Set, NoOp, Modes

LEMMA TypeInvInit == Init => TypeInv
<1> SUFFICES ASSUME Init PROVE TypeInv
  OBVIOUS
<1>1. time \in 0 .. Cycle - 1 /\ settled \in 0 .. Settle
  BY CycleType DEF Init, Settle
<1>2. tar \in [Modes -> Targets] /\ acc_out \in Outputs /\ commanded \in Targets
  BY DEF Init, Targets, Outputs, Sources, Units, Nothing, NoOutput
<1>3. flags \in Byte /\ reg \in [Threads -> Byte]
  BY DEF Init, FlagsInit, Byte, RunModes
<1>4. /\ pc \in [Threads -> {"idle", "load", "store", "target"}]
      /\ todo \in [Threads -> Operations \cup {NoOp}]
      /\ \A t \in Threads : pc[t] # "target"
  BY DEF Init
<1>5. curve \in 0 .. CurveSteps /\ planned \in 0 .. Curves
  BY MotorHalAssumption DEF Init
<1>6. stopped \in BOOLEAN
  BY Zenon DEF Init
<1> QED BY <1>1, <1>2, <1>3, <1>4, <1>5, <1>6 DEF TypeInv, TypeOK

LEMMA SettleType == Settle \in Nat \ {0}
BY CycleType DEF Settle

(* A handling keeps the types; acc_out is nothing, what it was, or put out *)
(* from the targets the cascade has made.                                  *)
LEMMA HandleType ==
  ASSUME TypeInv, Handle
  PROVE  /\ TypeInv'
         /\ \/ acc_out' \in {NoOutput, acc_out}
            \/ flags.run_mode \in Modes /\ acc_out' = Output(tar')
<1>1. /\ time \in 0 .. Cycle - 1 /\ flags \in Byte /\ tar \in [Modes -> Targets]
      /\ acc_out \in Outputs /\ curve \in 0 .. CurveSteps /\ settled \in 0 .. Settle
      /\ CurveSteps \in Nat
  BY MotorHalAssumption DEF TypeInv, TypeOK
<1>2. time' \in 0 .. Cycle - 1
  BY <1>1, Phases DEF Handle
<1>3. settled' \in 0 .. Settle
  BY <1>1, SettleType DEF Handle
<1>4. /\ UNCHANGED <<pc, todo, reg, flags, planned, commanded, stopped>>
  BY DEF Handle, threads
<1>5. NoOutput \in Outputs
  BY DEF NoOutput, Outputs, Sources, Units
<1>6. CASE flags.is_stop /\ acc_out' = NoOutput /\ UNCHANGED <<tar, curve>>
  BY <1>1, <1>2, <1>3, <1>4, <1>5, <1>6 DEF TypeInv, TypeOK
<1>7. CASE UNCHANGED <<tar, acc_out, curve>>
  BY <1>1, <1>2, <1>3, <1>4, <1>7 DEF TypeInv, TypeOK
<1>8. CASE /\ flags.run_mode # "idel"
           /\ tar' = Cascade(AfterCurve) /\ acc_out' = Output(tar') /\ curve' = CurveLeft
  <2>1. tar' \in [Modes -> Targets]
    BY <1>1, <1>8, AfterCurveType, CascadeTargets
  <2>2. flags.run_mode \in Modes
    BY <1>1, <1>8 DEF Byte, RunModes
  <2>3. acc_out' \in Outputs
    BY <1>8, <2>1, <2>2, OutputType
  <2>4. curve' \in 0 .. CurveSteps
    BY <1>1, <1>8 DEF CurveLeft
  <2> QED BY <1>2, <1>3, <1>4, <1>8, <2>1, <2>2, <2>3, <2>4 DEF TypeInv, TypeOK
<1> QED BY <1>6, <1>7, <1>8 DEF Handle

LEMMA ReturnType ==
  ASSUME TypeInv, NEW t \in Threads, Return(t)
  PROVE  /\ pc' \in [Threads -> {"idle", "load", "store", "target"}]
         /\ todo' \in [Threads -> Operations \cup {NoOp}]
         /\ reg' \in [Threads -> Byte]
         /\ \A u \in Threads : pc'[u] = "target" => todo'[u] \in Set
         /\ pc'[t] = "idle"
         /\ \A u \in Threads \ {t} : pc'[u] = pc[u] /\ todo'[u] = todo[u] /\ reg'[u] = reg[u]
<1>1. FlagsInit \in Byte
  BY DEF FlagsInit, Byte, RunModes
<1> QED BY <1>1 DEF Return, TypeInv, TypeOK

LEMMA TypeInvNext == TypeInv /\ [Next]_vars => TypeInv'
<1> SUFFICES ASSUME TypeInv, [Next]_vars PROVE TypeInv'
  OBVIOUS
<1>0. /\ pc \in [Threads -> {"idle", "load", "store", "target"}]
      /\ todo \in [Threads -> Operations \cup {NoOp}]
      /\ reg \in [Threads -> Byte] /\ flags \in Byte /\ tar \in [Modes -> Targets]
  BY DEF TypeInv, TypeOK
<1>1. ASSUME NEW t \in Threads, NEW o \in Operations, Begin(t, o) PROVE TypeInv'
  BY <1>0, <1>1 DEF Begin, TypeInv, TypeOK, motor, ghosts
<1>2. ASSUME NEW t \in Threads, Load(t) PROVE TypeInv'
  BY <1>0, <1>2 DEF Load, TypeInv, TypeOK, motor, ghosts
<1>3. ASSUME NEW t \in Threads, StoreStop(t) PROVE TypeInv'
  <2>1. flags' \in Byte
    BY <1>0, <1>3 DEF StoreStop, Byte
  <2>2. stopped' \in BOOLEAN /\ settled' \in 0 .. Settle
    BY <1>3, SettleType DEF StoreStop
  <2>3. Return(t) /\ UNCHANGED <<tar, acc_out, time, curve, planned, commanded>>
    BY <1>3 DEF StoreStop
  <2> QED BY <2>1, <2>2, <2>3, ReturnType DEF TypeInv, TypeOK
<1>4. ASSUME NEW t \in Threads, StoreMode(t) PROVE TypeInv'
  <2>1. todo[t].op \in Modes /\ todo[t] \in Set
    BY <1>0, <1>4, OperationKinds DEF StoreMode
  <2>2. flags' \in Byte
    BY <1>0, <1>4, <2>1 DEF StoreMode, Byte, RunModes
  <2> QED BY <1>0, <1>4, <2>1, <2>2 DEF StoreMode, TypeInv, TypeOK, ghosts
<1>5. ASSUME NEW t \in Threads, StoreTarget(t) PROVE TypeInv'
  <2> DEFINE target == [source |-> todo[t].value, mode |-> todo[t].op]
  <2>1. todo[t] \in Set
    BY <1>5 DEF StoreTarget, TypeInv
  <2>2. target \in Targets /\ todo[t].op \in Modes
    BY <2>1 DEF Set, Targets, Sources, Units
  <2>3. tar' \in [Modes -> Targets] /\ commanded' \in Targets
    BY <1>0, <1>5, <2>2 DEF StoreTarget
  <2>4. /\ Return(t) /\ settled' \in 0 .. Settle
        /\ UNCHANGED <<flags, acc_out, time, curve, planned, stopped>>
    BY <1>5, SettleType DEF StoreTarget
  <2> QED BY <2>3, <2>4, ReturnType DEF TypeInv, TypeOK
<1>6. ASSUME NEW t \in Threads, Plan(t) PROVE TypeInv'
  <2>1. tar' \in [Modes -> Targets]
    BY <1>0, <1>6 DEF Plan, Targets, Sources, Units, Modes
  <2>2. planned' \in 0 .. Curves /\ curve' \in 0 .. CurveSteps /\ settled' \in 0 .. Settle
    BY <1>6, SettleType, MotorHalAssumption DEF Plan, TypeInv, TypeOK
  <2> QED BY <1>6, <2>1, <2>2 DEF Plan, TypeInv, TypeOK, threads
<1>7. CASE Handle
  BY <1>7, HandleType
<1>8. CASE UNCHANGED vars
  BY <1>8 DEF vars, threads, motor, ghosts, TypeInv, TypeOK
<1> QED BY <1>1, <1>2, <1>3, <1>4, <1>5, <1>6, <1>7, <1>8 DEF Next

(* Type correctness, for any threads, ratios, values and curves.           *)
THEOREM TypeOKAlways == Spec => []TypeOK
<1>1. TypeInv => TypeOK
  BY DEF TypeInv
<1> QED BY TypeInvInit, TypeInvNext, <1>1, PTL DEF Spec

-----------------------------------------------------------------------------
(* The unit of what is put out is the one flag_out_mode names, for a       *)
(* driver that takes torques, or currents (flag_accept_level 0 or 1).      *)
THEOREM OutputInOutModeAlways == ASSUME TorqueInnermost PROVE Spec => []OutputInOutMode
<1> DEFINE Inv == TypeInv /\ OutputInOutMode
<1>1. Init => Inv
  BY TypeInvInit DEF Init, OutputInOutMode
<1>2. Inv /\ [Next]_vars => Inv'
  <2> SUFFICES ASSUME Inv, [Next]_vars PROVE OutputInOutMode'
    BY TypeInvNext
  <2>1. CASE Handle
    <3>1. \/ acc_out' \in {NoOutput, acc_out}
          \/ flags.run_mode \in Modes /\ acc_out' = Output(tar') /\ tar' \in [Modes -> Targets]
      BY <2>1, HandleType DEF TypeInv, TypeOK
    <3> QED BY <3>1, OutputType DEF OutputInOutMode, OutMode
  <2>2. CASE UNCHANGED acc_out
    BY <2>2 DEF OutputInOutMode, OutMode
  <2> QED BY <2>1, <2>2 DEF Next, vars, motor, Begin, Load, StoreStop, StoreMode, StoreTarget,
                            Plan
<1> QED BY <1>1, <1>2, PTL DEF Spec

-----------------------------------------------------------------------------
(***************************************************************************)
(* One application thread: the byte of the bit-fields.                     *)
(***************************************************************************)

(* What a setter has loaded is what it writes back, and the mode it has    *)
(* stored stays until its target is there.                                 *)
FlagsInv ==
  /\ \A t \in Threads : pc[t] = "store" => reg[t] = flags
  /\ \A t \in Threads : pc[t] = "target" => flags.run_mode = todo[t].op
  /\ stopped <=> flags.is_stop

LEMMA FlagsInvInit == Init => FlagsInv
BY DEF Init, FlagsInv, FlagsInit

LEMMA FlagsInvNext ==
  ASSUME OneThread
  PROVE  TypeInv /\ FlagsInv /\ [Next]_vars => FlagsInv'
<1> SUFFICES ASSUME TypeInv, FlagsInv, [Next]_vars PROVE FlagsInv'
  OBVIOUS
<1>0. /\ pc \in [Threads -> {"idle", "load", "store", "target"}]
      /\ todo \in [Threads -> Operations \cup {NoOp}]
      /\ reg \in [Threads -> Byte] /\ flags \in Byte
  BY DEF TypeInv, TypeOK
<1>1. ASSUME NEW t \in Threads, NEW o \in Operations, Begin(t, o) PROVE FlagsInv'
  <2>1. /\ \A u \in Threads : pc'[u] \in {"store", "target"} =>
              pc[u] = pc'[u] /\ todo'[u] = todo[u]
        /\ UNCHANGED <<reg, flags, stopped>>
    BY <1>0, <1>1 DEF Begin, motor, ghosts
  <2> QED BY <2>1 DEF FlagsInv
<1>2. ASSUME NEW t \in Threads, Load(t) PROVE FlagsInv'
  <2>1. /\ pc'[t] = "store" /\ reg'[t] = flags
        /\ UNCHANGED <<todo, flags, stopped>>
    BY <1>0, <1>2 DEF Load, motor, ghosts
  <2> QED BY <2>1 DEF FlagsInv, OneThread
<1>3. ASSUME NEW t \in Threads, StoreStop(t) PROVE FlagsInv'
  <2>1. pc'[t] = "idle"
    BY <1>3, ReturnType DEF StoreStop
  <2>2. flags'.is_stop <=> stopped'
    BY <1>0, <1>3 DEF StoreStop, Byte
  <2> QED BY <2>1, <2>2 DEF FlagsInv, OneThread
<1>4. ASSUME NEW t \in Threads, StoreMode(t) PROVE FlagsInv'
  <2>1. pc'[t] = "target" /\ todo' = todo /\ reg[t] = flags /\ stopped' = stopped
    BY <1>0, <1>4 DEF StoreMode, FlagsInv, ghosts
  <2>2. flags'.run_mode = todo[t].op /\ flags'.is_stop = flags.is_stop
    BY <1>0, <1>4, <2>1 DEF StoreMode, Byte
  <2> QED BY <2>1, <2>2 DEF FlagsInv, OneThread
<1>5. ASSUME NEW t \in Threads, StoreTarget(t) PROVE FlagsInv'
  <2>1. pc'[t] = "idle" /\ UNCHANGED <<flags, stopped>>
    BY <1>5, ReturnType DEF StoreTarget
  <2> QED BY <2>1 DEF FlagsInv, OneThread
<1>6. CASE UNCHANGED <<threads, flags, stopped>>
  BY <1>6 DEF FlagsInv, threads
<1> QED BY <1>1, <1>2, <1>3, <1>4, <1>5, <1>6
        DEF Next, Plan, Handle, vars, motor, ghosts

(* motor_stop holds until motor_start, whatever other setters that thread  *)
(* calls.                                                                  *)
THEOREM StopHeldAlways == ASSUME OneThread PROVE Spec => []StopHeld
<1>1. Init => TypeInv /\ FlagsInv
  BY TypeInvInit, FlagsInvInit
<1>2. TypeInv /\ FlagsInv /\ [Next]_vars => (TypeInv /\ FlagsInv)'
  BY TypeInvNext, FlagsInvNext
<1>3. FlagsInv => StopHeld
  BY DEF FlagsInv, StopHeld
<1> QED BY <1>1, <1>2, <1>3, PTL DEF Spec

-----------------------------------------------------------------------------
(***************************************************************************)
(* One application thread: a command on its way through the loops.         *)
(***************************************************************************)

(* A command has returned, nothing has taken its place, and no other one   *)
(* is half stored.                                                         *)
InForce ==
  commanded # Nothing /\ planned = 0 /\ \A t \in Threads : pc[t] # "target"

CommandKept ==
  /\ commanded.mode \in Modes
  /\ flags.run_mode = commanded.mode
  /\ tar[commanded.mode] = commanded

(* A target that does not stem from the command yet has waited for no more *)
(* handlings than the phase of its loop: from a full turn of the position  *)
(* loop on the speed target does, from a turn of the speed loop later the  *)
(* torque target does. What is put out is put out from them.               *)
Progress ==
  /\ commanded.mode = "pos" /\ Level <= 2 /\ tar["speed"] # commanded =>
       settled <= time % RatioPos
  /\ commanded.mode = "pos" /\ Level < 2 /\ tar["torque"] # commanded =>
       tar["speed"] # commanded \/ settled <= (time % RatioSpeed) + RatioPos - 1
  /\ commanded.mode = "speed" /\ Level < 2 /\ tar["torque"] # commanded =>
       settled <= time % RatioSpeed
  /\ settled > 0 => acc_out = Output(tar)

SettleInv ==
  /\ planned = 0 => curve = 0
  /\ InForce => CommandKept
  /\ InForce /\ ~stopped => Progress

CommandInv == TypeInv /\ FlagsInv /\ SettleInv

(* One more handling: every loop that has its turn passes the command on.  *)
LEMMA HandleProgress ==
  ASSUME CommandInv, Handle, InForce, ~stopped
  PROVE  CommandKept' /\ Progress'
<1>1. /\ time \in 0 .. Cycle - 1 /\ flags \in Byte /\ tar \in [Modes -> Targets]
      /\ settled \in 0 .. Settle /\ settled \in Int
  BY SettleType DEF CommandInv, TypeInv, TypeOK
<1>2. curve = 0 /\ CommandKept /\ Progress /\ ~flags.is_stop
  BY DEF CommandInv, SettleInv, InForce, FlagsInv
<1>3. UNCHANGED <<flags, commanded>> /\ flags.run_mode # "idel"
  BY <1>2 DEF Handle, CommandKept, Modes
<1>4. tar' = Cascade(tar) /\ acc_out' = Output(tar')
  BY <1>1, <1>2, <1>3, AfterCurveType DEF Handle
<1> DEFINE p == time % RatioPos
           q == time % RatioSpeed
           pn == time' % RatioPos
           qn == time' % RatioSpeed
           m == flags.run_mode
<1>5. /\ p \in 0 .. RatioPos - 1 /\ pn = IF p = RatioPos - 1 THEN 0 ELSE p + 1
      /\ q \in 0 .. RatioSpeed - 1 /\ qn = IF q = RatioSpeed - 1 THEN 0 ELSE q + 1
  BY <1>1, Phases DEF Handle
<1>6. /\ tar'["pos"] = tar["pos"]
      /\ tar'["speed"] = IF m = "pos" /\ Level <= 2 /\ pn = 0 THEN tar["pos"] ELSE tar["speed"]
      /\ tar'["torque"] = IF m \in {"pos", "speed"} /\ Level < 2 /\ qn = 0
                           THEN tar'["speed"] ELSE tar["torque"]
  BY <1>1, <1>4, CascadeTargets DEF PosTime, SpeedTime
<1>7. settled' <= settled + 1
  BY <1>1, <1>2, SettleType DEF Handle
<1>8. /\ m \in Modes /\ m = commanded.mode /\ tar[m] = commanded /\ commanded' = commanded
      /\ RatioPos \in 1 .. 15 /\ RatioSpeed \in 1 .. 15 /\ Level \in 0 .. 3
      /\ settled' \in Int
  BY <1>1, <1>2, <1>3, CycleType, SettleType, MotorHalAssumption DEF CommandKept, Handle
<1> HIDE DEF p, q, pn, qn
<1>9. tar'[m] = commanded
  BY <1>6, <1>8 DEF Modes
<1>10. CommandKept'
  BY <1>3, <1>8, <1>9 DEF CommandKept
<1>11. /\ m = "pos" /\ Level <= 2 /\ tar["speed"] # commanded => settled <= p
       /\ m = "pos" /\ Level < 2 /\ tar["torque"] # commanded =>
            tar["speed"] # commanded \/ settled <= q + RatioPos - 1
       /\ m = "speed" /\ Level < 2 /\ tar["torque"] # commanded => settled <= q
  BY <1>2, <1>8 DEF Progress, p, q
<1>12. m = "pos" /\ Level <= 2 /\ tar'["speed"] # commanded => settled' <= pn
  BY <1>1, <1>5, <1>6, <1>7, <1>8, <1>11
<1>13. m = "pos" /\ Level < 2 /\ tar'["torque"] # commanded =>
         tar'["speed"] # commanded \/ settled' <= qn + RatioPos - 1
  <2> SUFFICES ASSUME m = "pos", Level < 2, tar'["torque"] # commanded,
                      tar'["speed"] = commanded
               PROVE  settled' <= qn + RatioPos - 1
    OBVIOUS
  <2>1. qn # 0 /\ tar["torque"] # commanded
    BY <1>6
  <2>2. qn = q + 1
    BY <1>5, <2>1
  <2>3. CASE tar["speed"] = commanded
    BY <1>1, <1>5, <1>7, <1>8, <1>11, <2>1, <2>2, <2>3
  <2>4. CASE tar["speed"] # commanded
    <3>1. settled <= p
      BY <1>8, <1>11, <2>4
    <3> QED BY <1>1, <1>5, <1>7, <1>8, <2>2, <3>1
  <2> QED BY <2>3, <2>4
<1>14. m = "speed" /\ Level < 2 /\ tar'["torque"] # commanded => settled' <= qn
  <2> SUFFICES ASSUME m = "speed", Level < 2, tar'["torque"] # commanded
               PROVE  settled' <= qn
    OBVIOUS
  <2>1. tar'["speed"] = commanded
    BY <1>9
  <2>2. qn # 0 /\ tar["torque"] # commanded
    BY <1>6, <2>1
  <2> QED BY <1>1, <1>5, <1>7, <1>8, <1>11, <2>2
<1>15. acc_out' = Output(tar)'
  BY <1>3, <1>4 DEF Output
<1>16. Progress'
  BY <1>8, <1>12, <1>13, <1>14, <1>15 DEF Progress, pn, qn
<1> QED BY <1>10, <1>16

LEMMA SettleInvInit == Init => SettleInv
BY DEF Init, SettleInv, InForce

LEMMA SettleInvNext ==
  ASSUME OneThread
  PROVE  CommandInv /\ [Next]_vars => SettleInv'
<1> SUFFICES ASSUME CommandInv, [Next]_vars PROVE SettleInv'
  OBVIOUS
<1>0. /\ pc \in [Threads -> {"idle", "load", "store", "target"}]
      /\ todo \in [Threads -> Operations \cup {NoOp}]
      /\ reg \in [Threads -> Byte] /\ flags \in Byte /\ tar \in [Modes -> Targets]
      /\ planned \in Nat /\ TypeInv /\ FlagsInv /\ SettleInv
  BY DEF CommandInv, TypeInv, TypeOK
<1>1. TypeInv'
  BY <1>0, TypeInvNext
<1>2. settled' = 0 => Progress'   \* a command just given has waited for nothing yet
  <2>1. time' \in 0 .. Cycle - 1
    BY <1>1 DEF TypeInv, TypeOK
  <2>2. time' % RatioPos \in Nat /\ time' % RatioSpeed \in Nat
    <3>1. time' \in Nat
      BY <2>1, CycleType
    <3> QED BY <3>1, CycleType, Remainder
  <2> QED BY <2>2, CycleType DEF Progress
<1>3. ASSUME NEW t \in Threads, Load(t) \/ \E o \in Operations : Begin(t, o)
      PROVE  SettleInv'
  <2>1. /\ UNCHANGED <<flags, tar, acc_out, time, curve, planned, commanded, stopped, settled>>
        /\ pc[t] # "target"
    BY <1>3 DEF Load, Begin, motor, ghosts
  <2>2. InForce' => InForce
    BY <2>1 DEF InForce, OneThread
  <2>3. CommandKept' = CommandKept /\ Progress' = Progress
    BY <2>1 DEF CommandKept, Progress, Output
  <2> QED BY <1>0, <2>1, <2>2, <2>3 DEF SettleInv
<1>4. ASSUME NEW t \in Threads, StoreStop(t) PROVE SettleInv'
  <2>1. /\ UNCHANGED <<tar, curve, planned, commanded>> /\ settled' = 0
        /\ pc[t] = "store" /\ reg[t] = flags
    BY <1>0, <1>4 DEF StoreStop, FlagsInv
  <2>2. flags'.run_mode = flags.run_mode
    BY <1>0, <1>4, <2>1 DEF StoreStop, Byte
  <2>3. InForce' => InForce
    BY <2>1 DEF InForce, OneThread
  <2>4. CommandKept' = CommandKept
    BY <2>1, <2>2 DEF CommandKept
  <2> QED BY <1>0, <1>2, <2>1, <2>3, <2>4 DEF SettleInv
<1>5. ASSUME NEW t \in Threads, StoreMode(t) PROVE SettleInv'
  <2>1. pc'[t] = "target" /\ UNCHANGED <<curve, planned>>
    BY <1>0, <1>5 DEF StoreMode, ghosts
  <2>2. ~InForce'
    BY <2>1 DEF InForce
  <2> QED BY <1>0, <2>1, <2>2 DEF SettleInv
<1>6. ASSUME NEW t \in Threads, StoreTarget(t) PROVE SettleInv'
  <2> DEFINE target == [source |-> todo[t].value, mode |-> todo[t].op]
  <2>1. /\ todo[t] \in Set /\ flags.run_mode = todo[t].op
        /\ UNCHANGED <<flags, curve, planned>> /\ settled' = 0
        /\ commanded' = target /\ tar' = [tar EXCEPT ![todo[t].op] = target]
    BY <1>0, <1>6 DEF StoreTarget, TypeInv, FlagsInv
  <2>2. todo[t].op \in Modes
    BY <2>1 DEF Set
  <2>3. tar'[todo[t].op] = target /\ target.mode = todo[t].op
    BY <1>0, <2>1, <2>2
  <2>4. CommandKept'
    BY <2>1, <2>2, <2>3 DEF CommandKept
  <2> QED BY <1>0, <1>2, <2>1, <2>4 DEF SettleInv
<1>7. ASSUME NEW t \in Threads, Plan(t) PROVE SettleInv'
  <2>1. planned' # 0
    BY <1>0, <1>7 DEF Plan
  <2> QED BY <2>1 DEF SettleInv, InForce
<1>8. CASE Handle
  <2>1. /\ UNCHANGED <<pc, todo, reg, flags, planned, commanded, stopped>>
        /\ curve = 0 => curve' = 0
    BY <1>8 DEF Handle, threads, CurveLeft
  <2>2. InForce' = InForce
    BY <2>1 DEF InForce
  <2>3. CASE stopped
    <3>1. tar' = tar
      BY <1>0, <1>8, <2>3 DEF Handle, FlagsInv
    <3>2. CommandKept' = CommandKept
      BY <2>1, <3>1 DEF CommandKept
    <3> QED BY <1>0, <2>1, <2>2, <2>3, <3>2 DEF SettleInv
  <2>4. CASE ~stopped
    BY <1>0, <1>8, <2>1, <2>2, <2>4, HandleProgress DEF SettleInv
  <2> QED BY <2>3, <2>4
<1>9. CASE UNCHANGED vars
  BY <1>0, <1>9 DEF vars, threads, motor, ghosts, SettleInv, InForce, CommandKept, Progress,
                    Output
<1> QED BY <1>3, <1>4, <1>5, <1>6, <1>7, <1>8, <1>9 DEF Next

(* When the loops have had their turns, nothing older than the command is  *)
(* left on the way to the output.                                          *)
LEMMA SettledReached == CommandInv => CommandReached
<1> SUFFICES ASSUME CommandInv, settled = Settle, Quiet, planned = 0, ~stopped,
                    commanded # Nothing
             PROVE  acc_out.source = commanded.source /\ acc_out.mode = commanded.mode
  BY DEF CommandReached
<1>1. InForce
  BY DEF InForce, Quiet
<1>2. /\ CommandKept /\ Progress /\ tar \in [Modes -> Targets] /\ time \in 0 .. Cycle - 1
      /\ commanded \in Targets
  BY <1>1 DEF CommandInv, SettleInv, TypeInv, TypeOK
<1> DEFINE p == time % RatioPos
           q == time % RatioSpeed
<1>3. p \in 0 .. RatioPos - 1 /\ q \in 0 .. RatioSpeed - 1
  BY <1>2, CycleType, NextPhase
<1>4. /\ RatioPos \in 1 .. 15 /\ RatioSpeed \in 1 .. 15 /\ Level \in 0 .. 3
      /\ settled = RatioPos + RatioSpeed - 1
  BY CycleType, MotorHalAssumption DEF Settle
<1> HIDE DEF p, q
<1>5. acc_out = Output(tar)
  BY <1>2, <1>4 DEF Progress
<1>6. commanded.mode = "pos" /\ Level <= 2 => tar["speed"] = commanded
  BY <1>2, <1>3, <1>4 DEF Progress, p
<1>7. commanded.mode \in Modes /\ Level < 2 => tar["torque"] = commanded
  BY <1>2, <1>3, <1>4, <1>6 DEF Progress, CommandKept, Modes, q
<1>8. \E of \in Modes :
        /\ tar[of] = commanded
        /\ Output(tar).source = tar[of].source /\ Output(tar).mode = tar[of].mode
  <2>1. CASE Level < 2
    BY <1>2, <1>7, <2>1 DEF Output, CommandKept, Modes
  <2>2. CASE Level = 2 /\ flags.run_mode = "pos"
    BY <1>2, <1>6, <2>2 DEF Output, CommandKept, Modes
  <2>3. CASE ~(Level < 2) /\ ~(Level = 2 /\ flags.run_mode = "pos")
    BY <1>2, <2>3 DEF Output, CommandKept
  <2> QED BY <2>1, <2>2, <2>3
<1> QED BY <1>5, <1>8

(* A command that has returned reaches the output within a turn of each    *)
(* loop, through whichever loops the driver leaves to the motor layer, and *)
(* nothing older comes after it.                                           *)
THEOREM CommandReachedAlways == ASSUME OneThread PROVE Spec => []CommandReached
<1>1. Init => CommandInv
  BY TypeInvInit, FlagsInvInit, SettleInvInit DEF CommandInv
<1>2. CommandInv /\ [Next]_vars => CommandInv'
  BY TypeInvNext, FlagsInvNext, SettleInvNext DEF CommandInv
<1> QED BY <1>1, <1>2, SettledReached, PTL DEF Spec

=============================================================================
