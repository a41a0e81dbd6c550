------------------------------ MODULE MotorHal ------------------------------
(***************************************************************************)
(* The motor layer (motor.c) for one motor: the setters application        *)
(* threads call, and motor_handle, which the driver thread runs for every  *)
(* frame of the motor.                                                     *)
(*                                                                         *)
(* flag_run_mode and flag_is_stop are bit-fields of one byte, so writing   *)
(* one of them loads and stores both. The driver thread is the most urgent *)
(* one: motor_handle comes between any two steps of a setter, no step of a *)
(* setter comes within it.                                                 *)
(*                                                                         *)
(* Targets and outputs carry what they were computed from: the command or  *)
(* the curve at the head of the cascade of control loops, and their unit.  *)
(* A curve is the number of handlings it still takes here; Trajectory has  *)
(* its positions.                                                          *)
(***************************************************************************)
EXTENDS Integers, FiniteSets

CONSTANTS
  Threads,      \* application threads
  Prio,         \* their priorities; a lower number is more urgent
  Values,       \* values that can be commanded
  Level,        \* flag_accept_level: 0 none, 1 torque, 2 speed, 3 position
  RatioPos,     \* handlings per run of the position loop
  RatioSpeed,   \* handlings per run of the speed loop
  CurveSteps,   \* bound: handlings a planned curve takes
  Curves        \* curves that are planned: 0 where ops->curve is not used

ASSUME MotorHalAssumption ==
  /\ Prio \in [Threads -> Nat]
  /\ Level \in 0 .. 3
  /\ RatioPos \in 1 .. 15 /\ RatioSpeed \in 1 .. 15
  /\ CurveSteps \in Nat /\ Curves \in Nat

Modes == {"torque", "speed", "pos"}
RunModes == Modes \cup {"idel"}

(* What a target or an output stems from.                                  *)
Sources == Values \cup {"none", "curve"}
Units == Modes \cup {"none"}
Targets == [source : Sources, mode : Units]
Outputs == [source : Sources, mode : Units, unit : Units]

Nothing == [source |-> "none", mode |-> "none"]
NoOutput == [source |-> "none", mode |-> "none", unit |-> "none"]

FlagsInit == [run_mode |-> "idel", is_stop |-> FALSE]
Byte == [run_mode : RunModes, is_stop : BOOLEAN]

(* Operations of an application thread.                                    *)
Set == [op : Modes, value : Values]
NoOp == [op |-> "none"]
Operations == Set \cup {[op |-> "stop"], [op |-> "start"]}

VARIABLES
  pc,           \* per thread: "idle", "load", "store" or "target"
  todo,         \* per thread: the operation it carries out
  reg,          \* per thread: the byte it has loaded
  flags,        \* the byte of the bit-fields
  tar,          \* tar_torque, tar_speed and tar_pos
  acc_out,
  time,         \* modulo the two ratios
  curve,        \* handlings the curve still takes; 0 while maxTimes is 0
  planned,      \* curves planned so far
  commanded,    \* ghost: the setter that has returned last
  stopped,      \* ghost: motor_stop has returned, and no motor_start since
  settled       \* ghost: handlings since commanded, or start, or the curve
                \* has changed, up to Settle

threads == <<pc, todo, reg>>
motor == <<flags, tar, acc_out, time, curve>>
ghosts == <<planned, commanded, stopped, settled>>
vars == <<threads, motor, ghosts>>

(* A command waits for the next run of the position loop, and the speed    *)
(* loop has run with it RatioSpeed - 1 handlings later at the latest.       *)
Settle == RatioPos + RatioSpeed - 1
Cycle == RatioPos * RatioSpeed

TypeOK ==
  /\ pc \in [Threads -> {"idle", "load", "store", "target"}]
  /\ todo \in [Threads -> Operations \cup {NoOp}]
  /\ reg \in [Threads -> Byte]
  /\ flags \in Byte
  /\ tar \in [Modes -> Targets]
  /\ acc_out \in Outputs
  /\ time \in 0 .. Cycle - 1
  /\ curve \in 0 .. CurveSteps
  /\ planned \in 0 .. Curves
  /\ commanded \in Targets
  /\ stopped \in BOOLEAN
  /\ settled \in 0 .. Settle

Init ==
  /\ pc = [t \in Threads |-> "idle"]
  /\ todo = [t \in Threads |-> NoOp]
  /\ flags = FlagsInit
  /\ reg = [t \in Threads |-> FlagsInit]
  /\ tar = [m \in Modes |-> Nothing]
  /\ acc_out = NoOutput
  /\ time = 0 /\ curve = 0
  /\ planned = 0 /\ commanded = Nothing /\ stopped = FALSE /\ settled = 0

-----------------------------------------------------------------------------
(* A thread runs only while no more urgent one is within an operation.     *)
Runs(t) == \A u \in Threads : pc[u] = "idle" \/ Prio[t] <= Prio[u]

Begin(t, o) ==
  /\ pc[t] = "idle" /\ Runs(t)
  /\ todo' = [todo EXCEPT ![t] = o]
  /\ pc' = [pc EXCEPT ![t] = "load"]
  /\ UNCHANGED <<reg, motor, ghosts>>

Return(t) ==
  /\ pc' = [pc EXCEPT ![t] = "idle"]
  /\ todo' = [todo EXCEPT ![t] = NoOp]
  /\ reg' = [reg EXCEPT ![t] = FlagsInit]

(* Loading the byte of the bit-fields.                                     *)
Load(t) ==
  /\ pc[t] = "load" /\ Runs(t)
  /\ reg' = [reg EXCEPT ![t] = flags]
  /\ pc' = [pc EXCEPT ![t] = "store"]
  /\ UNCHANGED <<todo, motor, ghosts>>

(* motor_start and motor_stop, which end with the store.                   *)
StoreStop(t) ==
  /\ pc[t] = "store" /\ Runs(t)
  /\ todo[t].op \in {"stop", "start"}
  /\ flags' = [reg[t] EXCEPT !.is_stop = (todo[t].op = "stop")]
  /\ stopped' = (todo[t].op = "stop")
  /\ settled' = 0
  /\ Return(t)
  /\ UNCHANGED <<tar, acc_out, time, curve, planned, commanded>>

(* Mutated: a setter takes the motor out of its stop.                      *)
StoreModeStarts(t) ==
  /\ pc[t] = "store" /\ Runs(t)
  /\ todo[t].op \in Modes
  /\ flags' = [run_mode |-> todo[t].op, is_stop |-> FALSE]
  /\ pc' = [pc EXCEPT ![t] = "target"]
  /\ UNCHANGED <<todo, reg, tar, acc_out, time, curve, ghosts>>

(* motor_set_speed and its like write the mode first ...                   *)
StoreMode(t) ==
  /\ pc[t] = "store" /\ Runs(t)
  /\ todo[t].op \in Modes
  /\ flags' = [reg[t] EXCEPT !.run_mode = todo[t].op]
  /\ pc' = [pc EXCEPT ![t] = "target"]
  /\ UNCHANGED <<todo, reg, tar, acc_out, time, curve, ghosts>>

(* ... and the target of that mode afterwards.                             *)
StoreTarget(t) ==
  LET target == [source |-> todo[t].value, mode |-> todo[t].op] IN
  /\ pc[t] = "target" /\ Runs(t)
  /\ tar' = [tar EXCEPT ![todo[t].op] = target]
  /\ commanded' = target
  /\ settled' = 0
  /\ Return(t)
  /\ UNCHANGED <<flags, acc_out, time, curve, planned, stopped>>

(* motor_set_pos_plan, in one step: a curve is planned and its first       *)
(* point becomes tar_pos; the mode stays what it is.                       *)
Plan(t) ==
  /\ pc[t] = "idle" /\ Runs(t)
  /\ planned < Curves
  /\ planned' = planned + 1
  /\ curve' = CurveSteps
  /\ tar' = [tar EXCEPT !["pos"] = [source |-> "curve", mode |-> "pos"]]
  /\ settled' = 0
  /\ UNCHANGED <<threads, flags, acc_out, time, commanded, stopped>>

-----------------------------------------------------------------------------
PosTime == time' % RatioPos = 0
SpeedTime == time' % RatioSpeed = 0

(* tar after the curve, if it runs, has overwritten the target of the mode *)
(* that is on.                                                             *)
AfterCurve ==
  IF curve > 0 /\ flags.run_mode \in Modes
  THEN [tar EXCEPT ![flags.run_mode] = [source |-> "curve", mode |-> "pos"]]
  ELSE tar

(* A control loop passes on what its target stems from.                    *)
PosLoop(s) == IF PosTime THEN [s EXCEPT !["speed"] = s["pos"]] ELSE s
SpeedLoop(s) == IF SpeedTime THEN [s EXCEPT !["torque"] = s["speed"]] ELSE s

(* Mutated: the cascade runs from the inner loop outwards.                 *)
CascadeInnerFirst(s) ==
  IF flags.run_mode = "pos" /\ Level < 2 THEN PosLoop(SpeedLoop(s))
  ELSE IF flags.run_mode = "pos" /\ Level = 2 THEN PosLoop(s)
  ELSE IF flags.run_mode = "speed" /\ Level < 2 THEN SpeedLoop(s)
  ELSE s

(* motor_behiver_1 .. 4: the loops above the level the driver accepts.     *)
Cascade(s) ==
  IF flags.run_mode = "pos" /\ Level < 2 THEN SpeedLoop(PosLoop(s))
  ELSE IF flags.run_mode = "pos" /\ Level = 2 THEN PosLoop(s)
  ELSE IF flags.run_mode = "speed" /\ Level < 2 THEN SpeedLoop(s)
  ELSE s

(* Mutated: the target of the mode itself is put out.                      *)
OutputOwn(s) ==
  [source |-> s[flags.run_mode].source,
   mode |-> s[flags.run_mode].mode,
   unit |-> flags.run_mode]

(* The target acc_out is taken from. At level 0 the torque loop comes in   *)
(* between.                                                                *)
Output(s) ==
  LET of == IF Level < 2 THEN "torque"
            ELSE IF Level = 2 /\ flags.run_mode = "pos" THEN "speed"
            ELSE flags.run_mode
  IN [source |-> s[of].source, mode |-> s[of].mode,
      unit |-> IF Level = 0 THEN "none" ELSE of]

(* Mutated: the curve advances without a look at maxTimes.                 *)
CurveLeftUnguarded == curve - 1

CurveLeft == IF curve > 0 THEN curve - 1 ELSE 0

(* motor_handle(id, 1) up to the call of the driver.                       *)
Handle ==
  /\ time' = (time + 1) % Cycle
  /\ \/ /\ flags.is_stop
        /\ acc_out' = NoOutput
        /\ UNCHANGED <<tar, curve>>
     \/ /\ ~flags.is_stop /\ flags.run_mode = "idel"
        /\ UNCHANGED <<tar, acc_out, curve>>
     \/ /\ ~flags.is_stop /\ flags.run_mode # "idel"
        /\ tar' = Cascade(AfterCurve)
        /\ acc_out' = Output(tar')
        /\ curve' = CurveLeft
  /\ settled' = IF curve > 0 THEN 0 ELSE IF settled < Settle THEN settled + 1 ELSE Settle
  /\ UNCHANGED <<threads, flags, planned, commanded, stopped>>

-----------------------------------------------------------------------------
Next ==
  \/ \E t \in Threads :
       \/ \E o \in Operations : Begin(t, o)
       \/ Load(t)
       \/ StoreStop(t)
       \/ StoreMode(t)
       \/ StoreTarget(t)
       \/ Plan(t)
  \/ Handle

Spec == Init /\ [][Next]_vars

-----------------------------------------------------------------------------
(***************************************************************************)
(* Properties                                                              *)
(***************************************************************************)

Quiet == \A t \in Threads : pc[t] = "idle"

(* "emergency stop" (MOTOR_MODE_SAFETY_STOP, which calls motor_stop): from *)
(* the return of motor_stop to the store of motor_start the motor layer    *)
(* lets nothing through, whatever other setters are called.                *)
StopHeld == stopped => flags.is_stop

(* Once a command has returned and the loops have each run since, the      *)
(* output stems from that command and from nothing older: no loop passes   *)
(* on a target left by another mode. A planned curve that is running or    *)
(* has run in the meantime takes the place of the command.                 *)
CommandReached ==
  settled = Settle /\ Quiet /\ planned = 0 /\ ~stopped /\ commanded # Nothing =>
    acc_out.source = commanded.source /\ acc_out.mode = commanded.mode

(* "records the current output mode" (flag_out_mode, which motor_handle    *)
(* hands to the driver with acc_out): the driver is given a value of the   *)
(* unit it is told.                                                        *)
OutMode == IF Level = 0 THEN "none" ELSE IF Level = 1 THEN "torque"
           ELSE IF Level = 2 THEN "speed" ELSE "pos"

OutputInOutMode == acc_out # NoOutput => acc_out.unit = OutMode
=============================================================================
