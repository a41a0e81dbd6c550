---------------------------- MODULE Trajectory ----------------------------
(***************************************************************************)
(* The planned curve of one motor: motor_set_pos_plan, which an            *)
(* application thread runs statement by statement, and motor_planning,     *)
(* which the driver thread runs in motor_handle and which comes, whole,    *)
(* between any two statements of the application. The curve object is      *)
(* shared and has no lock.                                                 *)
(*                                                                         *)
(* Positions are integers. The sigmoid of CalCurveSPTA is replaced by a    *)
(* ramp: of its shape only this matters here, that it rises with aTimes    *)
(* and stays between the two ends. The motor is in position mode and does  *)
(* not move while motor_set_pos_plan runs, and no plan is made before the  *)
(* curve of the last has ended.                                            *)
(***************************************************************************)
EXTENDS Integers

CONSTANTS
  Ways,         \* bound: where the motor stands and where it is to go
  Given,        \* values of the argument maxTimes
  StepPos,      \* stepPos
  Plans,        \* bound: plans that are made
  Burst         \* bound, for each way: handlings by the driver within one
                \* call of motor_set_pos_plan

Intervel == 2   \* intervel

ASSUME TrajectoryAssumption ==
  /\ Ways \subseteq Int \X Int
  /\ Given \subseteq Nat /\ StepPos \in Nat \ {0}
  /\ Plans \in Nat /\ Burst \in [Ways -> Nat]

Positions == {w[1] : w \in Ways}

VARIABLES
  curve,        \* the CurveObjectType
  tar_pos, cur_pos,
  pc,           \* the next statement of motor_set_pos_plan, or "idle"
  arg,          \* its arguments
  mirrored,     \* it runs the branch for targets that are not positive
  val,          \* the value it has computed and not stored yet
  burst,        \* ghost: handlings since it has begun
  planned,      \* ghost: plans made
  nullcall      \* ghost: a call went through pCalCurve[0]

app == <<pc, arg, mirrored, val>>
vars == <<curve, tar_pos, cur_pos, app, burst, planned, nullcall>>

Init ==
  /\ curve = [aTimes |-> 0, maxTimes |-> 0, startPos |-> 0, currentPos |-> 0,
              targetPos |-> 0, curveMode |-> 0]
  /\ cur_pos \in Positions /\ tar_pos = 0
  /\ pc = "idle" /\ arg = [targetPos |-> 0, maxTimes |-> 0]
  /\ mirrored = FALSE /\ val = 0
  /\ burst = 0 /\ planned = 0 /\ nullcall = FALSE

(* What the division by maxTimes gives once it is zero.                    *)
NaN == "nan"

Abs(n) == IF n < 0 THEN -n ELSE n

-----------------------------------------------------------------------------
(***************************************************************************)
(* The statements of motor_planning, on a curve c                          *)
(***************************************************************************)

NegatedTarget(c) == [c EXCEPT !.targetPos = -@]
NegatedCurrent(c) == [c EXCEPT !.currentPos = -@]

NeedsTimes(c) == c.maxTimes = 0 /\ Abs(c.currentPos - c.startPos) <= StepPos

(* Mutated: the sign of the way is lost.                                   *)
AutoTimesSigned(c) == (((c.targetPos - c.startPos) \div StepPos) + 1) * Intervel

AutoTimes(c) == ((Abs(c.targetPos - c.startPos) \div StepPos) + 1) * Intervel

(* Mutated: the way is added to the point reached, not to the start.       *)
CalCurveFromCurrent(c) ==
  c.currentPos + ((c.targetPos - c.startPos) * (c.aTimes + 1)) \div (c.maxTimes + 1)

(* CalCurveSPTA, with the ramp.                                            *)
CalCurve(c) ==
  c.startPos + ((c.targetPos - c.startPos) * (c.aTimes + 1)) \div (c.maxTimes + 1)

(* Mutated: time stands still.                                             *)
AdvancedNot(a) == a

Advanced(a) == a + Intervel

(* Mutated: the last point of the curve is where it stays.                 *)
FinishedShort(c) == [c EXCEPT !.maxTimes = 0, !.aTimes = 0]

Finished(c) == [c EXCEPT !.currentPos = c.targetPos, !.maxTimes = 0, !.aTimes = 0]

(* MotorVelocityCurve as a whole.                                          *)
VelocityCurve(c) ==
  LET d == IF NeedsTimes(c) THEN [c EXCEPT !.maxTimes = AutoTimes(c), !.aTimes = 0] ELSE c
  IN IF d.aTimes < d.maxTimes
     THEN [d EXCEPT !.currentPos = CalCurve(d), !.aTimes = Advanced(d.aTimes)]
     ELSE Finished(d)

(* Mutated: the sign of the target is not put back.                        *)
PlanningUnrestored(c) ==
  IF c.targetPos > 0 THEN VelocityCurve(c)
  ELSE NegatedCurrent(VelocityCurve(NegatedCurrent(NegatedTarget(c))))

(* motor_planning as a whole.                                              *)
Planning(c) ==
  IF c.targetPos > 0 THEN VelocityCurve(c)
  ELSE NegatedCurrent(NegatedTarget(VelocityCurve(NegatedCurrent(NegatedTarget(c)))))

-----------------------------------------------------------------------------
(***************************************************************************)
(* The application: motor_set_pos_plan                                     *)
(***************************************************************************)

Call ==
  /\ pc = "idle" /\ planned < Plans /\ curve.maxTimes = 0
  /\ \E w \in Ways, n \in Given :
       /\ w[1] = cur_pos
       /\ arg' = [targetPos |-> w[2], maxTimes |-> n]
  /\ pc' = "times"
  /\ planned' = planned + 1
  /\ burst' = 0
  /\ UNCHANGED <<curve, tar_pos, cur_pos, mirrored, val, nullcall>>

(* One statement: store c, go on at next.                                  *)
Stmt(at, c, next) ==
  /\ pc = at
  /\ curve' = c
  /\ pc' = next
  /\ UNCHANGED <<tar_pos, cur_pos, arg, burst, planned>>

(* Mutated: the time of the way is estimated at once.                      *)
TimesEstimated(c) == [c EXCEPT !.maxTimes = AutoTimes(c)]

Times(c) == [c EXCEPT !.maxTimes = arg.maxTimes]

(* The assignments to the curve.                                           *)
Assign ==
  /\ \/ Stmt("times", [curve EXCEPT !.aTimes = 0], "target")
     \/ Stmt("target", [curve EXCEPT !.targetPos = arg.targetPos], "start")
     \/ Stmt("start", [curve EXCEPT !.startPos = cur_pos], "current")
     \/ Stmt("current", [curve EXCEPT !.currentPos = cur_pos], "max")
     \/ Stmt("max", Times(curve), "max_again")
     \/ Stmt("max_again", Times(curve), "mode")
     \/ Stmt("mode", [curve EXCEPT !.curveMode = 1], "sign")
  /\ UNCHANGED <<mirrored, val, nullcall>>

(* motor_planning up to the call of MotorVelocityCurve ...                 *)
Mirror ==
  /\ \/ /\ Stmt("sign", curve, IF curve.targetPos > 0 THEN "auto" ELSE "negate_target")
        /\ mirrored' = (curve.targetPos <= 0)
     \/ /\ \/ Stmt("negate_target", NegatedTarget(curve), "negate_current")
           \/ Stmt("negate_current", NegatedCurrent(curve), "auto")
        /\ UNCHANGED mirrored
  /\ UNCHANGED <<val, nullcall>>

(* ... and after its return.                                               *)
Restore ==
  /\ \/ Stmt("restore", curve, IF mirrored THEN "restore_target" ELSE "result")
     \/ Stmt("restore_target", NegatedTarget(curve), "restore_current")
     \/ Stmt("restore_current", NegatedCurrent(curve), "result")
  /\ UNCHANGED <<mirrored, val, nullcall>>

(* The maximal time of the curve.                                          *)
Automatic ==
  /\ \/ Stmt("auto", curve, IF NeedsTimes(curve) THEN "set_max" ELSE "test")
     \/ Stmt("set_max", [curve EXCEPT !.maxTimes = AutoTimes(curve)], "set_times")
     \/ Stmt("set_times", [curve EXCEPT !.aTimes = 0], "test")
  /\ UNCHANGED <<mirrored, val, nullcall>>

(* One point of the curve, or its end.                                     *)
Point ==
  /\ \/ /\ Stmt("test", curve, IF curve.aTimes < curve.maxTimes THEN "calculate" ELSE "finish")
        /\ UNCHANGED <<val, nullcall>>
     \/ /\ Stmt("calculate", curve, "store_current")
        /\ val' = IF curve.maxTimes = 0 THEN NaN ELSE CalCurve(curve)
        /\ nullcall' = (nullcall \/ curve.curveMode = 0)
     \/ /\ Stmt("store_current", [curve EXCEPT !.currentPos = val], "load_times")
        /\ UNCHANGED <<val, nullcall>>
     \/ /\ Stmt("load_times", curve, "advance")
        /\ val' = curve.aTimes
        /\ UNCHANGED nullcall
     \/ /\ Stmt("advance", [curve EXCEPT !.aTimes = Advanced(val)], "restore")
        /\ UNCHANGED <<val, nullcall>>
     \/ /\ Stmt("finish", Finished(curve), "restore")
        /\ UNCHANGED <<val, nullcall>>
  /\ UNCHANGED mirrored

(* The value motor_planning returns, and its store to tar_pos.             *)
Result ==
  /\ Stmt("result", curve, "store")
  /\ val' = curve.currentPos
  /\ UNCHANGED <<mirrored, nullcall>>

Store ==
  /\ pc = "store"
  /\ tar_pos' = val
  /\ pc' = "idle"
  /\ UNCHANGED <<curve, cur_pos, arg, mirrored, val, burst, planned, nullcall>>

Application == Call \/ Assign \/ Mirror \/ Automatic \/ Point \/ Restore \/ Result \/ Store

-----------------------------------------------------------------------------
(***************************************************************************)
(* The driver thread                                                       *)
(***************************************************************************)

(* motor_handle while a curve runs.                                        *)
Handle ==
  /\ curve.maxTimes # 0
  /\ pc # "idle" => burst < Burst[cur_pos, arg.targetPos]
  /\ burst' = IF pc = "idle" THEN 0 ELSE burst + 1
  /\ nullcall' = (nullcall \/ (curve.curveMode = 0 /\ curve.aTimes < curve.maxTimes))
  /\ curve' = Planning(curve)
  /\ tar_pos' = curve'.currentPos
  /\ UNCHANGED <<cur_pos, app, planned>>

(* The motor comes to stand somewhere.                                     *)
Move ==
  /\ pc = "idle" /\ curve.maxTimes = 0
  /\ cur_pos' \in Positions
  /\ UNCHANGED <<curve, tar_pos, app, burst, planned, nullcall>>

Next == Application \/ Handle \/ Move

Spec == Init /\ [][Next]_vars

(* The driver thread runs for every frame of the motor. The application    *)
(* thread gets its turn between two frames.                                *)
FairSpec == Spec /\ WF_vars(Application /\ pc # "idle") /\ WF_vars(Handle)

-----------------------------------------------------------------------------
(***************************************************************************)
(* Properties                                                              *)
(***************************************************************************)

TypeOK ==
  /\ curve \in [aTimes : Nat, maxTimes : Nat, startPos : Int, currentPos : Int,
                targetPos : Int, curveMode : {0, 1}]
  /\ tar_pos \in Int /\ cur_pos \in Int
  /\ arg \in [targetPos : Int, maxTimes : Nat]
  /\ mirrored \in BOOLEAN /\ val \in Int
  /\ burst \in Nat /\ planned \in 0 .. Plans /\ nullcall \in BOOLEAN

Between(p, a, b) == (a <= p /\ p <= b) \/ (b <= p /\ p <= a)

(* While a curve runs, whatever point of the application's planning the    *)
(* driver thread breaks into, the motor is sent to no place outside the    *)
(* way from where it stood to where it is to go.                           *)
OnTheWay ==
  curve.maxTimes # 0 /\ pc = "idle" =>
    Between(tar_pos, curve.startPos, arg.targetPos)

(* "position at the start of the speed control" (startPos): the first      *)
(* point motor_set_pos_plan sends a motor that stands still to lies        *)
(* nearer to where it stands than to where it is to go.                    *)
StartsAtStart ==
  [][Store /\ burst = 0 /\ 2 * StepPos <= Abs(cur_pos - arg.targetPos) =>
       Abs(tar_pos' - cur_pos) < Abs(arg.targetPos - tar_pos')]_vars

(* A curve that has run out leaves the motor sent to its target, with both *)
(* threads at work on it.                                                  *)
Arrived ==
  pc = "idle" /\ planned > 0 /\ curve.maxTimes = 0 => tar_pos = arg.targetPos

(* Every curve runs out.                                                   *)
CurveEnds == pc = "store" ~> pc = "idle" /\ curve.maxTimes = 0

(* "CURVE_NONE: direct start": with maxTimes left to the curve, as in the  *)
(* whole program, the driver thread never finds a curve that runs and has  *)
(* no mode yet, for which pCalCurve has no function.                       *)
ModeHasFunction == ~nullcall
=============================================================================
