-------------------------- MODULE TrajectoryProofs --------------------------
(***************************************************************************)
(* Proofs about Trajectory for any ways, any length of a step and any      *)
(* number of plans, as long as the driver thread does not run a curve to   *)
(* its end within the call that plans it (InTime).                         *)
(***************************************************************************)
EXTENDS Trajectory, TLAPS

(* The steps of a way; the curve takes one handling more.                  *)
Steps(w) == Abs(w[2] - w[1]) \div StepPos

(* The time of a curve is left to it, as in the whole program; the driver  *)
(* thread comes in at most once for each step of the way while the         *)
(* application plans it. A way to a target that is not positive begins at  *)
(* 0 and is planned undisturbed: of these motor_planning negates the       *)
(* target and leaves the start as it is, and a handling between the two    *)
(* negations takes the one for the other.                                  *)
InTime ==
  /\ Given \subseteq {0}
  /\ \A w \in Ways :
       /\ Burst[w] <= Steps(w)
       /\ w[2] <= 0 => w[1] = 0 /\ Burst[w] = 0

-----------------------------------------------------------------------------
(***************************************************************************)
(* Quotients.                                                              *)
(***************************************************************************)

LEMMA Quotient ==
  ASSUME NEW x \in Int, NEW n \in Nat \ {0}
  PROVE  x \div n \in Int /\ n * (x \div n) <= x /\ x < n * (x \div n) + n
OBVIOUS

LEMMA TimesMonotonic ==
  ASSUME NEW a \in Int, NEW b \in Int, NEW n \in Nat, a <= b
  PROVE  n * a <= n * b
OBVIOUS

(* A part of a way forwards lies on it.                                    *)
LEMMA PartForwards ==
  ASSUME NEW d \in Nat, NEW n \in Nat \ {0}, NEW k \in 0 .. n
  PROVE  (d * k) \div n \in 0 .. d
<1> DEFINE x == d * k
           q == x \div n
<1>1. x \in Nat /\ x <= n * d
  OBVIOUS
<1> HIDE DEF x
<1>2. q \in Int /\ n * q <= x /\ x < n * q + n
  BY <1>1, Quotient
<1> HIDE DEF q
<1>3. ~(q <= -1)
  <2> SUFFICES ASSUME q <= -1 PROVE FALSE
    OBVIOUS
  <2>1. n * q <= n * (-1)
    BY <1>2, TimesMonotonic
  <2> QED BY <1>1, <1>2, <2>1
<1>4. ~(d + 1 <= q)
  <2> SUFFICES ASSUME d + 1 <= q PROVE FALSE
    OBVIOUS
  <2>1. n * (d + 1) <= n * q /\ n * (d + 1) = n * d + n
    BY <1>2, TimesMonotonic
  <2> QED BY <1>1, <1>2, <2>1
<1>5. q \in 0 .. d
  BY <1>2, <1>3, <1>4
<1> QED BY <1>5 DEF q, x

(* And so does one of a way backwards, rounded downwards as it is.         *)
LEMMA PartBackwards ==
  ASSUME NEW d \in Int, d <= 0, NEW n \in Nat \ {0}, NEW k \in 0 .. n
  PROVE  (d * k) \div n \in d .. 0
<1> DEFINE x == d * k
           q == x \div n
<1>1. x \in Int /\ x <= 0 /\ n * d <= x
  <2>1. (-d) * k \in Nat /\ (-d) * k <= n * (-d)
    OBVIOUS
  <2>2. d * k = -((-d) * k) /\ n * d = -(n * (-d))
    OBVIOUS
  <2> QED BY <2>1, <2>2
<1> HIDE DEF x
<1>2. q \in Int /\ n * q <= x /\ x < n * q + n
  BY <1>1, Quotient
<1> HIDE DEF q
<1>3. ~(1 <= q)
  <2> SUFFICES ASSUME 1 <= q PROVE FALSE
    OBVIOUS
  <2>1. n * 1 <= n * q
    BY <1>2, TimesMonotonic
  <2> QED BY <1>1, <1>2, <2>1
<1>4. ~(q <= d - 1)
  <2> SUFFICES ASSUME q <= d - 1 PROVE FALSE
    OBVIOUS
  <2>1. n * q <= n * (d - 1) /\ n * (d - 1) = n * d - n
    BY <1>2, TimesMonotonic
  <2> QED BY <1>1, <1>2, <2>1
<1>5. q \in d .. 0
  BY <1>2, <1>3, <1>4
<1> QED BY <1>5 DEF q, x

(* A seventh of a way, or less of it, lies nearer to its start than to its *)
(* end.                                                                    *)
LEMMA SmallPart ==
  ASSUME NEW d \in Int, Abs(d) >= 4, NEW n \in Nat, n >= 7
  PROVE  Abs(d \div n) < Abs(d - d \div n)
<1> DEFINE q == d \div n
<1>1. q \in Int /\ n * q <= d /\ d < n * q + n
  BY Quotient
<1> HIDE DEF q
<1>2. CASE d > 0
  <2>1. q >= 0
    <3> SUFFICES ASSUME q <= -1 PROVE FALSE
      BY <1>1
    <3>1. n * q <= n * (-1)
      BY <1>1, TimesMonotonic
    <3> QED BY <1>1, <1>2, <3>1
  <2>2. 7 * q <= n * q
    <3>1. q * 7 <= q * n
      BY <1>1, <2>1, TimesMonotonic
    <3> QED BY <1>1, <3>1
  <2>3. 7 * q <= d
    BY <1>1, <2>2
  <2> QED BY <1>1, <1>2, <2>1, <2>3 DEF Abs, q
<1>3. CASE d < 0
  <2>1. q <= -1
    <3> SUFFICES ASSUME q >= 0 PROVE FALSE
      BY <1>1
    <3>1. n * 0 <= n * q
      BY <1>1, TimesMonotonic
    <3> QED BY <1>1, <1>3, <3>1
  <2> DEFINE c == -q - 1
  <2>2. c \in Nat /\ q = -c - 1
    BY <1>1, <2>1
  <2> HIDE DEF c
  <2>3. n * q + n = -(n * c)
    BY <2>2
  <2>4. 7 * c <= n * c
    <3>1. c * 7 <= c * n
      BY <2>2, TimesMonotonic
    <3> QED BY <2>2, <3>1
  <2>5. 7 * c < -d
    BY <1>1, <2>2, <2>3, <2>4
  <2>6. 2 * (c + 1) < -d
    BY <1>3, <2>2, <2>5 DEF Abs
  <2> QED BY <1>1, <1>3, <2>2, <2>6 DEF Abs, q
<1> QED BY <1>2, <1>3 DEF Abs

(* The first point of a way that is at least two steps long lies nearer to *)
(* its start than to its end; a step of one would leave no room for that.  *)
LEMMA FirstPart ==
  ASSUME NEW d \in Int, NEW s \in Nat \ {0, 1}, 2 * s <= Abs(d)
  PROVE  LET n == (Abs(d) \div s + 1) * Intervel + 1
         IN  Abs(d \div n) < Abs(d - d \div n)
<1> DEFINE a == Abs(d)
           j == a \div s
<1>1. a \in Nat /\ a >= 4 /\ 2 * s <= a
  BY DEF Abs
<1>2. j \in Int /\ s * j <= a /\ a < s * j + s
  <2> HIDE DEF a
  <2> QED BY <1>1, Quotient
<1> HIDE DEF j, a
<1>3. j >= 2
  <2> SUFFICES ASSUME j <= 1 PROVE FALSE
    BY <1>2
  <2>1. s * j <= s * 1
    BY <1>2, TimesMonotonic
  <2> QED BY <1>1, <1>2, <2>1
<1> DEFINE m == (j + 1) * Intervel + 1
<1>4. m \in Nat /\ m >= 7
  BY <1>2, <1>3 DEF Intervel
<1> HIDE DEF m
<1>5. Abs(d \div m) < Abs(d - d \div m)
  <2>1. Abs(d) >= 4
    BY <1>1 DEF a
  <2> QED BY <1>4, <2>1, SmallPart
<1> QED BY <1>5 DEF m, j, a, Intervel

-----------------------------------------------------------------------------
(***************************************************************************)
(* The inductive invariant. Where the statements of motor_set_pos_plan     *)
(* stand:                                                                  *)
(***************************************************************************)

(* before maxTimes is set ...                                              *)
Preparing == {"times", "target", "start", "current", "max", "max_again", "mode", "sign",
              "negate_target", "negate_current", "auto", "set_max"}

(* ... then before aTimes has been advanced, and after it has.             *)
Stepping == {"set_times", "test", "calculate", "store_current", "load_times", "advance"}
Closing == {"restore", "restore_target", "restore_current", "result", "store"}

Running == Stepping \cup Closing
Statements == Preparing \cup Running

(* After the target, the start and the current point have been stored, the *)
(* mode has been set, the sign has been looked at.                         *)
Targeted == Statements \ {"times", "target"}
Started == Targeted \ {"start"}
Placed == Started \ {"current"}
Moded == Placed \ {"max", "max_again", "mode"}
Signed == Moded \ {"sign"}

(* The target and the current point as the caller means them, with the     *)
(* negation taken off that the curve holds at this statement.              *)
TargetNegated ==
  mirrored /\ pc \in {"negate_current", "auto", "set_max", "restore", "restore_target"} \cup Stepping
CurrentNegated ==
  mirrored /\ pc \in {"auto", "set_max", "restore", "restore_target", "restore_current"} \cup Stepping

TargetHere == IF TargetNegated THEN -curve.targetPos ELSE curve.targetPos
CurrentHere == IF CurrentNegated THEN -curve.currentPos ELSE curve.currentPos
ValHere == IF mirrored THEN -val ELSE val

Way == <<cur_pos, arg.targetPos>>
WaySteps == Steps(Way)
OnWay(p) == Between(p, cur_pos, arg.targetPos)

(* The first point of the curve.                                           *)
FirstPoint ==
  LET n == (WaySteps + 1) * Intervel + 1 IN
  IF arg.targetPos > 0 THEN cur_pos + (arg.targetPos - cur_pos) \div n
  ELSE -((-arg.targetPos) \div n)

(* During a call. The time of the curve has not run ahead of the handlings *)
(* that have come in, so it does not run out; the fields that have been    *)
(* stored hold what the call is about.                                     *)
TimesInv ==
  /\ burst <= WaySteps
  /\ pc \in Preparing => curve.maxTimes = 0 /\ burst = 0
  /\ pc \in Running => curve.maxTimes = (WaySteps + 1) * Intervel
  /\ pc \in (Preparing \cup Stepping) \ {"times"} => curve.aTimes <= Intervel * burst
  /\ pc \in Closing => curve.aTimes <= Intervel * (burst + 1)
  /\ pc = "advance" => val \in Nat /\ val <= Intervel * burst

EndsInv ==
  /\ pc \in Targeted => TargetHere = arg.targetPos
  /\ pc \in Started => curve.startPos = cur_pos
  /\ pc \in Moded => curve.curveMode = 1
  /\ pc \in Signed => (mirrored <=> arg.targetPos <= 0)
  /\ pc \in {"negate_target", "negate_current", "restore_target", "restore_current"} => mirrored

PointInv ==
  /\ pc \in Placed => OnWay(CurrentHere)
  /\ pc \in Placed \cap Preparing => CurrentHere = cur_pos
  /\ pc = "store_current" => OnWay(ValHere) /\ (burst = 0 => ValHere = FirstPoint)
  /\ pc \in {"load_times", "advance"} \cup (Closing \ {"store"}) =>
       (burst = 0 => CurrentHere = FirstPoint)
  /\ pc = "store" => OnWay(val) /\ (burst = 0 => val = FirstPoint)

CallInv ==
  /\ Way \in Ways /\ arg.maxTimes = 0 /\ pc \in Statements
  /\ TimesInv /\ EndsInv /\ PointInv

(* Between two calls.                                                      *)
IdleInv ==
  /\ curve.maxTimes # 0 =>
       /\ curve.targetPos = arg.targetPos
       /\ curve.curveMode = 1
       /\ arg.targetPos <= 0 => curve.startPos = 0
       /\ Between(tar_pos, curve.startPos, arg.targetPos)
  /\ curve.maxTimes = 0 /\ planned > 0 => tar_pos = arg.targetPos

IInv ==
  /\ TypeOK
  /\ pc # "idle" => CallInv
  /\ pc = "idle" => IdleInv
  /\ ~nullcall

Curves == [aTimes : Nat, maxTimes : Nat, startPos : Int, currentPos : Int,
           targetPos : Int, curveMode : {0, 1}]

LEMMA StepsType ==
  ASSUME NEW a \in Int, NEW b \in Int
  PROVE  Steps(<<a, b>>) \in Nat /\ Steps(<<b, a>>) = Steps(<<a, b>>)
<1> DEFINE d == Abs(b - a)
           q == d \div StepPos
<1>1. d \in Nat /\ d = Abs(a - b) /\ StepPos \in Nat \ {0}
  BY TrajectoryAssumption DEF Abs
<1>2. q \in Nat
  <2>1. q \in Int /\ d < StepPos * q + StepPos
    <3> SUFFICES ASSUME NEW x \in Nat
                 PROVE  x \div StepPos \in Int /\ x < StepPos * (x \div StepPos) + StepPos
      BY <1>1
    <3> QED BY <1>1, Quotient
  <2>2. ~(q <= -1)
    <3> HIDE DEF q
    <3> SUFFICES ASSUME q <= -1 PROVE FALSE
      OBVIOUS
    <3>1. StepPos * q <= StepPos * (-1)
      BY <1>1, <2>1, TimesMonotonic
    <3> QED BY <1>1, <2>1, <3>1
  <2> QED BY <2>1, <2>2
<1> QED BY <1>1, <1>2 DEF Steps

(* A curve one field of which has been stored.                             *)
LEMMA CurveFields ==
  ASSUME NEW c \in Curves
  PROVE  /\ c.aTimes \in Nat /\ c.maxTimes \in Nat /\ c.startPos \in Int
         /\ c.currentPos \in Int /\ c.targetPos \in Int /\ c.curveMode \in {0, 1}
         /\ c = [aTimes |-> c.aTimes, maxTimes |-> c.maxTimes, startPos |-> c.startPos,
                 currentPos |-> c.currentPos, targetPos |-> c.targetPos,
                 curveMode |-> c.curveMode]
BY DEF Curves

LEMMA CurveStores ==
  ASSUME NEW c \in Curves, NEW t \in Nat, NEW p \in Int
  PROVE  /\ [c EXCEPT !.aTimes = t] =
              [aTimes |-> t, maxTimes |-> c.maxTimes, startPos |-> c.startPos,
               currentPos |-> c.currentPos, targetPos |-> c.targetPos, curveMode |-> c.curveMode]
         /\ [c EXCEPT !.maxTimes = t] =
              [aTimes |-> c.aTimes, maxTimes |-> t, startPos |-> c.startPos,
               currentPos |-> c.currentPos, targetPos |-> c.targetPos, curveMode |-> c.curveMode]
         /\ [c EXCEPT !.startPos = p] =
              [aTimes |-> c.aTimes, maxTimes |-> c.maxTimes, startPos |-> p,
               currentPos |-> c.currentPos, targetPos |-> c.targetPos, curveMode |-> c.curveMode]
         /\ [c EXCEPT !.currentPos = p] =
              [aTimes |-> c.aTimes, maxTimes |-> c.maxTimes, startPos |-> c.startPos,
               currentPos |-> p, targetPos |-> c.targetPos, curveMode |-> c.curveMode]
         /\ [c EXCEPT !.targetPos = p] =
              [aTimes |-> c.aTimes, maxTimes |-> c.maxTimes, startPos |-> c.startPos,
               currentPos |-> c.currentPos, targetPos |-> p, curveMode |-> c.curveMode]
         /\ [c EXCEPT !.curveMode = 1] =
              [aTimes |-> c.aTimes, maxTimes |-> c.maxTimes, startPos |-> c.startPos,
               currentPos |-> c.currentPos, targetPos |-> c.targetPos, curveMode |-> 1]
<1>1. [c EXCEPT !.aTimes = t] =
      [aTimes |-> t, maxTimes |-> c.maxTimes, startPos |-> c.startPos,
       currentPos |-> c.currentPos, targetPos |-> c.targetPos, curveMode |-> c.curveMode]
  BY DEF Curves
<1>2. [c EXCEPT !.maxTimes = t] =
      [aTimes |-> c.aTimes, maxTimes |-> t, startPos |-> c.startPos,
       currentPos |-> c.currentPos, targetPos |-> c.targetPos, curveMode |-> c.curveMode]
  BY DEF Curves
<1>3. [c EXCEPT !.startPos = p] =
      [aTimes |-> c.aTimes, maxTimes |-> c.maxTimes, startPos |-> p,
       currentPos |-> c.currentPos, targetPos |-> c.targetPos, curveMode |-> c.curveMode]
  BY DEF Curves
<1>4. [c EXCEPT !.currentPos = p] =
      [aTimes |-> c.aTimes, maxTimes |-> c.maxTimes, startPos |-> c.startPos,
       currentPos |-> p, targetPos |-> c.targetPos, curveMode |-> c.curveMode]
  BY DEF Curves
<1>5. [c EXCEPT !.targetPos = p] =
      [aTimes |-> c.aTimes, maxTimes |-> c.maxTimes, startPos |-> c.startPos,
       currentPos |-> c.currentPos, targetPos |-> p, curveMode |-> c.curveMode]
  BY DEF Curves
<1>6. [c EXCEPT !.curveMode = 1] =
      [aTimes |-> c.aTimes, maxTimes |-> c.maxTimes, startPos |-> c.startPos,
       currentPos |-> c.currentPos, targetPos |-> c.targetPos, curveMode |-> 1]
  BY DEF Curves
<1> QED BY <1>1, <1>2, <1>3, <1>4, <1>5, <1>6

(* One two or three fields of which have been stored.                      *)
LEMMA CurveAdvanced ==
  ASSUME NEW c \in Curves, NEW t \in Nat, NEW p \in Int
  PROVE  [c EXCEPT !.currentPos = p, !.aTimes = t] =
           [aTimes |-> t, maxTimes |-> c.maxTimes, startPos |-> c.startPos,
            currentPos |-> p, targetPos |-> c.targetPos, curveMode |-> c.curveMode]
<1> DEFINE d == [c EXCEPT !.currentPos = p]
<1>1. d \in Curves
  BY DEF Curves
<1>2. [c EXCEPT !.currentPos = p, !.aTimes = t] = [d EXCEPT !.aTimes = t]
  BY DEF Curves
<1>3. d = [aTimes |-> c.aTimes, maxTimes |-> c.maxTimes, startPos |-> c.startPos,
           currentPos |-> p, targetPos |-> c.targetPos, curveMode |-> c.curveMode]
  BY CurveStores
<1> HIDE DEF d
<1>4. [d EXCEPT !.aTimes = t] =
        [aTimes |-> t, maxTimes |-> d.maxTimes, startPos |-> d.startPos,
         currentPos |-> d.currentPos, targetPos |-> d.targetPos, curveMode |-> d.curveMode]
  BY <1>1, CurveStores
<1>5. /\ d.maxTimes = c.maxTimes /\ d.startPos = c.startPos /\ d.currentPos = p
      /\ d.targetPos = c.targetPos /\ d.curveMode = c.curveMode
  BY <1>3
<1> QED BY <1>2, <1>4, <1>5

LEMMA CurveEnded ==
  ASSUME NEW c \in Curves, NEW p \in Int
  PROVE  [c EXCEPT !.currentPos = p, !.maxTimes = 0, !.aTimes = 0] =
           [aTimes |-> 0, maxTimes |-> 0, startPos |-> c.startPos,
            currentPos |-> p, targetPos |-> c.targetPos, curveMode |-> c.curveMode]
<1> DEFINE d == [c EXCEPT !.maxTimes = 0]
<1>1. d \in Curves
  BY DEF Curves
<1>2. [c EXCEPT !.currentPos = p, !.maxTimes = 0, !.aTimes = 0]
        = [d EXCEPT !.currentPos = p, !.aTimes = 0]
  BY DEF Curves
<1>3. d = [aTimes |-> c.aTimes, maxTimes |-> 0, startPos |-> c.startPos,
           currentPos |-> c.currentPos, targetPos |-> c.targetPos, curveMode |-> c.curveMode]
  BY CurveStores
<1> HIDE DEF d
<1>4. [d EXCEPT !.currentPos = p, !.aTimes = 0] =
        [aTimes |-> 0, maxTimes |-> d.maxTimes, startPos |-> d.startPos,
         currentPos |-> p, targetPos |-> d.targetPos, curveMode |-> d.curveMode]
  BY <1>1, CurveAdvanced
<1>5. /\ d.maxTimes = 0 /\ d.startPos = c.startPos
      /\ d.targetPos = c.targetPos /\ d.curveMode = c.curveMode
  BY <1>3
<1> QED BY <1>2, <1>4, <1>5

LEMMA NegatedTwice ==
  ASSUME NEW c \in Curves
  PROVE  LET e == NegatedCurrent(NegatedTarget(c)) IN
         /\ e \in Curves
         /\ e = [aTimes |-> c.aTimes, maxTimes |-> c.maxTimes, startPos |-> c.startPos,
                currentPos |-> -c.currentPos, targetPos |-> -c.targetPos,
                curveMode |-> c.curveMode]
<1> DEFINE d == NegatedTarget(c)
           e == NegatedCurrent(d)
<1>1. d = [aTimes |-> c.aTimes, maxTimes |-> c.maxTimes, startPos |-> c.startPos,
           currentPos |-> c.currentPos, targetPos |-> -c.targetPos, curveMode |-> c.curveMode]
  <2>1. d = [c EXCEPT !.targetPos = -c.targetPos]
    BY DEF NegatedTarget, Curves
  <2> QED BY <2>1, CurveFields, CurveStores
<1>2. d \in Curves
  BY <1>1, CurveFields DEF Curves
<1> HIDE DEF d
<1>3. e = [aTimes |-> d.aTimes, maxTimes |-> d.maxTimes, startPos |-> d.startPos,
           currentPos |-> -d.currentPos, targetPos |-> d.targetPos, curveMode |-> d.curveMode]
  <2>1. e = [d EXCEPT !.currentPos = -d.currentPos]
    BY <1>2 DEF NegatedCurrent, Curves
  <2> QED BY <1>2, <2>1, CurveFields, CurveStores
<1> HIDE DEF e
<1>4. /\ d.aTimes = c.aTimes /\ d.maxTimes = c.maxTimes /\ d.startPos = c.startPos
      /\ d.currentPos = c.currentPos /\ d.targetPos = -c.targetPos
      /\ d.curveMode = c.curveMode
  BY <1>1
<1>5. e = [aTimes |-> c.aTimes, maxTimes |-> c.maxTimes, startPos |-> c.startPos,
           currentPos |-> -c.currentPos, targetPos |-> -c.targetPos,
           curveMode |-> c.curveMode]
  BY <1>3, <1>4
<1>6. e \in Curves
  BY <1>5, CurveFields DEF Curves
<1> QED BY <1>5, <1>6 DEF e, d

(* The time motor_planning gives a curve that has none.                    *)
LEMMA AutoTimesSteps ==
  ASSUME NEW c \in Curves
  PROVE  /\ AutoTimes(c) = (Steps(<<c.startPos, c.targetPos>>) + 1) * Intervel
         /\ AutoTimes(c) \in Nat \ {0}
<1>1. Steps(<<c.startPos, c.targetPos>>) \in Nat
  BY StepsType DEF Curves
<1>2. AutoTimes(c) = (Steps(<<c.startPos, c.targetPos>>) + 1) * Intervel
  BY DEF AutoTimes, Steps
<1> QED BY <1>1, <1>2 DEF Intervel

(* A point of a curve that has not run out lies between its two ends.      *)
LEMMA CalCurveBetween ==
  ASSUME NEW c \in Curves, c.aTimes < c.maxTimes
  PROVE  CalCurve(c) \in Int /\ Between(CalCurve(c), c.startPos, c.targetPos)
<1> DEFINE d == c.targetPos - c.startPos
           n == c.maxTimes + 1
           k == c.aTimes + 1
           q == (d * k) \div n
<1>1. d \in Int /\ n \in Nat \ {0} /\ k \in 0 .. n /\ c.startPos \in Int /\ c.targetPos \in Int
  BY DEF Curves
<1>2. CalCurve(c) = c.startPos + q
  BY DEF CalCurve
<1>3. d = c.targetPos - c.startPos
  OBVIOUS
<1>4. q \in Int /\ (d >= 0 => q \in 0 .. d) /\ (d <= 0 => q \in d .. 0)
  <2> HIDE DEF d, n, k
  <2>1. d >= 0 => q \in 0 .. d
    BY <1>1, PartForwards
  <2>2. d <= 0 => q \in d .. 0
    BY <1>1, PartBackwards
  <2> QED BY <1>1, <2>1, <2>2
<1> HIDE DEF d, n, k, q
<1> QED BY <1>1, <1>2, <1>3, <1>4 DEF Between

(* One handling of a curve that runs advances it or ends it.               *)
LEMMA VelocityCurveRunning ==
  ASSUME NEW c \in Curves, c.maxTimes # 0
  PROVE  LET e == VelocityCurve(c) IN
         /\ e \in Curves
         /\ e.startPos = c.startPos /\ e.targetPos = c.targetPos /\ e.curveMode = c.curveMode
         /\ c.aTimes < c.maxTimes => e.maxTimes = c.maxTimes /\ e.aTimes = c.aTimes + Intervel
         /\ ~(c.aTimes < c.maxTimes) => e.maxTimes = 0 /\ e.currentPos = c.targetPos
         /\ Between(e.currentPos, c.startPos, c.targetPos)
<1>1. CASE c.aTimes < c.maxTimes
  <2>1. VelocityCurve(c) = [c EXCEPT !.currentPos = CalCurve(c), !.aTimes = c.aTimes + Intervel]
    BY <1>1 DEF VelocityCurve, NeedsTimes, Advanced
  <2>2. CalCurve(c) \in Int /\ Between(CalCurve(c), c.startPos, c.targetPos)
    BY <1>1, CalCurveBetween
  <2>3. VelocityCurve(c) =
          [aTimes |-> c.aTimes + Intervel, maxTimes |-> c.maxTimes, startPos |-> c.startPos,
           currentPos |-> CalCurve(c), targetPos |-> c.targetPos, curveMode |-> c.curveMode]
    BY <2>1, <2>2, CurveFields, CurveAdvanced DEF Intervel
  <2> QED BY <1>1, <2>2, <2>3, CurveFields DEF Curves, Intervel
<1>2. CASE ~(c.aTimes < c.maxTimes)
  <2>1. VelocityCurve(c) = [c EXCEPT !.currentPos = c.targetPos, !.maxTimes = 0, !.aTimes = 0]
    BY <1>2 DEF VelocityCurve, NeedsTimes, Finished
  <2>2. VelocityCurve(c) =
          [aTimes |-> 0, maxTimes |-> 0, startPos |-> c.startPos,
           currentPos |-> c.targetPos, targetPos |-> c.targetPos, curveMode |-> c.curveMode]
    BY <2>1, CurveFields, CurveEnded
  <2> QED BY <1>2, <2>2, CurveFields DEF Curves, Between
<1> QED BY <1>1, <1>2

LEMMA PlanningRunning ==
  ASSUME NEW c \in Curves, c.maxTimes # 0, c.targetPos <= 0 => c.startPos = 0
  PROVE  LET e == Planning(c) IN
         /\ e \in Curves
         /\ e.startPos = c.startPos /\ e.targetPos = c.targetPos /\ e.curveMode = c.curveMode
         /\ c.aTimes < c.maxTimes => e.maxTimes = c.maxTimes /\ e.aTimes = c.aTimes + Intervel
         /\ ~(c.aTimes < c.maxTimes) => e.maxTimes = 0 /\ e.currentPos = c.targetPos
         /\ Between(e.currentPos, c.startPos, c.targetPos)
<1>1. CASE c.targetPos > 0
  <2>1. Planning(c) = VelocityCurve(c)
    BY <1>1 DEF Planning
  <2> QED BY <2>1, VelocityCurveRunning
<1>2. CASE ~(c.targetPos > 0)
  <2> DEFINE b == NegatedCurrent(NegatedTarget(c))
             v == VelocityCurve(b)
             e == Planning(c)
  <2>1. /\ b \in Curves /\ b.maxTimes = c.maxTimes /\ b.aTimes = c.aTimes
        /\ b.startPos = 0 /\ c.startPos = 0 /\ b.targetPos = -c.targetPos
        /\ b.curveMode = c.curveMode
    BY <1>2, NegatedTwice, CurveFields
  <2>2. /\ v \in Curves
        /\ v.startPos = 0 /\ v.targetPos = -c.targetPos /\ v.curveMode = c.curveMode
        /\ c.aTimes < c.maxTimes => v.maxTimes = c.maxTimes /\ v.aTimes = c.aTimes + Intervel
        /\ ~(c.aTimes < c.maxTimes) => v.maxTimes = 0 /\ v.currentPos = -c.targetPos
        /\ Between(v.currentPos, 0, -c.targetPos)
    <3> HIDE DEF b
    <3> QED BY <2>1, VelocityCurveRunning
  <2>3. e = NegatedCurrent(NegatedTarget(v))
    BY <1>2 DEF Planning
  <2> HIDE DEF v, e
  <2>4. /\ e \in Curves
        /\ e.startPos = 0 /\ e.curveMode = c.curveMode
        /\ e.maxTimes = v.maxTimes /\ e.aTimes = v.aTimes
        /\ e.targetPos = -v.targetPos /\ e.currentPos = -v.currentPos
    BY <2>1, <2>2, <2>3, NegatedTwice
  <2>5. c.targetPos \in Int /\ v.currentPos \in Int
    BY <2>2 DEF Curves
  <2>6. Between(e.currentPos, 0, c.targetPos)
    BY <2>2, <2>4, <2>5 DEF Between
  <2> QED BY <2>1, <2>2, <2>4, <2>5, <2>6 DEF e
<1> QED BY <1>1, <1>2

-----------------------------------------------------------------------------
(***************************************************************************)
(* The steps.                                                              *)
(***************************************************************************)

LEMMA IInvInit == Init => IInv
<1> SUFFICES ASSUME Init PROVE IInv
  OBVIOUS
<1>1. cur_pos \in Int
  <2>1. PICK w \in Ways : cur_pos = w[1]
    BY DEF Init, Positions
  <2> QED BY <2>1, TrajectoryAssumption
<1>2. curve \in Curves /\ planned \in 0 .. Plans
  BY TrajectoryAssumption DEF Init, Curves
<1>3. mirrored \in BOOLEAN /\ nullcall \in BOOLEAN
  BY DEF Init
<1>4. TypeOK
  BY <1>1, <1>2, <1>3 DEF Init, TypeOK, Curves
<1> QED BY <1>4 DEF Init, IInv, IdleInv

(* Throughout a call.                                                      *)
LEMMA CallFacts ==
  ASSUME InTime, TypeOK, CallInv
  PROVE  /\ WaySteps \in Nat /\ Burst[Way] <= WaySteps /\ Burst[Way] \in Nat
         /\ arg.targetPos \in Int /\ cur_pos \in Int
         /\ arg.targetPos <= 0 => cur_pos = 0 /\ Burst[Way] = 0
<1>1. arg.targetPos \in Int /\ cur_pos \in Int
  BY DEF TypeOK
<1>2. Way \in Ways /\ Way[1] = cur_pos /\ Way[2] = arg.targetPos
  BY DEF CallInv, Way
<1>3. WaySteps \in Nat
  BY <1>1, StepsType DEF WaySteps, Way
<1> QED BY <1>1, <1>2, <1>3, TrajectoryAssumption DEF InTime, WaySteps

LEMMA FrameNext ==
  ASSUME cur_pos' = cur_pos, arg' = arg
  PROVE  /\ Way' = Way /\ WaySteps' = WaySteps /\ FirstPoint' = FirstPoint
         /\ \A p : OnWay(p)' <=> OnWay(p)
BY DEF Way, WaySteps, Steps, FirstPoint, OnWay, Between, Intervel, Abs

LEMMA CallStep ==
  ASSUME InTime, IInv, Call
  PROVE  IInv'
<1>1. PICK w \in Ways, n \in Given :
        w[1] = cur_pos /\ arg' = [targetPos |-> w[2], maxTimes |-> n]
  BY DEF Call
<1>2. w = <<w[1], w[2]>> /\ w[1] \in Int /\ w[2] \in Int /\ n = 0
  BY TrajectoryAssumption DEF InTime
<1>3. TypeOK'
  BY <1>1, <1>2, TrajectoryAssumption DEF IInv, TypeOK, Call
<1>4. Way' \in Ways /\ arg'.maxTimes = 0
  BY <1>1, <1>2 DEF Way, Call
<1>5. WaySteps' \in Nat
  BY <1>3, StepsType DEF TypeOK, WaySteps, Way
<1>6. TimesInv'
  BY <1>5 DEF Call, TimesInv, Preparing, Stepping, Closing, Running
<1>7. EndsInv' /\ PointInv'
  BY DEF Call, EndsInv, PointInv, Targeted, Started, Placed, Moded, Signed,
         Statements, Preparing, Closing, Running
<1>8. pc' = "times" /\ pc' \in Statements /\ ~nullcall'
  BY DEF Call, IInv, Statements, Preparing
<1> QED BY <1>3, <1>4, <1>6, <1>7, <1>8 DEF IInv, CallInv

LEMMA MoveStep ==
  ASSUME IInv, Move
  PROVE  IInv'
<1>1. PICK w \in Ways : cur_pos' = w[1]
  BY DEF Move, Positions
<1>2. TypeOK'
  BY <1>1, TrajectoryAssumption DEF IInv, TypeOK, Move, app
<1> QED BY <1>2 DEF IInv, IdleInv, Move, app

(* What a statement within a call has to show.                             *)
LEMMA StmtFrame ==
  ASSUME IInv, pc # "idle", pc' \in Statements, curve' \in Curves, mirrored' \in BOOLEAN,
         val' \in Int, UNCHANGED <<tar_pos, cur_pos, arg, burst, planned, nullcall>>,
         TimesInv', EndsInv', PointInv'
  PROVE  IInv'
<1>1. TypeOK'
  BY DEF IInv, TypeOK, Curves
<1>2. Way' = Way /\ arg'.maxTimes = arg.maxTimes
  BY DEF Way
<1>3. pc' # "idle"
  BY DEF Statements, Preparing, Running, Stepping, Closing
<1> QED BY <1>1, <1>2, <1>3 DEF IInv, CallInv

(* What it may use.                                                        *)
LEMMA StmtFacts ==
  ASSUME InTime, IInv, pc # "idle",
         UNCHANGED <<cur_pos, arg>>
  PROVE  /\ curve \in Curves /\ mirrored \in BOOLEAN /\ val \in Int /\ burst \in Nat
         /\ cur_pos \in Int /\ arg.targetPos \in Int /\ arg.maxTimes = 0
         /\ WaySteps \in Nat
         /\ arg.targetPos <= 0 => cur_pos = 0 /\ Burst[Way] = 0
         /\ TimesInv /\ EndsInv /\ PointInv
         /\ Way' = Way /\ WaySteps' = WaySteps /\ FirstPoint' = FirstPoint
<1>1. TypeOK /\ CallInv
  BY DEF IInv
<1> QED BY <1>1, CallFacts, FrameNext DEF TypeOK, CallInv, Curves

(* The assignments to the curve.                                           *)
LEMMA AssignStep ==
  ASSUME InTime, IInv, Assign
  PROVE  IInv'
<1>1. pc # "idle" /\ UNCHANGED <<tar_pos, cur_pos, arg, burst, planned, mirrored, val, nullcall>>
  BY DEF Assign, Stmt
<1>2. /\ curve \in Curves /\ mirrored \in BOOLEAN /\ val \in Int /\ burst \in Nat
      /\ cur_pos \in Int /\ arg.targetPos \in Int /\ arg.maxTimes = 0
      /\ WaySteps \in Nat
      /\ arg.targetPos <= 0 => cur_pos = 0 /\ Burst[Way] = 0
      /\ TimesInv /\ EndsInv /\ PointInv
      /\ Way' = Way /\ WaySteps' = WaySteps /\ FirstPoint' = FirstPoint
  BY <1>1, StmtFacts
<1> USE DEF Statements, Preparing, Running, Stepping, Closing, Targeted, Started, Placed,
            Moded, Signed, TargetHere, CurrentHere, TargetNegated, CurrentNegated
<1>3. CASE Stmt("times", [curve EXCEPT !.aTimes = 0], "target")
  <2>1. curve' = [aTimes |-> 0, maxTimes |-> curve.maxTimes, startPos |-> curve.startPos,
                  currentPos |-> curve.currentPos, targetPos |-> curve.targetPos,
                  curveMode |-> curve.curveMode]
    BY <1>2, <1>3 DEF Stmt, Times, Curves
  <2>2. curve' \in Curves
    BY <1>2, <2>1, CurveFields DEF Curves
  <2>3. pc = "times" /\ pc' = "target"
    BY <1>3 DEF Stmt
  <2>4. TimesInv'
    BY <1>1, <1>2, <2>1, <2>3 DEF TimesInv, Intervel
  <2>5. EndsInv'
    BY <1>1, <1>2, <2>1, <2>3 DEF EndsInv
  <2>6. PointInv'
    BY <1>1, <1>2, <2>1, <2>3 DEF PointInv, OnWay, Between
  <2> QED BY <1>1, <1>2, <2>2, <2>3, <2>4, <2>5, <2>6, StmtFrame
<1>4. CASE Stmt("target", [curve EXCEPT !.targetPos = arg.targetPos], "start")
  <2>1. curve' = [aTimes |-> curve.aTimes, maxTimes |-> curve.maxTimes, startPos |-> curve.startPos,
                  currentPos |-> curve.currentPos, targetPos |-> arg.targetPos,
                  curveMode |-> curve.curveMode]
    BY <1>2, <1>4 DEF Stmt, Times, Curves
  <2>2. curve' \in Curves
    BY <1>2, <2>1, CurveFields DEF Curves
  <2>3. pc = "target" /\ pc' = "start"
    BY <1>4 DEF Stmt
  <2>4. TimesInv'
    BY <1>1, <1>2, <2>1, <2>3 DEF TimesInv, Intervel
  <2>5. EndsInv'
    BY <1>1, <1>2, <2>1, <2>3 DEF EndsInv
  <2>6. PointInv'
    BY <1>1, <1>2, <2>1, <2>3 DEF PointInv, OnWay, Between
  <2> QED BY <1>1, <1>2, <2>2, <2>3, <2>4, <2>5, <2>6, StmtFrame
<1>5. CASE Stmt("start", [curve EXCEPT !.startPos = cur_pos], "current")
  <2>1. curve' = [aTimes |-> curve.aTimes, maxTimes |-> curve.maxTimes, startPos |-> cur_pos,
                  currentPos |-> curve.currentPos, targetPos |-> curve.targetPos,
                  curveMode |-> curve.curveMode]
    BY <1>2, <1>5 DEF Stmt, Times, Curves
  <2>2. curve' \in Curves
    BY <1>2, <2>1, CurveFields DEF Curves
  <2>3. pc = "start" /\ pc' = "current"
    BY <1>5 DEF Stmt
  <2>4. TimesInv'
    BY <1>1, <1>2, <2>1, <2>3 DEF TimesInv, Intervel
  <2>5. EndsInv'
    BY <1>1, <1>2, <2>1, <2>3 DEF EndsInv
  <2>6. PointInv'
    BY <1>1, <1>2, <2>1, <2>3 DEF PointInv, OnWay, Between
  <2> QED BY <1>1, <1>2, <2>2, <2>3, <2>4, <2>5, <2>6, StmtFrame
<1>6. CASE Stmt("current", [curve EXCEPT !.currentPos = cur_pos], "max")
  <2>1. curve' = [aTimes |-> curve.aTimes, maxTimes |-> curve.maxTimes, startPos |-> curve.startPos,
                  currentPos |-> cur_pos, targetPos |-> curve.targetPos,
                  curveMode |-> curve.curveMode]
    BY <1>2, <1>6 DEF Stmt, Times, Curves
  <2>2. curve' \in Curves
    BY <1>2, <2>1, CurveFields DEF Curves
  <2>3. pc = "current" /\ pc' = "max"
    BY <1>6 DEF Stmt
  <2>4. TimesInv'
    BY <1>1, <1>2, <2>1, <2>3 DEF TimesInv, Intervel
  <2>5. EndsInv'
    BY <1>1, <1>2, <2>1, <2>3 DEF EndsInv
  <2>6. PointInv'
    BY <1>1, <1>2, <2>1, <2>3 DEF PointInv, OnWay, Between
  <2> QED BY <1>1, <1>2, <2>2, <2>3, <2>4, <2>5, <2>6, StmtFrame
<1>7. CASE Stmt("max", Times(curve), "max_again")
  <2>1. curve' = [aTimes |-> curve.aTimes, maxTimes |-> 0, startPos |-> curve.startPos,
                  currentPos |-> curve.currentPos, targetPos |-> curve.targetPos,
                  curveMode |-> curve.curveMode]
    BY <1>2, <1>7 DEF Stmt, Times, Curves
  <2>2. curve' \in Curves
    BY <1>2, <2>1, CurveFields DEF Curves
  <2>3. pc = "max" /\ pc' = "max_again"
    BY <1>7 DEF Stmt
  <2>4. TimesInv'
    BY <1>1, <1>2, <2>1, <2>3 DEF TimesInv, Intervel
  <2>5. EndsInv'
    BY <1>1, <1>2, <2>1, <2>3 DEF EndsInv
  <2>6. PointInv'
    BY <1>1, <1>2, <2>1, <2>3 DEF PointInv, OnWay, Between
  <2> QED BY <1>1, <1>2, <2>2, <2>3, <2>4, <2>5, <2>6, StmtFrame
<1>8. CASE Stmt("max_again", Times(curve), "mode")
  <2>1. curve' = [aTimes |-> curve.aTimes, maxTimes |-> 0, startPos |-> curve.startPos,
                  currentPos |-> curve.currentPos, targetPos |-> curve.targetPos,
                  curveMode |-> curve.curveMode]
    BY <1>2, <1>8 DEF Stmt, Times, Curves
  <2>2. curve' \in Curves
    BY <1>2, <2>1, CurveFields DEF Curves
  <2>3. pc = "max_again" /\ pc' = "mode"
    BY <1>8 DEF Stmt
  <2>4. TimesInv'
    BY <1>1, <1>2, <2>1, <2>3 DEF TimesInv, Intervel
  <2>5. EndsInv'
    BY <1>1, <1>2, <2>1, <2>3 DEF EndsInv
  <2>6. PointInv'
    BY <1>1, <1>2, <2>1, <2>3 DEF PointInv, OnWay, Between
  <2> QED BY <1>1, <1>2, <2>2, <2>3, <2>4, <2>5, <2>6, StmtFrame
<1>9. CASE Stmt("mode", [curve EXCEPT !.curveMode = 1], "sign")
  <2>1. curve' = [aTimes |-> curve.aTimes, maxTimes |-> curve.maxTimes, startPos |-> curve.startPos,
                  currentPos |-> curve.currentPos, targetPos |-> curve.targetPos,
                  curveMode |-> 1]
    BY <1>2, <1>9 DEF Stmt, Times, Curves
  <2>2. curve' \in Curves
    BY <1>2, <2>1, CurveFields DEF Curves
  <2>3. pc = "mode" /\ pc' = "sign"
    BY <1>9 DEF Stmt
  <2>4. TimesInv'
    BY <1>1, <1>2, <2>1, <2>3 DEF TimesInv, Intervel
  <2>5. EndsInv'
    BY <1>1, <1>2, <2>1, <2>3 DEF EndsInv
  <2>6. PointInv'
    BY <1>1, <1>2, <2>1, <2>3 DEF PointInv, OnWay, Between
  <2> QED BY <1>1, <1>2, <2>2, <2>3, <2>4, <2>5, <2>6, StmtFrame
<1> QED BY <1>3, <1>4, <1>5, <1>6, <1>7, <1>8, <1>9 DEF Assign

(* The negations before the curve ...                                      *)
LEMMA MirrorStep ==
  ASSUME InTime, IInv, Mirror
  PROVE  IInv'
<1>1. pc # "idle" /\ UNCHANGED <<tar_pos, cur_pos, arg, burst, planned, val, nullcall>>
  BY DEF Mirror, Stmt
<1>2. /\ curve \in Curves /\ mirrored \in BOOLEAN /\ val \in Int /\ burst \in Nat
      /\ cur_pos \in Int /\ arg.targetPos \in Int /\ arg.maxTimes = 0
      /\ WaySteps \in Nat
      /\ arg.targetPos <= 0 => cur_pos = 0 /\ Burst[Way] = 0
      /\ TimesInv /\ EndsInv /\ PointInv
      /\ Way' = Way /\ WaySteps' = WaySteps /\ FirstPoint' = FirstPoint
  BY <1>1, StmtFacts
<1> USE DEF Statements, Preparing, Running, Stepping, Closing, Targeted, Started, Placed,
            Moded, Signed, TargetHere, CurrentHere, TargetNegated, CurrentNegated
<1>3. CASE /\ Stmt("sign", curve, IF curve.targetPos > 0 THEN "auto" ELSE "negate_target")
           /\ mirrored' = (curve.targetPos <= 0)
  <2>1. curve' = curve
    BY <1>2, <1>3 DEF Stmt, Curves
  <2>2. curve' \in Curves
    BY <1>2, <2>1, CurveFields DEF Curves
  <2>3. /\ pc = "sign" /\ curve.targetPos = arg.targetPos
        /\ \/ pc' = "auto" /\ ~mirrored' /\ arg.targetPos > 0
           \/ pc' = "negate_target" /\ mirrored' /\ arg.targetPos <= 0
    <3>1. pc = "sign" /\ curve.targetPos = arg.targetPos
      BY <1>2, <1>3 DEF Stmt, EndsInv
    <3>2. CASE arg.targetPos > 0
      <4>1. ~(arg.targetPos <= 0)
        BY <1>2, <3>2
      <4> QED BY <1>2, <1>3, <3>1, <3>2, <4>1, Zenon DEF Stmt
    <3>3. CASE ~(arg.targetPos > 0)
      <4>1. arg.targetPos <= 0
        BY <1>2, <3>3
      <4> QED BY <1>2, <1>3, <3>1, <3>3, <4>1, Zenon DEF Stmt
    <3> QED BY <3>2, <3>3
  <2>4. TimesInv'
    BY <1>1, <1>2, <2>1, <2>3 DEF TimesInv, Intervel
  <2>5. EndsInv'
    BY <1>1, <1>2, <2>1, <2>3 DEF EndsInv
  <2>6. PointInv'
    BY <1>1, <1>2, <2>1, <2>3 DEF PointInv, OnWay, Between
  <2>7. mirrored' \in BOOLEAN
    BY <1>3
  <2> QED BY <1>1, <1>2, <2>2, <2>3, <2>4, <2>5, <2>6, <2>7, StmtFrame
<1>4. CASE Stmt("negate_target", NegatedTarget(curve), "negate_current") /\ mirrored' = mirrored
  <2>1. curve' = [aTimes |-> curve.aTimes, maxTimes |-> curve.maxTimes, startPos |-> curve.startPos,
                  currentPos |-> curve.currentPos, targetPos |-> -curve.targetPos,
                  curveMode |-> curve.curveMode]
    BY <1>2, <1>4 DEF Stmt, NegatedTarget, Curves
  <2>2. curve' \in Curves
    BY <1>2, <2>1, CurveFields DEF Curves
  <2>3. pc = "negate_target" /\ pc' = "negate_current"
    BY <1>2, <1>4 DEF Stmt
  <2>4. TimesInv'
    BY <1>1, <1>2, <1>4, <2>1, <2>3 DEF TimesInv, Intervel
  <2>5. EndsInv'
    BY <1>1, <1>2, <1>4, <2>1, <2>3 DEF EndsInv
  <2>6. PointInv'
    BY <1>1, <1>2, <1>4, <2>1, <2>3 DEF PointInv, OnWay, Between
  <2> QED BY <1>1, <1>2, <1>4, <2>2, <2>3, <2>4, <2>5, <2>6, StmtFrame
<1>5. CASE Stmt("negate_current", NegatedCurrent(curve), "auto") /\ mirrored' = mirrored
  <2>1. curve' = [aTimes |-> curve.aTimes, maxTimes |-> curve.maxTimes, startPos |-> curve.startPos,
                  currentPos |-> -curve.currentPos, targetPos |-> curve.targetPos,
                  curveMode |-> curve.curveMode]
    BY <1>2, <1>5 DEF Stmt, NegatedCurrent, Curves
  <2>2. curve' \in Curves
    BY <1>2, <2>1, CurveFields DEF Curves
  <2>3. pc = "negate_current" /\ pc' = "auto"
    BY <1>2, <1>5 DEF Stmt
  <2>4. TimesInv'
    BY <1>1, <1>2, <1>5, <2>1, <2>3 DEF TimesInv, Intervel
  <2>5. EndsInv'
    BY <1>1, <1>2, <1>5, <2>1, <2>3 DEF EndsInv
  <2>6. PointInv'
    <3>1. curve.currentPos \in Int /\ curve'.currentPos = -curve.currentPos /\ mirrored
      BY <1>2, <2>1, <2>3, CurveFields DEF EndsInv
    <3>2. CurrentHere' = CurrentHere
      BY <1>1, <1>5, <2>3, <3>1
    <3> QED BY <1>1, <1>2, <2>3, <3>2 DEF PointInv, OnWay, Between
  <2> QED BY <1>1, <1>2, <1>5, <2>2, <2>3, <2>4, <2>5, <2>6, StmtFrame
<1> QED BY <1>3, <1>4, <1>5 DEF Mirror

(* ... and after it.                                                       *)
LEMMA RestoreStep ==
  ASSUME InTime, IInv, Restore
  PROVE  IInv'
<1>1. pc # "idle" /\ UNCHANGED <<tar_pos, cur_pos, arg, burst, planned, mirrored, val, nullcall>>
  BY DEF Restore, Stmt
<1>2. /\ curve \in Curves /\ mirrored \in BOOLEAN /\ val \in Int /\ burst \in Nat
      /\ cur_pos \in Int /\ arg.targetPos \in Int /\ arg.maxTimes = 0
      /\ WaySteps \in Nat
      /\ arg.targetPos <= 0 => cur_pos = 0 /\ Burst[Way] = 0
      /\ TimesInv /\ EndsInv /\ PointInv
      /\ Way' = Way /\ WaySteps' = WaySteps /\ FirstPoint' = FirstPoint
  BY <1>1, StmtFacts
<1> USE DEF Statements, Preparing, Running, Stepping, Closing, Targeted, Started, Placed,
            Moded, Signed, TargetHere, CurrentHere, TargetNegated, CurrentNegated
<1>3. CASE Stmt("restore", curve, IF mirrored THEN "restore_target" ELSE "result")
  <2>1. curve' = curve
    BY <1>2, <1>3 DEF Stmt, Curves
  <2>2. curve' \in Curves
    BY <1>2, <2>1, CurveFields DEF Curves
  <2>3. pc = "restore" /\ pc' = IF mirrored THEN "restore_target" ELSE "result"
    BY <1>2, <1>3 DEF Stmt
  <2>4. TimesInv'
    BY <1>1, <1>2, <1>3, <2>1, <2>3 DEF TimesInv, Intervel
  <2>5. EndsInv'
    BY <1>1, <1>2, <1>3, <2>1, <2>3 DEF EndsInv
  <2>6. PointInv'
    BY <1>1, <1>2, <1>3, <2>1, <2>3 DEF PointInv, OnWay, Between
  <2> QED BY <1>1, <1>2, <1>3, <2>2, <2>3, <2>4, <2>5, <2>6, StmtFrame
<1>4. CASE Stmt("restore_target", NegatedTarget(curve), "restore_current")
  <2>1. curve' = [aTimes |-> curve.aTimes, maxTimes |-> curve.maxTimes, startPos |-> curve.startPos,
                  currentPos |-> curve.currentPos, targetPos |-> -curve.targetPos,
                  curveMode |-> curve.curveMode]
    BY <1>2, <1>4 DEF Stmt, NegatedTarget, Curves
  <2>2. curve' \in Curves
    BY <1>2, <2>1, CurveFields DEF Curves
  <2>3. pc = "restore_target" /\ pc' = "restore_current"
    BY <1>2, <1>4 DEF Stmt
  <2>4. TimesInv'
    BY <1>1, <1>2, <1>4, <2>1, <2>3 DEF TimesInv, Intervel
  <2>5. EndsInv'
    BY <1>1, <1>2, <1>4, <2>1, <2>3 DEF EndsInv
  <2>6. PointInv'
    BY <1>1, <1>2, <1>4, <2>1, <2>3 DEF PointInv, OnWay, Between
  <2> QED BY <1>1, <1>2, <1>4, <2>2, <2>3, <2>4, <2>5, <2>6, StmtFrame
<1>5. CASE Stmt("restore_current", NegatedCurrent(curve), "result")
  <2>1. curve' = [aTimes |-> curve.aTimes, maxTimes |-> curve.maxTimes, startPos |-> curve.startPos,
                  currentPos |-> -curve.currentPos, targetPos |-> curve.targetPos,
                  curveMode |-> curve.curveMode]
    BY <1>2, <1>5 DEF Stmt, NegatedCurrent, Curves
  <2>2. curve' \in Curves
    BY <1>2, <2>1, CurveFields DEF Curves
  <2>3. pc = "restore_current" /\ pc' = "result"
    BY <1>2, <1>5 DEF Stmt
  <2>4. TimesInv'
    BY <1>1, <1>2, <1>5, <2>1, <2>3 DEF TimesInv, Intervel
  <2>5. EndsInv'
    BY <1>1, <1>2, <1>5, <2>1, <2>3 DEF EndsInv
  <2>6. PointInv'
    <3>1. curve.currentPos \in Int /\ curve'.currentPos = -curve.currentPos /\ mirrored
      BY <1>2, <2>1, <2>3, CurveFields DEF EndsInv
    <3>2. CurrentHere' = CurrentHere
      BY <1>1, <1>5, <2>3, <3>1
    <3> QED BY <1>1, <1>2, <2>3, <3>2 DEF PointInv, OnWay, Between
  <2> QED BY <1>1, <1>2, <1>5, <2>2, <2>3, <2>4, <2>5, <2>6, StmtFrame
<1> QED BY <1>3, <1>4, <1>5 DEF Restore

(* The maximal time: the curve has none and stands at its start, so it     *)
(* gets one.                                                               *)
LEMMA AutomaticStep ==
  ASSUME InTime, IInv, Automatic
  PROVE  IInv'
<1>1. pc # "idle" /\ UNCHANGED <<tar_pos, cur_pos, arg, burst, planned, mirrored, val, nullcall>>
  BY DEF Automatic, Stmt
<1>2. /\ curve \in Curves /\ mirrored \in BOOLEAN /\ val \in Int /\ burst \in Nat
      /\ cur_pos \in Int /\ arg.targetPos \in Int /\ arg.maxTimes = 0
      /\ WaySteps \in Nat
      /\ arg.targetPos <= 0 => cur_pos = 0 /\ Burst[Way] = 0
      /\ TimesInv /\ EndsInv /\ PointInv
      /\ Way' = Way /\ WaySteps' = WaySteps /\ FirstPoint' = FirstPoint
  BY <1>1, StmtFacts
<1> USE DEF Statements, Preparing, Running, Stepping, Closing, Targeted, Started, Placed,
            Moded, Signed, TargetHere, CurrentHere, TargetNegated, CurrentNegated
<1>3. CASE Stmt("auto", curve, IF NeedsTimes(curve) THEN "set_max" ELSE "test")
  <2>1. curve' = curve
    BY <1>2, <1>3 DEF Stmt, Curves
  <2>2. curve' \in Curves
    BY <1>2, <2>1, CurveFields DEF Curves
  <2>3. pc = "auto" /\ pc' = "set_max"
    <3>1. pc = "auto"
      BY <1>3 DEF Stmt
    <3>2. curve.maxTimes = 0 /\ curve.startPos = cur_pos /\ curve.currentPos = cur_pos
      BY <1>2, <3>1, CurveFields DEF TimesInv, EndsInv, PointInv
    <3>3. NeedsTimes(curve)
      BY <1>2, <3>2, TrajectoryAssumption DEF NeedsTimes, Abs
    <3> QED BY <1>3, <3>3 DEF Stmt
  <2>4. TimesInv'
    BY <1>1, <1>2, <1>3, <2>1, <2>3 DEF TimesInv, Intervel
  <2>5. EndsInv'
    BY <1>1, <1>2, <1>3, <2>1, <2>3 DEF EndsInv
  <2>6. PointInv'
    BY <1>1, <1>2, <1>3, <2>1, <2>3 DEF PointInv, OnWay, Between
  <2> QED BY <1>1, <1>2, <1>3, <2>2, <2>3, <2>4, <2>5, <2>6, StmtFrame
<1>4. CASE Stmt("set_max", [curve EXCEPT !.maxTimes = AutoTimes(curve)], "set_times")
  <2>1. curve' = [aTimes |-> curve.aTimes, maxTimes |-> (WaySteps + 1) * Intervel, startPos |-> curve.startPos,
                  currentPos |-> curve.currentPos, targetPos |-> curve.targetPos,
                  curveMode |-> curve.curveMode]
    <3>1. pc = "set_max"
      BY <1>4 DEF Stmt
    <3>2. /\ curve.startPos = cur_pos
          /\ \/ curve.targetPos = arg.targetPos
             \/ curve.targetPos = -arg.targetPos /\ cur_pos = 0
      BY <1>2, <3>1, CurveFields DEF EndsInv
    <3>3. Abs(curve.targetPos - curve.startPos) = Abs(arg.targetPos - cur_pos)
      BY <1>2, <3>2 DEF Abs
    <3>4. AutoTimes(curve) = (WaySteps + 1) * Intervel
      BY <3>3 DEF AutoTimes, WaySteps, Way, Steps
    <3>5. curve' = [curve EXCEPT !.maxTimes = (WaySteps + 1) * Intervel]
      BY <1>4, <3>4 DEF Stmt
    <3> DEFINE m == (WaySteps + 1) * Intervel
    <3>6. m \in Nat
      BY <1>2 DEF Intervel
    <3> HIDE DEF m
    <3>7. [curve EXCEPT !.maxTimes = m] =
            [aTimes |-> curve.aTimes, maxTimes |-> m, startPos |-> curve.startPos,
             currentPos |-> curve.currentPos, targetPos |-> curve.targetPos,
             curveMode |-> curve.curveMode]
      BY <1>2, <3>6, CurveStores
    <3> QED BY <3>5, <3>7 DEF m
  <2>2. curve' \in Curves
    BY <1>2, <2>1, CurveFields DEF Curves, Intervel
  <2>3. pc = "set_max" /\ pc' = "set_times"
    BY <1>2, <1>4 DEF Stmt
  <2>4. TimesInv'
    BY <1>1, <1>2, <1>4, <2>1, <2>3 DEF TimesInv, Intervel
  <2>5. EndsInv'
    BY <1>1, <1>2, <1>4, <2>1, <2>3 DEF EndsInv
  <2>6. PointInv'
    BY <1>1, <1>2, <1>4, <2>1, <2>3 DEF PointInv, OnWay, Between
  <2> QED BY <1>1, <1>2, <1>4, <2>2, <2>3, <2>4, <2>5, <2>6, StmtFrame
<1>5. CASE Stmt("set_times", [curve EXCEPT !.aTimes = 0], "test")
  <2>1. curve' = [aTimes |-> 0, maxTimes |-> curve.maxTimes, startPos |-> curve.startPos,
                  currentPos |-> curve.currentPos, targetPos |-> curve.targetPos,
                  curveMode |-> curve.curveMode]
    BY <1>2, <1>5 DEF Stmt, Curves
  <2>2. curve' \in Curves
    BY <1>2, <2>1, CurveFields DEF Curves
  <2>3. pc = "set_times" /\ pc' = "test"
    BY <1>2, <1>5 DEF Stmt
  <2>4. TimesInv'
    BY <1>1, <1>2, <1>5, <2>1, <2>3 DEF TimesInv, Intervel
  <2>5. EndsInv'
    BY <1>1, <1>2, <1>5, <2>1, <2>3 DEF EndsInv
  <2>6. PointInv'
    BY <1>1, <1>2, <1>5, <2>1, <2>3 DEF PointInv, OnWay, Between
  <2> QED BY <1>1, <1>2, <1>5, <2>2, <2>3, <2>4, <2>5, <2>6, StmtFrame
<1> QED BY <1>3, <1>4, <1>5 DEF Automatic

(* One point: it is calculated, never the end.                             *)
LEMMA PointStep ==
  ASSUME InTime, IInv, Point
  PROVE  IInv'
<1>1. pc # "idle" /\ UNCHANGED <<tar_pos, cur_pos, arg, burst, planned, mirrored>>
  BY DEF Point, Stmt
<1>2. /\ curve \in Curves /\ mirrored \in BOOLEAN /\ val \in Int /\ burst \in Nat
      /\ cur_pos \in Int /\ arg.targetPos \in Int /\ arg.maxTimes = 0
      /\ WaySteps \in Nat
      /\ arg.targetPos <= 0 => cur_pos = 0 /\ Burst[Way] = 0
      /\ TimesInv /\ EndsInv /\ PointInv
      /\ Way' = Way /\ WaySteps' = WaySteps /\ FirstPoint' = FirstPoint
  BY <1>1, StmtFacts
<1> USE DEF Statements, Preparing, Running, Stepping, Closing, Targeted, Started, Placed,
            Moded, Signed, TargetHere, CurrentHere, TargetNegated, CurrentNegated
<1>3. CASE /\ Stmt("test", curve, IF curve.aTimes < curve.maxTimes THEN "calculate" ELSE "finish")
           /\ UNCHANGED <<val, nullcall>>
  <2>1. curve' = curve
    BY <1>2, <1>3 DEF Stmt, Curves
  <2>2. curve' \in Curves
    BY <1>2, <2>1, CurveFields DEF Curves
  <2>3. pc = "test" /\ pc' = "calculate"
    <3>1. pc = "test"
      BY <1>3 DEF Stmt
    <3>2. curve.aTimes < curve.maxTimes
      BY <1>2, <3>1, CurveFields DEF TimesInv, Intervel
    <3> QED BY <1>3, <3>1, <3>2 DEF Stmt
  <2>4. TimesInv'
    BY <1>1, <1>2, <1>3, <2>1, <2>3 DEF TimesInv, Intervel
  <2>5. EndsInv'
    BY <1>1, <1>2, <1>3, <2>1, <2>3 DEF EndsInv
  <2>6. PointInv'
    BY <1>1, <1>2, <1>3, <2>1, <2>3 DEF PointInv, OnWay, Between
  <2> QED BY <1>1, <1>2, <1>3, <2>2, <2>3, <2>4, <2>5, <2>6, StmtFrame
<1>4. CASE /\ Stmt("calculate", curve, "store_current")
           /\ val' = IF curve.maxTimes = 0 THEN NaN ELSE CalCurve(curve)
           /\ nullcall' = (nullcall \/ curve.curveMode = 0)
  <2>1. curve' = curve /\ pc = "calculate" /\ pc' = "store_current"
    BY <1>4 DEF Stmt
  <2>2. /\ curve.aTimes < curve.maxTimes /\ curve.maxTimes # 0
        /\ curve.maxTimes = (WaySteps + 1) * Intervel
        /\ burst = 0 => curve.aTimes = 0
    BY <1>2, <2>1, CurveFields DEF TimesInv, Intervel
  <2>3. /\ curve.startPos = cur_pos /\ curve.curveMode = 1
        /\ ~mirrored => curve.targetPos = arg.targetPos /\ arg.targetPos > 0
        /\ mirrored => curve.targetPos = -arg.targetPos /\ ~(arg.targetPos > 0) /\ cur_pos = 0
    BY <1>2, <2>1, CurveFields DEF EndsInv
  <2>4. val' = CalCurve(curve)
    BY <1>4, <2>2
  <2>5. CalCurve(curve) \in Int /\ Between(CalCurve(curve), curve.startPos, curve.targetPos)
    BY <1>2, <2>2, CalCurveBetween
  <2>6. OnWay(ValHere)'
    BY <1>1, <1>2, <2>3, <2>4, <2>5 DEF OnWay, ValHere, Between
  <2>7. burst = 0 => ValHere' = FirstPoint
    <3> SUFFICES ASSUME burst = 0 PROVE ValHere' = FirstPoint
      OBVIOUS
    <3> DEFINE d == curve.targetPos - cur_pos
               n == (WaySteps + 1) * Intervel + 1
    <3>1. d \in Int /\ d * (0 + 1) = d
      BY <1>2, CurveFields
    <3>2. CalCurve(curve) = cur_pos + (d * (0 + 1)) \div n
      BY <2>2, <2>3 DEF CalCurve
    <3>3. CalCurve(curve) = cur_pos + d \div n
      BY <3>1, <3>2
    <3>4. CASE ~mirrored
      <4>1. d = arg.targetPos - cur_pos /\ arg.targetPos > 0
        BY <2>3, <3>4
      <4>2. ValHere' = CalCurve(curve)
        BY <1>1, <2>4, <3>4 DEF ValHere
      <4>3. FirstPoint = cur_pos + d \div n
        BY <4>1 DEF FirstPoint
      <4> QED BY <3>3, <4>2, <4>3
    <3>5. CASE mirrored
      <4>1. d = -arg.targetPos /\ ~(arg.targetPos > 0) /\ cur_pos = 0
        BY <1>2, <2>3, <3>5
      <4>2. ValHere' = -CalCurve(curve)
        BY <1>1, <2>4, <3>5 DEF ValHere
      <4>3. FirstPoint = -(d \div n)
        BY <4>1 DEF FirstPoint
      <4>4. d \div n \in Int
        <5>1. n \in Nat \ {0}
          BY <1>2 DEF Intervel
        <5> HIDE DEF d, n
        <5> QED BY <3>1, <5>1, Quotient
      <4> HIDE DEF d, n
      <4> QED BY <3>3, <4>1, <4>2, <4>3, <4>4
    <3> QED BY <3>4, <3>5
  <2>8. nullcall' = nullcall
    <3>1. curve.curveMode # 0 /\ nullcall = FALSE
      BY <2>3 DEF IInv, TypeOK
    <3> QED BY <1>4, <3>1
  <2>9. TimesInv'
    BY <1>1, <1>2, <2>1 DEF TimesInv, Intervel
  <2>10. EndsInv'
    BY <1>1, <1>2, <2>1 DEF EndsInv
  <2>11. PointInv'
    BY <1>1, <1>2, <2>1, <2>6, <2>7 DEF PointInv, OnWay, Between
  <2> QED BY <1>1, <1>2, <2>1, <2>4, <2>5, <2>8, <2>9, <2>10, <2>11, StmtFrame
<1>5. CASE /\ Stmt("store_current", [curve EXCEPT !.currentPos = val], "load_times")
           /\ UNCHANGED <<val, nullcall>>
  <2>1. curve' = [aTimes |-> curve.aTimes, maxTimes |-> curve.maxTimes, startPos |-> curve.startPos,
                  currentPos |-> val, targetPos |-> curve.targetPos,
                  curveMode |-> curve.curveMode]
    BY <1>2, <1>5 DEF Stmt, Curves
  <2>2. curve' \in Curves
    BY <1>2, <2>1, CurveFields DEF Curves
  <2>3. pc = "store_current" /\ pc' = "load_times"
    BY <1>2, <1>5 DEF Stmt
  <2>4. TimesInv'
    BY <1>1, <1>2, <1>5, <2>1, <2>3 DEF TimesInv, Intervel
  <2>5. EndsInv'
    BY <1>1, <1>2, <1>5, <2>1, <2>3 DEF EndsInv
  <2>6. PointInv'
    BY <1>1, <1>2, <1>5, <2>1, <2>3 DEF PointInv, OnWay, Between, ValHere
  <2> QED BY <1>1, <1>2, <1>5, <2>2, <2>3, <2>4, <2>5, <2>6, StmtFrame
<1>6. CASE /\ Stmt("load_times", curve, "advance") /\ val' = curve.aTimes /\ UNCHANGED nullcall
  <2>1. curve' = curve
    BY <1>2, <1>6 DEF Stmt, Curves
  <2>2. curve' \in Curves
    BY <1>2, <2>1, CurveFields DEF Curves
  <2>3. pc = "load_times" /\ pc' = "advance" /\ val' \in Nat /\ val' = curve.aTimes
    BY <1>2, <1>6, CurveFields DEF Stmt
  <2>4. TimesInv'
    BY <1>1, <1>2, <1>6, <2>1, <2>3 DEF TimesInv, Intervel
  <2>5. EndsInv'
    BY <1>1, <1>2, <1>6, <2>1, <2>3 DEF EndsInv
  <2>6. PointInv'
    BY <1>1, <1>2, <1>6, <2>1, <2>3 DEF PointInv, OnWay, Between
  <2> QED BY <1>1, <1>2, <1>6, <2>2, <2>3, <2>4, <2>5, <2>6, StmtFrame
<1>7. CASE /\ Stmt("advance", [curve EXCEPT !.aTimes = Advanced(val)], "restore")
           /\ UNCHANGED <<val, nullcall>>
  <2>1. curve' = [aTimes |-> val + Intervel, maxTimes |-> curve.maxTimes, startPos |-> curve.startPos,
                  currentPos |-> curve.currentPos, targetPos |-> curve.targetPos,
                  curveMode |-> curve.curveMode]
    BY <1>2, <1>7 DEF Stmt, Advanced, Intervel, Curves
  <2>2. curve' \in Curves
    <3>1. val \in Nat
      BY <1>2, <1>7 DEF Stmt, TimesInv
    <3> QED BY <1>2, <2>1, <3>1, CurveFields DEF Curves, Intervel
  <2>3. pc = "advance" /\ pc' = "restore"
    BY <1>7 DEF Stmt
  <2>4. TimesInv'
    BY <1>1, <1>2, <1>7, <2>1, <2>3 DEF TimesInv, Intervel
  <2>5. EndsInv'
    BY <1>1, <1>2, <1>7, <2>1, <2>3 DEF EndsInv
  <2>6. PointInv'
    BY <1>1, <1>2, <1>7, <2>1, <2>3 DEF PointInv, OnWay, Between
  <2> QED BY <1>1, <1>2, <1>7, <2>2, <2>3, <2>4, <2>5, <2>6, StmtFrame
<1>8. CASE /\ Stmt("finish", Finished(curve), "restore")
           /\ UNCHANGED <<val, nullcall>>
  <2>1. pc \in Statements
    BY <1>1 DEF IInv, CallInv
  <2> QED BY <1>8, <2>1 DEF Stmt
<1> QED BY <1>3, <1>4, <1>5, <1>6, <1>7, <1>8 DEF Point

LEMMA ResultStep ==
  ASSUME InTime, IInv, Result
  PROVE  IInv'
<1>1. pc # "idle" /\ UNCHANGED <<tar_pos, cur_pos, arg, burst, planned, mirrored, nullcall>>
  BY DEF Result, Stmt
<1>2. /\ curve \in Curves /\ mirrored \in BOOLEAN /\ val \in Int /\ burst \in Nat
      /\ cur_pos \in Int /\ arg.targetPos \in Int /\ arg.maxTimes = 0
      /\ WaySteps \in Nat
      /\ arg.targetPos <= 0 => cur_pos = 0 /\ Burst[Way] = 0
      /\ TimesInv /\ EndsInv /\ PointInv
      /\ Way' = Way /\ WaySteps' = WaySteps /\ FirstPoint' = FirstPoint
  BY <1>1, StmtFacts
<1> USE DEF Statements, Preparing, Running, Stepping, Closing, Targeted, Started, Placed,
            Moded, Signed, TargetHere, CurrentHere, TargetNegated, CurrentNegated
<1>3. curve' = curve /\ pc = "result" /\ pc' = "store" /\ val' = curve.currentPos
  BY DEF Result, Stmt
<1>4. val' \in Int
  BY <1>2, <1>3, CurveFields
<1>5. TimesInv'
  BY <1>1, <1>2, <1>3 DEF TimesInv, Intervel
<1>6. EndsInv'
  BY <1>1, <1>2, <1>3 DEF EndsInv
<1>7. PointInv'
  BY <1>1, <1>2, <1>3 DEF PointInv, OnWay, Between
<1> QED BY <1>1, <1>2, <1>3, <1>4, <1>5, <1>6, <1>7, StmtFrame

(* The end of a call: the curve runs.                                      *)
LEMMA StoreStep ==
  ASSUME InTime, IInv, Store
  PROVE  IInv'
<1>1. /\ pc = "store" /\ tar_pos' = val /\ pc' = "idle"
      /\ UNCHANGED <<curve, cur_pos, arg, mirrored, val, burst, planned, nullcall>>
  BY DEF Store
<1>2. /\ curve \in Curves /\ mirrored \in BOOLEAN /\ val \in Int /\ burst \in Nat
      /\ cur_pos \in Int /\ arg.targetPos \in Int /\ arg.maxTimes = 0
      /\ WaySteps \in Nat
      /\ arg.targetPos <= 0 => cur_pos = 0 /\ Burst[Way] = 0
      /\ TimesInv /\ EndsInv /\ PointInv
      /\ Way' = Way /\ WaySteps' = WaySteps /\ FirstPoint' = FirstPoint
  BY <1>1, StmtFacts
<1> USE DEF Statements, Preparing, Running, Stepping, Closing, Targeted, Started, Placed,
            Moded, Signed, TargetHere, CurrentHere, TargetNegated, CurrentNegated
<1>3. /\ curve.maxTimes # 0 /\ curve.targetPos = arg.targetPos
      /\ curve.startPos = cur_pos /\ curve.curveMode = 1 /\ OnWay(val)
  BY <1>1, <1>2 DEF TimesInv, EndsInv, PointInv, Intervel
<1>4. IdleInv'
  BY <1>1, <1>2, <1>3 DEF IdleInv, OnWay, Between
<1>5. TypeOK'
  BY <1>1, <1>2 DEF IInv, TypeOK
<1> QED BY <1>1, <1>4, <1>5 DEF IInv

(* The driver thread breaks into a call: the curve has its time and its    *)
(* ends by then, it is one of a way forwards and has not run out.          *)
LEMMA HandleInCallStep ==
  ASSUME InTime, IInv, Handle, pc # "idle"
  PROVE  IInv'
<1>1. /\ curve.maxTimes # 0 /\ curve' = Planning(curve) /\ tar_pos' = curve'.currentPos
      /\ burst < Burst[cur_pos, arg.targetPos] /\ burst' = burst + 1
      /\ nullcall' = (nullcall \/ (curve.curveMode = 0 /\ curve.aTimes < curve.maxTimes))
      /\ UNCHANGED <<cur_pos, pc, arg, mirrored, val, planned>>
  BY DEF Handle, app
<1>2. /\ curve \in Curves /\ mirrored \in BOOLEAN /\ val \in Int /\ burst \in Nat
      /\ cur_pos \in Int /\ arg.targetPos \in Int /\ arg.maxTimes = 0
      /\ WaySteps \in Nat
      /\ arg.targetPos <= 0 => cur_pos = 0 /\ Burst[Way] = 0
      /\ TimesInv /\ EndsInv /\ PointInv
      /\ Way' = Way /\ WaySteps' = WaySteps /\ FirstPoint' = FirstPoint
  BY <1>1, StmtFacts
<1> USE DEF Statements, Preparing, Running, Stepping, Closing, Targeted, Started, Placed,
            Moded, Signed, TargetHere, CurrentHere, TargetNegated, CurrentNegated
<1>3. burst < Burst[Way] /\ Burst[Way] <= WaySteps /\ Burst[Way] \in Nat /\ pc \in Statements
  <2>1. TypeOK /\ CallInv
    BY DEF IInv
  <2> QED BY <1>1, <2>1, CallFacts DEF Way, CallInv
<1>4. arg.targetPos > 0
  BY <1>2, <1>3
<1>5. /\ pc \in Running /\ ~mirrored /\ curve.targetPos = arg.targetPos
      /\ curve.startPos = cur_pos /\ curve.curveMode = 1
  <2>1. pc \in Running
    BY <1>1, <1>2, <1>3 DEF TimesInv
  <2>2. pc \in Signed /\ ~(arg.targetPos <= 0)
    BY <1>2, <1>4, <2>1
  <2>3. ~mirrored
    BY <1>2, <2>2 DEF EndsInv
  <2> QED BY <1>2, <2>1, <2>2, <2>3 DEF EndsInv
<1>6. curve.aTimes < curve.maxTimes /\ curve.maxTimes = (WaySteps + 1) * Intervel
  BY <1>2, <1>3, <1>5, CurveFields DEF TimesInv, Intervel
<1>7. /\ curve' \in Curves
      /\ curve'.startPos = cur_pos /\ curve'.targetPos = arg.targetPos /\ curve'.curveMode = 1
      /\ curve'.maxTimes = (WaySteps + 1) * Intervel
      /\ curve'.aTimes = curve.aTimes + Intervel
      /\ Between(curve'.currentPos, cur_pos, arg.targetPos)
  BY <1>1, <1>2, <1>4, <1>5, <1>6, PlanningRunning
<1>8. /\ burst' \in Nat /\ burst' # 0 /\ burst' <= WaySteps
      /\ nullcall' \in BOOLEAN /\ ~nullcall'
  <2>1. curve.curveMode # 0
    BY <1>5
  <2>2. nullcall' = FALSE
    BY <1>1, <2>1, Zenon DEF IInv
  <2>3. burst \in Nat /\ burst < WaySteps /\ burst' = burst + 1 /\ WaySteps \in Nat
    <3>1. burst < Burst[Way] /\ Burst[Way] <= WaySteps /\ Burst[Way] \in Nat
      BY <1>3
    <3>2. burst \in Nat /\ WaySteps \in Nat
      BY <1>2
    <3>3. burst < WaySteps
      BY <3>1, <3>2
    <3> QED BY <1>1, <3>2, <3>3
  <2>4. burst' \in Nat /\ burst' # 0 /\ burst' <= WaySteps
    BY <2>3
  <2>5. nullcall' \in BOOLEAN /\ ~nullcall'
    BY <2>2, Zenon
  <2> QED BY <2>4, <2>5, Zenon
<1>9. TypeOK'
  <2>1. tar_pos' \in Int
    BY <1>1, <1>7, CurveFields
  <2> QED BY <1>1, <1>2, <1>7, <1>8, <2>1 DEF IInv, TypeOK, Curves
<1>10. TimesInv'
  <2>1. curve.aTimes \in Nat /\ burst' = burst + 1 /\ pc' = pc /\ val' = val
    BY <1>1, <1>2, CurveFields
  <2>2. CASE pc \in Stepping
    <3>1. curve.aTimes <= Intervel * burst /\ (pc = "advance" => val \in Nat /\ val <= Intervel * burst)
      BY <1>2, <2>2 DEF TimesInv
    <3> QED BY <1>2, <1>7, <1>8, <2>1, <2>2, <3>1 DEF TimesInv, Intervel
  <2>3. CASE pc \in Closing
    <3>1. curve.aTimes <= Intervel * (burst + 1)
      BY <1>2, <2>3 DEF TimesInv
    <3> QED BY <1>2, <1>7, <1>8, <2>1, <2>3, <3>1 DEF TimesInv, Intervel
  <2> QED BY <1>5, <2>2, <2>3
<1>11. EndsInv'
  BY <1>1, <1>2, <1>5, <1>7 DEF EndsInv
<1>12. PointInv'
  BY <1>1, <1>2, <1>5, <1>7, <1>8 DEF PointInv, OnWay, ValHere
<1>13. Way' \in Ways /\ arg'.maxTimes = 0 /\ pc' \in Statements
  BY <1>1, <1>2, <1>3 DEF IInv, CallInv
<1>14. pc' # "idle"
  BY <1>1
<1> QED BY <1>8, <1>9, <1>10, <1>11, <1>12, <1>13, <1>14 DEF IInv, CallInv

(* The driver thread runs a curve on its own, to its end.                  *)
LEMMA HandleIdleStep ==
  ASSUME IInv, Handle, pc = "idle"
  PROVE  IInv'
<1>1. /\ curve.maxTimes # 0 /\ curve' = Planning(curve) /\ tar_pos' = curve'.currentPos
      /\ burst' = 0 /\ pc' = "idle"
      /\ nullcall' = (nullcall \/ (curve.curveMode = 0 /\ curve.aTimes < curve.maxTimes))
      /\ UNCHANGED <<cur_pos, arg, mirrored, val, planned>>
  BY DEF Handle, app
<1>2. /\ curve \in Curves /\ TypeOK /\ IdleInv /\ nullcall = FALSE
      /\ curve.targetPos = arg.targetPos /\ curve.curveMode = 1
      /\ curve.targetPos <= 0 => curve.startPos = 0
  BY <1>1 DEF IInv, IdleInv, TypeOK, Curves
<1>3. /\ curve' \in Curves
      /\ curve'.startPos = curve.startPos /\ curve'.targetPos = curve.targetPos
      /\ curve'.curveMode = 1
      /\ curve.aTimes < curve.maxTimes => curve'.maxTimes = curve.maxTimes
      /\ ~(curve.aTimes < curve.maxTimes) => curve'.maxTimes = 0 /\ tar_pos' = curve.targetPos
      /\ Between(tar_pos', curve.startPos, curve.targetPos)
  BY <1>1, <1>2, PlanningRunning
<1>4. nullcall' = FALSE
  <2>1. curve.curveMode # 0
    BY <1>2
  <2> QED BY <1>1, <1>2, <2>1, Zenon
<1>5. TypeOK'
  BY <1>1, <1>2, <1>3, <1>4, CurveFields DEF TypeOK, Curves
<1>6. IdleInv'
  BY <1>1, <1>2, <1>3 DEF IdleInv
<1> QED BY <1>1, <1>4, <1>5, <1>6 DEF IInv

LEMMA IInvNext == ASSUME InTime, IInv, [Next]_vars PROVE IInv'
<1>1. CASE Call
  BY <1>1, CallStep
<1>2. CASE Assign
  BY <1>2, AssignStep
<1>3. CASE Mirror
  BY <1>3, MirrorStep
<1>4. CASE Automatic
  BY <1>4, AutomaticStep
<1>5. CASE Point
  BY <1>5, PointStep
<1>6. CASE Restore
  BY <1>6, RestoreStep
<1>7. CASE Result
  BY <1>7, ResultStep
<1>8. CASE Store
  BY <1>8, StoreStep
<1>9. CASE Handle
  BY <1>9, HandleInCallStep, HandleIdleStep
<1>10. CASE Move
  BY <1>10, MoveStep
<1>11. CASE UNCHANGED vars
  BY <1>11 DEF vars, app, IInv, TypeOK, CallInv, IdleInv, TimesInv, EndsInv, PointInv,
     TargetHere, CurrentHere, TargetNegated, CurrentNegated, ValHere, Way, WaySteps,
     FirstPoint, OnWay, Steps, Between
<1> QED BY <1>1, <1>2, <1>3, <1>4, <1>5, <1>6, <1>7, <1>8, <1>9, <1>10, <1>11
        DEF Next, Application

-----------------------------------------------------------------------------
(***************************************************************************)
(* The theorems.                                                           *)
(***************************************************************************)

THEOREM IInvAlways == ASSUME InTime PROVE Spec => []IInv
BY IInvInit, IInvNext, PTL DEF Spec

(* Types: times and positions stay numbers, motor_planning never divides   *)
(* by a maxTimes that has become zero.                                     *)
THEOREM TypeOKAlways == ASSUME InTime PROVE Spec => []TypeOK
<1>1. IInv => TypeOK
  BY DEF IInv
<1> QED BY <1>1, IInvAlways, PTL

(* Wherever the driver thread breaks into motor_set_pos_plan, a motor      *)
(* whose curve runs is sent to no place off its way.                       *)
THEOREM OnTheWayAlways == ASSUME InTime PROVE Spec => []OnTheWay
<1>1. IInv => OnTheWay
  BY DEF IInv, IdleInv, OnTheWay
<1> QED BY <1>1, IInvAlways, PTL

(* A curve that has run out leaves the motor sent to its target.           *)
THEOREM ArrivedAlways == ASSUME InTime PROVE Spec => []Arrived
<1>1. IInv => Arrived
  BY DEF IInv, IdleInv, Arrived
<1> QED BY <1>1, IInvAlways, PTL

(* The driver thread never calls through the empty entry of pCalCurve.     *)
THEOREM ModeHasFunctionAlways == ASSUME InTime PROVE Spec => []ModeHasFunction
<1>1. IInv => ModeHasFunction
  BY DEF IInv, ModeHasFunction
<1> QED BY <1>1, IInvAlways, PTL

(* A plan that no handling broke into sends the motor, to begin with,      *)
(* nearer to where it stands than to where it is to go. A stepPos of one   *)
(* would leave way for the first of two steps to be half of the way.       *)
THEOREM StartsAtStartAlways ==
  ASSUME InTime, StepPos >= 2
  PROVE  Spec => StartsAtStart
<1>1. ASSUME IInv, Store, burst = 0, 2 * StepPos <= Abs(cur_pos - arg.targetPos)
      PROVE  Abs(tar_pos' - cur_pos) < Abs(arg.targetPos - tar_pos')
  <2>1. pc = "store" /\ tar_pos' = val /\ UNCHANGED <<cur_pos, arg>>
    BY <1>1 DEF Store
  <2>2. /\ cur_pos \in Int /\ arg.targetPos \in Int /\ WaySteps \in Nat
        /\ arg.targetPos <= 0 => cur_pos = 0
        /\ tar_pos' = FirstPoint
    BY <1>1, <2>1, StmtFacts DEF PointInv
  <2>3. StepPos \in Nat \ {0, 1}
    BY TrajectoryAssumption
  <2> DEFINE d == IF arg.targetPos > 0 THEN arg.targetPos - cur_pos ELSE -arg.targetPos
             n == (WaySteps + 1) * Intervel + 1
             q == d \div n
  <2>4. /\ d \in Int /\ Abs(d) = Abs(cur_pos - arg.targetPos)
        /\ Abs(d) = Abs(arg.targetPos - cur_pos)
    BY <2>2 DEF Abs
  <2>5. n = (Abs(d) \div StepPos + 1) * Intervel + 1
    BY <2>4 DEF WaySteps, Way, Steps
  <2>6. Abs(d \div n) < Abs(d - d \div n)
    <3> HIDE DEF d, n
    <3>1. LET m == (Abs(d) \div StepPos + 1) * Intervel + 1
          IN  Abs(d \div m) < Abs(d - d \div m)
      BY <1>1, <2>3, <2>4, FirstPart
    <3> QED BY <2>5, <3>1
  <2>7. q \in Int
    <3>1. n \in Nat \ {0}
      BY <2>2 DEF Intervel
    <3> HIDE DEF d, n
    <3> QED BY <2>4, <3>1, Quotient
  <2>8. CASE arg.targetPos > 0
    <3>1. tar_pos' = cur_pos + q /\ d = arg.targetPos - cur_pos
      BY <2>2, <2>8 DEF FirstPoint
    <3> HIDE DEF q
    <3>2. tar_pos' - cur_pos = q /\ arg.targetPos - tar_pos' = d - q
      BY <2>2, <2>7, <3>1
    <3> QED BY <2>6, <3>2 DEF q
  <2>9. CASE ~(arg.targetPos > 0)
    <3>1. tar_pos' = -q /\ d = -arg.targetPos /\ cur_pos = 0
      BY <2>2, <2>9 DEF FirstPoint
    <3> HIDE DEF q
    <3>2. tar_pos' - cur_pos = -q /\ arg.targetPos - tar_pos' = -(d - q)
      BY <2>2, <2>7, <3>1
    <3>3. Abs(-q) = Abs(q) /\ Abs(-(d - q)) = Abs(d - q)
      BY <2>4, <2>7 DEF Abs
    <3> QED BY <2>6, <3>2, <3>3 DEF q
  <2> QED BY <2>8, <2>9
<1>2. IInv /\ [Next]_vars =>
        [Store /\ burst = 0 /\ 2 * StepPos <= Abs(cur_pos - arg.targetPos) =>
           Abs(tar_pos' - cur_pos) < Abs(arg.targetPos - tar_pos')]_vars
  BY <1>1
<1> QED BY <1>2, IInvAlways, PTL DEF Spec, StartsAtStart
=============================================================================
