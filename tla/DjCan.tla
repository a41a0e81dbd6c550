------------------------------- MODULE DjCan -------------------------------
(***************************************************************************)
(* The CAN driver of the DJI motors (motor_dj_rm_driver.c) with the part   *)
(* of the motor layer it runs (motor_handle in motor.c).                   *)
(*                                                                         *)
(* Three activities share dj_motors[], iq1_low[]/iq1_high[] and            *)
(* motor_list[]:                                                           *)
(*   - the CAN receive interrupt (ind_dj_can_motor_callback), which can    *)
(*     fire between any two steps of the others;                           *)
(*   - the thread m_dj_driver (can_rx_thread), priority 3: it takes a      *)
(*     motor id from the ring buffer, runs motor_handle on it and blocks   *)
(*     in rt_device_write until the frame has left or has failed;          *)
(*   - application threads of lower priority, which run only while         *)
(*     m_dj_driver is blocked: they command, stop and start motors.        *)
(* The rotor of each motor is part of the model, so that what the driver   *)
(* believes can be compared with where the rotor is.                       *)
(***************************************************************************)
EXTENDS Integers, Sequences

CONSTANTS
  DJ_M_NUM,   \* motors configured in dj_motors[] (motor_cfg.h)
  LowGroup,   \* those with can_id 0x201..0x204, driven by frame 0x200;
              \* the others, 0x205..0x208, are driven by frame 0x1FF
  LowOr,      \* those of LowGroup whose test in the gate of frame 0x200 is
              \* followed by "||" (MOTOR_DJ_M2006_ID1_CAN1), {} otherwise
  CalCount,   \* frames used for calibration: 50
  Ready,      \* msg_cnt of a motor that delivers data: 0xff
  Counts,     \* encoder counts of a turn: 8192
  FifoSize,   \* bytes of dj_m_ringfifo: 4096
  Torques,    \* currents the control loops can ask for
  Turning,    \* bound: motors whose rotor moves
  MaxStep,    \* bound: counts a rotor moves between two received frames
  MaxTurn     \* bound: turns a rotor makes from where it was at power on

Motors == 0 .. DJ_M_NUM - 1
HighGroup == Motors \ LowGroup
Half == Counts \div 2

ASSUME DjCanAssumption ==
  /\ DJ_M_NUM \in Nat \ {0}
  /\ LowGroup \subseteq Motors
  /\ LowOr \subseteq LowGroup
  /\ CalCount \in Nat \ {0}
  /\ Ready \in Nat /\ CalCount < Ready
  /\ Counts \in Nat \ {0, 1}
  /\ FifoSize \in Nat \ {0}
  /\ Torques \subseteq Int /\ 0 \in Torques
  \* A rotor stays below half a turn between two received frames, at 1 kHz
  \* far more than its top speed needs; without it no encoder of one turn
  \* can count turns.
  /\ Turning \subseteq Motors
  /\ MaxStep \in Nat /\ MaxStep < Half
  /\ MaxTurn \in Nat

VARIABLES
  \* the rotors: where each one is, and ghosts of where it was
  ang,          \* counts within the turn, 0..Counts-1
  turn,         \* full turns since power on
  zeroTurn,     \* turn when offset_angle was last taken
  frames,       \* frames received since power on, up to CalCount
  \* motor_measure_t of each motor, last_angle excepted: it is written and
  \* read within one call of the interrupt only
  msg_cnt, angle, offset_angle, round_cnt, total_angle,
  \* shared by the interrupt and the thread
  fifo,         \* dj_m_ringfifo
  \* motor_t of each motor
  commanded,    \* flag_run_mode is not MOTOR_MODE_IDEL
  flag_is_stop, acc_out,
  \* the thread m_dj_driver
  pc,           \* "poll", "write" (blocked in rt_device_write), "reset"
  cur,          \* the motor being handled
  iq,           \* iq1_low / iq1_high, one slot per motor
  frame,        \* the slots copied in msg.data
  ri,           \* the index of the loop that resets msg_cnt
  \* the current controllers of the motors, behind the bus
  applied,      \* the current the motor was last told to apply
  \* ghosts
  halted,       \* motors stopped, and told so by a frame, since the last start
  heard         \* motors a frame has come from since the last failed 0x200

rotor == <<ang, turn, zeroTurn, frames>>
measure == <<msg_cnt, angle, offset_angle, round_cnt, total_angle>>
hal == <<commanded, flag_is_stop, acc_out>>
thread == <<pc, cur, iq, frame, ri>>
vars == <<rotor, measure, fifo, hal, thread, applied, halted, heard>>

-----------------------------------------------------------------------------
Group(m) == IF m \in LowGroup THEN LowGroup ELSE HighGroup

TypeOK ==
  /\ ang \in [Motors -> 0 .. Counts - 1]
  /\ turn \in [Motors -> -MaxTurn .. MaxTurn]
  /\ zeroTurn \in [Motors -> -MaxTurn .. MaxTurn]
  /\ frames \in [Motors -> 0 .. CalCount]
  /\ msg_cnt \in [Motors -> (0 .. CalCount) \cup {Ready}]
  /\ angle \in [Motors -> 0 .. Counts - 1]
  /\ offset_angle \in [Motors -> 0 .. Counts - 1]
  /\ round_cnt \in [Motors -> Int]
  /\ total_angle \in [Motors -> Int]
  /\ fifo \in Seq(Motors) /\ Len(fifo) <= FifoSize
  /\ commanded \in [Motors -> BOOLEAN]
  /\ flag_is_stop \in [Motors -> BOOLEAN]
  /\ acc_out \in [Motors -> Torques]
  /\ pc \in {"poll", "write", "reset"}
  /\ cur \in Motors
  /\ iq \in [Motors -> Torques]
  /\ frame \in [Motors -> Torques]
  /\ ri \in 0 .. DJ_M_NUM
  /\ applied \in [Motors -> Torques]
  /\ halted \in SUBSET Motors
  /\ heard \in SUBSET Motors

Init ==
  /\ ang \in [Motors -> 0 .. Counts - 1]
  /\ \A m \in Motors \ Turning : ang[m] = 0
  /\ turn = [m \in Motors |-> 0]
  /\ zeroTurn = [m \in Motors |-> 0]
  /\ frames = [m \in Motors |-> 0]
  /\ msg_cnt = [m \in Motors |-> 0]
  /\ angle = [m \in Motors |-> 0]
  /\ offset_angle = [m \in Motors |-> 0]
  /\ round_cnt = [m \in Motors |-> 0]
  /\ total_angle = [m \in Motors |-> 0]
  /\ fifo = << >>
  /\ commanded = [m \in Motors |-> FALSE]
  /\ flag_is_stop = [m \in Motors |-> FALSE]
  /\ acc_out = [m \in Motors |-> 0]
  /\ pc = "poll" /\ cur = 0 /\ ri = 0
  /\ iq = [m \in Motors |-> 0]
  /\ frame = [m \in Motors |-> 0]
  /\ applied = [m \in Motors |-> 0]
  /\ halted = {}
  /\ heard = {}

-----------------------------------------------------------------------------
(* The rotor of m moves by d counts.                                       *)
AngAfter(m, d) ==
  IF ang[m] + d >= Counts THEN ang[m] + d - Counts
  ELSE IF ang[m] + d < 0 THEN ang[m] + d + Counts
  ELSE ang[m] + d

TurnAfter(m, d) ==
  IF ang[m] + d >= Counts THEN turn[m] + 1
  ELSE IF ang[m] + d < 0 THEN turn[m] - 1
  ELSE turn[m]

(* Mutated: only the wrap past 8191 is counted.                            *)
RoundAfterOneWay(m, a) ==
  IF a - angle[m] < -Half THEN round_cnt[m] + 1 ELSE round_cnt[m]

(* round_cnt of m when the encoder reads a after having read angle[m].     *)
RoundAfter(m, a) ==
  IF a - angle[m] > Half THEN round_cnt[m] - 1
  ELSE IF a - angle[m] < -Half THEN round_cnt[m] + 1
  ELSE round_cnt[m]

(* total_angle: a turn counts for 8191 here, one less than its counts.     *)
TotalAngle(round, a, offset) == round * (Counts - 1) + a - offset

(* Mutated: the ring grows instead of giving up its oldest id.             *)
PutGrowing(s, m) == Append(s, m)

(* rt_ringbuffer_putchar_force: when the ring is full the oldest id goes.  *)
PutForce(s, m) == Append(IF Len(s) < FifoSize THEN s ELSE Tail(s), m)

(* Mutated: one frame more than CalCount is taken for calibration.         *)
CalibrateOnceMore(m, a, t) ==
  /\ msg_cnt[m] <= CalCount
  /\ msg_cnt' = [msg_cnt EXCEPT ![m] = msg_cnt[m] + 1]
  /\ offset_angle' = [offset_angle EXCEPT ![m] = a]
  /\ zeroTurn' = [zeroTurn EXCEPT ![m] = t]
  /\ UNCHANGED <<round_cnt, total_angle>>

(* The callback while msg_cnt is below 50, and afterwards; a is the angle  *)
(* the frame carries and t the turn the rotor is in.                       *)
Calibrate(m, a, t) ==
  /\ msg_cnt[m] < CalCount
  /\ msg_cnt' = [msg_cnt EXCEPT ![m] = msg_cnt[m] + 1]
  /\ offset_angle' = [offset_angle EXCEPT ![m] = a]
  /\ zeroTurn' = [zeroTurn EXCEPT ![m] = t]
  /\ UNCHANGED <<round_cnt, total_angle>>

Track(m, a) ==
  /\ msg_cnt[m] >= CalCount
  /\ msg_cnt' = [msg_cnt EXCEPT ![m] = Ready]
  /\ round_cnt' = [round_cnt EXCEPT ![m] = RoundAfter(m, a)]
  /\ total_angle' = [total_angle EXCEPT ![m] =
                       TotalAngle(RoundAfter(m, a), a, offset_angle[m])]
  /\ UNCHANGED <<offset_angle, zeroTurn>>

(* ind_dj_can_motor_callback: the interrupt for one frame of motor m, whose *)
(* rotor has moved by d since the last frame that was received.            *)
CanFrame(m, d) ==
  /\ TurnAfter(m, d) \in -MaxTurn .. MaxTurn
  /\ ang' = [ang EXCEPT ![m] = AngAfter(m, d)]
  /\ turn' = [turn EXCEPT ![m] = TurnAfter(m, d)]
  /\ frames' = [frames EXCEPT ![m] = IF frames[m] < CalCount THEN frames[m] + 1 ELSE CalCount]
  /\ angle' = [angle EXCEPT ![m] = AngAfter(m, d)]
  /\ Calibrate(m, AngAfter(m, d), TurnAfter(m, d)) \/ Track(m, AngAfter(m, d))
  /\ fifo' = PutForce(fifo, m)
  /\ heard' = heard \cup {m}
  /\ UNCHANGED <<hal, thread, applied, halted>>

-----------------------------------------------------------------------------
(* Mutated: "||" after every test, as after that of MOTOR_DJ_M2006_ID1.    *)
LowGateAny == \E m \in LowGroup : msg_cnt[m] = Ready

(* The tests of msg_cnt before frame 0x200 and before frame 0x1FF.         *)
LowGate ==
  \/ \E m \in LowOr : msg_cnt[m] = Ready
  \/ \A m \in LowGroup \ LowOr : msg_cnt[m] = Ready

HighGate == \A m \in HighGroup : msg_cnt[m] = Ready

(* motor_dj_driver(m) asked for current v, up to the rt_device_write: frame *)
(* 0x200 stores the current only when it sends, frame 0x1FF always.        *)
DriveLow(m, v) ==
  /\ m \in LowGroup
  /\ \/ /\ LowGate
        /\ iq' = [iq EXCEPT ![m] = v]
        /\ frame' = [iq EXCEPT ![m] = v]
        /\ pc' = "write"
     \/ /\ ~LowGate
        /\ UNCHANGED <<iq, frame, pc>>

(* Mutated: the frame is filled before the current is stored.              *)
DriveHighStale(m, v) ==
  /\ m \in HighGroup
  /\ iq' = [iq EXCEPT ![m] = v]
  /\ \/ /\ HighGate
        /\ frame' = iq
        /\ pc' = "write"
     \/ /\ ~HighGate
        /\ UNCHANGED <<frame, pc>>

DriveHigh(m, v) ==
  /\ m \in HighGroup
  /\ iq' = [iq EXCEPT ![m] = v]
  /\ \/ /\ HighGate
        /\ frame' = [iq EXCEPT ![m] = v]
        /\ pc' = "write"
     \/ /\ ~HighGate
        /\ UNCHANGED <<frame, pc>>

(* Mutated: the mode is tested before the stop.                            *)
AccOutModeFirst(m, out) ==
  IF commanded[m] THEN out
  ELSE IF flag_is_stop[m] THEN 0
  ELSE acc_out[m]

(* Mutated: a stopped motor skips the control loops and keeps its output.  *)
AccOutKept(m, out) ==
  IF commanded[m] /\ ~flag_is_stop[m] THEN out ELSE acc_out[m]

(* What motor_handle gives the driver: nothing when the motor is stopped,  *)
(* the output of the control loops otherwise; in MOTOR_MODE_IDEL they      *)
(* leave acc_out alone.                                                    *)
AccOut(m, out) ==
  IF flag_is_stop[m] THEN 0
  ELSE IF commanded[m] THEN out
  ELSE acc_out[m]

(* can_rx_thread takes an id from the ring and calls motor_handle.         *)
MotorHandle(out) ==
  LET m == Head(fifo)
      v == AccOut(m, out)
  IN
  /\ pc = "poll"
  /\ fifo # << >>
  /\ fifo' = Tail(fifo)
  /\ cur' = m
  /\ acc_out' = [acc_out EXCEPT ![m] = v]
  /\ DriveLow(m, v) \/ DriveHigh(m, v)
  /\ UNCHANGED <<rotor, measure, commanded, flag_is_stop, ri, applied, halted, heard>>

(* rt_device_write returns the size of the message: the frame has been     *)
(* received by the controllers of its group.                               *)
WriteOk ==
  /\ pc = "write"
  /\ pc' = "poll"
  /\ applied' = [m \in Motors |-> IF m \in Group(cur) THEN frame[m] ELSE applied[m]]
  /\ halted' = IF flag_is_stop[cur] /\ frame[cur] = 0 THEN halted \cup {cur} ELSE halted
  /\ UNCHANGED <<rotor, measure, fifo, hal, cur, iq, frame, ri, heard>>

(* Mutated: the loop after the failure starts at the second motor.         *)
WriteFailFromOne ==
  /\ pc = "write"
  /\ \/ /\ cur \in LowGroup
        /\ pc' = "reset" /\ ri' = 1 /\ heard' = {}
     \/ /\ cur \in HighGroup
        /\ pc' = "poll" /\ UNCHANGED <<ri, heard>>
  /\ UNCHANGED <<rotor, measure, fifo, hal, cur, iq, frame, applied, halted>>

(* rt_device_write returns less. After frame 0x1FF that is only logged;    *)
(* after frame 0x200 the loop that sets every msg_cnt to 50 follows.       *)
WriteFail ==
  /\ pc = "write"
  /\ \/ /\ cur \in LowGroup
        /\ pc' = "reset" /\ ri' = 0 /\ heard' = {}
     \/ /\ cur \in HighGroup
        /\ pc' = "poll" /\ UNCHANGED <<ri, heard>>
  /\ UNCHANGED <<rotor, measure, fifo, hal, cur, iq, frame, applied, halted>>

(* One turn of that loop; the interrupt can come between two turns.        *)
ResetMsgCnt ==
  /\ pc = "reset"
  /\ ri < DJ_M_NUM
  /\ msg_cnt' = [msg_cnt EXCEPT ![ri] = CalCount]
  /\ ri' = ri + 1
  /\ pc' = IF ri + 1 = DJ_M_NUM THEN "poll" ELSE "reset"
  /\ UNCHANGED <<rotor, angle, offset_angle, round_cnt, total_angle, fifo, hal,
                 cur, iq, frame, applied, halted, heard>>

-----------------------------------------------------------------------------
(* Application threads run only while m_dj_driver is blocked, in           *)
(* rt_thread_mdelay or in rt_device_write.                                 *)
Blocked == pc = "write" \/ (pc = "poll" /\ fifo = << >>)

(* motor_set_speed, motor_set_pos or motor_set_torque: the motor leaves    *)
(* MOTOR_MODE_IDEL.                                                        *)
Command(m) ==
  /\ Blocked
  /\ commanded' = [commanded EXCEPT ![m] = TRUE]
  /\ UNCHANGED <<rotor, measure, fifo, flag_is_stop, acc_out, thread, applied, halted, heard>>

MotorStop(m) ==
  /\ Blocked
  /\ flag_is_stop' = [flag_is_stop EXCEPT ![m] = TRUE]
  /\ UNCHANGED <<rotor, measure, fifo, commanded, acc_out, thread, applied, halted, heard>>

MotorStart(m) ==
  /\ Blocked
  /\ flag_is_stop' = [flag_is_stop EXCEPT ![m] = FALSE]
  /\ halted' = halted \ {m}
  /\ UNCHANGED <<rotor, measure, fifo, commanded, acc_out, thread, applied, heard>>

-----------------------------------------------------------------------------
(* Bound: the counts the rotor of m can move between two frames.           *)
Steps(m) == IF m \in Turning THEN -MaxStep .. MaxStep ELSE {0}

Interrupt == \E m \in Motors : \E d \in Steps(m) : CanFrame(m, d)

Driver ==
  \/ \E out \in Torques : MotorHandle(out)
  \/ WriteOk
  \/ WriteFail
  \/ ResetMsgCnt

Application == \E m \in Motors : Command(m) \/ MotorStop(m) \/ MotorStart(m)

Next == Interrupt \/ Driver \/ Application

Spec == Init /\ [][Next]_vars

-----------------------------------------------------------------------------
(***************************************************************************)
(* Properties                                                              *)
(***************************************************************************)

(* The offset of a motor of frame 0x200 is only taken for good after       *)
(* CalCount frames ("after power on receive 50 times to correct, after 50  *)
(* normal reception", ind_dj_can_motor_callback): neither the failed write *)
(* that sets msg_cnt to 50 nor an interrupt within that loop cuts a        *)
(* calibration short.                                                      *)
LowCalibrated ==
  \A m \in LowGroup : msg_cnt[m] >= CalCount => frames[m] = CalCount

(* The same of every motor: what the comment says of the callback.         *)
EveryMotorCalibrated ==
  \A m \in Motors : msg_cnt[m] >= CalCount => frames[m] = CalCount

(* round_cnt of a motor of frame 0x200 is the number of turns its rotor    *)
(* has made since the calibration, and total_angle is short of the way it  *)
(* has made by one count for each of those turns, through calibration,     *)
(* failed writes and wrap-arounds of the encoder in both directions.       *)
TurnsCounted ==
  \A m \in LowGroup : frames[m] > 0 =>
    /\ round_cnt[m] = turn[m] - zeroTurn[m]
    /\ total_angle[m] + round_cnt[m] =
         (turn[m] - zeroTurn[m]) * Counts + ang[m] - offset_angle[m]

(* No motor of frame 0x200 is told to apply a current before it is         *)
(* calibrated, whichever motor of the frame caused the frame to be sent.   *)
DrivenOnlyCalibrated ==
  \A m \in LowGroup : applied[m] # 0 => frames[m] = CalCount

(* After a frame 0x200 has failed, no further one is tried before every    *)
(* motor on it has been heard again, also when the interrupts come while   *)
(* the loop is resetting msg_cnt.                                          *)
HeardBeforeRetry ==
  pc = "write" /\ cur \in LowGroup => LowGroup \subseteq heard

(* Once a frame has told a stopped motor to apply no current, no frame of  *)
(* its group, caused by whichever motor, drives it again until             *)
(* motor_start.                                                            *)
StopHolds ==
  \A m \in halted : applied[m] = 0

(* A stopped motor is eventually at rest, or started again. This needs the *)
(* interrupts not to outrun the thread and the failures of frame 0x200 to  *)
(* end: while the gate is closed after a failure the current of a stopped  *)
(* motor stays in iq1_low, and a frame another motor causes carries it.    *)
StopReached ==
  \A m \in Motors : flag_is_stop[m] ~> (applied[m] = 0 \/ ~flag_is_stop[m])

-----------------------------------------------------------------------------
(***************************************************************************)
(* The inductive invariant behind the safety properties (LowOr = {}).      *)
(***************************************************************************)

(* msg_cnt counts the frames of a calibration and never runs ahead.        *)
CalibrationCounted ==
  \A m \in LowGroup :
    frames[m] = IF msg_cnt[m] < CalCount THEN msg_cnt[m] ELSE CalCount

(* A frame 0x200 is only in the hands of rt_device_write, or the loop that *)
(* follows its failure at work, while every motor on it is calibrated.     *)
GateHeld ==
  /\ pc = "write" /\ cur \in LowGroup => \A m \in LowGroup : msg_cnt[m] = Ready
  /\ pc = "reset" => cur \in LowGroup /\ \A m \in LowGroup : msg_cnt[m] >= CalCount

(* The measurement agrees with the rotor after every frame.                *)
MeasureAgrees ==
  \A m \in LowGroup :
    /\ msg_cnt[m] < CalCount => round_cnt[m] = 0 /\ total_angle[m] = 0
    /\ frames[m] > 0 =>
         /\ angle[m] = ang[m]
         /\ round_cnt[m] = turn[m] - zeroTurn[m]
         /\ total_angle[m] = TotalAngle(round_cnt[m], ang[m], offset_angle[m])

(* A motor that counts as ready has been heard since the last failure, or  *)
(* the loop has yet to come to it.                                         *)
HeardOrToReset ==
  \A m \in LowGroup :
    msg_cnt[m] = Ready => m \in heard \/ (pc = "reset" /\ m >= ri)

(* The slots in msg.data are those of iq1_low / iq1_high while the thread  *)
(* is blocked, and the slot of a halted motor is 0.                        *)
SlotsHeld ==
  /\ pc = "write" => frame = iq
  /\ \A m \in halted : flag_is_stop[m] /\ iq[m] = 0

IInv ==
  /\ TypeOK
  /\ CalibrationCounted /\ GateHeld
  /\ MeasureAgrees
  /\ HeardOrToReset
  /\ SlotsHeld /\ StopHolds
  /\ DrivenOnlyCalibrated

-----------------------------------------------------------------------------
(* Fairness. Every motor reports at 1 kHz; m_dj_driver (priority 3) takes  *)
(* ids from a ring of 4096 faster than they come in; writes stop failing   *)
(* at last. Application threads owe nothing.                               *)
InterruptInTime == Len(fifo) < FifoSize /\ Interrupt

FairSpec ==
  /\ Init
  /\ [][InterruptInTime \/ Driver \/ Application]_vars
  /\ \A m \in Motors :
       SF_vars(Len(fifo) < FifoSize /\ \E d \in Steps(m) : CanFrame(m, d))
  /\ WF_vars(Driver)
  /\ <>[][~WriteFail]_vars
=============================================================================
