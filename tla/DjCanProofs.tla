---------------------------- MODULE DjCanProofs ----------------------------
(***************************************************************************)
(* Proofs about DjCan for every number of motors, every split of them over *)
(* the two frames and every encoder resolution.                            *)
(*                                                                         *)
(* LowOr = {} is assumed where the gate of frame 0x200 matters: with       *)
(* MOTOR_DJ_M2006_ID1_CAN1 the first test of that gate ends in "||".       *)
(***************************************************************************)
EXTENDS DjCan, TLAPS

(* The ring keeps its type and its capacity when an id is forced in.       *)
LEMMA PutForceType ==
  ASSUME NEW s \in Seq(Motors), Len(s) <= FifoSize, NEW m \in Motors
  PROVE  PutForce(s, m) \in Seq(Motors) /\ Len(PutForce(s, m)) <= FifoSize
<1>1. CASE Len(s) < FifoSize
  BY <1>1, DjCanAssumption DEF PutForce
<1>2. CASE ~(Len(s) < FifoSize)
  <2>1. s # << >>
    BY <1>2, DjCanAssumption
  <2>2. Tail(s) \in Seq(Motors) /\ Len(Tail(s)) = Len(s) - 1
    BY <2>1
  <2>3. PutForce(s, m) = Append(Tail(s), m)
    BY <1>2 DEF PutForce
  <2> QED BY <2>2, <2>3
<1> QED BY <1>1, <1>2

(* What is used of the arithmetic of the encoder.                          *)
LEMMA HalfTurn ==
  /\ Half \in Nat /\ 2 * Half <= Counts
  /\ \A d \in -MaxStep .. MaxStep : d \in Int /\ d < Half /\ -Half < d
<1>1. Half \in Nat /\ 2 * Half <= Counts
  BY DjCanAssumption DEF Half
<1> QED BY <1>1, DjCanAssumption

(* A rotor that has moved by a legal step is still at a legal angle.       *)
LEMMA RotorMoves ==
  ASSUME TypeOK, NEW m \in Motors, NEW d \in -MaxStep .. MaxStep
  PROVE  /\ AngAfter(m, d) \in 0 .. Counts - 1
         /\ TurnAfter(m, d) \in Int
<1>1. ang[m] \in 0 .. Counts - 1 /\ turn[m] \in -MaxTurn .. MaxTurn
  BY DEF TypeOK
<1>2. Counts \in Nat /\ MaxTurn \in Nat
  BY DjCanAssumption
<1> QED BY <1>1, <1>2, HalfTurn DEF AngAfter, TurnAfter

LEMMA TypeInit == Init => TypeOK
BY DjCanAssumption DEF Init, TypeOK, Motors

(* The values a frame of m brings, and those it meets, are well typed.     *)
LEMMA FrameValues ==
  ASSUME TypeOK, NEW m \in Motors, NEW d \in -MaxStep .. MaxStep
  PROVE  /\ AngAfter(m, d) \in 0 .. Counts - 1
         /\ angle[m] \in 0 .. Counts - 1
         /\ offset_angle[m] \in 0 .. Counts - 1
         /\ round_cnt[m] \in Int
         /\ RoundAfter(m, AngAfter(m, d)) \in Int
         /\ TotalAngle(RoundAfter(m, AngAfter(m, d)), AngAfter(m, d), offset_angle[m]) \in Int
<1> DEFINE a == AngAfter(m, d)
<1>1. a \in 0 .. Counts - 1 /\ Counts \in Nat
  BY RotorMoves, DjCanAssumption
<1>2. /\ angle[m] \in 0 .. Counts - 1
      /\ offset_angle[m] \in 0 .. Counts - 1
      /\ round_cnt[m] \in Int
  BY DEF TypeOK
<1> HIDE DEF a
<1>3. RoundAfter(m, a) \in Int
  BY <1>2 DEF RoundAfter
<1>4. \A r \in Int : TotalAngle(r, a, offset_angle[m]) \in Int
  BY <1>1, <1>2 DEF TotalAngle
<1> QED BY <1>1, <1>2, <1>3, <1>4 DEF a

LEMMA TypeCanFrame ==
  ASSUME TypeOK, NEW m \in Motors, NEW d \in -MaxStep .. MaxStep, CanFrame(m, d)
  PROVE  TypeOK'
<1> DEFINE a == AngAfter(m, d)
           t == TurnAfter(m, d)
<1>1. /\ a \in 0 .. Counts - 1
      /\ t \in -MaxTurn .. MaxTurn
      /\ RoundAfter(m, a) \in Int
      /\ TotalAngle(RoundAfter(m, a), a, offset_angle[m]) \in Int
  BY FrameValues DEF CanFrame
<1>2. fifo' \in Seq(Motors) /\ Len(fifo') <= FifoSize
  BY PutForceType DEF CanFrame, TypeOK
<1>3. /\ ang' = [ang EXCEPT ![m] = a]
      /\ angle' = [angle EXCEPT ![m] = a]
      /\ turn' = [turn EXCEPT ![m] = t]
      /\ Calibrate(m, a, t) \/ Track(m, a)
      /\ heard' = heard \cup {m}
      /\ UNCHANGED <<hal, thread, applied, halted>>
  BY DEF CanFrame
<1>4. frames' \in [Motors -> 0 .. CalCount]
  <2>1. (IF frames[m] < CalCount THEN frames[m] + 1 ELSE CalCount) \in 0 .. CalCount
    <3>1. frames[m] \in 0 .. CalCount
      BY DEF TypeOK
    <3> QED BY <3>1, DjCanAssumption
  <2> QED BY <2>1 DEF CanFrame, TypeOK
<1> HIDE DEF a, t
<1>5. /\ msg_cnt' \in [Motors -> (0 .. CalCount) \cup {Ready}]
      /\ offset_angle' \in [Motors -> 0 .. Counts - 1]
      /\ zeroTurn' \in [Motors -> -MaxTurn .. MaxTurn]
      /\ round_cnt' \in [Motors -> Int]
      /\ total_angle' \in [Motors -> Int]
  <2>1. CASE Calibrate(m, a, t)
    <3>1. msg_cnt[m] + 1 \in 0 .. CalCount
      <4>1. msg_cnt[m] \in (0 .. CalCount) \cup {Ready} /\ msg_cnt[m] < CalCount
        BY <2>1 DEF Calibrate, TypeOK
      <4> QED BY <4>1, DjCanAssumption
    <3> QED BY <2>1, <3>1, <1>1 DEF Calibrate, TypeOK
  <2>2. CASE Track(m, a)
    BY <2>2, <1>1 DEF Track, TypeOK
  <2> QED BY <2>1, <2>2, <1>3
<1> QED BY <1>1, <1>2, <1>3, <1>4, <1>5 DEF TypeOK, hal, thread

LEMMA TypeMotorHandle ==
  ASSUME TypeOK, NEW out \in Torques, MotorHandle(out)
  PROVE  TypeOK'
<1> DEFINE m == Head(fifo)
<1>1. m \in Motors /\ fifo' \in Seq(Motors) /\ Len(fifo') <= FifoSize
  <2>1. fifo \in Seq(Motors) /\ fifo # << >> /\ Len(fifo) <= FifoSize /\ fifo' = Tail(fifo)
    BY DEF MotorHandle, TypeOK
  <2>2. Len(fifo) > 0 /\ Len(Tail(fifo)) = Len(fifo) - 1
    BY <2>1
  <2> QED BY <2>1, <2>2, DjCanAssumption
<1>2. AccOut(m, out) \in Torques
  BY <1>1, DjCanAssumption DEF AccOut, TypeOK
<1>3. /\ iq' \in [Motors -> Torques]
      /\ frame' \in [Motors -> Torques]
      /\ pc' \in {"poll", "write", "reset"}
  <2> DEFINE v == AccOut(m, out)
  <2>1. /\ iq \in [Motors -> Torques] /\ frame \in [Motors -> Torques]
        /\ pc \in {"poll", "write", "reset"}
    BY DEF TypeOK
  <2>2. m \in Motors /\ v \in Torques
    BY <1>1, <1>2
  <2>3. DriveLow(m, v) \/ DriveHigh(m, v)
    BY DEF MotorHandle
  <2> HIDE DEF m, v
  <2>4. [iq EXCEPT ![m] = v] \in [Motors -> Torques]
    BY <2>1, <2>2
  <2>5. CASE DriveLow(m, v)
    BY <2>1, <2>4, <2>5 DEF DriveLow
  <2>6. CASE DriveHigh(m, v)
    BY <2>1, <2>4, <2>6 DEF DriveHigh
  <2> QED BY <2>3, <2>5, <2>6
<1> QED BY <1>1, <1>2, <1>3 DEF MotorHandle, TypeOK, rotor, measure

LEMMA TypeReset == TypeOK /\ ResetMsgCnt => TypeOK'
<1> SUFFICES ASSUME TypeOK, ResetMsgCnt PROVE TypeOK'
  OBVIOUS
<1>1. /\ ri + 1 \in 0 .. DJ_M_NUM
      /\ CalCount \in 0 .. CalCount
  <2>1. ri \in 0 .. DJ_M_NUM /\ ri < DJ_M_NUM
    BY DEF TypeOK, ResetMsgCnt
  <2> QED BY <2>1, DjCanAssumption
<1> QED BY <1>1 DEF ResetMsgCnt, TypeOK, rotor, hal

(* A frame moves the rotor by less than half a turn.                       *)
LEMMA InterruptSteps ==
  ASSUME Interrupt
  PROVE  \E m \in Motors, d \in -MaxStep .. MaxStep : CanFrame(m, d)
<1>1. PICK m \in Motors : \E d \in Steps(m) : CanFrame(m, d)
  BY DEF Interrupt
<1>2. Steps(m) \subseteq -MaxStep .. MaxStep
  BY DjCanAssumption DEF Steps
<1> QED BY <1>1, <1>2

LEMMA TypeNext == TypeOK /\ [Next]_vars => TypeOK'
<1> SUFFICES ASSUME TypeOK, [Next]_vars PROVE TypeOK'
  OBVIOUS
<1>1. CASE Interrupt
  BY <1>1, InterruptSteps, TypeCanFrame
<1>2. CASE \E out \in Torques : MotorHandle(out)
  BY <1>2, TypeMotorHandle
<1>3. CASE WriteOk
  BY <1>3 DEF WriteOk, TypeOK, rotor, measure, hal
<1>4. CASE WriteFail
  <2>1. 0 \in 0 .. DJ_M_NUM
    BY DjCanAssumption
  <2> QED BY <1>4, <2>1 DEF WriteFail, TypeOK, rotor, measure, hal
<1>5. CASE ResetMsgCnt
  BY <1>5, TypeReset
<1>6. ASSUME NEW m \in Motors, Command(m) \/ MotorStop(m) \/ MotorStart(m)
      PROVE  TypeOK'
  BY <1>6 DEF Command, MotorStop, MotorStart, TypeOK, rotor, measure, thread
<1>7. CASE UNCHANGED vars
  BY <1>7 DEF vars, TypeOK, rotor, measure, hal, thread
<1> QED BY <1>1, <1>2, <1>3, <1>4, <1>5, <1>6, <1>7 DEF Next, Driver, Application

(* Every variable keeps its type, in particular the angles stay in         *)
(* 0..8191 and the ring never holds more than its capacity.                *)
THEOREM TypeCorrect == Spec => []TypeOK
BY TypeInit, TypeNext, PTL DEF Spec

-----------------------------------------------------------------------------
(* Steps that touch neither msg_cnt, the calibration, the thread nor the   *)
(* motors' currents.                                                       *)
LEMMA NextSteps ==
  ASSUME [Next]_vars
  PROVE  \/ \E m \in Motors, d \in -MaxStep .. MaxStep : CanFrame(m, d)
         \/ \E out \in Torques : MotorHandle(out)
         \/ WriteOk
         \/ WriteFail
         \/ ResetMsgCnt
         \/ \E m \in Motors : Command(m) \/ MotorStop(m) \/ MotorStart(m)
         \/ UNCHANGED vars
BY InterruptSteps DEF Next, Driver, Application

(* What MotorHandle does to the thread and to the slots.                   *)
LEMMA HandleStep ==
  ASSUME TypeOK, NEW out \in Torques, MotorHandle(out)
  PROVE  /\ cur' \in Motors
         /\ iq' = iq \/ iq' = [iq EXCEPT ![cur'] = AccOut(cur', out)]
         /\ pc' = "write" => frame' = iq'
         /\ pc' = "poll" \/ pc' = "write"
         /\ pc' = "write" /\ cur' \in LowGroup => LowGate
         /\ UNCHANGED <<rotor, measure, flag_is_stop, applied, halted, heard>>
<1> DEFINE m == Head(fifo)
<1>1. m \in Motors
  BY DEF MotorHandle, TypeOK
<1>2. CASE DriveLow(m, AccOut(m, out))
  BY <1>1, <1>2 DEF DriveLow, MotorHandle, TypeOK
<1>3. CASE DriveHigh(m, AccOut(m, out))
  BY <1>1, <1>3 DEF DriveHigh, MotorHandle, TypeOK, HighGroup
<1> QED BY <1>2, <1>3 DEF MotorHandle

LEMMA CalibrationInit == Init => CalibrationCounted /\ GateHeld
BY DjCanAssumption DEF Init, CalibrationCounted, GateHeld

(* Calibration and gate, the parts that need the gate to be closed while   *)
(* a motor of frame 0x200 calibrates.                                      *)
LEMMA CalibrationNext ==
  ASSUME LowOr = {}, TypeOK, CalibrationCounted, GateHeld, [Next]_vars
  PROVE  CalibrationCounted' /\ GateHeld'
<1>0. /\ CalCount \in Nat /\ Ready \in Nat /\ CalCount < Ready
      /\ LowGroup \subseteq Motors
      /\ msg_cnt \in [Motors -> (0 .. CalCount) \cup {Ready}]
      /\ frames \in [Motors -> 0 .. CalCount]
  BY DjCanAssumption DEF TypeOK
<1>1. ASSUME NEW m \in Motors, NEW d \in -MaxStep .. MaxStep, CanFrame(m, d)
      PROVE  CalibrationCounted' /\ GateHeld'
  <2>1. /\ frames' = [frames EXCEPT ![m] = IF frames[m] < CalCount THEN frames[m] + 1 ELSE CalCount]
        /\ UNCHANGED <<pc, cur>>
    BY <1>1 DEF CanFrame, thread
  <2>2. msg_cnt' = [msg_cnt EXCEPT ![m] = IF msg_cnt[m] < CalCount THEN msg_cnt[m] + 1 ELSE Ready]
    BY <1>1, <1>0 DEF CanFrame, Calibrate, Track
  <2>3. CalibrationCounted'
    BY <1>0, <2>1, <2>2 DEF CalibrationCounted
  <2>4. GateHeld'
    BY <1>0, <2>1, <2>2 DEF GateHeld
  <2> QED BY <2>3, <2>4
<1>2. ASSUME NEW out \in Torques, MotorHandle(out)
      PROVE  CalibrationCounted' /\ GateHeld'
  <2>1. UNCHANGED <<msg_cnt, frames>>
    BY <1>2, HandleStep DEF rotor, measure
  <2>2. LowGate => \A m \in LowGroup : msg_cnt[m] = Ready
    BY DEF LowGate
  <2> QED BY <1>2, <2>1, <2>2, HandleStep DEF CalibrationCounted, GateHeld
<1>3. CASE WriteOk
  BY <1>3 DEF WriteOk, rotor, measure, CalibrationCounted, GateHeld
<1>4. CASE WriteFail
  BY <1>0, <1>4 DEF WriteFail, rotor, measure, CalibrationCounted, GateHeld, HighGroup
<1>5. CASE ResetMsgCnt
  <2>1. /\ msg_cnt' = [msg_cnt EXCEPT ![ri] = CalCount]
        /\ UNCHANGED <<frames, cur>>
        /\ pc = "reset" /\ pc' \in {"poll", "reset"}
    BY <1>5 DEF ResetMsgCnt, rotor
  <2> QED BY <1>0, <2>1 DEF CalibrationCounted, GateHeld
<1>6. ASSUME NEW m \in Motors, Command(m) \/ MotorStop(m) \/ MotorStart(m)
      PROVE  CalibrationCounted' /\ GateHeld'
  BY <1>6 DEF Command, MotorStop, MotorStart, rotor, measure, thread, CalibrationCounted, GateHeld
<1>7. CASE UNCHANGED vars
  BY <1>7 DEF vars, rotor, measure, thread, CalibrationCounted, GateHeld
<1> QED BY NextSteps, <1>1, <1>2, <1>3, <1>4, <1>5, <1>6, <1>7

(* The steps that are not frames leave rotor and measurement alone, except *)
(* for the msg_cnt that the loop after a failed frame 0x200 resets.        *)
LEMMA MeasureUntouched ==
  ASSUME TypeOK, [Next]_vars,
         ~ \E m \in Motors, d \in -MaxStep .. MaxStep : CanFrame(m, d)
  PROVE  /\ UNCHANGED <<ang, turn, zeroTurn, frames>>
         /\ UNCHANGED <<angle, offset_angle, round_cnt, total_angle>>
         /\ \/ UNCHANGED msg_cnt
            \/ pc = "reset" /\ msg_cnt' = [msg_cnt EXCEPT ![ri] = CalCount]
<1>1. ASSUME NEW out \in Torques, MotorHandle(out)
      PROVE  UNCHANGED <<rotor, measure>>
  BY <1>1, HandleStep
<1>2. CASE WriteOk
  BY <1>2 DEF WriteOk, rotor, measure
<1>3. CASE WriteFail
  BY <1>3 DEF WriteFail, rotor, measure
<1>4. CASE ResetMsgCnt
  BY <1>4 DEF ResetMsgCnt, rotor
<1>5. ASSUME NEW m \in Motors, Command(m) \/ MotorStop(m) \/ MotorStart(m)
      PROVE  UNCHANGED <<rotor, measure>>
  BY <1>5 DEF Command, MotorStop, MotorStart
<1>6. CASE UNCHANGED vars
  BY <1>6 DEF vars, rotor, measure
<1> QED BY NextSteps, <1>1, <1>2, <1>3, <1>4, <1>5, <1>6 DEF rotor, measure

(* The wrap-around of the encoder is told from a step by its size: the     *)
(* turn count moves exactly when the rotor passes the zero of the encoder. *)
LEMMA WrapDetected ==
  ASSUME TypeOK, NEW m \in Motors, NEW d \in -MaxStep .. MaxStep, angle[m] = ang[m]
  PROVE  RoundAfter(m, AngAfter(m, d)) = round_cnt[m] + (TurnAfter(m, d) - turn[m])
<1>1. /\ ang[m] \in 0 .. Counts - 1
      /\ turn[m] \in Int /\ round_cnt[m] \in Int
      /\ Counts \in Nat
  BY DjCanAssumption DEF TypeOK
<1>2. d \in Int /\ d < Half /\ -Half < d /\ Half \in Nat /\ 2 * Half <= Counts
  BY HalfTurn
<1>3. CASE ang[m] + d >= Counts
  BY <1>1, <1>2, <1>3 DEF RoundAfter, AngAfter, TurnAfter
<1>4. CASE ang[m] + d < 0
  BY <1>1, <1>2, <1>4 DEF RoundAfter, AngAfter, TurnAfter
<1>5. CASE 0 <= ang[m] + d /\ ang[m] + d < Counts
  BY <1>1, <1>2, <1>5 DEF RoundAfter, AngAfter, TurnAfter
<1> QED BY <1>1, <1>2, <1>3, <1>4, <1>5

LEMMA MeasureInit == Init => MeasureAgrees
BY DjCanAssumption DEF Init, MeasureAgrees

LEMMA MeasureNext ==
  ASSUME TypeOK, TypeOK', CalibrationCounted, GateHeld, MeasureAgrees, [Next]_vars
  PROVE  MeasureAgrees'
<1>0. /\ CalCount \in Nat \ {0} /\ Ready \in Nat /\ CalCount < Ready /\ Counts \in Nat
      /\ LowGroup \subseteq Motors
      /\ msg_cnt \in [Motors -> (0 .. CalCount) \cup {Ready}]
      /\ frames \in [Motors -> 0 .. CalCount]
  BY DjCanAssumption DEF TypeOK
<1>1. ASSUME NEW m \in Motors, NEW d \in -MaxStep .. MaxStep, CanFrame(m, d),
             NEW l \in LowGroup
      PROVE  MeasureAgrees!(l)'
  <2> DEFINE a == AngAfter(m, d)
             t == TurnAfter(m, d)
  <2>1. /\ ang' = [ang EXCEPT ![m] = a]
        /\ turn' = [turn EXCEPT ![m] = t]
        /\ angle' = [angle EXCEPT ![m] = a]
        /\ frames' = [frames EXCEPT ![m] = IF frames[m] < CalCount THEN frames[m] + 1 ELSE CalCount]
        /\ Calibrate(m, a, t) \/ Track(m, a)
    BY <1>1 DEF CanFrame
  <2>2. CASE l # m
    <3> HIDE DEF a, t
    <3>1. /\ ang'[l] = ang[l] /\ turn'[l] = turn[l] /\ angle'[l] = angle[l] /\ frames'[l] = frames[l]
          /\ msg_cnt'[l] = msg_cnt[l] /\ offset_angle'[l] = offset_angle[l]
          /\ zeroTurn'[l] = zeroTurn[l] /\ round_cnt'[l] = round_cnt[l]
          /\ total_angle'[l] = total_angle[l]
      BY <2>1, <2>2, <1>0 DEF Calibrate, Track, TypeOK
    <3> QED BY <3>1 DEF MeasureAgrees
  <2>3. CASE l = m /\ Calibrate(m, a, t)
    <3>1. /\ round_cnt[m] = 0 /\ total_angle[m] = 0
          /\ UNCHANGED <<round_cnt, total_angle>>
          /\ ang'[m] = a /\ angle'[m] = a /\ offset_angle'[m] = a
          /\ turn'[m] = t /\ zeroTurn'[m] = t
      BY <2>1, <2>3, <1>0 DEF MeasureAgrees, Calibrate, TypeOK
    <3>2. a \in Int /\ t \in Int
      BY RotorMoves, <1>0
    <3> HIDE DEF a, t
    <3>3. TotalAngle(0, a, a) = 0 /\ t - t = 0
      BY <3>2, <1>0 DEF TotalAngle
    <3> QED BY <2>3, <3>1, <3>3
  <2>4. CASE l = m /\ Track(m, a)
    <3>1. msg_cnt'[m] = Ready
      BY <2>4, <1>0 DEF Track
    <3>2. frames[m] > 0 /\ angle[m] = ang[m] /\ round_cnt[m] = turn[m] - zeroTurn[m]
      BY <2>4, <1>0 DEF CalibrationCounted, MeasureAgrees, Track
    <3>3. /\ round_cnt'[m] = RoundAfter(m, a)
          /\ total_angle'[m] = TotalAngle(RoundAfter(m, a), a, offset_angle[m])
          /\ UNCHANGED <<offset_angle, zeroTurn>>
          /\ ang'[m] = a /\ angle'[m] = a /\ turn'[m] = t
      <4> HIDE DEF a, t
      <4> QED BY <2>1, <2>4 DEF Track, TypeOK
    <3>4. RoundAfter(m, a) = round_cnt[m] + (t - turn[m])
      BY <3>2, WrapDetected
    <3>5. t \in Int /\ turn[m] \in Int /\ zeroTurn[m] \in Int
      <4>1. turn[m] \in -MaxTurn .. MaxTurn /\ zeroTurn[m] \in -MaxTurn .. MaxTurn
        BY DEF TypeOK
      <4> QED BY <4>1, RotorMoves, DjCanAssumption
    <3> HIDE DEF a, t
    <3>6. round_cnt'[m] = t - zeroTurn[m]
      BY <3>2, <3>3, <3>4, <3>5
    <3> QED BY <2>4, <3>1, <3>3, <3>6, <1>0
  <2> QED BY <2>1, <2>2, <2>3, <2>4
<1>2. ASSUME ~ \E m \in Motors, d \in -MaxStep .. MaxStep : CanFrame(m, d)
      PROVE  MeasureAgrees'
  <2>1. \A m \in LowGroup : msg_cnt'[m] < CalCount => msg_cnt[m] < CalCount
    BY <1>0, <1>2, MeasureUntouched
  <2> QED BY <1>2, <2>1, MeasureUntouched DEF MeasureAgrees, TotalAngle
<1> QED BY <1>1, <1>2 DEF MeasureAgrees

(* A failed frame 0x200 forgets who was heard; the loop then takes away    *)
(* the readiness of every motor that has not been heard since.             *)
LEMMA HeardInit == Init => HeardOrToReset
BY DjCanAssumption DEF Init, HeardOrToReset

LEMMA HeardNext ==
  ASSUME TypeOK, HeardOrToReset, [Next]_vars
  PROVE  HeardOrToReset'
<1>0. /\ CalCount \in Nat /\ Ready \in Nat /\ CalCount < Ready
      /\ LowGroup \subseteq Motors /\ DJ_M_NUM \in Nat
      /\ msg_cnt \in [Motors -> (0 .. CalCount) \cup {Ready}]
      /\ ri \in 0 .. DJ_M_NUM
  BY DjCanAssumption DEF TypeOK
<1>1. ASSUME NEW m \in Motors, NEW d \in -MaxStep .. MaxStep, CanFrame(m, d)
      PROVE  HeardOrToReset'
  <2>1. /\ heard' = heard \cup {m}
        /\ UNCHANGED <<pc, ri>>
        /\ \A l \in Motors \ {m} : msg_cnt'[l] = msg_cnt[l]
    BY <1>0, <1>1 DEF CanFrame, Calibrate, Track, thread
  <2> QED BY <1>0, <2>1 DEF HeardOrToReset
<1>2. ASSUME NEW out \in Torques, MotorHandle(out)
      PROVE  HeardOrToReset'
  <2>1. pc = "poll" /\ UNCHANGED <<msg_cnt, heard>>
    BY <1>2, HandleStep DEF MotorHandle, measure
  <2> QED BY <2>1 DEF HeardOrToReset
<1>3. CASE WriteOk
  BY <1>3 DEF WriteOk, measure, HeardOrToReset
<1>4. CASE WriteFail
  <2>1. CASE cur \in LowGroup
    <3>1. UNCHANGED msg_cnt /\ pc' = "reset" /\ ri' = 0
      BY <1>4, <2>1 DEF WriteFail, measure, HighGroup
    <3>2. \A m \in LowGroup : m >= 0
      BY <1>0 DEF Motors
    <3> QED BY <3>1, <3>2 DEF HeardOrToReset
  <2>2. CASE cur \notin LowGroup
    BY <1>4, <2>2 DEF WriteFail, measure, HeardOrToReset
  <2> QED BY <2>1, <2>2
<1>5. CASE ResetMsgCnt
  <2>1. /\ pc = "reset" /\ ri < DJ_M_NUM
        /\ msg_cnt' = [msg_cnt EXCEPT ![ri] = CalCount]
        /\ ri' = ri + 1 /\ pc' = IF ri + 1 = DJ_M_NUM THEN "poll" ELSE "reset"
        /\ heard' = heard
    BY <1>5 DEF ResetMsgCnt
  <2> SUFFICES ASSUME NEW m \in LowGroup, msg_cnt'[m] = Ready, m \notin heard
               PROVE  pc' = "reset" /\ m >= ri'
    BY <2>1 DEF HeardOrToReset
  <2>2. m \in 0 .. DJ_M_NUM - 1
    BY <1>0 DEF Motors
  <2>3. m # ri /\ msg_cnt[m] = Ready
    BY <1>0, <2>1
  <2>4. m >= ri
    BY <2>3 DEF HeardOrToReset
  <2> QED BY <1>0, <2>1, <2>2, <2>3, <2>4
<1>6. ASSUME NEW m \in Motors, Command(m) \/ MotorStop(m) \/ MotorStart(m)
      PROVE  HeardOrToReset'
  BY <1>6 DEF Command, MotorStop, MotorStart, measure, thread, HeardOrToReset
<1>7. CASE UNCHANGED vars
  BY <1>7 DEF vars, measure, thread, HeardOrToReset
<1> QED BY NextSteps, <1>1, <1>2, <1>3, <1>4, <1>5, <1>6, <1>7

-----------------------------------------------------------------------------
LEMMA SlotsInit == Init => SlotsHeld /\ StopHolds
BY DEF Init, SlotsHeld, StopHolds

(* The slot of a halted motor is 0 in every frame, whoever causes it.      *)
LEMMA SlotsNext ==
  ASSUME TypeOK, SlotsHeld, StopHolds, [Next]_vars
  PROVE  SlotsHeld' /\ StopHolds'
<1>1. ASSUME NEW m \in Motors, NEW d \in -MaxStep .. MaxStep, CanFrame(m, d)
      PROVE  SlotsHeld' /\ StopHolds'
  BY <1>1 DEF CanFrame, hal, thread, SlotsHeld, StopHolds
<1>2. ASSUME NEW out \in Torques, MotorHandle(out)
      PROVE  SlotsHeld' /\ StopHolds'
  <2>1. \A m \in halted : iq'[m] = 0
    <3> SUFFICES ASSUME NEW m \in halted PROVE iq'[m] = 0
      OBVIOUS
    <3>1. iq[m] = 0 /\ flag_is_stop[m] /\ m \in Motors
      BY DEF SlotsHeld, TypeOK
    <3>2. AccOut(m, out) = 0
      BY <3>1 DEF AccOut
    <3>3. iq' = iq \/ \E l \in Motors : iq' = [iq EXCEPT ![l] = AccOut(l, out)]
      BY <1>2, HandleStep
    <3>4. iq \in [Motors -> Torques]
      BY DEF TypeOK
    <3> HIDE DEF SlotsHeld, StopHolds
    <3> QED BY <3>1, <3>2, <3>3, <3>4
  <2> QED BY <1>2, <2>1, HandleStep DEF SlotsHeld, StopHolds
<1>3. CASE WriteOk
  <2>1. frame = iq /\ cur \in Motors /\ pc' = "poll"
    BY <1>3 DEF WriteOk, SlotsHeld, TypeOK
  <2>2. ASSUME NEW m \in halted'
        PROVE  flag_is_stop'[m] /\ iq'[m] = 0 /\ applied'[m] = 0
    <3>1. m \in Motors /\ UNCHANGED <<flag_is_stop, iq>>
      BY <1>3, <2>1 DEF WriteOk, hal, TypeOK
    <3>2. flag_is_stop[m] /\ iq[m] = 0
      BY <1>3, <2>1 DEF WriteOk, SlotsHeld
    <3>3. m \in halted \/ m = cur
      BY <1>3 DEF WriteOk
    <3>4. cur \in Group(cur)
      BY <2>1 DEF Group, HighGroup
    <3> QED BY <1>3, <2>1, <3>1, <3>2, <3>3, <3>4 DEF WriteOk, StopHolds
  <2> QED BY <2>1, <2>2 DEF SlotsHeld, StopHolds
<1>4. CASE WriteFail
  BY <1>4 DEF WriteFail, hal, SlotsHeld, StopHolds
<1>5. CASE ResetMsgCnt
  BY <1>5 DEF ResetMsgCnt, hal, SlotsHeld, StopHolds
<1>6. ASSUME NEW m \in Motors, Command(m) \/ MotorStop(m) \/ MotorStart(m)
      PROVE  SlotsHeld' /\ StopHolds'
  BY <1>6 DEF Command, MotorStop, MotorStart, thread, SlotsHeld, StopHolds, TypeOK
<1>7. CASE UNCHANGED vars
  BY <1>7 DEF vars, hal, thread, SlotsHeld, StopHolds
<1> QED BY NextSteps, <1>1, <1>2, <1>3, <1>4, <1>5, <1>6, <1>7

-----------------------------------------------------------------------------
(* Only a frame that has left changes what a motor applies, and frame      *)
(* 0x200 leaves only while every motor on it is calibrated.                *)
LEMMA DrivenNext ==
  ASSUME TypeOK, CalibrationCounted, GateHeld, DrivenOnlyCalibrated, [Next]_vars
  PROVE  DrivenOnlyCalibrated'
<1>0. /\ CalCount \in Nat /\ Ready \in Nat /\ CalCount < Ready
      /\ LowGroup \subseteq Motors
      /\ frames \in [Motors -> 0 .. CalCount]
  BY DjCanAssumption DEF TypeOK
<1>1. \A m \in LowGroup : frames[m] = CalCount => frames'[m] = CalCount
  <2>1. ASSUME NEW m \in Motors, NEW d \in -MaxStep .. MaxStep, CanFrame(m, d)
        PROVE  \A l \in LowGroup : frames[l] = CalCount => frames'[l] = CalCount
    <3>1. frames' = [frames EXCEPT ![m] = IF frames[m] < CalCount THEN frames[m] + 1 ELSE CalCount]
      BY <2>1 DEF CanFrame
    <3> QED BY <1>0, <3>1
  <2> QED BY <2>1, MeasureUntouched
<1>2. CASE WriteOk
  <2> SUFFICES ASSUME NEW m \in LowGroup, applied'[m] # 0
               PROVE  frames[m] = CalCount
    BY <1>1 DEF DrivenOnlyCalibrated
  <2>1. CASE cur \in LowGroup
    BY <1>0, <1>2, <2>1 DEF WriteOk, GateHeld, CalibrationCounted
  <2>2. CASE cur \notin LowGroup
    BY <1>0, <1>2, <2>2 DEF WriteOk, Group, HighGroup, DrivenOnlyCalibrated
  <2> QED BY <2>1, <2>2
<1>3. CASE ~WriteOk
  <2>1. UNCHANGED applied
    <3>1. ASSUME NEW out \in Torques, MotorHandle(out) PROVE UNCHANGED applied
      BY <3>1 DEF MotorHandle
    <3> QED BY <1>3, <3>1, NextSteps
            DEF CanFrame, WriteFail, ResetMsgCnt, Command, MotorStop, MotorStart, vars
  <2> QED BY <1>1, <2>1 DEF DrivenOnlyCalibrated
<1> QED BY <1>2, <1>3

-----------------------------------------------------------------------------
LEMMA IInvInit == Init => IInv
<1>1. Init => DrivenOnlyCalibrated
  BY DjCanAssumption DEF Init, DrivenOnlyCalibrated
<1> QED BY <1>1, TypeInit, CalibrationInit, MeasureInit, HeardInit, SlotsInit DEF IInv

LEMMA IInvNext == LowOr = {} /\ IInv /\ [Next]_vars => IInv'
BY TypeNext, CalibrationNext, MeasureNext, HeardNext, SlotsNext, DrivenNext DEF IInv

(* The inductive invariant holds in every configuration without the "||".  *)
THEOREM Invariance == ASSUME LowOr = {} PROVE Spec => []IInv
<1>1. IInv /\ [Next]_vars => IInv'
  BY IInvNext
<1> QED BY IInvInit, <1>1, PTL DEF Spec

(* No motor of frame 0x200 leaves its calibration early.                   *)
THEOREM LowCalibratedAlways == ASSUME LowOr = {} PROVE Spec => []LowCalibrated
<1>1. IInv => LowCalibrated
  <2> SUFFICES ASSUME IInv, NEW m \in LowGroup, msg_cnt[m] >= CalCount
               PROVE  frames[m] = CalCount
    BY DEF LowCalibrated
  <2>1. CalCount \in Nat /\ Ready \in Nat /\ m \in Motors
    BY DjCanAssumption
  <2>2. msg_cnt[m] \in (0 .. CalCount) \cup {Ready}
    BY <2>1 DEF IInv, TypeOK
  <2>3. ~(msg_cnt[m] < CalCount)
    BY <2>1, <2>2
  <2> QED BY <2>3 DEF IInv, CalibrationCounted
<1> QED BY Invariance, <1>1, PTL

(* The turns counted are the turns made, for any encoder resolution and    *)
(* any motion of less than half a turn between two frames, and the         *)
(* position is short by one count for each of them.                        *)
THEOREM TurnsCountedAlways == ASSUME LowOr = {} PROVE Spec => []TurnsCounted
<1>1. IInv => TurnsCounted
  <2> SUFFICES ASSUME IInv, NEW m \in LowGroup, frames[m] > 0
               PROVE  /\ round_cnt[m] = turn[m] - zeroTurn[m]
                      /\ total_angle[m] + round_cnt[m] =
                           (turn[m] - zeroTurn[m]) * Counts + ang[m] - offset_angle[m]
    BY DEF TurnsCounted
  <2>1. /\ round_cnt[m] = turn[m] - zeroTurn[m]
        /\ total_angle[m] = TotalAngle(round_cnt[m], ang[m], offset_angle[m])
    BY DEF IInv, MeasureAgrees
  <2>2. m \in Motors
    BY DjCanAssumption
  <2>3. round_cnt[m] \in Int /\ ang[m] \in 0 .. Counts - 1 /\ offset_angle[m] \in 0 .. Counts - 1
    BY <2>2 DEF IInv, TypeOK
  <2>4. Counts \in Nat
    BY DjCanAssumption
  <2>5. ang[m] \in Int /\ offset_angle[m] \in Int
    BY <2>3, <2>4
  <2>6. total_angle[m] = round_cnt[m] * (Counts - 1) + ang[m] - offset_angle[m]
    BY <2>1 DEF TotalAngle
  <2>7. \A r \in Int : \E p \in Int : r * (Counts - 1) = p /\ r * Counts = p + r
    BY <2>4
  <2>8. PICK p \in Int : /\ round_cnt[m] * (Counts - 1) = p
                        /\ round_cnt[m] * Counts = p + round_cnt[m]
    BY <2>3, <2>7
  <2>9. total_angle[m] + round_cnt[m] = round_cnt[m] * Counts + ang[m] - offset_angle[m]
    BY <2>3, <2>5, <2>6, <2>8
  <2> QED BY <2>1, <2>9
<1> QED BY Invariance, <1>1, PTL

(* No motor is driven before it is calibrated.                             *)
THEOREM DrivenOnlyCalibratedAlways ==
  ASSUME LowOr = {} PROVE Spec => []DrivenOnlyCalibrated
<1>1. IInv => DrivenOnlyCalibrated
  BY DEF IInv
<1> QED BY Invariance, <1>1, PTL

(* After a failed frame 0x200 every motor on it is heard before the next.  *)
THEOREM HeardBeforeRetryAlways == ASSUME LowOr = {} PROVE Spec => []HeardBeforeRetry
<1>1. IInv => HeardBeforeRetry
  BY DEF IInv, GateHeld, HeardOrToReset, HeardBeforeRetry
<1> QED BY Invariance, <1>1, PTL

-----------------------------------------------------------------------------
(* Stops do not depend on the gate: this holds with the "||" too.          *)
THEOREM StopHoldsAlways == Spec => []StopHolds
<1> DEFINE J == TypeOK /\ SlotsHeld /\ StopHolds
<1>1. Init => J
  BY TypeInit, SlotsInit
<1>2. J /\ [Next]_vars => J'
  BY TypeNext, SlotsNext
<1>3. J => StopHolds
  OBVIOUS
<1> QED BY <1>1, <1>2, <1>3, PTL DEF Spec
=============================================================================
