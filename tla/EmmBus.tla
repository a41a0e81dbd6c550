------------------------------- MODULE EmmBus -------------------------------
(***************************************************************************)
(* The request / reply protocol of the stepper driver                      *)
(* (motor_emm_v5_driver.c) on one serial line shared by all steppers.      *)
(*                                                                         *)
(* Every Emm_V5_* operation takes mutex_step, sends its frame and calls    *)
(* emm_wait_for_ack, which reads as many bytes as the reply to that        *)
(* command has, hands them to emm_cmd_ana and releases the mutex; when the *)
(* semaphore of the receive interrupt stays empty for 100 ticks it gives   *)
(* up, and the bytes that are still to come are left to the next caller.   *)
(*                                                                         *)
(* Bytes carry where they come from instead of their values: the motor,    *)
(* the command they answer, their place in the reply, and whether that     *)
(* request is the one being waited for (live).                             *)
(***************************************************************************)
EXTENDS Integers, Sequences, FiniteSets

CONSTANTS
  Threads,    \* threads calling Emm_V5_* operations
  Steppers,   \* motors on the line (stepper_motor[])
  Cmds,       \* function codes in use: "vel" is 0x35, "pos" is 0x36, any
              \* other one is answered by four bytes
  NoOne,      \* the owner of a free mutex
  Timely,     \* a reply that comes at all comes before the 100 ticks are over
  Lossy,      \* requests can remain unanswered and bytes can get lost
  SemMax,     \* a release beyond this value of a semaphore fails: 65535
  MaxLate     \* bound: stale requests still unanswered and stale bytes on
              \* the line when an operation is called

ASSUME EmmBusAssumption ==
  /\ NoOne \notin Threads
  /\ Timely \in BOOLEAN /\ Lossy \in BOOLEAN
  /\ SemMax \in Nat \ {0} /\ MaxLate \in Nat

(* emm_get_cmd_receive_size *)
ReceiveSize(cmd) == IF cmd = "vel" THEN 6 ELSE IF cmd = "pos" THEN 8 ELSE 4

Requests == [motor : Steppers, cmd : Cmds]
Pending == [motor : Steppers, cmd : Cmds, live : BOOLEAN]
Bytes == [motor : Steppers, cmd : Cmds, place : 1 .. 8, live : BOOLEAN]
Measured == {"vel", "pos"}

VARIABLES
  pc,         \* per thread: "idle", "take" (waits for the mutex), "send",
              \* "read" (rt_device_read), "sem" (rt_sem_take)
  req,        \* per thread: the operation it carries out
  owner,      \* the owner of mutex_step
  sem,        \* emm_rx_sem
  rxq,        \* the receive ring of the serial device
  buf,        \* Emm_rx_buf up to Emm_rx_index, << >> outside the reading loop
  meas,       \* the bytes stepper_motor_speed / _angle was computed from
  pending,    \* requests a motor has yet to answer
  wire,       \* bytes on the line or in the DMA buffer
  lost        \* ghost: part of the current request or its reply got lost

caller == <<pc, req, owner>>
line == <<pending, wire, lost>>
vars == <<caller, sem, rxq, buf, meas, line>>

TypeOK ==
  /\ pc \in [Threads -> {"idle", "take", "send", "read", "sem"}]
  /\ req \in [Threads -> Requests]
  /\ owner \in Threads \cup {NoOne}
  /\ sem \in 0 .. SemMax
  /\ rxq \in Seq(Bytes)
  /\ buf \in Seq(Bytes)
  /\ meas \in [Steppers -> [Measured -> Seq(Bytes)]]
  /\ pending \in Seq(Pending)
  /\ wire \in Seq(Bytes)
  /\ lost \in BOOLEAN

Init ==
  /\ pc = [t \in Threads |-> "idle"]
  /\ req \in {[t \in Threads |-> r] : r \in Requests}
  /\ owner = NoOne
  /\ sem = 0 /\ rxq = << >> /\ buf = << >>
  /\ meas = [m \in Steppers |-> [c \in Measured |-> << >>]]
  /\ pending = << >> /\ wire = << >> /\ lost = FALSE

-----------------------------------------------------------------------------
(* A whole reply, as the motor puts it on the line.                        *)
Reply(m, c, live) ==
  [i \in 1 .. ReceiveSize(c) |-> [motor |-> m, cmd |-> c, place |-> i, live |-> live]]

(* What remains of a request once its caller has gone.                     *)
Stale(s) == [i \in DOMAIN s |-> [s[i] EXCEPT !.live = FALSE]]

(* Whether Emm_rx_buf[1], the byte b, compares equal to the function code  *)
(* c: the second byte of a reply is its code, the first its address and    *)
(* the last 0x6B; the others are data and may be anything.                 *)
CodeMatches(b, c) ==
  IF b.place = 2 THEN {b.cmd = c}
  ELSE IF b.place = 1 \/ b.place = ReceiveSize(b.cmd) THEN {FALSE}
  ELSE BOOLEAN

(* Mutated: an answer that is not the one awaited is taken for it.         *)
EmmCmdAnaUnchecked(m, c, s) ==
  IF c \in Measured
  THEN meas' = [meas EXCEPT ![m][c] = [i \in 1 .. 2 |-> s[3 - i]]]
  ELSE UNCHANGED meas

(* emm_cmd_ana(m, c, s): only 0x35 and 0x36 store anything, and only when  *)
(* the code in the buffer is theirs.                                       *)
EmmCmdAna(m, c, s) ==
  IF c \in Measured
  THEN \E ok \in CodeMatches(s[2], c) :
         meas' = IF ok THEN [meas EXCEPT ![m][c] = s] ELSE meas
  ELSE UNCHANGED meas

(* Mutated: the thread comes back without releasing the mutex.             *)
ReturnLocked(t) ==
  /\ pc' = [pc EXCEPT ![t] = "idle"]
  /\ UNCHANGED owner
  /\ buf' = << >> /\ pending' = Stale(pending) /\ wire' = Stale(wire)

(* rt_mutex_release hands the mutex to a waiting thread, if there is one,  *)
(* before it returns. What the thread was waiting for is now stale.        *)
Return(t) ==
  /\ \/ \E w \in Threads :
          /\ pc[w] = "take"
          /\ owner' = w
          /\ pc' = [pc EXCEPT ![t] = "idle", ![w] = "send"]
     \/ /\ \A w \in Threads : pc[w] # "take"
        /\ owner' = NoOne
        /\ pc' = [pc EXCEPT ![t] = "idle"]
  /\ buf' = << >> /\ pending' = Stale(pending) /\ wire' = Stale(wire)

-----------------------------------------------------------------------------
Live(s) == \E i \in DOMAIN s : s[i].live

Late(s) == Cardinality({i \in DOMAIN s : ~s[i].live})

(* Mutated: an operation that does not take the mutex.                     *)
CallUnlocked(t, r) ==
  /\ pc[t] = "idle"
  /\ Late(pending) + Late(wire) <= MaxLate
  /\ req' = [req EXCEPT ![t] = r]
  /\ owner' = t /\ pc' = [pc EXCEPT ![t] = "send"]
  /\ UNCHANGED <<sem, rxq, buf, meas, line>>

(* One of the Emm_V5_* operations is called: rt_mutex_take.                *)
Call(t, r) ==
  /\ pc[t] = "idle"
  /\ Late(pending) + Late(wire) <= MaxLate
  /\ req' = [req EXCEPT ![t] = r]
  /\ \/ owner = NoOne /\ owner' = t /\ pc' = [pc EXCEPT ![t] = "send"]
     \/ owner # NoOne /\ owner' = owner /\ pc' = [pc EXCEPT ![t] = "take"]
  /\ UNCHANGED <<sem, rxq, buf, meas, line>>

(* emm_transmit, and the entry of emm_wait_for_ack.                        *)
Transmit(t) ==
  /\ pc[t] = "send"
  /\ pc' = [pc EXCEPT ![t] = "read"]
  /\ pending' = Append(pending, [motor |-> req[t].motor, cmd |-> req[t].cmd, live |-> TRUE])
  /\ lost' = FALSE
  /\ UNCHANGED <<req, owner, sem, rxq, buf, meas, wire>>

(* Mutated: ">" for ">=", one byte too many is waited for.                 *)
ReadByteOneMore(t) ==
  /\ pc[t] = "read" /\ rxq # << >>
  /\ \/ /\ Len(buf) + 1 > ReceiveSize(req[t].cmd)
        /\ EmmCmdAna(req[t].motor, req[t].cmd, Append(buf, Head(rxq)))
        /\ Return(t)
        /\ rxq' = Stale(Tail(rxq))
     \/ /\ Len(buf) + 1 <= ReceiveSize(req[t].cmd)
        /\ rxq' = Tail(rxq)
        /\ buf' = Append(buf, Head(rxq))
        /\ UNCHANGED <<pc, owner, meas, pending, wire>>
  /\ UNCHANGED <<req, sem, lost>>

(* rt_device_read returns a byte: it is appended to Emm_rx_buf, and the    *)
(* last one of the expected size ends the operation.                       *)
ReadByte(t) ==
  /\ pc[t] = "read" /\ rxq # << >>
  /\ \/ /\ Len(buf) + 1 >= ReceiveSize(req[t].cmd)
        /\ EmmCmdAna(req[t].motor, req[t].cmd, Append(buf, Head(rxq)))
        /\ Return(t)
        /\ rxq' = Stale(Tail(rxq))
     \/ /\ Len(buf) + 1 < ReceiveSize(req[t].cmd)
        /\ rxq' = Tail(rxq)
        /\ buf' = Append(buf, Head(rxq))
        /\ UNCHANGED <<pc, owner, meas, pending, wire>>
  /\ UNCHANGED <<req, sem, lost>>

(* rt_device_read returns nothing. The interrupt can come between this and *)
(* rt_sem_take.                                                            *)
ReadNone(t) ==
  /\ pc[t] = "read" /\ rxq = << >>
  /\ pc' = [pc EXCEPT ![t] = "sem"]
  /\ UNCHANGED <<req, owner, sem, rxq, buf, meas, line>>

SemTake(t) ==
  /\ pc[t] = "sem" /\ sem > 0
  /\ sem' = sem - 1
  /\ pc' = [pc EXCEPT ![t] = "read"]
  /\ UNCHANGED <<req, owner, rxq, buf, meas, line>>

(* Mutated: the timeout is retried.                                        *)
SemTimeoutRetried(t) ==
  /\ pc[t] = "sem" /\ sem = 0
  /\ pc' = [pc EXCEPT ![t] = "read"]
  /\ UNCHANGED <<req, owner, sem, rxq, buf, meas, line>>

(* rt_sem_take gives up after 100 ticks: the operation ends without        *)
(* emm_cmd_ana.                                                            *)
SemTimeout(t) ==
  /\ pc[t] = "sem" /\ sem = 0
  /\ Timely => ~Live(pending) /\ ~Live(wire)
  /\ Return(t)
  /\ rxq' = Stale(rxq)
  /\ UNCHANGED <<req, sem, meas, lost>>

-----------------------------------------------------------------------------
(* Mutated: the count of the semaphore overflows.                          *)
EmmUartRxIndWraps(k) ==
  /\ rxq' = rxq \o SubSeq(wire, 1, k)
  /\ wire' = SubSeq(wire, k + 1, Len(wire))
  /\ sem' = (sem + 1) % (SemMax + 1)
  /\ UNCHANGED <<caller, buf, meas, pending, lost>>

(* emm_uart_rx_ind: the interrupt for k bytes the DMA has brought in.      *)
EmmUartRxInd(k) ==
  /\ rxq' = rxq \o SubSeq(wire, 1, k)
  /\ wire' = SubSeq(wire, k + 1, Len(wire))
  /\ sem' = IF sem < SemMax THEN sem + 1 ELSE sem
  /\ UNCHANGED <<caller, buf, meas, pending, lost>>

Without(s, i) == SubSeq(s, 1, i - 1) \o SubSeq(s, i + 1, Len(s))

(* A motor answers a request addressed to it.                              *)
Answer(i) ==
  /\ pending' = Without(pending, i)
  /\ wire' = wire \o Reply(pending[i].motor, pending[i].cmd, pending[i].live)
  /\ UNCHANGED <<caller, sem, rxq, buf, meas, lost>>

(* A motor never answers, or a byte is lost on the way.                    *)
LoseRequest(i) ==
  /\ pending' = Without(pending, i)
  /\ lost' = (lost \/ pending[i].live)
  /\ UNCHANGED <<caller, sem, rxq, buf, meas, wire>>

LoseByte(i) ==
  /\ wire' = Without(wire, i)
  /\ lost' = (lost \/ wire[i].live)
  /\ UNCHANGED <<caller, sem, rxq, buf, meas, pending>>

-----------------------------------------------------------------------------
Thread(t) ==
  \/ Transmit(t)
  \/ ReadByte(t)
  \/ ReadNone(t)
  \/ SemTake(t)
  \/ SemTimeout(t)

Interrupt == \E k \in 1 .. Len(wire) : EmmUartRxInd(k)

Motor == \E i \in 1 .. Len(pending) : Answer(i)

Loss ==
  /\ Lossy
  /\ \/ \E i \in 1 .. Len(pending) : LoseRequest(i)
     \/ \E i \in 1 .. Len(wire) : LoseByte(i)

Next ==
  \/ \E t \in Threads : Thread(t) \/ \E r \in Requests : Call(t, r)
  \/ Interrupt
  \/ Motor
  \/ Loss

Spec == Init /\ [][Next]_vars

-----------------------------------------------------------------------------
(***************************************************************************)
(* Properties                                                              *)
(***************************************************************************)

(* Exactly the owner of mutex_step is between taking and releasing it:     *)
(* every way out of an operation releases the mutex, once, and two         *)
(* operations never share the line or Emm_rx_buf.                          *)
MutexBalanced ==
  \A t \in Threads : owner = t <=> pc[t] \in {"send", "read", "sem"}

(* A thread that waits for the semaphore while a byte is there to be read  *)
(* finds the semaphore signalled: the interrupt between rt_device_read and *)
(* rt_sem_take is not missed.                                              *)
NoLostWakeup ==
  \A t \in Threads : pc[t] = "sem" /\ rxq # << >> => sem > 0

(* "real-time speed" and "real-time angle" of the motor (fields of         *)
(* stepper_motor_t): what is stored for a motor was computed from the      *)
(* whole reply of this motor to the request that has been waited for.      *)
OwnReply ==
  \A m \in Steppers, c \in Measured :
    meas[m][c] # << >> => meas[m][c] = Reply(m, c, TRUE)

(* An operation only ends in the timeout if its request or a byte of its   *)
(* reply got lost: no order of interrupt and reader makes a thread wait    *)
(* for bytes that are already there, or leaves one too few for it.         *)
TimeoutOnlyIfLost ==
  [][\A t \in Threads : SemTimeout(t) => lost]_vars

(* The same, of the motor alone: no motor is taken for another one.        *)
OwnMotor ==
  \A m \in Steppers, c \in Measured : \A i \in DOMAIN meas[m][c] :
    meas[m][c][i].motor = m

(* The line is clean when an operation starts: nothing a former operation  *)
(* has asked for is still to come.                                         *)
CleanStart ==
  \A t \in Threads : pc[t] = "send" => rxq = << >> /\ wire = << >> /\ pending = << >>

(* Every operation returns, also when motors answer late or never and when *)
(* other threads keep calling.                                             *)
CallReturns == \A t \in Threads : pc[t] # "idle" ~> pc[t] = "idle"

(* Threads that can run do run, and the 100 ticks of rt_sem_take pass;     *)
(* what is on the line arrives, and a motor answers or its request is      *)
(* lost. Callers owe nothing.                                              *)
FairSpec ==
  /\ Spec
  /\ \A t \in Threads : WF_vars(Thread(t))
  /\ WF_vars(Interrupt) /\ WF_vars(Motor)

-----------------------------------------------------------------------------
(***************************************************************************)
(* The inductive invariant behind them for a timely line.                  *)
(***************************************************************************)

(* The operation that waits and what it has asked for.                     *)
Waiting == \E t \in Threads : pc[t] \in {"read", "sem"}

Awaited == req[owner]

(* Nothing is under way while no operation waits.                          *)
LineClean ==
  ~Waiting => buf = << >> /\ rxq = << >> /\ wire = << >> /\ pending = << >>

(* While one waits, either its request is pending and nothing else, or the *)
(* bytes read, received and on the line are its reply, or less.            *)
ReplyInOrder ==
  Waiting =>
    \/ /\ pending = << [motor |-> Awaited.motor, cmd |-> Awaited.cmd, live |-> TRUE] >>
       /\ buf = << >> /\ rxq = << >> /\ wire = << >> /\ ~lost
    \/ /\ pending = << >> /\ ~lost
       /\ Len(buf) < ReceiveSize(Awaited.cmd)
       /\ buf \o rxq \o wire = Reply(Awaited.motor, Awaited.cmd, TRUE)
    \/ /\ pending = << >> /\ lost
       /\ Len(buf) + Len(rxq) + Len(wire) < ReceiveSize(Awaited.cmd)
       /\ \A i \in DOMAIN wire : wire[i].live

IInv ==
  TypeOK /\ MutexBalanced /\ NoLostWakeup /\ OwnReply /\ LineClean /\ ReplyInOrder
=============================================================================
