------------------------------ MODULE UartLine ------------------------------
(***************************************************************************)
(* A serial device shared by several drivers. Each of them opens it, sets  *)
(* rx_indicate to a function of its own, which replaces the former one,    *)
(* and its thread then reads byte by byte until the receive ring is empty  *)
(* and waits for ever on a semaphore that only its own function releases.  *)
(*                                                                         *)
(*   uart8: ibus (bsp_sbus.c), flow (flow/main_flow.c) and the stepper     *)
(*          driver emm (motor_emm_v5_driver.c, which sets its function and *)
(*          then sleeps: nothing calls the stepper operations)             *)
(*   uart7: action (drv_action.c, decodes inside its function) and imu     *)
(*          (FDILink.c)                                                    *)
(*   uart3: camera (drv_visual.c)                                          *)
(*                                                                         *)
(* The device attached to the line sends its frames for ever; what the     *)
(* threads take off the ring goes to their decoders (module Decoders).     *)
(***************************************************************************)
EXTENDS Decoders, FiniteSets

CONSTANTS
  SemMax,     \* a release beyond this value of a semaphore fails: 65535
  RingSize,   \* bound: bytes in the receive ring, 4096 in the program
  MaxChunk,   \* bound: bytes the DMA brings in with one interrupt
  LossyDevices, \* devices whose bytes can get lost
  MaxLost     \* bound: bytes that get lost

ASSUME UartLineAssumption ==
  /\ SemMax \in Nat \ {0} /\ RingSize \in Nat \ {0} /\ MaxChunk \in 1 .. RingSize
  /\ LossyDevices \subseteq Decoding /\ MaxLost \in Nat

Users ==
  [uart8 |-> {"ibus", "flow", "emm"}, uart7 |-> {"action", "imu"}, uart3 |-> {"camera"}]

(* The priority of the thread that sets rx_indicate, smaller is more       *)
(* urgent; action does it in main's thread.                                *)
Priority ==
  [ibus |-> 8, camera |-> 9, action |-> 10, flow |-> 15, emm |-> 15, imu |-> 15]

(* The users that read in a thread of their own.                           *)
Reading == Decoding \ {"action"}

(* The places of the bytes of a device: the number of a frame, the byte.   *)
Places(dev) == UNION {{n} \X DOMAIN Frames[dev][n] : n \in FrameNumbers(dev)}

ByteAt(dev, p) == Frames[dev][p[1]][p[2]]

Successor(dev, p) ==
  IF p[2] < Len(Frames[dev][p[1]]) THEN <<p[1], p[2] + 1>>
  ELSE <<(p[1] + 1) % NumFrames[dev], 1>>

(* The place k bytes after p.                                              *)
Advance(dev, p, k) ==
  LET f[i \in 0 .. k] == IF i = 0 THEN p ELSE Successor(dev, f[i - 1]) IN f[k]

VARIABLES
  uart,         \* the line: never changes
  device,       \* the device attached to it: never changes
  at,           \* its next byte: number of the frame and place in it
  lost,         \* how many of its bytes have got lost
  ring,         \* the receive ring of the serial device
  rx_indicate,  \* the user whose function is set, or "none"
  pc,           \* per user: "start", "read", "take" (rt_sem_take), or "done"
  sem,          \* per user: its semaphore
  dec           \* per decoding user: the static variables of its decoder

users == Users[uart]
attached == <<uart, device>>
vars == <<attached, at, lost, ring, rx_indicate, pc, sem, dec>>

(* at and ring need no type of their own: every step indexes Frames with   *)
(* them, and the decoders take the fields of a byte.                       *)
TypeOK ==
  /\ uart \in DOMAIN Users /\ device \in users \cap Decoding
  /\ lost \in 0 .. MaxLost
  /\ rx_indicate \in users \cup {"none"}
  /\ pc \in [users -> {"start", "read", "take", "done"}]
  /\ sem \in [users -> 0 .. SemMax]
  /\ DOMAIN dec = users \cap Decoding

(* The device has been sending before the line is opened: what arrives     *)
(* first may be the middle of a frame.                                     *)
Init ==
  /\ uart \in DOMAIN Users /\ device \in users \cap Decoding
  /\ at \in Places(device)
  /\ lost = 0
  /\ ring = << >> /\ rx_indicate = "none"
  /\ pc = [u \in users |-> "start"]
  /\ sem = [u \in users |-> 0]
  /\ dec = [u \in users \cap Decoding |-> Fresh[u]]

-----------------------------------------------------------------------------
Asleep(u) == pc[u] = "done" \/ (pc[u] = "take" /\ sem[u] = 0)

(* The scheduler runs a thread when none that is more urgent is ready.     *)
Runs(u) == \A v \in users : Priority[v] < Priority[u] => Asleep(v)

(* Mutated: the thread waits before it has read what was there already.    *)
SetRxIndicateAndWait(u) ==
  /\ pc[u] = "start"
  /\ rx_indicate' = u
  /\ pc' = [pc EXCEPT ![u] = IF u \in Reading THEN "take" ELSE "done"]
  /\ UNCHANGED <<attached, at, lost, ring, sem, dec>>

(* rt_device_set_rx_indicate: the entry of dbus_handle, flow_handle,       *)
(* imu_handle, test1_entry, drv_emm_v5_entry; Action_Init. All are ready   *)
(* from the start-up on.                                                   *)
SetRxIndicate(u) ==
  /\ pc[u] = "start"
  /\ rx_indicate' = u
  /\ pc' = [pc EXCEPT ![u] = IF u \in Reading THEN "read" ELSE "done"]
  /\ UNCHANGED <<attached, at, lost, ring, sem, dec>>

(* rt_device_read returns a byte, and it is decoded.                       *)
ReadByte(u) ==
  /\ pc[u] = "read" /\ ring # << >>
  /\ ring' = Tail(ring)
  /\ dec' = [dec EXCEPT ![u] = Decode(u, @, Head(ring))]
  /\ UNCHANGED <<attached, at, lost, rx_indicate, pc, sem>>

(* rt_device_read returns nothing; an interrupt, or another user, can come *)
(* between this and rt_sem_take.                                           *)
ReadNone(u) ==
  /\ pc[u] = "read" /\ ring = << >>
  /\ pc' = [pc EXCEPT ![u] = "take"]
  /\ UNCHANGED <<attached, at, lost, ring, rx_indicate, sem, dec>>

SemTake(u) ==
  /\ pc[u] = "take" /\ sem[u] > 0
  /\ sem' = [sem EXCEPT ![u] = @ - 1]
  /\ pc' = [pc EXCEPT ![u] = "read"]
  /\ UNCHANGED <<attached, at, lost, ring, rx_indicate, dec>>

-----------------------------------------------------------------------------
Chunk(k) == [i \in 1 .. k |-> ByteAt(device, Advance(device, at, i - 1))]

(* Data_Analyse of every byte of s.                                        *)
Analysed(d, s) ==
  LET after[i \in 0 .. Len(s)] == IF i = 0 THEN d ELSE DataAnalyse(after[i - 1], s[i]) IN
  after[Len(s)]

Released(u) == [sem EXCEPT ![u] = IF @ < SemMax THEN @ + 1 ELSE @]

(* Mutated: the function set before is called as well.                     *)
RxIndicateChained(s) ==
  /\ ring' = s
  /\ sem' = [u \in users |-> IF pc[u] # "start" /\ sem[u] < SemMax THEN sem[u] + 1 ELSE sem[u]]
  /\ UNCHANGED dec

(* rt_hw_serial_isr calls the function that is set, with s in the ring:    *)
(* that of action takes all of it, the others release their semaphore.     *)
RxIndicate(s) ==
  \/ rx_indicate = "none" /\ ring' = s /\ UNCHANGED <<sem, dec>>
  \/ /\ rx_indicate = "action"
     /\ ring' = << >>
     /\ dec' = [dec EXCEPT !["action"] = Analysed(@, s)]
     /\ UNCHANGED sem
  \/ /\ rx_indicate \notin {"none", "action"}
     /\ ring' = s /\ sem' = Released(rx_indicate) /\ UNCHANGED dec

(* The DMA has brought in k bytes.                                         *)
Arrive(k) ==
  /\ Len(ring) + k <= RingSize
  /\ RxIndicate(ring \o Chunk(k))
  /\ at' = Advance(device, at, k)
  /\ UNCHANGED <<attached, lost, rx_indicate, pc>>

(* A byte finds the ring full. Its readers are taken to keep up, so this   *)
(* happens only on a line none of whose users reads any more.              *)
Overflow ==
  /\ Len(ring) = RingSize
  /\ \A u \in users : Asleep(u)
  /\ RxIndicate(ring)
  /\ at' = Successor(device, at)
  /\ UNCHANGED <<attached, lost, rx_indicate, pc>>

(* A byte is lost on the way.                                              *)
LoseByte ==
  /\ device \in LossyDevices /\ lost < MaxLost
  /\ lost' = lost + 1
  /\ at' = Successor(device, at)
  /\ UNCHANGED <<attached, ring, rx_indicate, pc, sem, dec>>

-----------------------------------------------------------------------------
Thread(u) ==
  Runs(u) /\ (SetRxIndicate(u) \/ ReadByte(u) \/ ReadNone(u) \/ SemTake(u))

Interrupt == Overflow \/ \E k \in 1 .. MaxChunk : Arrive(k)

Next ==
  \/ \E u \in users : Thread(u)
  \/ Interrupt
  \/ LoseByte

Spec == Init /\ [][Next]_vars

(* The device keeps sending, and the processor becomes idle again and      *)
(* again: at 115200 baud a byte takes 87 microseconds.                     *)
FairSpec ==
  /\ Spec
  /\ WF_vars(Interrupt)
  /\ []<>(\A u \in users : Asleep(u))

-----------------------------------------------------------------------------
(***************************************************************************)
(* Properties                                                              *)
(***************************************************************************)

(* The user whose function is set does not sleep over bytes that are in    *)
(* the ring: neither those that arrived before it was set nor those that   *)
(* arrive between rt_device_read and rt_sem_take are missed, whoever else  *)
(* still takes bytes off the same ring.                                    *)
OwnerAwake ==
  \A u \in users : u = rx_indicate /\ u \in Reading /\ ring # << >> => ~Asleep(u)

(* A thread that reads a line never stops doing so.                        *)
ReadersStay == \A u \in users \cap Reading : pc[u] # "done"

(* The inductive form of OwnerAwake: with the types of the variables, and  *)
(* no reader whose function is set has left the loop that reads the line.  *)
IInv == TypeOK /\ ReadersStay /\ OwnerAwake

(* What a decoder publishes (rc1.chs, the flow, AHRSData, pos_x and        *)
(* zangle, ball[]) is the data of one frame of its own device: never of    *)
(* two frames, part of one, or bytes of the device another driver of the   *)
(* line is for, although it starts anywhere in the stream, may lose bytes  *)
(* of it, and shares it with the other readers of the line.                *)
OnlyWhole ==
  \A u \in DOMAIN dec :
    dec[u].got # << >> =>
      u = device /\ \E n \in FrameNumbers(u) : Wanted(u, n) /\ dec[u].got = Data(u, n)

(* The bytes received in a row from place p on, of which l[j] have got     *)
(* lost before the j-th: l does not decrease.                              *)
Losses(n) ==
  {l \in [1 .. n -> 0 .. MaxLost] : \A i, j \in 1 .. n : i <= j => l[i] <= l[j]}

Received(dev, p, l) == [j \in DOMAIN l |-> ByteAt(dev, Advance(dev, p, j - 1 + l[j]))]

(* What the decoders without a checksum rely on for OnlyWhole. action:     *)
(* nothing that is received in a row on its line looks like a frame but a  *)
(* frame of its own. camera: its text has no delimiter within a number,    *)
(* and none of its bytes gets lost.                                        *)
NoFalseFrame ==
  \A dev \in Users.uart7, l \in Losses(Size + 4) : \A p \in Places(dev) :
    LET r == Received(dev, p, l) IN
    /\ r[1].mark = "0D" /\ r[2].mark = "0A"
    /\ r[Size + 3].mark = "0A" /\ r[Size + 4].mark = "0D"
    => dev = "action" /\ \E n \in FrameNumbers(dev) : SubSeq(r, 3, Size + 2) = Data(dev, n)

CameraText ==
  /\ \A n \in FrameNumbers("camera"), i \in 1 .. Size : Alias("camera", n, i) \notin {"b", "e"}
  /\ "camera" \notin LossyDevices \/ MaxLost = 0

(* At some point the line has one reader and keeps it, the last of the     *)
(* least urgent users to come: a frame is not torn between two decoders    *)
(* for ever. The others wait for ever, on uart8 always the remote control. *)
OneReader ==
  <>[](\A u \in users : ~Asleep(u) =>
         u = rx_indicate /\ \A v \in users : Priority[v] <= Priority[u])

(* A decoder that keeps a line its device is attached to gets into step    *)
(* with the frames, from any state of its own and any place in the stream, *)
(* and takes each of them again and again once no more bytes get lost.     *)
InStep ==
  \A n \in UNION {FrameNumbers(dev) : dev \in Decoding} :
    <>[](rx_indicate = device) =>
      []<>(n \in FrameNumbers(device) /\ Wanted(device, n) =>
             dec[device].got = Data(device, n))
=============================================================================
