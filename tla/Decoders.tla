------------------------------ MODULE Decoders ------------------------------
(***************************************************************************)
(* The frames of the five serial devices of the robot and the byte-wise    *)
(* decoders that take them: ibus_in (bsp_sbus.c), up_parse_char            *)
(* (flow/flow_decode.c), FDILink_Receive (FDILink.c), Data_Analyse         *)
(* (drv_action.c) and cvhandle (drv_visual.c).                             *)
(*                                                                         *)
(* A byte is its origin - the device, the number of the frame, the place   *)
(* in it - and its mark, the value it has for the comparisons of the       *)
(* decoders: that of a delimiter, or "-" for any other one. A checksum is  *)
(* modelled as a perfect one: it accepts what it was computed from. Each   *)
(* decoder is an operator from its static variables and a byte to its      *)
(* static variables; got is what it has published last.                    *)
(***************************************************************************)
EXTENDS Integers, Sequences

CONSTANTS
  Size,             \* bytes of data in a frame: 28, 10, 48, 24, 4 numbers
  NumFrames,        \* per device: the frames it sends in turn, all different
  Alias(_, _, _)    \* the mark of byte i of the data of frame n of a device

Decoding == {"ibus", "flow", "imu", "action", "camera"}

ASSUME DecodersAssumption ==
  Size \in Nat \ {0} /\ NumFrames \in [Decoding -> Nat \ {0}]

FrameNumbers(dev) == 0 .. NumFrames[dev] - 1

(* What precedes and follows the data of a frame. "imu" is FC, type,       *)
(* length, number, CRC8 and the two bytes of CRC16 (FDILink_Pack).         *)
Before ==
  [ibus |-> <<"20", "40">>, flow |-> <<"FE", "0A">>,
   imu |-> <<"FC", "-", "-", "-", "-", "-", "-">>,
   action |-> <<"0D", "0A">>, camera |-> <<"b">>]

After ==
  [ibus |-> <<"-", "-">>, flow |-> <<"-", "55">>, imu |-> <<"FD">>,
   action |-> <<"0A", "0D">>, camera |-> <<"e">>]

(* The inertial unit sends more than attitudes: every other frame is one   *)
(* of another type, with less data or none; one without data ends after    *)
(* its CRC8 (FDILink_Send).                                                *)
DataLen(dev, n) ==
  IF dev = "imu" /\ n % 2 = 1 THEN IF n % 4 = 1 THEN Size - 1 ELSE 0 ELSE Size

Wanted(dev, n) == dev = "imu" => n % 2 = 0

Marks(dev, n) ==
  IF DataLen(dev, n) = 0 THEN SubSeq(Before[dev], 1, 5)
  ELSE Before[dev] \o [i \in 1 .. DataLen(dev, n) |-> Alias(dev, n, i)] \o After[dev]

Frames ==
  [dev \in Decoding |-> [n \in FrameNumbers(dev) |->
     [i \in 1 .. Len(Marks(dev, n)) |->
        [mark |-> Marks(dev, n)[i], dev |-> dev, frame |-> n, place |-> i]]]]

Data(dev, n) ==
  SubSeq(Frames[dev][n], Len(Before[dev]) + 1, Len(Before[dev]) + DataLen(dev, n))

-----------------------------------------------------------------------------
(* ibus_in. buf is rc->buf up to rc->flag; the checksum is over all of it. *)
IbusSum(buf) == \E n \in FrameNumbers("ibus") : buf = Frames["ibus"][n]

IbusIn(d, b) ==
  LET buf == Append(d.buf, b) IN
  CASE Len(buf) = 1 -> [d EXCEPT !.buf = IF b.mark = "20" THEN buf ELSE << >>]
    [] Len(buf) = 2 -> [d EXCEPT !.buf = IF b.mark = "40" THEN buf ELSE << >>]
    [] Len(buf) \in 3 .. Size + 3 -> [d EXCEPT !.buf = buf]
    [] OTHER -> [buf |-> << >>,
                 got |-> IF IbusSum(buf) THEN SubSeq(buf, 3, Size + 2) ELSE d.got]

-----------------------------------------------------------------------------
(* Mutated: the frame is accepted for its end, whatever its checksum.      *)
XorIgnored(buf) == TRUE

(* The exclusive or is over the data alone.                                *)
XorSum(buf) == \E n \in FrameNumbers("flow") : buf = SubSeq(Frames["flow"][n], 3, Size + 3)

(* up_parse_char: s is the state, buf the data in up_data and then Xor_r.  *)
(* The rest of flow_protool_handle uses the data when the result is 0.     *)
UpParseChar(d, b) ==
  CASE d.s = 0 -> [d EXCEPT !.s = IF b.mark = "FE" THEN 1 ELSE 0]
    [] d.s = 1 -> [d EXCEPT !.s = IF b.mark = "0A" THEN 2 ELSE 0, !.buf = << >>]
    [] d.s = 2 -> [d EXCEPT !.s = IF Len(d.buf) + 1 = Size THEN 3 ELSE 2,
                            !.buf = Append(@, b)]
    [] d.s = 3 -> [d EXCEPT !.s = 4, !.buf = Append(@, b)]
    [] d.s = 4 -> [s |-> 0, buf |-> << >>,
                   got |-> IF b.mark = "55" /\ XorSum(d.buf)
                           THEN SubSeq(d.buf, 1, Size) ELSE d.got]

-----------------------------------------------------------------------------
(* FDILink_Receive. frm is FDILink_Frame_Buffer up to RxStatus, Buffer and *)
(* BufferIndex keep what former frames left in them.                       *)
Crc8(frm) == \E n \in FrameNumbers("imu") : frm = SubSeq(Frames["imu"][n], 1, 5)

Crc16(frm, s) ==
  \E n \in FrameNumbers("imu") :
    s = Data("imu", n) /\ SubSeq(frm, 6, 7) = SubSeq(Frames["imu"][n], 6, 7)

(* The length in a header whose CRC8 was right; RxDataLeft counts it down. *)
Length(frm) == DataLen("imu", frm[3].frame)

(* FDILink_Effect and FDILink_Decode: attitudes are copied out of Buffer.  *)
FDILinkEffect(d) ==
  [d EXCEPT !.got = IF Wanted("imu", d.frm[2].frame) THEN d.Buffer ELSE @,
            !.frm = << >>]

(* Mutated: the index into Buffer is not reset with the start of a frame.  *)
FDILinkStartIndexKept(d, b) ==
  [d EXCEPT !.frm = IF b.mark = "FC" THEN << b >> ELSE << >>]

(* FDILink_Reset, and the test of the first byte.                          *)
FDILinkStart(d, b) ==
  [d EXCEPT !.frm = IF b.mark = "FC" THEN << b >> ELSE << >>, !.BufferIndex = 0]

FDILinkReceive(d, b) ==
  LET frm == Append(d.frm, b)
      FDILinkError == [d EXCEPT !.frm = << >>]
  IN
  CASE Len(frm) = 1 -> FDILinkStart(d, b)
    [] Len(frm) = 5 /\ ~Crc8(frm) -> FDILinkError
    [] Len(frm) = 5 /\ Crc8(frm) /\ Length(frm) = 0 -> FDILinkEffect([d EXCEPT !.frm = frm])
    [] Len(frm) = 8 /\ d.BufferIndex < Length(d.frm) ->
         [d EXCEPT !.Buffer[d.BufferIndex + 1] = b, !.BufferIndex = @ + 1]
    [] Len(frm) = 8 /\ d.BufferIndex >= Length(d.frm) ->
         IF b.mark = "FD" /\ Crc16(d.frm, SubSeq(d.Buffer, 1, d.BufferIndex))
         THEN FDILinkEffect(d) ELSE FDILinkError
    [] OTHER -> [d EXCEPT !.frm = frm]

-----------------------------------------------------------------------------
(* Data_Analyse: there is no checksum.                                     *)
DataAnalyse(d, b) ==
  CASE d.count = 0 -> [d EXCEPT !.count = IF b.mark = "0D" THEN 1 ELSE 0]
    [] d.count = 1 -> [d EXCEPT !.count = IF b.mark = "0A" THEN 2
                                          ELSE IF b.mark = "0D" THEN 1 ELSE 0,
                                !.date = << >>]
    [] d.count = 2 -> [d EXCEPT !.count = IF Len(d.date) + 1 = Size THEN 3 ELSE 2,
                                !.date = Append(@, b)]
    [] d.count = 3 -> [d EXCEPT !.count = IF b.mark = "0A" THEN 4 ELSE 0]
    [] d.count = 4 -> [d EXCEPT !.count = 0,
                                !.got = IF b.mark = "0D" THEN d.date ELSE @]

-----------------------------------------------------------------------------
(* cvhandle and cvparse_data. "b" does not empty the buffer, and after "e" *)
(* every byte up to the next "b" parses it again. A number is one byte;    *)
(* what follows the last of them without a comma is taken for part of it.  *)
CvParse(d) ==
  [d EXCEPT !.buf = << >>, !.got = IF Len(d.buf) >= Size THEN d.buf ELSE @]

Cvhandle(d, b) ==
  CASE b.mark = "b" -> [d EXCEPT !.state = 1]
    [] b.mark = "e" \/ (d.state = 2 /\ b.mark # "b") -> CvParse([d EXCEPT !.state = 2])
    [] OTHER -> IF d.state = 1 THEN [d EXCEPT !.buf = Append(@, b)] ELSE d

-----------------------------------------------------------------------------
(* The static variables at start-up.                                       *)
Fresh ==
  LET zero == [mark |-> "-", dev |-> "none", frame |-> 0, place |-> 0] IN
  [ibus |-> [buf |-> << >>, got |-> << >>],
   flow |-> [s |-> 0, buf |-> << >>, got |-> << >>],
   imu |-> [frm |-> << >>, Buffer |-> [i \in 1 .. Size |-> zero], BufferIndex |-> 0,
            got |-> << >>],
   action |-> [count |-> 0, date |-> << >>, got |-> << >>],
   camera |-> [state |-> 0, buf |-> << >>, got |-> << >>]]

(* The byte b handed to the decoder of a user of a line.                   *)
Decode(user, d, b) ==
  CASE user = "ibus" -> IbusIn(d, b)
    [] user = "flow" -> UpParseChar(d, b)
    [] user = "imu" -> FDILinkReceive(d, b)
    [] user = "action" -> DataAnalyse(d, b)
    [] user = "camera" -> Cvhandle(d, b)
=============================================================================
