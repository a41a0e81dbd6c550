--------------------------- MODULE UartLineProofs ---------------------------
(***************************************************************************)
(* Proofs about UartLine for receive rings, semaphores, chunks, frames and *)
(* losses of any size: the owner of a line is never asleep over bytes, and *)
(* what a decoder publishes is the data of one frame of its device.        *)
(***************************************************************************)
EXTENDS UartLine, WellFoundedInduction, TLAPS

LEMMA TheUsers ==
  ASSUME uart \in DOMAIN Users
  PROVE  /\ users \subseteq Decoding \cup {"emm"} /\ "none" \notin users
         /\ "action" \notin Reading /\ "emm" \notin Reading
         /\ \A u \in users : u \in Reading \/ u \in {"action", "emm"}
         /\ Reading \subseteq Decoding
BY DEF users, Users, Reading, Decoding

LEMMA InitIInv == Init => IInv
<1> SUFFICES ASSUME Init PROVE IInv
  OBVIOUS
<1>1. TypeOK
  BY UartLineAssumption DEF Init, TypeOK
<1>2. ReadersStay /\ OwnerAwake
  BY DEF Init, ReadersStay, OwnerAwake
<1> QED BY <1>1, <1>2 DEF IInv

LEMMA NextIInv == IInv /\ [Next]_vars => IInv'
<1> SUFFICES ASSUME IInv, [Next]_vars PROVE IInv'
  OBVIOUS
<1>0. TypeOK /\ ReadersStay /\ OwnerAwake
  BY DEF IInv
<1>1. ASSUME NEW u \in users, SetRxIndicate(u) PROVE IInv'
  <2>1. /\ pc' \in [users -> {"start", "read", "take", "done"}]
        /\ pc'[u] = IF u \in Reading THEN "read" ELSE "done"
        /\ \A v \in users \ {u} : pc'[v] = pc[v]
    BY <1>0, <1>1 DEF SetRxIndicate, TypeOK
  <2>2. TypeOK'
    BY <1>0, <1>1, <2>1 DEF SetRxIndicate, TypeOK, users, attached
  <2>3. ReadersStay'
    BY <1>0, <1>1, <2>1 DEF SetRxIndicate, ReadersStay, users, attached
  <2>4. OwnerAwake'
    BY <1>1, <2>1 DEF SetRxIndicate, OwnerAwake, Asleep, users, attached
  <2> QED BY <2>2, <2>3, <2>4 DEF IInv
<1>2. ASSUME NEW u \in users, ReadByte(u) PROVE IInv'
  <2>1. TypeOK'
    BY <1>0, <1>2 DEF ReadByte, TypeOK, users, attached
  <2>2. ReadersStay'
    BY <1>0, <1>2 DEF ReadByte, ReadersStay, users, attached
  <2>3. OwnerAwake'
    BY <1>0, <1>2 DEF ReadByte, OwnerAwake, Asleep, users, attached
  <2> QED BY <2>1, <2>2, <2>3 DEF IInv
<1>3. ASSUME NEW u \in users, ReadNone(u) PROVE IInv'
  <2>1. /\ pc' \in [users -> {"start", "read", "take", "done"}]
        /\ pc'[u] = "take"
        /\ \A v \in users \ {u} : pc'[v] = pc[v]
    BY <1>0, <1>3 DEF ReadNone, TypeOK
  <2>2. TypeOK'
    BY <1>0, <1>3, <2>1 DEF ReadNone, TypeOK, users, attached
  <2>3. ReadersStay'
    BY <1>0, <1>3, <2>1 DEF ReadNone, ReadersStay, users, attached
  <2>4. OwnerAwake'
    BY <1>3 DEF ReadNone, OwnerAwake
  <2> QED BY <2>2, <2>3, <2>4 DEF IInv
<1>4. ASSUME NEW u \in users, SemTake(u) PROVE IInv'
  <2>1. /\ pc' \in [users -> {"start", "read", "take", "done"}]
        /\ pc'[u] = "read"
        /\ \A v \in users \ {u} : pc'[v] = pc[v]
    BY <1>0, <1>4 DEF SemTake, TypeOK
  <2>2. /\ sem' \in [users -> 0 .. SemMax]
        /\ \A v \in users \ {u} : sem'[v] = sem[v]
    BY <1>0, <1>4, UartLineAssumption DEF SemTake, TypeOK
  <2>3. TypeOK'
    BY <1>0, <1>4, <2>1, <2>2 DEF SemTake, TypeOK, users, attached
  <2>4. ReadersStay'
    BY <1>0, <1>4, <2>1 DEF SemTake, ReadersStay, users, attached
  <2>5. OwnerAwake'
    BY <1>0, <1>4, <2>1, <2>2 DEF SemTake, OwnerAwake, Asleep, users, attached
  <2> QED BY <2>3, <2>4, <2>5 DEF IInv
<1>5. ASSUME NEW s, RxIndicate(s), UNCHANGED <<attached, lost, rx_indicate, pc>>
      PROVE  IInv'
  <2>1. CASE rx_indicate = "none"
    <3>1. sem' = sem /\ dec' = dec
      BY <1>5, <2>1 DEF RxIndicate
    <3>2. \A u \in users : u # rx_indicate
      BY <1>0, <2>1, TheUsers DEF TypeOK
    <3> QED BY <1>0, <1>5, <3>1, <3>2
            DEF IInv, TypeOK, ReadersStay, OwnerAwake, users, attached
  <2>2. CASE rx_indicate = "action"
    <3>1. sem' = sem /\ DOMAIN dec' = DOMAIN dec
      BY <1>5, <2>2 DEF RxIndicate
    <3>2. rx_indicate \notin Reading
      BY <1>0, <2>2, TheUsers DEF TypeOK
    <3> QED BY <1>0, <1>5, <3>1, <3>2
            DEF IInv, TypeOK, ReadersStay, OwnerAwake, users, attached
  <2>3. CASE rx_indicate \in users \ {"action"}
    <3>1. sem' = Released(rx_indicate) /\ dec' = dec
      BY <1>0, <1>5, <2>3, TheUsers DEF RxIndicate, TypeOK
    <3>2. sem' \in [users -> 0 .. SemMax] /\ sem'[rx_indicate] > 0
      BY <1>0, <2>3, <3>1, UartLineAssumption DEF Released, TypeOK
    <3>3. TypeOK' /\ ReadersStay'
      BY <1>0, <1>5, <3>1, <3>2 DEF TypeOK, ReadersStay, users, attached
    <3>4. OwnerAwake'
      BY <1>0, <1>5, <3>2 DEF OwnerAwake, Asleep, ReadersStay, users, attached
    <3> QED BY <3>3, <3>4 DEF IInv
  <2> QED BY <1>0, <2>1, <2>2, <2>3 DEF TypeOK
<1>6. CASE Interrupt
  BY <1>5, <1>6 DEF Interrupt, Arrive, Overflow
<1>7. CASE LoseByte
  BY <1>0, <1>7, UartLineAssumption
  DEF LoseByte, IInv, TypeOK, ReadersStay, OwnerAwake, Asleep, users, attached
<1>8. CASE UNCHANGED vars
  BY <1>0, <1>8
  DEF IInv, TypeOK, ReadersStay, OwnerAwake, Asleep, users, attached, vars
<1> QED BY <1>1, <1>2, <1>3, <1>4, <1>6, <1>7, <1>8 DEF Next, Thread

(* The user of a serial device whose function is set last does not sleep   *)
(* over bytes in its receive ring, whoever else reads the same ring.       *)
THEOREM Invariance == Spec => []IInv
BY InitIInv, NextIInv, PTL DEF Spec

-----------------------------------------------------------------------------
(***************************************************************************)
(* Numbers, and places in the stream. Induction over numbers is had from   *)
(* the well-founded order of the library, with a set for the predicate.    *)
(***************************************************************************)

(* The least number of a set, and from it induction: a set that has 0 and  *)
(* n + 1 with n has every number, or every number up to a bound.           *)
LEMMA LeastNumber ==
  ASSUME NEW S, S \subseteq Nat, S # {}
  PROVE  \E m \in S : \A n \in S : m <= n
<1> DEFINE R == OpToRel(<, Nat)
<1>1. IsWellFoundedOn(R, Nat)
  BY NatLessThanWellFounded
<1>2. \A x, y \in Nat : x < y => <<x, y>> \in R
  BY DEF OpToRel
<1> HIDE DEF R
<1>3. PICK m \in S : \A n \in S : <<n, m>> \notin R
  BY <1>1, WFMin
<1>4. \A n \in S : ~(n < m)
  BY <1>2, <1>3
<1> QED BY <1>4

LEMMA NatInd ==
  ASSUME NEW S, 0 \in S, \A n \in Nat : n \in S => n + 1 \in S
  PROVE  Nat \subseteq S
<1> SUFFICES ASSUME Nat \ S # {} PROVE FALSE
  OBVIOUS
<1>1. PICK m \in Nat \ S : \A n \in Nat \ S : m <= n
  <2>1. Nat \ S \subseteq Nat
    OBVIOUS
  <2> QED BY <2>1, LeastNumber
<1>2. m # 0 /\ m - 1 \in Nat /\ (m - 1) + 1 = m
  BY <1>1
<1>3. m - 1 \in S
  BY <1>1, <1>2
<1> QED BY <1>1, <1>2, <1>3

LEMMA InitialInd ==
  ASSUME NEW S, NEW m \in Nat, 0 \in S, \A n \in 0 .. m - 1 : n \in S => n + 1 \in S
  PROVE  \A n \in 0 .. m : n \in S
<1> DEFINE T == {n \in Nat : n <= m => n \in S}
<1>1. 0 \in T
  OBVIOUS
<1>2. ASSUME NEW n \in Nat, n \in T PROVE n + 1 \in T
  <2>1. CASE n + 1 <= m
    <3>1. n \in 0 .. m - 1 /\ n \in S /\ n + 1 \in Nat
      BY <1>2, <2>1
    <3> QED BY <3>1
  <2>2. CASE ~(n + 1 <= m)
    BY <2>2
  <2> QED BY <2>1, <2>2
<1>3. Nat \subseteq T
  <2> HIDE DEF T
  <2> QED BY <1>1, <1>2, NatInd
<1> QED BY <1>3

-----------------------------------------------------------------------------
(* The function that Advance is defined with, for which no recursion is    *)
(* needed: f[i] is the place i bytes after p.                              *)
IsSteps(dev, p, k, f) ==
  f = [i \in 0 .. k |-> IF i = 0 THEN p ELSE Successor(dev, f[i - 1])]

Steps(dev, p, k) == CHOOSE f : IsSteps(dev, p, k, f)

LEMMA StepsExist ==
  ASSUME NEW dev, NEW p, NEW n \in Nat
  PROVE  \E f : IsSteps(dev, p, n, f)
<1> DEFINE S == {k \in Nat : \E f : IsSteps(dev, p, k, f)}
<1>1. 0 \in S
  <2> DEFINE g == [i \in 0 .. 0 |-> p]
  <2>1. IsSteps(dev, p, 0, g)
    BY DEF IsSteps
  <2> QED BY <2>1
<1>2. ASSUME NEW k \in Nat, k \in S PROVE k + 1 \in S
  <2>1. PICK f : IsSteps(dev, p, k, f)
    BY <1>2
  <2> DEFINE g == [i \in 0 .. k + 1 |-> IF i = k + 1 THEN Successor(dev, f[k]) ELSE f[i]]
  <2>2. IsSteps(dev, p, k + 1, g)
    BY <2>1 DEF IsSteps
  <2>3. k + 1 \in Nat
    OBVIOUS
  <2> QED BY <2>2, <2>3
<1>3. Nat \subseteq S
  <2> HIDE DEF S
  <2> QED BY <1>1, <1>2, NatInd
<1> QED BY <1>3

LEMMA StepsUnfold ==
  ASSUME NEW dev, NEW p, NEW n \in Nat
  PROVE  /\ Advance(dev, p, n) = Steps(dev, p, n)[n]
         /\ Steps(dev, p, n) =
              [i \in 0 .. n |-> IF i = 0 THEN p ELSE Successor(dev, Steps(dev, p, n)[i - 1])]
<1>1. Advance(dev, p, n) = Steps(dev, p, n)[n]
  BY Zenon DEF Advance, Steps, IsSteps
<1>2. IsSteps(dev, p, n, Steps(dev, p, n))
  BY StepsExist DEF Steps
<1> QED BY <1>1, <1>2 DEF IsSteps

LEMMA StepsAgree ==
  ASSUME NEW dev, NEW p, NEW n \in Nat, NEW m \in Nat, n <= m
  PROVE  \A i \in 0 .. n : Steps(dev, p, n)[i] = Steps(dev, p, m)[i]
<1> DEFINE f == Steps(dev, p, n)
           g == Steps(dev, p, m)
           S == {i \in 0 .. n : f[i] = g[i]}
<1>1. f = [i \in 0 .. n |-> IF i = 0 THEN p ELSE Successor(dev, f[i - 1])]
  BY StepsUnfold
<1>2. g = [i \in 0 .. m |-> IF i = 0 THEN p ELSE Successor(dev, g[i - 1])]
  BY StepsUnfold
<1> HIDE DEF f, g
<1>3. 0 \in S
  BY <1>1, <1>2
<1>4. ASSUME NEW i \in 0 .. n - 1, i \in S PROVE i + 1 \in S
  <2>1. i + 1 \in 0 .. n /\ i + 1 \in 0 .. m /\ i + 1 # 0 /\ (i + 1) - 1 = i
    OBVIOUS
  <2>2. f[i + 1] = Successor(dev, f[i]) /\ g[i + 1] = Successor(dev, g[i])
    BY <1>1, <1>2, <2>1
  <2> QED BY <1>4, <2>1, <2>2
<1>5. \A i \in 0 .. n : i \in S
  <2> HIDE DEF S
  <2> QED BY <1>3, <1>4, InitialInd
<1> QED BY <1>5 DEF f, g

(* Advance is the iteration of Successor.                                  *)
LEMMA AdvanceStep ==
  ASSUME NEW dev, NEW p
  PROVE  /\ Advance(dev, p, 0) = p
         /\ \A k \in Nat : Advance(dev, p, k + 1) = Successor(dev, Advance(dev, p, k))
<1>1. Advance(dev, p, 0) = p
  <2>1. 0 \in 0 .. 0
    OBVIOUS
  <2>2. Steps(dev, p, 0)[0] = p
    BY StepsUnfold, <2>1
  <2> QED BY <2>2, StepsUnfold
<1>2. ASSUME NEW k \in Nat
      PROVE  Advance(dev, p, k + 1) = Successor(dev, Advance(dev, p, k))
  <2> DEFINE g == Steps(dev, p, k + 1)
  <2>1. k + 1 \in Nat /\ k + 1 \in 0 .. k + 1 /\ k + 1 # 0 /\ (k + 1) - 1 = k
        /\ k \in 0 .. k /\ k <= k + 1
    OBVIOUS
  <2>2. g = [i \in 0 .. k + 1 |-> IF i = 0 THEN p ELSE Successor(dev, g[i - 1])]
    BY <2>1, StepsUnfold
  <2>3. Advance(dev, p, k + 1) = g[k + 1]
    BY <2>1, StepsUnfold
  <2>4. Advance(dev, p, k) = g[k]
    BY <2>1, StepsUnfold, StepsAgree
  <2> HIDE DEF g
  <2>5. g[k + 1] = Successor(dev, g[k])
    BY <2>1, <2>2
  <2> QED BY <2>3, <2>4, <2>5
<1> QED BY <1>1, <1>2

LEMMA AdvanceSum ==
  ASSUME NEW dev, NEW p, NEW i \in Nat, NEW k \in Nat
  PROVE  Advance(dev, Advance(dev, p, i), k) = Advance(dev, p, i + k)
<1> DEFINE q == Advance(dev, p, i)
           S == {j \in Nat : Advance(dev, q, j) = Advance(dev, p, i + j)}
<1>1. 0 \in S
  <2>1. i + 0 = i
    OBVIOUS
  <2> QED BY <2>1, AdvanceStep
<1>2. ASSUME NEW j \in Nat, j \in S PROVE j + 1 \in S
  <2>1. i + (j + 1) = (i + j) + 1 /\ i + j \in Nat /\ j + 1 \in Nat
    OBVIOUS
  <2>2. Advance(dev, q, j) = Advance(dev, p, i + j)
    BY <1>2
  <2> HIDE DEF q
  <2>3. Advance(dev, q, j + 1) = Successor(dev, Advance(dev, q, j))
    BY AdvanceStep
  <2>4. Advance(dev, p, (i + j) + 1) = Successor(dev, Advance(dev, p, i + j))
    BY <2>1, AdvanceStep
  <2> QED BY <2>1, <2>2, <2>3, <2>4
<1>3. Nat \subseteq S
  <2> HIDE DEF S
  <2> QED BY <1>1, <1>2, NatInd
<1> QED BY <1>3

-----------------------------------------------------------------------------
(***************************************************************************)
(* Frames: where their delimiters and their data are.                      *)
(***************************************************************************)

(* How long the data of a frame is, and what stands before and after it.   *)
LEMMA DataLenFacts ==
  ASSUME NEW dev \in Decoding, NEW n \in FrameNumbers(dev)
  PROVE  /\ DataLen(dev, n) \in 0 .. Size
         /\ dev # "imu" => DataLen(dev, n) = Size
         /\ Wanted(dev, n) <=> DataLen(dev, n) = Size
         /\ n \in Nat
<1>1. n \in Nat /\ Size \in Nat \ {0}
  BY DecodersAssumption DEF FrameNumbers
<1>2. n % 2 \in {0, 1}
  BY <1>1
<1> QED BY <1>1, <1>2 DEF DataLen, Wanted

LEMMA Delimiters ==
  /\ Before["ibus"] = <<"20", "40">> /\ After["ibus"] = <<"-", "-">>
  /\ Before["flow"] = <<"FE", "0A">> /\ After["flow"] = <<"-", "55">>
  /\ Before["imu"] = <<"FC", "-", "-", "-", "-", "-", "-">> /\ After["imu"] = <<"FD">>
  /\ Before["action"] = <<"0D", "0A">> /\ After["action"] = <<"0A", "0D">>
  /\ Before["camera"] = <<"b">> /\ After["camera"] = <<"e">>
BY DEF Before, After

Delims == {"20", "40", "FE", "0A", "55", "FC", "FD", "0D", "b", "e", "-"}

(* The lengths of what precedes and follows the data of a frame.           *)
LEMMA DelimiterLengths ==
  ASSUME NEW dev \in Decoding
  PROVE  /\ Len(Before[dev]) \in 1 .. 7 /\ Len(After[dev]) \in 1 .. 2
         /\ dev \in {"ibus", "flow", "action"} => Len(Before[dev]) = 2 /\ Len(After[dev]) = 2
         /\ dev = "imu" => Len(Before[dev]) = 7 /\ Len(After[dev]) = 1
         /\ dev = "camera" => Len(Before[dev]) = 1 /\ Len(After[dev]) = 1
         /\ Before[dev] \in Seq(Delims) /\ After[dev] \in Seq(Delims)
<1>1. CASE dev = "ibus"
  BY <1>1, Delimiters DEF Delims
<1>2. CASE dev = "flow"
  BY <1>2, Delimiters DEF Delims
<1>3. CASE dev = "imu"
  BY <1>3, Delimiters DEF Delims
<1>4. CASE dev = "action"
  BY <1>4, Delimiters DEF Delims
<1>5. CASE dev = "camera"
  BY <1>5, Delimiters DEF Delims
<1> QED BY <1>1, <1>2, <1>3, <1>4, <1>5 DEF Decoding

(* What a concatenation consists of.                                       *)
LEMMA ConcatFacts ==
  ASSUME NEW A, NEW s \in Seq(A), NEW t \in Seq(A)
  PROVE  /\ s \o t \in Seq(A) /\ Len(s \o t) = Len(s) + Len(t)
         /\ \A i \in 1 .. Len(s) : (s \o t)[i] = s[i]
         /\ \A i \in 1 .. Len(t) : (s \o t)[Len(s) + i] = t[i]
<1>1. s \o t \in Seq(A) /\ Len(s \o t) = Len(s) + Len(t)
  OBVIOUS
<1>2. \A i \in 1 .. Len(s) : (s \o t)[i] = s[i]
  OBVIOUS
<1>3. ASSUME NEW i \in 1 .. Len(t) PROVE (s \o t)[Len(s) + i] = t[i]
  <2>1. Len(s) + i \in 1 .. Len(s) + Len(t) /\ Len(s) + i > Len(s)
        /\ (Len(s) + i) - Len(s) = i
    OBVIOUS
  <2> QED BY <2>1
<1> QED BY <1>1, <1>2, <1>3

(* What the bytes of a frame look like: the delimiters, and between them   *)
(* the aliases of the data.                                                *)
LEMMA MarksShape ==
  ASSUME NEW dev \in Decoding, NEW n \in FrameNumbers(dev)
  PROVE  /\ Len(Marks(dev, n)) \in Nat /\ Len(Marks(dev, n)) >= 1
         /\ DataLen(dev, n) = 0 => Len(Marks(dev, n)) = 5
         /\ DataLen(dev, n) # 0 =>
              /\ Len(Marks(dev, n)) = Len(Before[dev]) + DataLen(dev, n) + Len(After[dev])
              /\ \A i \in 1 .. Len(Before[dev]) : Marks(dev, n)[i] = Before[dev][i]
              /\ \A i \in 1 .. DataLen(dev, n) :
                   Marks(dev, n)[Len(Before[dev]) + i] = Alias(dev, n, i)
              /\ \A i \in 1 .. Len(After[dev]) :
                   Marks(dev, n)[Len(Before[dev]) + DataLen(dev, n) + i] = After[dev][i]
<1> DEFINE k == DataLen(dev, n)
           s == Before[dev]
           t == After[dev]
           a == [i \in 1 .. k |-> Alias(dev, n, i)]
<1>1. k \in Nat /\ (k = 0 => dev = "imu")
  BY DataLenFacts, DecodersAssumption
<1>2. /\ Len(s) \in 1 .. 7 /\ Len(t) \in 1 .. 2
      /\ s \in Seq(Delims) /\ t \in Seq(Delims)
  BY DelimiterLengths
<1>3. CASE k = 0
  <2>1. Marks(dev, n) = SubSeq(Before["imu"], 1, 5)
    BY <1>1, <1>3 DEF Marks
  <2>2. Len(Marks(dev, n)) = 5
    BY <2>1, Delimiters
  <2> QED BY <1>3, <2>2
<1>4. CASE k # 0
  <2>1. Marks(dev, n) = s \o a \o t
    BY <1>4 DEF Marks
  <2> DEFINE A == {Alias(dev, n, i) : i \in 1 .. k} \cup Delims
  <2>2. a \in Seq(A) /\ Len(a) = k /\ (\A i \in 1 .. k : a[i] = Alias(dev, n, i))
    BY <1>1
  <2>3. s \in Seq(A) /\ t \in Seq(A)
    BY <1>2
  <2> HIDE DEF a, A, s, t, k
  <2>4. /\ s \o a \in Seq(A) /\ Len(s \o a) = Len(s) + k
        /\ \A i \in 1 .. Len(s) : (s \o a)[i] = s[i]
        /\ \A i \in 1 .. k : (s \o a)[Len(s) + i] = a[i]
    BY <2>2, <2>3, ConcatFacts
  <2> DEFINE sa == s \o a
  <2>5. sa \in Seq(A) /\ Len(sa) = Len(s) + k
    BY <2>4
  <2> HIDE DEF sa
  <2>11. sa \in Seq(A)
    BY <2>5
  <2>6. /\ Len(sa \o t) = Len(sa) + Len(t)
        /\ \A i \in 1 .. Len(sa) : (sa \o t)[i] = sa[i]
        /\ \A i \in 1 .. Len(t) : (sa \o t)[Len(sa) + i] = t[i]
    BY <2>3, <2>11, ConcatFacts
  <2>7. Marks(dev, n) = sa \o t
    BY <2>1 DEF sa
  <2>8. /\ \A i \in 1 .. Len(s) : sa[i] = s[i]
        /\ \A i \in 1 .. k : sa[Len(s) + i] = Alias(dev, n, i)
    BY <2>2, <2>4 DEF sa
  <2>9. Len(Marks(dev, n)) = Len(s) + k + Len(t)
    BY <1>1, <1>2, <2>5, <2>6, <2>7
  <2>10. /\ \A i \in 1 .. Len(s) : Marks(dev, n)[i] = s[i]
         /\ \A i \in 1 .. k : Marks(dev, n)[Len(s) + i] = Alias(dev, n, i)
         /\ \A i \in 1 .. Len(t) : Marks(dev, n)[Len(s) + k + i] = t[i]
    BY <1>1, <1>2, <2>5, <2>6, <2>7, <2>8
  <2> QED BY <1>1, <1>2, <1>4, <2>9, <2>10 DEF k, s, t
<1> QED BY <1>3, <1>4

(* The bytes a device can send.                                            *)
Bytes(dev) == {ByteAt(dev, p) : p \in Places(dev)}

(* A frame is as long as its marks, and each of its bytes has its mark and *)
(* its place.                                                              *)
LEMMA FrameShape ==
  ASSUME NEW dev \in Decoding, NEW n \in FrameNumbers(dev)
  PROVE  /\ Frames[dev][n] = [i \in 1 .. Len(Marks(dev, n)) |->
              [mark |-> Marks(dev, n)[i], dev |-> dev, frame |-> n, place |-> i]]
         /\ DOMAIN Frames[dev][n] = 1 .. Len(Marks(dev, n))
         /\ Len(Frames[dev][n]) = Len(Marks(dev, n))
<1>1. Frames[dev][n] = [i \in 1 .. Len(Marks(dev, n)) |->
              [mark |-> Marks(dev, n)[i], dev |-> dev, frame |-> n, place |-> i]]
  BY DEF Frames
<1>2. Len(Marks(dev, n)) \in Nat
  BY MarksShape
<1> QED BY <1>1, <1>2

LEMMA PlaceFacts ==
  ASSUME NEW dev \in Decoding, NEW p
  PROVE  p \in Places(dev) <=>
           /\ p = <<p[1], p[2]>> /\ p[1] \in FrameNumbers(dev)
           /\ p[2] \in 1 .. Len(Frames[dev][p[1]])
<1>1. ASSUME p \in Places(dev) 
      PROVE  /\ p = <<p[1], p[2]>> /\ p[1] \in FrameNumbers(dev)
             /\ p[2] \in 1 .. Len(Frames[dev][p[1]])
  <2>1. PICK n \in FrameNumbers(dev) : p \in {n} \X DOMAIN Frames[dev][n]
    BY <1>1 DEF Places
  <2>2. p[1] = n /\ p = <<p[1], p[2]>> /\ p[2] \in DOMAIN Frames[dev][n]
    BY <2>1
  <2> QED BY <2>2, FrameShape
<1>2. ASSUME /\ p = <<p[1], p[2]>> /\ p[1] \in FrameNumbers(dev)
             /\ p[2] \in 1 .. Len(Frames[dev][p[1]])
      PROVE  p \in Places(dev)
  <2>1. p[2] \in DOMAIN Frames[dev][p[1]]
    BY <1>2, FrameShape
  <2>2. p \in {p[1]} \X DOMAIN Frames[dev][p[1]]
    BY <1>2, <2>1
  <2> QED BY <1>2, <2>2 DEF Places
<1> QED BY <1>1, <1>2

LEMMA ByteFacts ==
  ASSUME NEW dev \in Decoding, NEW p \in Places(dev)
  PROVE  /\ ByteAt(dev, p) = [mark |-> Marks(dev, p[1])[p[2]], dev |-> dev,
                              frame |-> p[1], place |-> p[2]]
         /\ ByteAt(dev, p) \in Bytes(dev)
<1>1. ByteAt(dev, p) \in Bytes(dev)
  BY DEF Bytes
<1>2. p[1] \in FrameNumbers(dev) /\ p[2] \in 1 .. Len(Marks(dev, p[1]))
  BY PlaceFacts, FrameShape
<1>3. Frames[dev][p[1]] = [i \in 1 .. Len(Marks(dev, p[1])) |->
        [mark |-> Marks(dev, p[1])[i], dev |-> dev, frame |-> p[1], place |-> i]]
  BY <1>2, FrameShape
<1>4. ByteAt(dev, p) = [mark |-> Marks(dev, p[1])[p[2]], dev |-> dev,
                              frame |-> p[1], place |-> p[2]]
  BY <1>2, <1>3 DEF ByteAt
<1> QED BY <1>1, <1>4

LEMMA BytesDev ==
  ASSUME NEW dev \in Decoding, NEW b \in Bytes(dev)
  PROVE  /\ b.dev = dev /\ b.frame \in FrameNumbers(dev)
         /\ b.place \in 1 .. Len(Frames[dev][b.frame])
         /\ b = Frames[dev][b.frame][b.place]
         /\ b.mark = Marks(dev, b.frame)[b.place]
<1>1. PICK p \in Places(dev) : b = ByteAt(dev, p)
  BY DEF Bytes
<1>2. /\ b.dev = dev /\ b.frame = p[1] /\ b.place = p[2]
      /\ b.mark = Marks(dev, p[1])[p[2]]
  BY <1>1, ByteFacts
<1>3. p[1] \in FrameNumbers(dev) /\ p[2] \in 1 .. Len(Frames[dev][p[1]])
  BY PlaceFacts
<1> QED BY <1>1, <1>2, <1>3 DEF ByteAt

(* A frame is a sequence of bytes of its device, which know their place in *)
(* it.                                                                     *)
LEMMA FrameBytes ==
  ASSUME NEW dev \in Decoding, NEW n \in FrameNumbers(dev)
  PROVE  /\ Frames[dev][n] \in Seq(Bytes(dev))
         /\ \A i \in 1 .. Len(Frames[dev][n]) :
              /\ Frames[dev][n][i].dev = dev /\ Frames[dev][n][i].frame = n
              /\ Frames[dev][n][i].place = i
              /\ Frames[dev][n][i].mark = Marks(dev, n)[i]
<1>1. /\ Frames[dev][n] = [i \in 1 .. Len(Marks(dev, n)) |->
              [mark |-> Marks(dev, n)[i], dev |-> dev, frame |-> n, place |-> i]]
      /\ Len(Frames[dev][n]) = Len(Marks(dev, n))
  BY FrameShape
<1>2. Len(Marks(dev, n)) \in Nat
  BY MarksShape
<1>3. ASSUME NEW i \in 1 .. Len(Marks(dev, n)) PROVE Frames[dev][n][i] \in Bytes(dev)
  <2> DEFINE p == <<n, i>>
  <2>1. p[1] = n /\ p[2] = i /\ p = <<p[1], p[2]>>
    OBVIOUS
  <2> HIDE DEF p
  <2>2. p \in Places(dev)
    BY <1>1, <1>3, <2>1, PlaceFacts
  <2> QED BY <2>1, <2>2 DEF Bytes, ByteAt
<1>4. Frames[dev][n] \in Seq(Bytes(dev))
  <2> DEFINE f == Frames[dev][n]
             m == Len(Marks(dev, n))
  <2>1. f = [i \in 1 .. m |-> f[i]] /\ m \in Nat /\ \A i \in 1 .. m : f[i] \in Bytes(dev)
    BY <1>1, <1>2, <1>3
  <2> HIDE DEF f, m
  <2>2. f \in Seq(Bytes(dev))
    BY <2>1
  <2> QED BY <2>2 DEF f
<1>5. ASSUME NEW i \in 1 .. Len(Frames[dev][n])
      PROVE  /\ Frames[dev][n][i].dev = dev /\ Frames[dev][n][i].frame = n
             /\ Frames[dev][n][i].place = i
             /\ Frames[dev][n][i].mark = Marks(dev, n)[i]
  BY <1>1
<1> QED BY <1>4, <1>5

(* The line never leaves the places of the device.                         *)
LEMMA SuccessorPlace ==
  ASSUME NEW dev \in Decoding, NEW p \in Places(dev)
  PROVE  Successor(dev, p) \in Places(dev)
<1> DEFINE q == Successor(dev, p)
           n == p[1]
           i == p[2]
<1>1. n \in FrameNumbers(dev) /\ i \in 1 .. Len(Frames[dev][n])
  BY PlaceFacts
<1>2. Len(Frames[dev][n]) \in Nat /\ NumFrames[dev] \in Nat \ {0} /\ n \in Nat
  BY <1>1, FrameShape, MarksShape, DataLenFacts, DecodersAssumption
<1>3. CASE i < Len(Frames[dev][n])
  <2>1. q = <<n, i + 1>>
    BY <1>3 DEF Successor
  <2>2. q[1] = n /\ q[2] = i + 1 /\ q = <<q[1], q[2]>>
    BY <2>1
  <2>3. q[2] \in 1 .. Len(Frames[dev][n])
    BY <1>1, <1>2, <1>3, <2>2
  <2> HIDE DEF q
  <2> QED BY <1>1, <2>2, <2>3, PlaceFacts DEF q
<1>4. CASE ~(i < Len(Frames[dev][n]))
  <2>1. q = <<(n + 1) % NumFrames[dev], 1>>
    BY <1>4 DEF Successor
  <2>2. q[1] = (n + 1) % NumFrames[dev] /\ q[2] = 1 /\ q = <<q[1], q[2]>>
    BY <2>1
  <2>3. (n + 1) % NumFrames[dev] \in 0 .. NumFrames[dev] - 1
    BY <1>2
  <2> HIDE DEF q
  <2>4. q[1] \in FrameNumbers(dev)
    BY <2>2, <2>3 DEF FrameNumbers
  <2>5. q[2] \in 1 .. Len(Frames[dev][q[1]])
    <3>1. /\ Len(Frames[dev][q[1]]) \in Nat /\ Len(Frames[dev][q[1]]) >= 1
      BY <2>4, FrameShape, MarksShape
    <3> QED BY <2>2, <3>1
  <2> QED BY <2>2, <2>4, <2>5, PlaceFacts DEF q
<1> QED BY <1>3, <1>4

LEMMA AdvancePlace ==
  ASSUME NEW dev \in Decoding, NEW p \in Places(dev)
  PROVE  \A k \in Nat : Advance(dev, p, k) \in Places(dev)
<1> DEFINE S == {k \in Nat : Advance(dev, p, k) \in Places(dev)}
<1>1. 0 \in S
  BY AdvanceStep
<1>2. ASSUME NEW k \in Nat, k \in S PROVE k + 1 \in S
  <2>1. Advance(dev, p, k) \in Places(dev) /\ k + 1 \in Nat
    BY <1>2
  <2>2. Advance(dev, p, k + 1) = Successor(dev, Advance(dev, p, k))
    BY AdvanceStep
  <2> QED BY <2>1, <2>2, SuccessorPlace
<1>3. Nat \subseteq S
  <2> HIDE DEF S
  <2> QED BY <1>1, <1>2, NatInd
<1> QED BY <1>3

(* The data of a frame.                                                    *)
LEMMA DataShape ==
  ASSUME NEW dev \in Decoding, NEW n \in FrameNumbers(dev)
  PROVE  /\ Len(Data(dev, n)) = DataLen(dev, n)
         /\ Data(dev, n) \in Seq(Bytes(dev))
         /\ \A i \in 1 .. DataLen(dev, n) :
              Data(dev, n)[i] = Frames[dev][n][Len(Before[dev]) + i]
<1> DEFINE f == Frames[dev][n]
           h == Len(Before[dev])
           k == DataLen(dev, n)
<1>1. f \in Seq(Bytes(dev)) /\ k \in Nat /\ h \in Nat
  BY FrameBytes, DataLenFacts, DelimiterLengths, DecodersAssumption
<1>2. k # 0 => h + k <= Len(f)
  <2>1. Len(f) = Len(Marks(dev, n))
    BY FrameShape
  <2>2. k # 0 => Len(Marks(dev, n)) = h + k + Len(After[dev])
    BY MarksShape
  <2>3. Len(After[dev]) \in 1 .. 2
    BY DelimiterLengths
  <2>4. Len(f) \in Nat
    BY <1>1
  <2> HIDE DEF f, h, k
  <2>5. k # 0 => Len(f) = h + k + Len(After[dev])
    BY <2>1, <2>2
  <2>6. k \in Nat /\ h \in Nat
    BY <1>1
  <2>7. ASSUME NEW x \in 1 .. 2, Len(f) = h + k + x PROVE h + k <= Len(f)
    BY <2>6, <2>7
  <2> QED BY <2>3, <2>5, <2>7
<1>3. Data(dev, n) = SubSeq(f, h + 1, h + k)
  BY DEF Data
<1> HIDE DEF f, h, k
<1>4. /\ Len(SubSeq(f, h + 1, h + k)) = k
      /\ SubSeq(f, h + 1, h + k) \in Seq(Bytes(dev))
      /\ \A i \in 1 .. k : SubSeq(f, h + 1, h + k)[i] = f[h + i]
  <2>1. CASE k = 0
    BY <1>1, <2>1
  <2>2. CASE k # 0
    BY <1>1, <1>2, <2>2
  <2> QED BY <2>1, <2>2
<1> QED BY <1>3, <1>4 DEF f, h, k

-----------------------------------------------------------------------------
(***************************************************************************)
(* The decoders with a checksum, on the bytes of any device in any order   *)
(* and with any losses. A checksum is right only for one frame, so what    *)
(* they have collected need not be followed: that of the remote control    *)
(* and that of the optical flow.                                           *)
(***************************************************************************)

(* A byte belongs to one device.                                           *)
LEMMA OneDevice ==
  ASSUME NEW dev \in Decoding, NEW user \in Decoding, NEW b \in Bytes(dev), b \in Bytes(user)
  PROVE  user = dev
BY BytesDev

(* What a decoder may publish on a line with device dev.                   *)
Gots(user, dev) ==
  {<< >>} \cup {Data(user, n) : n \in {m \in FrameNumbers(user) : Wanted(user, m) /\ user = dev}}

LEMMA GotsData ==
  ASSUME NEW dev, NEW n \in FrameNumbers(dev), Wanted(dev, n)
  PROVE  Data(dev, n) \in Gots(dev, dev)
BY DEF Gots

(* What the decoder of the remote control can have collected.              *)
IbusStates(dev) == [buf : Seq(Bytes(dev)), got : Gots("ibus", dev)]

(* It publishes only what its checksum has shown to be one frame.          *)
LEMMA IbusKeeps ==
  ASSUME NEW dev \in Decoding, NEW d \in IbusStates(dev), NEW b \in Bytes(dev)
  PROVE  IbusIn(d, b) \in IbusStates(dev)
<1> DEFINE buf == Append(d.buf, b)
<1>1. d = [buf |-> d.buf, got |-> d.got] /\ d.buf \in Seq(Bytes(dev)) /\ d.got \in Gots("ibus", dev)
  BY DEF IbusStates
<1>2. buf \in Seq(Bytes(dev)) /\ Len(buf) > 0 /\ Len(buf) \in Nat
  BY <1>1
<1> HIDE DEF buf
<1>3. << >> \in Seq(Bytes(dev))
  OBVIOUS
<1>4. \A s \in Seq(Bytes(dev)) : [d EXCEPT !.buf = s] \in IbusStates(dev)
  BY <1>1 DEF IbusStates
<1>5. ASSUME IbusSum(buf)
      PROVE  SubSeq(buf, 3, Size + 2) \in Gots("ibus", dev)
  <2>1. PICK n \in FrameNumbers("ibus") : buf = Frames["ibus"][n]
    BY <1>5 DEF IbusSum
  <2>2. "ibus" \in Decoding
    BY DEF Decoding
  <2>3. buf \in Seq(Bytes("ibus"))
    BY <2>1, <2>2, FrameBytes
  <2>4. buf[1] \in Bytes(dev) /\ buf[1] \in Bytes("ibus")
    BY <1>2, <2>3
  <2>5. dev = "ibus"
    BY <2>2, <2>4, OneDevice
  <2>6. Wanted("ibus", n) /\ DataLen("ibus", n) = Size
    BY <2>1, <2>2, DataLenFacts DEF Wanted
  <2>7. Len(Before["ibus"]) = 2
    BY <2>2, DelimiterLengths
  <2>8. Data("ibus", n) = SubSeq(buf, 2 + 1, 2 + Size)
    BY <2>1, <2>6, <2>7 DEF Data
  <2>9. SubSeq(buf, 2 + 1, 2 + Size) = SubSeq(buf, 3, Size + 2)
    BY DecodersAssumption
  <2> QED BY <2>1, <2>5, <2>6, <2>8, <2>9, GotsData
<1>6. CASE Len(buf) = 1 \/ Len(buf) = 2 \/ Len(buf) \in 3 .. Size + 3
  BY <1>2, <1>3, <1>4, <1>6 DEF IbusIn, buf
<1>7. CASE ~(Len(buf) = 1 \/ Len(buf) = 2 \/ Len(buf) \in 3 .. Size + 3)
  <2>1. IbusIn(d, b) = [buf |-> << >>,
          got |-> IF IbusSum(buf) THEN SubSeq(buf, 3, Size + 2) ELSE d.got]
    BY <1>7 DEF IbusIn, buf
  <2>2. (IF IbusSum(buf) THEN SubSeq(buf, 3, Size + 2) ELSE d.got) \in Gots("ibus", dev)
    BY <1>1, <1>5
  <2> QED BY <1>3, <2>1, <2>2 DEF IbusStates
<1> QED BY <1>6, <1>7

(* What the decoder of the optical flow can have collected.                *)
FlowStates(dev) == [s : 0 .. 4, buf : Seq(Bytes(dev)), got : Gots("flow", dev)]

LEMMA SubSubSeq ==
  ASSUME NEW A, NEW f \in Seq(A), NEW n \in Nat, Len(f) >= n + 3
  PROVE  /\ SubSeq(SubSeq(f, 3, n + 3), 1, n) = SubSeq(f, 3, n + 2)
         /\ Len(SubSeq(f, 3, n + 3)) = n + 1 /\ SubSeq(f, 3, n + 3) \in Seq(A)
<1> DEFINE s == SubSeq(f, 3, n + 3)
<1>1. s \in Seq(A) /\ Len(s) = n + 1 /\ \A i \in 1 .. n + 1 : s[i] = f[i + 2]
  OBVIOUS
<1> HIDE DEF s
<1>2. SubSeq(s, 1, n) = [i \in 1 .. n |-> s[i]]
  BY <1>1
<1>3. SubSeq(f, 3, n + 2) = [i \in 1 .. n |-> f[i + 2]]
  OBVIOUS
<1>4. \A i \in 1 .. n : s[i] = f[i + 2]
  BY <1>1
<1>5. SubSeq(s, 1, n) = SubSeq(f, 3, n + 2)
  BY <1>2, <1>3, <1>4
<1> QED BY <1>1, <1>5 DEF s

(* It publishes only what its checksum has shown to be one frame.          *)
LEMMA FlowKeeps ==
  ASSUME NEW dev \in Decoding, NEW d \in FlowStates(dev), NEW b \in Bytes(dev)
  PROVE  UpParseChar(d, b) \in FlowStates(dev)
<1>1. /\ d = [s |-> d.s, buf |-> d.buf, got |-> d.got]
      /\ d.s \in 0 .. 4 /\ d.buf \in Seq(Bytes(dev)) /\ d.got \in Gots("flow", dev)
  BY DEF FlowStates
<1>2. << >> \in Seq(Bytes(dev)) /\ Append(d.buf, b) \in Seq(Bytes(dev))
  BY <1>1
<1>3. \A x \in 0 .. 4 : [d EXCEPT !.s = x] \in FlowStates(dev)
  BY <1>1 DEF FlowStates
<1>4. \A x \in 0 .. 4, y \in Seq(Bytes(dev)) :
        [s |-> x, buf |-> y, got |-> d.got] \in FlowStates(dev)
  BY <1>1 DEF FlowStates
<1>5. ASSUME XorSum(d.buf) PROVE SubSeq(d.buf, 1, Size) \in Gots("flow", dev)
  <2>1. PICK n \in FrameNumbers("flow") : d.buf = SubSeq(Frames["flow"][n], 3, Size + 3)
    BY <1>5 DEF XorSum
  <2>2. "flow" \in Decoding /\ Size \in Nat
    BY DecodersAssumption DEF Decoding
  <2> DEFINE f == Frames["flow"][n]
  <2>3. f \in Seq(Bytes("flow"))
    BY <2>2, FrameBytes
  <2>4. /\ DataLen("flow", n) = Size /\ Wanted("flow", n) /\ Len(Before["flow"]) = 2
        /\ Len(After["flow"]) = 2 /\ Len(f) = Len(Marks("flow", n))
    BY <2>2, DataLenFacts, DelimiterLengths, FrameShape DEF Wanted
  <2>5. Size # 0
    BY DecodersAssumption
  <2>6. Len(Marks("flow", n)) = Len(Before["flow"]) + DataLen("flow", n) + Len(After["flow"])
    BY <2>2, <2>4, <2>5, MarksShape
  <2>7. Len(f) >= Size + 3
    BY <2>2, <2>4, <2>6
  <2>8. Data("flow", n) = SubSeq(f, 2 + 1, 2 + Size)
    BY <2>4 DEF Data
  <2>9. Data("flow", n) = SubSeq(f, 3, Size + 2)
    BY <2>2, <2>8
  <2> HIDE DEF f
  <2>10. /\ SubSeq(SubSeq(f, 3, Size + 3), 1, Size) = SubSeq(f, 3, Size + 2)
         /\ Len(SubSeq(f, 3, Size + 3)) = Size + 1
         /\ SubSeq(f, 3, Size + 3) \in Seq(Bytes("flow"))
    BY <2>2, <2>3, <2>7, SubSubSeq
  <2>11. d.buf = SubSeq(f, 3, Size + 3)
    BY <2>1 DEF f
  <2>12. d.buf[1] \in Bytes("flow") /\ d.buf[1] \in Bytes(dev)
    BY <1>1, <2>2, <2>10, <2>11
  <2>13. dev = "flow"
    BY <2>2, <2>12, OneDevice
  <2>14. SubSeq(d.buf, 1, Size) = Data("flow", n)
    BY <2>9, <2>10, <2>11
  <2> QED BY <2>4, <2>13, <2>14, GotsData
<1>6. CASE d.s = 0
  BY <1>3, <1>6 DEF UpParseChar
<1>7. CASE d.s = 1
  <2> DEFINE x == IF b.mark = "0A" THEN 2 ELSE 0
             y == << >>
  <2>1. UpParseChar(d, b) = [d EXCEPT !.s = x, !.buf = y]
    BY <1>1, <1>7 DEF UpParseChar
  <2>2. x \in 0 .. 4 /\ y \in Seq(Bytes(dev))
    BY <1>2
  <2> HIDE DEF x, y
  <2>3. UpParseChar(d, b) = [s |-> x, buf |-> y, got |-> d.got]
    BY <1>1, <2>1
  <2> QED BY <1>4, <2>2, <2>3
<1>8. CASE d.s = 2
  <2> DEFINE x == IF Len(d.buf) + 1 = Size THEN 3 ELSE 2
             y == Append(d.buf, b)
  <2>1. UpParseChar(d, b) = [d EXCEPT !.s = x, !.buf = y]
    BY <1>1, <1>8 DEF UpParseChar
  <2>2. x \in 0 .. 4 /\ y \in Seq(Bytes(dev))
    BY <1>2
  <2> HIDE DEF x, y
  <2>3. UpParseChar(d, b) = [s |-> x, buf |-> y, got |-> d.got]
    BY <1>1, <2>1
  <2> QED BY <1>4, <2>2, <2>3
<1>9. CASE d.s = 3
  <2> DEFINE x == 4
             y == Append(d.buf, b)
  <2>1. UpParseChar(d, b) = [d EXCEPT !.s = x, !.buf = y]
    BY <1>1, <1>9 DEF UpParseChar
  <2>2. x \in 0 .. 4 /\ y \in Seq(Bytes(dev))
    BY <1>2
  <2> HIDE DEF x, y
  <2>3. UpParseChar(d, b) = [s |-> x, buf |-> y, got |-> d.got]
    BY <1>1, <2>1
  <2> QED BY <1>4, <2>2, <2>3
<1>10. CASE d.s = 4
  <2> DEFINE g == IF b.mark = "55" /\ XorSum(d.buf) THEN SubSeq(d.buf, 1, Size) ELSE d.got
  <2>1. UpParseChar(d, b) = [s |-> 0, buf |-> << >>, got |-> g]
    BY <1>10 DEF UpParseChar
  <2>2. g \in Gots("flow", dev)
    BY <1>1, <1>5
  <2> HIDE DEF g
  <2> QED BY <1>2, <2>1, <2>2 DEF FlowStates
<1> QED BY <1>1, <1>6, <1>7, <1>8, <1>9, <1>10

-----------------------------------------------------------------------------
(***************************************************************************)
(* The decoder of the inertial unit: the header has a CRC of its own, and  *)
(* the buffer may still hold data of another frame.                        *)
(***************************************************************************)

(* The cells of the buffer of the inertial unit are 0 before the first     *)
(* data.                                                                   *)
Cells(dev) == Bytes(dev) \cup {Fresh["imu"].Buffer[1]}

ImuRecords(dev) ==
  [frm : Seq(Bytes(dev)), Buffer : [1 .. Size -> Cells(dev)], BufferIndex : 0 .. Size,
   got : Gots("imu", dev)]

(* The header is that of a frame with data, of which no more is awaited.   *)
ImuStates(dev) ==
  {d \in ImuRecords(dev) :
     /\ Len(d.frm) <= 7
     /\ Len(d.frm) \in 1 .. 6 => d.BufferIndex = 0
     /\ Len(d.frm) >= 5 =>
          /\ dev = "imu"
          /\ \E n \in FrameNumbers("imu") :
               /\ d.frm[2].frame = n /\ d.frm[3].frame = n /\ DataLen("imu", n) # 0
               /\ d.BufferIndex <= DataLen("imu", n)}

(* A header whose checksum is right is that of a frame of this device.     *)
LEMMA HeaderFrame ==
  ASSUME NEW dev \in Decoding, NEW frm \in Seq(Bytes(dev)), Len(frm) = 5, Crc8(frm)
  PROVE  /\ dev = "imu"
         /\ \E n \in FrameNumbers("imu") : frm[2].frame = n /\ frm[3].frame = n
<1>0. "imu" \in Decoding
  BY DEF Decoding
<1>1. PICK n \in FrameNumbers("imu") : frm = SubSeq(Frames["imu"][n], 1, 5)
  BY DEF Crc8
<1> DEFINE f == Frames["imu"][n]
<1>2. /\ f \in Seq(Bytes("imu")) 
      /\ \A i \in 1 .. Len(f) : f[i].frame = n
  BY <1>0, FrameBytes
<1>3. Len(f) >= 5
  <2> DEFINE m == Len(f)
  <2>1. m = Len(Marks("imu", n)) /\ DataLen("imu", n) \in Nat
    <3>1. Len(f) = Len(Marks("imu", n))
      BY <1>0, FrameShape
    <3>2. DataLen("imu", n) \in 0 .. Size
      BY <1>0, DataLenFacts
    <3> QED BY <3>1, <3>2, DecodersAssumption
  <2> HIDE DEF m
  <2>2. CASE DataLen("imu", n) = 0
    <3>1. Len(Marks("imu", n)) = 5
      BY <1>0, <2>2, MarksShape
    <3>2. m = 5
      BY <2>1, <3>1
    <3>3. m >= 5
      BY <3>2
    <3> QED BY <3>3 DEF m
  <2>3. CASE DataLen("imu", n) # 0
    <3>1. Len(Before["imu"]) = 7 /\ Len(After["imu"]) = 1
      BY <1>0, DelimiterLengths
    <3>2. Len(Marks("imu", n)) = Len(Before["imu"]) + DataLen("imu", n) + Len(After["imu"])
      BY <1>0, <2>3, MarksShape
    <3>3. m >= 5
      BY <2>1, <3>1, <3>2
    <3> QED BY <3>3 DEF m
  <2> QED BY <2>2, <2>3 DEF m
<1>4. frm = SubSeq(f, 1, 5)
  BY <1>1
<1> HIDE DEF f
<1>5. frm[1] = f[1] /\ frm[2] = f[2] /\ frm[3] = f[3]
  BY <1>2, <1>3, <1>4
<1>6. f[1] \in Bytes("imu") /\ f[2].frame = n /\ f[3].frame = n
  BY <1>2, <1>3
<1>7. frm[1] \in Bytes(dev)
  OBVIOUS
<1>8. dev = "imu"
  BY <1>0, <1>5, <1>6, <1>7, OneDevice
<1> QED BY <1>5, <1>6, <1>8

(* The state in which FDILinkReceive has published g: the header is        *)
(* dropped.                                                                *)
Published(d, g) == [d EXCEPT !.got = g, !.frm = << >>]

(* Whether the end of a frame publishes something or only drops the        *)
(* header, the state is one the decoder can have.                          *)
LEMMA ImuEffect ==
  ASSUME NEW dev \in Decoding, NEW d \in ImuRecords(dev), NEW g \in Gots("imu", dev)
  PROVE  /\ Published(d, g) \in ImuStates(dev)
         /\ [d EXCEPT !.frm = << >>] \in ImuStates(dev)
<1>1. /\ d = [frm |-> d.frm, Buffer |-> d.Buffer, BufferIndex |-> d.BufferIndex, got |-> d.got]
      /\ d.Buffer \in [1 .. Size -> Cells(dev)] /\ d.BufferIndex \in 0 .. Size
      /\ d.got \in Gots("imu", dev)
  BY DEF ImuRecords
<1>2. \A h \in Gots("imu", dev) :
        [frm |-> << >>, Buffer |-> d.Buffer, BufferIndex |-> d.BufferIndex, got |-> h]
        \in ImuRecords(dev)
  BY <1>1 DEF ImuRecords
<1>3. ASSUME NEW e \in ImuRecords(dev), e.frm = << >> PROVE e \in ImuStates(dev)
  <2>1. Len(e.frm) = 0
    BY <1>3
  <2> QED BY <2>1 DEF ImuStates
<1>4. Published(d, g)
        = [frm |-> << >>, Buffer |-> d.Buffer, BufferIndex |-> d.BufferIndex, got |-> g]
  <2> DEFINE x == << >>
  <2>1. Published(d, g) = [d EXCEPT !.got = g, !.frm = x]
    BY DEF Published
  <2> HIDE DEF x
  <2> DEFINE e == [d EXCEPT !.got = g]
             o == [e EXCEPT !.frm = x]
  <2>2. e = [frm |-> d.frm, Buffer |-> d.Buffer, BufferIndex |-> d.BufferIndex, got |-> g]
    BY <1>1
  <2>3. [d EXCEPT !.got = g, !.frm = x] = o
    OBVIOUS
  <2> HIDE DEF e
  <2>4. o = [frm |-> x, Buffer |-> d.Buffer, BufferIndex |-> d.BufferIndex, got |-> g]
    BY <2>2
  <2> QED BY <2>1, <2>3, <2>4 DEF x
<1>5. [d EXCEPT !.frm = << >>]
        = [frm |-> << >>, Buffer |-> d.Buffer, BufferIndex |-> d.BufferIndex, got |-> d.got]
  BY <1>1
<1> QED BY <1>1, <1>2, <1>3, <1>4, <1>5

(* Data whose checksum is that of a frame, in a buffer as long as that of  *)
(* an attitude.                                                            *)
LEMMA ImuWhole ==
  ASSUME NEW d \in ImuStates("imu"), NEW frm, NEW n \in FrameNumbers("imu"),
         Wanted("imu", n), d.BufferIndex = DataLen("imu", n),
         Crc16(frm, SubSeq(d.Buffer, 1, d.BufferIndex))
  PROVE  d.Buffer \in Gots("imu", "imu")
<1>0. "imu" \in Decoding /\ Size \in Nat /\ DataLen("imu", n) = Size
  BY DataLenFacts, DecodersAssumption DEF Decoding
<1>1. d.Buffer \in [1 .. Size -> Cells("imu")]
  BY DEF ImuStates, ImuRecords
<1>2. SubSeq(d.Buffer, 1, Size) = d.Buffer /\ Len(SubSeq(d.Buffer, 1, Size)) = Size
  <2> DEFINE s == d.Buffer
  <2>1. s \in Seq(Cells("imu")) /\ Len(s) = Size /\ s = [i \in 1 .. Size |-> s[i]]
    BY <1>0, <1>1
  <2> HIDE DEF s
  <2>2. SubSeq(s, 1, Size) = [i \in 1 .. Size |-> s[i]]
    BY <1>0, <2>1
  <2>3. SubSeq(s, 1, Size) = s
    BY <2>1, <2>2
  <2> QED BY <2>1, <2>3 DEF s
<1>3. PICK m \in FrameNumbers("imu") : d.Buffer = Data("imu", m)
  BY <1>0, <1>2 DEF Crc16
<1>4. Len(Data("imu", m)) = DataLen("imu", m)
  BY <1>0, DataShape
<1>5. DataLen("imu", m) = Size
  BY <1>2, <1>3, <1>4
<1>6. Wanted("imu", m)
  BY <1>0, <1>5, DataLenFacts
<1> QED BY <1>3, <1>6, GotsData

(* The decoder of the inertial unit keeps to the frames of its device.     *)
LEMMA ImuKeeps ==
  ASSUME NEW dev \in Decoding, NEW d \in ImuStates(dev), NEW b \in Bytes(dev)
  PROVE  FDILinkReceive(d, b) \in ImuStates(dev)
<1> DEFINE frm == Append(d.frm, b)
           k == Len(d.frm)
<1>0. Size \in Nat \ {0} /\ "imu" \in Decoding
  BY DecodersAssumption DEF Decoding
<1>1. /\ d \in ImuRecords(dev)
      /\ d = [frm |-> d.frm, Buffer |-> d.Buffer, BufferIndex |-> d.BufferIndex, got |-> d.got]
      /\ d.frm \in Seq(Bytes(dev)) /\ d.Buffer \in [1 .. Size -> Cells(dev)]
      /\ d.BufferIndex \in 0 .. Size /\ d.got \in Gots("imu", dev)
  BY DEF ImuStates, ImuRecords
<1>2. /\ k \in 0 .. 7 /\ (k \in 1 .. 6 => d.BufferIndex = 0)
      /\ k >= 5 => 
          /\ dev = "imu"
          /\ \E n \in FrameNumbers("imu") :
               /\ d.frm[2].frame = n /\ d.frm[3].frame = n /\ DataLen("imu", n) # 0
               /\ d.BufferIndex <= DataLen("imu", n)
  <2>1. k <= 7 /\ k \in Nat
    BY <1>1 DEF ImuStates
  <2>3. k >= 5 => 
          /\ dev = "imu"
          /\ \E n \in FrameNumbers("imu") :
               /\ d.frm[2].frame = n /\ d.frm[3].frame = n /\ DataLen("imu", n) # 0
               /\ d.BufferIndex <= DataLen("imu", n)
    BY DEF ImuStates
  <2>4. k \in 1 .. 6 => d.BufferIndex = 0
    BY DEF ImuStates
  <2> HIDE DEF k
  <2>2. k \in 0 .. 7
    BY <2>1
  <2> QED BY <2>2, <2>3, <2>4
<1>3. /\ frm \in Seq(Bytes(dev)) /\ Len(frm) = k + 1
      /\ k >= 3 => frm[2] = d.frm[2] /\ frm[3] = d.frm[3]
  BY <1>1
<1>4. \A f \in Seq(Bytes(dev)), x \in [1 .. Size -> Cells(dev)], i \in 0 .. Size :
        [frm |-> f, Buffer |-> x, BufferIndex |-> i, got |-> d.got] \in ImuRecords(dev)
  BY <1>1 DEF ImuRecords
<1> HIDE DEF frm, k
<1>5. CASE k = 0
  <2> DEFINE f == IF b.mark = "FC" THEN << b >> ELSE << >>
  <2>1. FDILinkReceive(d, b) = FDILinkStart(d, b)
    BY <1>3, <1>5 DEF FDILinkReceive, frm
  <2>2. FDILinkReceive(d, b) = [d EXCEPT !.frm = f, !.BufferIndex = 0]
    BY <2>1 DEF FDILinkStart
  <2>3. f \in Seq(Bytes(dev)) /\ Len(f) <= 1 /\ 0 \in 0 .. Size
    BY <1>0
  <2> HIDE DEF f
  <2> DEFINE e == [frm |-> f, Buffer |-> d.Buffer, BufferIndex |-> 0, got |-> d.got]
  <2>4. FDILinkReceive(d, b) = e
    BY <1>1, <2>2
  <2>5. e \in ImuRecords(dev)
    BY <1>1, <1>4, <2>3
  <2>6. e.frm = f /\ e.BufferIndex = 0
    OBVIOUS
  <2> HIDE DEF e
  <2>7. Len(e.frm) <= 1
    BY <2>3, <2>6
  <2>8. Len(e.frm) \in Nat
    BY <2>3, <2>6
  <2>9. e \in ImuStates(dev)
    BY <2>5, <2>6, <2>7, <2>8 DEF ImuStates
  <2> QED BY <2>4, <2>9
<1>6. ASSUME k \in 1 .. 6,
             k >= 4 => /\ dev = "imu"
                       /\ \E n \in FrameNumbers("imu") :
                            frm[2].frame = n /\ frm[3].frame = n /\ DataLen("imu", n) # 0
      PROVE  [d EXCEPT !.frm = frm] \in ImuStates(dev)
  <2> DEFINE e == [frm |-> frm, Buffer |-> d.Buffer, BufferIndex |-> d.BufferIndex, got |-> d.got]
  <2>1. [d EXCEPT !.frm = frm] = e
    BY <1>1
  <2>2. e \in ImuRecords(dev)
    BY <1>1, <1>3, <1>4
  <2>3. e.frm = frm /\ e.BufferIndex = 0
    BY <1>2, <1>6
  <2> HIDE DEF e
  <2>4. Len(e.frm) = k + 1
    BY <1>3, <2>3
  <2>5. \A n \in FrameNumbers("imu") : DataLen("imu", n) >= 0
    BY <1>0, DataLenFacts
  <2>6. Len(e.frm) >= 5 =>
          /\ dev = "imu"
          /\ \E n \in FrameNumbers("imu") :
               /\ e.frm[2].frame = n /\ e.frm[3].frame = n /\ DataLen("imu", n) # 0
               /\ e.BufferIndex <= DataLen("imu", n)
    BY <1>6, <2>3, <2>4, <2>5
  <2>7. Len(e.frm) <= 7 /\ (Len(e.frm) \in 1 .. 6 => e.BufferIndex = 0)
    BY <1>6, <2>3, <2>4
  <2>8. e \in ImuStates(dev)
    BY <2>2, <2>6, <2>7 DEF ImuStates
  <2> QED BY <2>1, <2>8
<1>7. CASE k \in {1, 2, 3, 5, 6}
  <2>1. FDILinkReceive(d, b) = [d EXCEPT !.frm = frm]
    BY <1>3, <1>7 DEF FDILinkReceive, frm
  <2>2. k >= 4 => k >= 5 /\ k >= 3
    BY <1>7
  <2>3. k >= 4 => /\ dev = "imu"
                  /\ \E n \in FrameNumbers("imu") :
                       frm[2].frame = n /\ frm[3].frame = n /\ DataLen("imu", n) # 0
    BY <1>2, <1>3, <2>2
  <2>4. k \in 1 .. 6
    BY <1>7
  <2> QED BY <1>6, <2>1, <2>3, <2>4
<1>8. CASE k = 4
  <2>1. Len(frm) = 5
    BY <1>3, <1>8
  <2>2. CASE ~Crc8(frm)
    <3>1. FDILinkReceive(d, b) = [d EXCEPT !.frm = << >>]
      BY <2>1, <2>2 DEF FDILinkReceive, frm
    <3> QED BY <1>1, <3>1, ImuEffect
  <2>3. CASE Crc8(frm)
    <3>1. dev = "imu"
      BY <1>3, <2>1, <2>3, HeaderFrame
    <3>2. PICK n \in FrameNumbers("imu") : frm[2].frame = n /\ frm[3].frame = n
      BY <1>3, <2>1, <2>3, HeaderFrame
    <3>3. Length(frm) = DataLen("imu", n)
      BY <3>2 DEF Length
    <3>4. CASE DataLen("imu", n) # 0
      <4>1. FDILinkReceive(d, b) = [d EXCEPT !.frm = frm]
        BY <2>1, <2>3, <3>3, <3>4 DEF FDILinkReceive, frm
      <4>2. k \in 1 .. 6
        BY <1>8
      <4> QED BY <1>6, <3>1, <3>2, <3>4, <4>1, <4>2
    <3>5. CASE DataLen("imu", n) = 0
      <4> DEFINE e == [d EXCEPT !.frm = frm]
      <4>1. FDILinkReceive(d, b) = FDILinkEffect(e)
        BY <2>1, <2>3, <3>3, <3>5 DEF FDILinkReceive, frm
      <4>2. e = [frm |-> frm, Buffer |-> d.Buffer, BufferIndex |-> d.BufferIndex, got |-> d.got]
        BY <1>1
      <4>3. e \in ImuRecords(dev) /\ e.frm = frm /\ e.got \in Gots("imu", dev)
        BY <1>1, <1>3, <1>4, <4>2
      <4> HIDE DEF e
      <4>4. ~Wanted("imu", n)
        BY <1>0, <3>5, DataLenFacts
      <4>5. FDILinkEffect(e) = Published(e, e.got)
        BY <3>2, <4>3, <4>4 DEF FDILinkEffect, Published
      <4> QED BY <4>1, <4>3, <4>5, ImuEffect
    <3> QED BY <3>4, <3>5
  <2> QED BY <2>2, <2>3
<1>9. CASE k = 7
  <2>0. Len(frm) = 8 /\ dev = "imu"
    BY <1>2, <1>3, <1>9
  <2>1. PICK n \in FrameNumbers("imu") :
               /\ d.frm[2].frame = n /\ d.frm[3].frame = n /\ DataLen("imu", n) # 0
               /\ d.BufferIndex <= DataLen("imu", n)
    BY <1>2, <1>9
  <2>2. Length(d.frm) = DataLen("imu", n) /\ DataLen("imu", n) \in 0 .. Size
    BY <1>0, <2>1, DataLenFacts DEF Length
  <2>3. CASE d.BufferIndex < DataLen("imu", n)
    <3> DEFINE x == [d.Buffer EXCEPT ![d.BufferIndex + 1] = b]
               i == d.BufferIndex + 1
               e == [frm |-> d.frm, Buffer |-> x, BufferIndex |-> i, got |-> d.got]
    <3>1. FDILinkReceive(d, b)
            = [d EXCEPT !.Buffer[d.BufferIndex + 1] = b, !.BufferIndex = @ + 1]
      <4>1. Len(Append(d.frm, b)) = 8 /\ Len(Append(d.frm, b)) # 1 /\ Len(Append(d.frm, b)) # 5
        BY <2>0 DEF frm
      <4>2. d.BufferIndex < Length(d.frm)
        BY <2>2, <2>3
      <4>3. FDILinkReceive(d, b)
            = [d EXCEPT !.Buffer[d.BufferIndex + 1] = b, !.BufferIndex = @ + 1]
        <5>1. Length(d.frm) \in Int /\ d.BufferIndex \in Int
          BY <1>0, <1>1, <2>2
        <5>2. ~(d.BufferIndex >= Length(d.frm))
          BY <4>2, <5>1
        <5> QED BY <4>1, <4>2, <5>1, <5>2 DEF FDILinkReceive
      <4> QED BY <4>3
    <3>2. FDILinkReceive(d, b) = e
      BY <1>1, <3>1
    <3>3. x \in [1 .. Size -> Cells(dev)]
      BY <1>1 DEF Cells
    <3>4. i \in 0 .. Size /\ i <= DataLen("imu", n)
      BY <1>0, <1>1, <2>2, <2>3
    <3> HIDE DEF x, i
    <3>5. e \in ImuRecords(dev)
      BY <1>1, <1>4, <3>3, <3>4
    <3>6. e.frm = d.frm /\ e.BufferIndex = i
      OBVIOUS
    <3> HIDE DEF e
    <3>7. Len(e.frm) = 7
      BY <1>9, <3>6 DEF k
    <3>8. \E m \in FrameNumbers("imu") :
               /\ e.frm[2].frame = m /\ e.frm[3].frame = m /\ DataLen("imu", m) # 0
               /\ e.BufferIndex <= DataLen("imu", m)
      BY <2>1, <3>4, <3>6
    <3>9. Len(e.frm) <= 7 /\ ~(Len(e.frm) \in 1 .. 6)
      BY <3>7
    <3>10. e \in ImuStates(dev)
      BY <2>0, <3>5, <3>8, <3>9 DEF ImuStates
    <3> QED BY <3>2, <3>10
  <2>4. CASE d.BufferIndex >= DataLen("imu", n)
    <3>1. d.BufferIndex = DataLen("imu", n)
      BY <1>1, <2>1, <2>2, <2>4
    <3> DEFINE c == b.mark = "FD" /\ Crc16(d.frm, SubSeq(d.Buffer, 1, d.BufferIndex))
    <3>2. FDILinkReceive(d, b) = IF c THEN FDILinkEffect(d) ELSE [d EXCEPT !.frm = << >>]
      BY <1>1, <2>0, <2>2, <2>4 DEF FDILinkReceive, frm
    <3>3. CASE c
      <4>1. FDILinkReceive(d, b) = FDILinkEffect(d)
        BY <3>2, <3>3
      <4>2. CASE Wanted("imu", n)
        <5>1. d.Buffer \in Gots("imu", dev)
          BY <2>0, <3>1, <3>3, <4>2, ImuWhole
        <5>2. FDILinkEffect(d) = Published(d, d.Buffer)
          BY <2>1, <4>2 DEF FDILinkEffect, Published
        <5> QED BY <1>1, <4>1, <5>1, <5>2, ImuEffect
      <4>3. CASE ~Wanted("imu", n)
        <5>1. FDILinkEffect(d) = Published(d, d.got)
          BY <2>1, <4>3 DEF FDILinkEffect, Published
        <5> QED BY <1>1, <4>1, <5>1, ImuEffect
      <4> QED BY <4>2, <4>3
    <3>4. CASE ~c
      BY <1>1, <3>2, <3>4, ImuEffect
    <3> QED BY <3>3, <3>4
  <2> QED BY <1>1, <2>2, <2>3, <2>4
<1> QED BY <1>2, <1>5, <1>7, <1>8, <1>9

-----------------------------------------------------------------------------
(***************************************************************************)
(* The decoder of the camera, which has no checksum: what it has collected *)
(* is followed through the frame it is in.                                 *)
(***************************************************************************)

(* What the decoder of the camera can have collected.                      *)
CameraStates == [state : 0 .. 2, buf : Seq(Bytes("camera")), got : Gots("camera", "camera")]

(* q is the place of the next byte: between the delimiters the buffer is   *)
(* what the frame has had so far, elsewhere it is empty.                   *)
CameraAt(d, q) ==
  /\ d \in CameraStates
  /\ d.state # 1 => d.buf = << >>
  /\ d.state = 1 =>
       /\ Len(d.buf) = q[2] - 2
       /\ \A i \in 1 .. Len(d.buf) : d.buf[i] = Frames["camera"][q[1]][i + 1]

(* Where the delimiters of a frame of the camera are.                      *)
LEMMA CameraFrame ==
  ASSUME CameraText, NEW n \in FrameNumbers("camera")
  PROVE  /\ Len(Frames["camera"][n]) = Size + 2
         /\ Marks("camera", n)[1] = "b" /\ Marks("camera", n)[Size + 2] = "e"
         /\ \A i \in 2 .. Size + 1 : Marks("camera", n)[i] \notin {"b", "e"}
         /\ Data("camera", n) = [i \in 1 .. Size |-> Frames["camera"][n][i + 1]]
         /\ Data("camera", n) \in Gots("camera", "camera")
<1>0. "camera" \in Decoding /\ Size \in Nat \ {0}
  BY DecodersAssumption DEF Decoding
<1>1. DataLen("camera", n) = Size /\ Wanted("camera", n)
  BY <1>0, DataLenFacts DEF Wanted
<1>2. /\ Before["camera"] = <<"b">> /\ After["camera"] = <<"e">>
      /\ Len(Before["camera"]) = 1 /\ Len(After["camera"]) = 1
  BY <1>0, Delimiters, DelimiterLengths
<1>3. /\ Len(Marks("camera", n)) = 1 + Size + 1
      /\ \A i \in 1 .. 1 : Marks("camera", n)[i] = Before["camera"][i]
      /\ \A i \in 1 .. Size : Marks("camera", n)[1 + i] = Alias("camera", n, i)
      /\ \A i \in 1 .. 1 : Marks("camera", n)[1 + Size + i] = After["camera"][i]
  <2>1. DataLen("camera", n) # 0
    BY <1>0, <1>1
  <2> QED BY <1>0, <1>1, <1>2, <2>1, MarksShape
<1>4. Len(Frames["camera"][n]) = Size + 2
  <2>1. Len(Frames["camera"][n]) = Len(Marks("camera", n))
    BY <1>0, FrameShape
  <2> QED BY <1>0, <1>3, <2>1
<1>5. 1 \in 1 .. 1 /\ 1 + Size + 1 = Size + 2
  BY <1>0
<1>6. Marks("camera", n)[1] = "b" /\ Marks("camera", n)[Size + 2] = "e"
  BY <1>2, <1>3, <1>5
<1>7. ASSUME NEW i \in 2 .. Size + 1 PROVE Marks("camera", n)[i] \notin {"b", "e"}
  <2>1. i - 1 \in 1 .. Size /\ 1 + (i - 1) = i
    BY <1>0
  <2>2. Marks("camera", n)[i] = Alias("camera", n, i - 1)
    BY <1>3, <2>1
  <2> QED BY <2>1, <2>2 DEF CameraText
<1>8. Data("camera", n) \in Gots("camera", "camera")
  BY <1>1, GotsData
<1>9. Data("camera", n) = [i \in 1 .. Size |-> Frames["camera"][n][i + 1]]
  <2> DEFINE s == Data("camera", n)
  <2>1. /\ s \in Seq(Bytes("camera")) /\ Len(s) = Size
        /\ \A i \in 1 .. Size : s[i] = Frames["camera"][n][1 + i]
    BY <1>0, <1>1, <1>2, DataShape
  <2> HIDE DEF s
  <2>2. s = [i \in 1 .. Size |-> s[i]] /\ \A i \in 1 .. Size : 1 + i = i + 1
    BY <1>0, <2>1
  <2>3. s = [i \in 1 .. Size |-> Frames["camera"][n][i + 1]]
    BY <2>1, <2>2
  <2> QED BY <2>3 DEF s
<1> QED BY <1>4, <1>6, <1>7, <1>8, <1>9

(* The decoder of the camera that takes the next byte of the line stays in *)
(* step with the frames.                                                   *)
LEMMA CameraKeeps ==
  ASSUME CameraText, NEW q \in Places("camera"), NEW d, CameraAt(d, q)
  PROVE  CameraAt(Cvhandle(d, ByteAt("camera", q)), Successor("camera", q))
<1> DEFINE b == ByteAt("camera", q)
           n == q[1]
           i == q[2]
           f == Frames["camera"][n]
           r == Successor("camera", q)
<1>0. "camera" \in Decoding /\ Size \in Nat \ {0}
  BY DecodersAssumption DEF Decoding
<1>1. n \in FrameNumbers("camera") /\ i \in 1 .. Len(f)
  BY <1>0, PlaceFacts
<1>2. /\ Len(f) = Size + 2
      /\ Marks("camera", n)[1] = "b" /\ Marks("camera", n)[Size + 2] = "e"
      /\ \A j \in 2 .. Size + 1 : Marks("camera", n)[j] \notin {"b", "e"}
      /\ Data("camera", n) = [j \in 1 .. Size |-> f[j + 1]]
      /\ Data("camera", n) \in Gots("camera", "camera")
  BY <1>1, CameraFrame
<1>3. b \in Bytes("camera") /\ b.mark = Marks("camera", n)[i] /\ b = f[i]
  <2>1. b \in Bytes("camera") /\ b.mark = Marks("camera", n)[i]
    BY <1>0, ByteFacts
  <2> QED BY <2>1 DEF ByteAt
<1>4. /\ d = [state |-> d.state, buf |-> d.buf, got |-> d.got]
      /\ d.state \in 0 .. 2 /\ d.buf \in Seq(Bytes("camera"))
      /\ d.got \in Gots("camera", "camera")
  BY DEF CameraAt, CameraStates
<1>5. i < Size + 2 => r = <<n, i + 1>>
  BY <1>2 DEF Successor
<1>6. /\ d.state # 1 => d.buf = << >>
      /\ d.state = 1 => Len(d.buf) = i - 2 /\ \A j \in 1 .. Len(d.buf) : d.buf[j] = f[j + 1]
  BY DEF CameraAt
<1>8. << >> \in Seq(Bytes("camera")) /\ Append(d.buf, b) \in Seq(Bytes("camera"))
  BY <1>3, <1>4
<1>9. Len(d.buf) \in Nat /\ i \in Nat
  BY <1>1, <1>4
<1> HIDE DEF b, n, i, f, r
<1>10. CASE i = 1
  <2>1. d.state # 1
    BY <1>4, <1>6, <1>9, <1>10
  <2>2. d.buf = << >> /\ b.mark = "b"
    BY <1>2, <1>3, <1>6, <1>10, <2>1
  <2>3. Cvhandle(d, b) = [d EXCEPT !.state = 1]
    BY <2>2 DEF Cvhandle
  <2> DEFINE e == [state |-> 1, buf |-> << >>, got |-> d.got]
  <2>4. Cvhandle(d, b) = e
    BY <1>4, <2>2, <2>3
  <2>5. e \in CameraStates
    BY <1>4, <1>8 DEF CameraStates
  <2>6. r[2] - 2 = 0
    BY <1>0, <1>5, <1>10
  <2>7. e.state = 1 /\ e.buf = << >>
    OBVIOUS
  <2> HIDE DEF e
  <2>8. Len(e.buf) = 0
    BY <2>7
  <2>9. CameraAt(e, r)
    BY <2>5, <2>6, <2>7, <2>8 DEF CameraAt
  <2> QED BY <2>4, <2>9 DEF b, r
<1>11. CASE i \in 2 .. Size + 1
  <2>1. b.mark \notin {"b", "e"} /\ r = <<n, i + 1>> /\ r[1] = n /\ r[2] = i + 1
    <3>1. b.mark \notin {"b", "e"}
      BY <1>2, <1>3, <1>11
    <3>2. r = <<n, i + 1>>
      BY <1>0, <1>5, <1>9, <1>11
    <3> QED BY <3>1, <3>2
  <2>2. CASE d.state = 1
    <3>1. Cvhandle(d, b) = [d EXCEPT !.buf = Append(d.buf, b)]
      BY <2>1, <2>2 DEF Cvhandle
    <3> DEFINE y == Append(d.buf, b)
               e == [state |-> 1, buf |-> y, got |-> d.got]
    <3>2. Cvhandle(d, b) = e
      BY <1>4, <2>2, <3>1
    <3>3. e \in CameraStates
      BY <1>4, <1>8 DEF CameraStates
    <3>4. Len(y) = i - 1
      BY <1>4, <1>6, <1>9, <2>2
    <3>5. ASSUME NEW j \in 1 .. i - 1 PROVE y[j] = f[j + 1]
      <4>1. CASE j = i - 1
        <5>1. y[Len(d.buf) + 1] = b /\ Len(d.buf) + 1 = i - 1 /\ j + 1 = i
          BY <1>4, <1>6, <1>9, <2>2, <4>1
        <5> QED BY <1>3, <4>1, <5>1 DEF b, f, i, n
      <4>2. CASE j # i - 1
        <5>1. j \in 1 .. Len(d.buf) /\ Len(d.buf) = i - 2
          BY <1>6, <1>9, <2>2, <4>2
        <5>2. y[j] = d.buf[j]
          BY <1>4, <5>1
        <5> QED BY <1>6, <2>2, <5>1, <5>2
      <4> QED BY <4>1, <4>2
    <3>6. e.state = 1 /\ e.buf = y
      OBVIOUS
    <3> HIDE DEF e, y
    <3>7. r[2] - 2 = i - 1
      BY <1>9, <2>1
    <3>8. Len(e.buf) = r[2] - 2 /\ \A j \in 1 .. Len(e.buf) : e.buf[j] = f[j + 1]
      BY <3>4, <3>5, <3>6, <3>7
    <3>9. CameraAt(e, r)
      BY <2>1, <3>3, <3>6, <3>8 DEF CameraAt, f
    <3> QED BY <3>2, <3>9 DEF b, r
  <2>3. CASE d.state = 2
    <3>1. d.buf = << >> /\ Len(d.buf) = 0 /\ ~(Len(d.buf) >= Size)
      BY <1>0, <1>4, <1>6, <2>3
    <3>2. Cvhandle(d, b) = CvParse([d EXCEPT !.state = 2])
      BY <2>1, <2>3 DEF Cvhandle
    <3>3. [d EXCEPT !.state = 2] = d
      BY <1>4, <2>3
    <3>4. CvParse(d) = [state |-> 2, buf |-> << >>, got |-> d.got]
      BY <1>4, <2>3, <3>1 DEF CvParse
    <3>5. Cvhandle(d, b) = d
      BY <1>4, <2>3, <3>1, <3>2, <3>3, <3>4
    <3>6. CameraAt(d, r)
      BY <2>3 DEF CameraAt
    <3> QED BY <3>5, <3>6 DEF b, r
  <2>4. CASE d.state = 0
    <3>1. Cvhandle(d, b) = d
      BY <2>1, <2>4 DEF Cvhandle
    <3>2. CameraAt(d, r)
      BY <2>4 DEF CameraAt
    <3> QED BY <3>1, <3>2 DEF b, r
  <2> QED BY <1>4, <2>2, <2>3, <2>4
<1>12. CASE i = Size + 2
  <2>1. b.mark = "e"
    BY <1>2, <1>3, <1>12
  <2> DEFINE d2 == [d EXCEPT !.state = 2]
             g == IF Len(d.buf) >= Size THEN d.buf ELSE d.got
             e == [state |-> 2, buf |-> << >>, got |-> g]
  <2>2. Cvhandle(d, b) = CvParse(d2)
    BY <2>1 DEF Cvhandle
  <2>3. d2 = [state |-> 2, buf |-> d.buf, got |-> d.got]
    BY <1>4
  <2> HIDE DEF d2
  <2>4. CvParse(d2) = e
    <3>1. CvParse(d2) = [d2 EXCEPT !.buf = << >>, !.got = g]
      BY <2>3 DEF CvParse
    <3> HIDE DEF g
    <3> DEFINE x == << >>
    <3>2. CvParse(d2) = [d2 EXCEPT !.buf = x, !.got = g]
      BY <3>1
    <3> HIDE DEF x
    <3>3. CvParse(d2) = [state |-> 2, buf |-> x, got |-> g]
      BY <2>3, <3>2
    <3> QED BY <3>3 DEF x
  <2>5. g \in Gots("camera", "camera")
    <3>1. CASE Len(d.buf) >= Size
      <4>1. d.state = 1
        <5> SUFFICES ASSUME d.state # 1 PROVE FALSE
          OBVIOUS
        <5>1. d.buf = << >>
          BY <1>6
        <5>2. Len(d.buf) = 0
          BY <5>1
        <5> QED BY <1>0, <3>1, <5>2
      <4>2. Len(d.buf) = Size /\ \A j \in 1 .. Size : d.buf[j] = f[j + 1]
        BY <1>0, <1>6, <1>12, <4>1
      <4>3. d.buf = [j \in 1 .. Size |-> d.buf[j]]
        BY <1>4, <4>2
      <4>4. d.buf = [j \in 1 .. Size |-> f[j + 1]]
        BY <4>2, <4>3
      <4>5. d.buf = Data("camera", n)
        BY <1>2, <4>4
      <4> QED BY <1>2, <3>1, <4>5
    <3>2. CASE ~(Len(d.buf) >= Size)
      BY <1>4, <3>2
    <3> QED BY <3>1, <3>2
  <2> HIDE DEF g
  <2>6. e \in CameraStates
    BY <1>8, <2>5 DEF CameraStates
  <2>7. e.state = 2 /\ e.buf = << >>
    OBVIOUS
  <2> HIDE DEF e
  <2>8. CameraAt(e, r)
    BY <2>6, <2>7 DEF CameraAt
  <2> QED BY <2>2, <2>4, <2>8 DEF b, r
<1>13. i = 1 \/ i \in 2 .. Size + 1 \/ i = Size + 2
  <2>1. i \in 1 .. Size + 2
    BY <1>1, <1>2 DEF f
  <2> QED BY <1>0, <2>1
<1> QED BY <1>10, <1>11, <1>12, <1>13

-----------------------------------------------------------------------------
(***************************************************************************)
(* The decoder of the position module, which has no checksum either. It    *)
(* can start, and fail, in the middle of a frame: it is followed through   *)
(* all that has been received so far.                                      *)
(***************************************************************************)

(* w is received in a row, wherever a frame seems to be the data is that   *)
(* of one frame.                                                           *)
NoFalseIn(dev, w, m) ==
  \A h \in 2 .. m :
    /\ h + Size + 2 <= m
    /\ w[h - 1].mark = "0D" /\ w[h].mark = "0A"
    /\ w[h + Size + 1].mark = "0A" /\ w[h + Size + 2].mark = "0D"
    => /\ dev = "action"
       /\ \E n \in FrameNumbers(dev) : [i \in 1 .. Size |-> w[h + i]] = Data(dev, n)

(* What the decoder of the position module can have collected.             *)
ActionStates(dev) == [count : 0 .. 4, date : Seq(Bytes(dev)), got : Gots("action", dev)]

(* The decoder has taken c bytes of w: from the end of those, it knows one *)
(* delimiter, or two and what it has put into date.                        *)
ActionAt(dev, d, w, c) ==
  /\ d \in ActionStates(dev)
  /\ d.count = 1 => c >= 1 /\ w[c].mark = "0D"
  /\ d.count \in 2 .. 4 =>
       \E h \in 2 .. c :
         /\ w[h - 1].mark = "0D" /\ w[h].mark = "0A"
         /\ \A i \in 1 .. Len(d.date) : d.date[i] = w[h + i]
         /\ d.count = 2 => Len(d.date) < Size /\ c = h + Len(d.date)
         /\ d.count = 3 => Len(d.date) = Size /\ c = h + Size
         /\ d.count = 4 => Len(d.date) = Size /\ c = h + Size + 1 /\ w[c].mark = "0A"

(* What the decoder of the position module does with one more byte of w.   *)
LEMMA ActionKeeps ==
  ASSUME NEW dev \in Decoding, NEW m \in Nat, NEW w, NoFalseIn(dev, w, m),
         NEW c \in 0 .. m - 1, w[c + 1] \in Bytes(dev),
         NEW d, ActionAt(dev, d, w, c)
  PROVE  ActionAt(dev, DataAnalyse(d, w[c + 1]), w, c + 1)
<1> DEFINE b == w[c + 1]
           B == Bytes(dev)
           G == Gots("action", dev)
<1>0. Size \in Nat \ {0} /\ c \in Nat /\ c + 1 <= m
  BY DecodersAssumption
<1>1. /\ d = [count |-> d.count, date |-> d.date, got |-> d.got]
      /\ d.count \in 0 .. 4 /\ d.date \in Seq(B) /\ d.got \in G /\ b \in B
  BY DEF ActionAt, ActionStates
<1>2. /\ d.count = 1 => c >= 1 /\ w[c].mark = "0D"
      /\ d.count \in 2 .. 4 =>
         \E h \in 2 .. c :
         /\ w[h - 1].mark = "0D" /\ w[h].mark = "0A"
         /\ \A i \in 1 .. Len(d.date) : d.date[i] = w[h + i]
         /\ d.count = 2 => Len(d.date) < Size /\ c = h + Len(d.date)
         /\ d.count = 3 => Len(d.date) = Size /\ c = h + Size
         /\ d.count = 4 => Len(d.date) = Size /\ c = h + Size + 1 /\ w[c].mark = "0A"
  BY DEF ActionAt
<1>3. << >> \in Seq(B) /\ Append(d.date, b) \in Seq(B) /\ Len(d.date) \in Nat
  BY <1>1
<1>4. ASSUME NEW e \in ActionStates(dev), e.count = 0 \/ (e.count = 1 /\ b.mark = "0D")
      PROVE  ActionAt(dev, e, w, c + 1)
  <2>1. e.count = 1 => c + 1 >= 1 /\ w[c + 1].mark = "0D"
    BY <1>0, <1>4
  <2>2. ~(e.count \in 2 .. 4)
    BY <1>4
  <2> QED BY <1>4, <2>1, <2>2 DEF ActionAt
<1> HIDE DEF b, B, G
<1>5. CASE d.count = 0
  <2> DEFINE x == IF b.mark = "0D" THEN 1 ELSE 0
             e == [count |-> x, date |-> d.date, got |-> d.got]
  <2>1. DataAnalyse(d, b) = [d EXCEPT !.count = x]
    BY <1>5 DEF DataAnalyse
  <2>2. x \in 0 .. 4 /\ (x = 0 \/ (x = 1 /\ b.mark = "0D"))
    OBVIOUS
  <2> HIDE DEF x
  <2>3. DataAnalyse(d, b) = e
    BY <1>1, <2>1
  <2>4. e \in ActionStates(dev) /\ e.count = x
    BY <1>1, <2>2 DEF ActionStates, B, G
  <2> HIDE DEF e
  <2> QED BY <1>4, <2>2, <2>3, <2>4 DEF b
<1>6. CASE d.count = 1
  <2> DEFINE x == IF b.mark = "0A" THEN 2 ELSE IF b.mark = "0D" THEN 1 ELSE 0
             y == << >>
             e == [count |-> x, date |-> y, got |-> d.got]
  <2>1. DataAnalyse(d, b) = [d EXCEPT !.count = x, !.date = y]
    BY <1>6 DEF DataAnalyse
  <2>2. x \in 0 .. 4 /\ (x = 0 \/ (x = 1 /\ b.mark = "0D") \/ (x = 2 /\ b.mark = "0A"))
    OBVIOUS
  <2>9. y \in Seq(B) /\ Len(y) = 0
    OBVIOUS
  <2> HIDE DEF x, y
  <2>3. DataAnalyse(d, b) = e
    BY <1>1, <2>1
  <2>4. e \in ActionStates(dev) /\ e.count = x /\ e.date = y
    BY <1>1, <2>2, <2>9 DEF ActionStates, B, G
  <2> HIDE DEF e
  <2>5. CASE x = 2
    <3>1. c + 1 \in 2 .. c + 1 /\ (c + 1) - 1 = c
      BY <1>0, <1>2, <1>6
    <3>2. w[(c + 1) - 1].mark = "0D" /\ w[c + 1].mark = "0A"
      BY <1>2, <1>6, <2>2, <2>5, <3>1 DEF b
    <3>3. Len(e.date) = 0 /\ e.count = 2
      BY <2>4, <2>9, <2>5
    <3>4. 0 < Size /\ c + 1 = (c + 1) + 0
      BY <1>0
    <3>5. \E h \in 2 .. c + 1 :
         /\ w[h - 1].mark = "0D" /\ w[h].mark = "0A"
         /\ \A i \in 1 .. Len(e.date) : e.date[i] = w[h + i]
         /\ e.count = 2 => Len(e.date) < Size /\ c + 1 = h + Len(e.date)
         /\ e.count = 3 => Len(e.date) = Size /\ c + 1 = h + Size
         /\ e.count = 4 => Len(e.date) = Size /\ c + 1 = h + Size + 1 /\ w[c + 1].mark = "0A"
      <4>1. \A i \in 1 .. Len(e.date) : e.date[i] = w[(c + 1) + i]
        BY <3>3
      <4> QED BY <3>1, <3>2, <3>3, <3>4, <4>1
    <3>6. ActionAt(dev, e, w, c + 1)
      BY <2>4, <3>3, <3>5 DEF ActionAt
    <3> QED BY <2>3, <3>6 DEF b
  <2>6. CASE x # 2
    BY <1>4, <2>2, <2>3, <2>4, <2>6 DEF b
  <2> QED BY <2>5, <2>6
<1>7. CASE d.count = 2
  <2>1. PICK h \in 2 .. c :
         /\ w[h - 1].mark = "0D" /\ w[h].mark = "0A"
         /\ \A i \in 1 .. Len(d.date) : d.date[i] = w[h + i]
         /\ Len(d.date) < Size /\ c = h + Len(d.date)
    BY <1>2, <1>7
  <2> DEFINE k == Len(d.date)
             x == IF k + 1 = Size THEN 3 ELSE 2
             y == Append(d.date, b)
             e == [count |-> x, date |-> y, got |-> d.got]
  <2>2. DataAnalyse(d, b) = [d EXCEPT !.count = x, !.date = y]
    BY <1>1, <1>7 DEF DataAnalyse
  <2>3. /\ x \in 0 .. 4 /\ y \in Seq(B) /\ Len(y) = k + 1 /\ k \in Nat
        /\ k < Size /\ c = h + k
    BY <1>1, <1>3, <2>1
  <2>4. (x = 3 /\ k + 1 = Size) \/ (x = 2 /\ k + 1 < Size)
    BY <1>0, <2>3
  <2>5. ASSUME NEW i \in 1 .. k + 1 PROVE y[i] = w[h + i]
    <3>1. CASE i = k + 1
      BY <1>1, <2>3, <3>1 DEF b
    <3>2. CASE i # k + 1
      <4>1. i \in 1 .. k
        BY <2>3, <3>2
      <4>2. y[i] = d.date[i]
        BY <1>1, <4>1
      <4> QED BY <2>1, <4>1, <4>2
    <3> QED BY <3>1, <3>2
  <2> HIDE DEF k, x, y
  <2>6. DataAnalyse(d, b) = e
    BY <1>1, <2>2
  <2>7. e \in ActionStates(dev) /\ e.count = x /\ e.date = y
    BY <1>1, <2>3 DEF ActionStates, B, G
  <2> HIDE DEF e
  <2>8. h \in 2 .. c + 1 /\ c + 1 = h + (k + 1)
    BY <1>0, <2>3
  <2>9. \E j \in 2 .. c + 1 :
         /\ w[j - 1].mark = "0D" /\ w[j].mark = "0A"
         /\ \A i \in 1 .. Len(e.date) : e.date[i] = w[j + i]
         /\ e.count = 2 => Len(e.date) < Size /\ c + 1 = j + Len(e.date)
         /\ e.count = 3 => Len(e.date) = Size /\ c + 1 = j + Size
         /\ e.count = 4 => Len(e.date) = Size /\ c + 1 = j + Size + 1 /\ w[c + 1].mark = "0A"
    <3>1. Len(e.date) = k + 1 /\ \A i \in 1 .. k + 1 : e.date[i] = w[h + i]
      BY <2>3, <2>5, <2>7
    <3>2. /\ e.count = 2 => k + 1 < Size
          /\ e.count = 3 => k + 1 = Size
          /\ e.count # 4
      BY <2>4, <2>7
    <3>3. h \in 2 .. c + 1
      BY <2>8
    <3> WITNESS h \in 2 .. c + 1
    <3> QED BY <2>1, <2>8, <3>1, <3>2
  <2>10. ActionAt(dev, e, w, c + 1)
    <3>1. e.count # 1
      BY <2>4, <2>7
    <3> QED BY <2>7, <2>9, <3>1 DEF ActionAt
  <2> QED BY <2>6, <2>10 DEF b
<1>8. CASE d.count = 3
  <2>1. PICK h \in 2 .. c :
         /\ w[h - 1].mark = "0D" /\ w[h].mark = "0A"
         /\ \A i \in 1 .. Len(d.date) : d.date[i] = w[h + i]
         /\ Len(d.date) = Size /\ c = h + Size
    BY <1>2, <1>8
  <2> DEFINE x == IF b.mark = "0A" THEN 4 ELSE 0
             e == [count |-> x, date |-> d.date, got |-> d.got]
  <2>2. DataAnalyse(d, b) = [d EXCEPT !.count = x]
    BY <1>8 DEF DataAnalyse
  <2>3. x \in 0 .. 4 /\ (x = 0 \/ (x = 4 /\ b.mark = "0A"))
    OBVIOUS
  <2> HIDE DEF x
  <2>4. DataAnalyse(d, b) = e
    BY <1>1, <2>2
  <2>5. e \in ActionStates(dev) /\ e.count = x /\ e.date = d.date
    BY <1>1, <2>3 DEF ActionStates, B, G
  <2> HIDE DEF e
  <2>6. CASE x = 4
    <3>1. h \in 2 .. c + 1 /\ c + 1 = h + Size + 1
      BY <1>0, <2>1
    <3>2. w[c + 1].mark = "0A" /\ e.count = 4
      BY <2>3, <2>5, <2>6 DEF b
    <3>3. \E j \in 2 .. c + 1 :
         /\ w[j - 1].mark = "0D" /\ w[j].mark = "0A"
         /\ \A i \in 1 .. Len(e.date) : e.date[i] = w[j + i]
         /\ e.count = 2 => Len(e.date) < Size /\ c + 1 = j + Len(e.date)
         /\ e.count = 3 => Len(e.date) = Size /\ c + 1 = j + Size
         /\ e.count = 4 => Len(e.date) = Size /\ c + 1 = j + Size + 1 /\ w[c + 1].mark = "0A"
      <4> WITNESS h \in 2 .. c + 1
      <4> QED BY <2>1, <2>5, <3>1, <3>2
    <3>4. ActionAt(dev, e, w, c + 1)
      BY <2>5, <3>2, <3>3 DEF ActionAt
    <3> QED BY <2>4, <3>4 DEF b
  <2>7. CASE x = 0
    BY <1>4, <2>4, <2>5, <2>7 DEF b
  <2> QED BY <2>3, <2>6, <2>7
<1>9. CASE d.count = 4
  <2>1. PICK h \in 2 .. c :
         /\ w[h - 1].mark = "0D" /\ w[h].mark = "0A"
         /\ \A i \in 1 .. Len(d.date) : d.date[i] = w[h + i]
         /\ Len(d.date) = Size /\ c = h + Size + 1 /\ w[c].mark = "0A"
    BY <1>2, <1>9
  <2> DEFINE g == IF b.mark = "0D" THEN d.date ELSE d.got
             e == [count |-> 0, date |-> d.date, got |-> g]
  <2>2. DataAnalyse(d, b) = [d EXCEPT !.count = 0, !.got = g]
    BY <1>1, <1>9 DEF DataAnalyse
  <2>3. g \in G
    <3>1. CASE b.mark = "0D"
      <4>1. h \in 2 .. m /\ h + Size + 2 <= m /\ h + Size + 1 = c /\ h + Size + 2 = c + 1
        BY <1>0, <2>1
      <4>2. w[h + Size + 1].mark = "0A" /\ w[h + Size + 2].mark = "0D"
        BY <2>1, <3>1, <4>1 DEF b
      <4>3. PICK n \in FrameNumbers(dev) : dev = "action" /\ [i \in 1 .. Size |-> w[h + i]] = Data(dev, n)
        BY <2>1, <4>1, <4>2 DEF NoFalseIn
      <4>4. d.date = [i \in 1 .. Size |-> d.date[i]]
        BY <1>1, <2>1
      <4>5. d.date = [i \in 1 .. Size |-> w[h + i]]
        BY <2>1, <4>4
      <4>6. Wanted(dev, n)
        BY <4>3 DEF Wanted
      <4>7. Data(dev, n) \in Gots(dev, dev)
        BY <4>6, GotsData
      <4>8. G = Gots(dev, dev) /\ g = d.date
        BY <3>1, <4>3 DEF G
      <4> QED BY <4>3, <4>5, <4>7, <4>8
    <3>2. CASE b.mark # "0D"
      BY <1>1, <3>2
    <3> QED BY <3>1, <3>2
  <2> HIDE DEF g
  <2>4. DataAnalyse(d, b) = e
    <3> DEFINE x == 0
    <3>1. DataAnalyse(d, b) = [d EXCEPT !.count = x, !.got = g]
      BY <2>2
    <3> HIDE DEF x
    <3>2. DataAnalyse(d, b) = [count |-> x, date |-> d.date, got |-> g]
      BY <1>1, <3>1
    <3> QED BY <3>2 DEF x
  <2>5. e \in ActionStates(dev) /\ e.count = 0
    BY <1>1, <2>3 DEF ActionStates, B, G
  <2> HIDE DEF e
  <2> QED BY <1>4, <2>4, <2>5 DEF b
<1>10. d.count \in {0, 1, 2, 3, 4}
  BY <1>1
<1> QED BY <1>5, <1>6, <1>7, <1>8, <1>9, <1>10 DEF b

-----------------------------------------------------------------------------
(* Analysed is the last of the states of a fold.                           *)
IsAnalysis(d, s, k, f) ==
  f = [i \in 0 .. k |-> IF i = 0 THEN d ELSE DataAnalyse(f[i - 1], s[i])]

LEMMA AnalysisExists ==
  ASSUME NEW d, NEW s, NEW n \in Nat
  PROVE  \E f : IsAnalysis(d, s, n, f)
<1> DEFINE S == {k \in Nat : \E f : IsAnalysis(d, s, k, f)}
<1>1. 0 \in S
  <2> DEFINE g == [i \in 0 .. 0 |-> d]
  <2>1. IsAnalysis(d, s, 0, g)
    BY DEF IsAnalysis
  <2> QED BY <2>1
<1>2. ASSUME NEW k \in Nat, k \in S PROVE k + 1 \in S
  <2>1. PICK f : IsAnalysis(d, s, k, f)
    BY <1>2
  <2> DEFINE g == [i \in 0 .. k + 1 |-> IF i = k + 1 THEN DataAnalyse(f[k], s[k + 1]) ELSE f[i]]
  <2>2. IsAnalysis(d, s, k + 1, g)
    BY <2>1 DEF IsAnalysis
  <2>3. k + 1 \in Nat
    OBVIOUS
  <2> QED BY <2>2, <2>3
<1>3. Nat \subseteq S
  <2> HIDE DEF S
  <2> QED BY <1>1, <1>2, NatInd
<1> QED BY <1>3

(* What it does with all the bytes the function finds in the ring.         *)
LEMMA AnalysedKeeps ==
  ASSUME NEW dev \in Decoding, NEW m \in Nat, NEW w, NoFalseIn(dev, w, m),
         NEW s, Len(s) \in Nat, NEW c \in Nat, c + Len(s) = m,
         \A i \in 1 .. Len(s) : s[i] = w[c + i] /\ w[c + i] \in Bytes(dev),
         NEW d, ActionAt(dev, d, w, c)
  PROVE  ActionAt(dev, Analysed(d, s), w, m)
<1> DEFINE k == Len(s)
           f == CHOOSE f : IsAnalysis(d, s, k, f)
           S == {i \in 0 .. k : ActionAt(dev, f[i], w, c + i)}
<1>1. IsAnalysis(d, s, k, f)
  BY AnalysisExists
<1>2. Analysed(d, s) = f[k]
  BY Zenon DEF Analysed, IsAnalysis
<1>0. k \in Nat /\ c + k = m
  OBVIOUS
<1> HIDE DEF f, k
<1>3. 0 \in S
  <2>1. 0 \in 0 .. k /\ c + 0 = c
    BY <1>0
  <2>2. f[0] = d
    BY <1>1, <2>1 DEF IsAnalysis
  <2> QED BY <2>1, <2>2
<1>4. ASSUME NEW i \in 0 .. k - 1, i \in S PROVE i + 1 \in S
  <2>1. i + 1 \in 0 .. k /\ i + 1 # 0 /\ (i + 1) - 1 = i /\ i + 1 \in 1 .. k
        /\ c + i \in 0 .. m - 1 /\ (c + i) + 1 = c + (i + 1)
    BY <1>0
  <2>2. f[i + 1] = DataAnalyse(f[i], s[i + 1])
    BY <1>1, <2>1 DEF IsAnalysis
  <2>3. s[i + 1] = w[(c + i) + 1] /\ w[(c + i) + 1] \in Bytes(dev)
    BY <2>1 DEF k
  <2>4. ActionAt(dev, f[i], w, c + i)
    BY <1>4
  <2>5. ActionAt(dev, DataAnalyse(f[i], w[(c + i) + 1]), w, (c + i) + 1)
    BY <2>1, <2>3, <2>4, ActionKeeps
  <2> QED BY <2>1, <2>2, <2>3, <2>5
<1>5. \A i \in 0 .. k : i \in S
  <2> HIDE DEF S
  <2> QED BY <1>0, <1>3, <1>4, InitialInd
<1>6. k \in S
  BY <1>0, <1>5
<1> QED BY <1>0, <1>2, <1>6

-----------------------------------------------------------------------------
(***************************************************************************)
(* What is received in a row.                                              *)
(***************************************************************************)

(* Advance from a place that has been reached by Advance.                  *)
LEMMA WindowAdvance ==
  ASSUME NEW dev, NEW p, NEW i \in Nat, NEW k \in Nat, NEW j, j = i + k
  PROVE  Advance(dev, Advance(dev, p, i), k) = Advance(dev, p, j)
BY AdvanceSum

LEMMA ReceivedFacts ==
  ASSUME NEW dev \in Decoding, NEW p \in Places(dev), NEW m \in Nat, NEW l \in Losses(m)
  PROVE  /\ DOMAIN l = 1 .. m
         /\ \A i \in 1 .. m :
              /\ l[i] \in Nat /\ l[i] \in 0 .. MaxLost /\ i - 1 + l[i] \in Nat
              /\ Received(dev, p, l)[i] = ByteAt(dev, Advance(dev, p, i - 1 + l[i]))
              /\ Received(dev, p, l)[i] \in Bytes(dev)
<1>1. DOMAIN l = 1 .. m /\ \A i \in 1 .. m : l[i] \in 0 .. MaxLost
  BY DEF Losses
<1>2. MaxLost \in Nat
  BY UartLineAssumption
<1>3. ASSUME NEW i \in 1 .. m
      PROVE  /\ l[i] \in Nat /\ l[i] \in 0 .. MaxLost /\ i - 1 + l[i] \in Nat
             /\ Received(dev, p, l)[i] = ByteAt(dev, Advance(dev, p, i - 1 + l[i]))
             /\ Received(dev, p, l)[i] \in Bytes(dev)
  <2>1. l[i] \in 0 .. MaxLost /\ l[i] \in Nat
    BY <1>1, <1>2
  <2>2. i - 1 + l[i] \in Nat
    BY <2>1
  <2>3. Received(dev, p, l)[i] = ByteAt(dev, Advance(dev, p, i - 1 + l[i]))
    BY <1>1 DEF Received
  <2>4. Advance(dev, p, i - 1 + l[i]) \in Places(dev)
    BY <2>2, AdvancePlace
  <2> QED BY <2>1, <2>2, <2>3, <2>4, ByteFacts
<1> QED BY <1>1, <1>3

(* NoFalseFrame speaks of the bytes of one frame; it holds of each window  *)
(* of all that is received.                                                *)
LEMMA ReceivedNoFalse ==
  ASSUME NoFalseFrame, NEW dev \in {"action", "imu"}, NEW p \in Places(dev),
         NEW m \in Nat, NEW l \in Losses(m)
  PROVE  NoFalseIn(dev, Received(dev, p, l), m)
<1>0. dev \in Decoding /\ dev \in Users.uart7 /\ Size \in Nat
  BY DecodersAssumption DEF Decoding, Users
<1> DEFINE w == Received(dev, p, l)
<1> SUFFICES ASSUME NEW h \in 2 .. m, h + Size + 2 <= m,
                    w[h - 1].mark = "0D", w[h].mark = "0A",
                    w[h + Size + 1].mark = "0A", w[h + Size + 2].mark = "0D"
             PROVE  dev = "action" /\ \E n \in FrameNumbers(dev) :
                      [i \in 1 .. Size |-> w[h + i]] = Data(dev, n)
  BY DEF NoFalseIn
<1> DEFINE q == Advance(dev, p, h - 2)
           k == [j \in 1 .. Size + 4 |-> l[h - 2 + j]]
           r == Received(dev, q, k)
<1>1. h - 2 \in Nat /\ q \in Places(dev)
  <2>1. h - 2 \in Nat
    OBVIOUS
  <2> QED BY <1>0, <2>1, AdvancePlace
<1>2. \A j \in 1 .. Size + 4 : h - 2 + j \in 1 .. m
  BY <1>0
<1>3. k \in Losses(Size + 4)
  <2>1. \A j \in 1 .. Size + 4 : k[j] \in 0 .. MaxLost
    BY <1>2 DEF Losses
  <2>2. ASSUME NEW i \in 1 .. Size + 4, NEW j \in 1 .. Size + 4, i <= j
        PROVE  k[i] <= k[j]
    <3>1. h - 2 + i \in 1 .. m /\ h - 2 + j \in 1 .. m
      BY <1>2
    <3>2. h - 2 + i <= h - 2 + j
      BY <2>2
    <3>3. l[h - 2 + i] <= l[h - 2 + j]
      BY <3>1, <3>2 DEF Losses
    <3> QED BY <3>3
  <2>3. k \in [1 .. Size + 4 -> 0 .. MaxLost]
    BY <2>1
  <2> HIDE DEF k
  <2> QED BY <2>2, <2>3 DEF Losses
<1>4. ASSUME NEW j \in 1 .. Size + 4 PROVE r[j] = w[h - 2 + j]
  <2>0. h - 2 + j \in 1 .. m /\ k[j] = l[h - 2 + j]
    BY <1>2
  <2>1. /\ l[h - 2 + j] \in Nat /\ (h - 2 + j) - 1 + l[h - 2 + j] \in Nat
        /\ w[h - 2 + j] = ByteAt(dev, Advance(dev, p, (h - 2 + j) - 1 + l[h - 2 + j]))
    BY <1>0, <2>0, ReceivedFacts
  <2>2. DOMAIN k = 1 .. Size + 4
    OBVIOUS
  <2> HIDE DEF q, k
  <2>3. r[j] = ByteAt(dev, Advance(dev, q, j - 1 + k[j]))
    BY <2>2 DEF Received
  <2> DEFINE x == l[h - 2 + j]
  <2>4. j - 1 + k[j] = j - 1 + x /\ x \in Nat
    BY <2>0, <2>1
  <2> HIDE DEF x
  <2>5. j - 1 + x \in Nat /\ (h - 2 + j) - 1 + x = (h - 2) + (j - 1 + x)
    BY <2>4
  <2>6. Advance(dev, q, j - 1 + x) = Advance(dev, p, (h - 2 + j) - 1 + x)
    BY <1>1, <2>5, WindowAdvance DEF q
  <2> QED BY <2>1, <2>3, <2>4, <2>6 DEF x
<1> HIDE DEF q, k, r, w
<1>5. /\ 1 \in 1 .. Size + 4 /\ 2 \in 1 .. Size + 4
      /\ Size + 3 \in 1 .. Size + 4 /\ Size + 4 \in 1 .. Size + 4
      /\ h - 2 + 1 = h - 1 /\ h - 2 + 2 = h
      /\ h - 2 + (Size + 3) = h + Size + 1 /\ h - 2 + (Size + 4) = h + Size + 2
  BY <1>0
<1>6. /\ r[1].mark = "0D" /\ r[2].mark = "0A"
      /\ r[Size + 3].mark = "0A" /\ r[Size + 4].mark = "0D"
  <2>1. r[1] = w[h - 1] /\ r[2] = w[h]
    BY <1>4, <1>5
  <2>2. r[Size + 3] = w[h + Size + 1] /\ r[Size + 4] = w[h + Size + 2]
    BY <1>4, <1>5
  <2> QED BY <2>1, <2>2
<1>7. dev = "action" /\ \E n \in FrameNumbers(dev) : SubSeq(r, 3, Size + 2) = Data(dev, n)
  BY <1>0, <1>1, <1>3, <1>6 DEF NoFalseFrame, r
<1>8. SubSeq(r, 3, Size + 2) = [i \in 1 .. Size |-> w[h + i]]
  <2>1. SubSeq(r, 3, Size + 2) = [i \in 1 .. Size |-> r[i + 2]]
    BY <1>0
  <2>2. ASSUME NEW i \in 1 .. Size PROVE r[i + 2] = w[h + i]
    <3>1. i + 2 \in 1 .. Size + 4 /\ h - 2 + (i + 2) = h + i
      BY <1>0
    <3> QED BY <1>4, <3>1
  <2> QED BY <2>1, <2>2
<1> QED BY <1>7, <1>8

-----------------------------------------------------------------------------
(***************************************************************************)
(* The lines: what holds of each without a hypothesis on the data.         *)
(***************************************************************************)

(* The users without a thread that reads, and those whose function         *)
(* decodes, never come to the loop.                                        *)
NotReading == \A u \in users \ Reading : pc[u] \in {"start", "done"}

(* Only bytes of the device that is attached get into the ring.            *)
OwnBytes == at \in Places(device) /\ ring \in Seq(Bytes(device))

(* The decoders with a checksum know at any time only bytes of the device. *)
SumDecoders ==
  /\ uart = "uart8" => dec["ibus"] \in IbusStates(device) /\ dec["flow"] \in FlowStates(device)
  /\ uart = "uart7" => dec["imu"] \in ImuStates(device)

(* What holds of every line, without a hypothesis on the data.             *)
BytesInv == TypeOK /\ NotReading /\ OwnBytes /\ SumDecoders

(* Which users and decoders a line has.                                    *)
LEMMA LineUsers ==
  ASSUME TypeOK
  PROVE  /\ device \in Decoding /\ device \in users
         /\ uart \in {"uart8", "uart7", "uart3"}
         /\ uart = "uart8" => users = {"ibus", "flow", "emm"} /\ DOMAIN dec = {"ibus", "flow"}
         /\ uart = "uart7" => users = {"action", "imu"} /\ DOMAIN dec = {"action", "imu"}
         /\ uart = "uart3" => users = {"camera"} /\ DOMAIN dec = {"camera"}
<1>1. /\ uart \in DOMAIN Users /\ device \in users \cap Decoding /\ DOMAIN dec = users \cap Decoding
  BY DEF TypeOK
<1>2. uart \in {"uart8", "uart7", "uart3"}
  BY <1>1 DEF Users
<1>3. CASE uart = "uart8"
  <2>1. users = {"ibus", "flow", "emm"}
    BY <1>3 DEF users, Users
  <2>2. users \cap Decoding = {"ibus", "flow"}
    BY <2>1 DEF Decoding
  <2> QED BY <1>1, <1>3, <2>1, <2>2
<1>4. CASE uart = "uart7"
  <2>1. users = {"action", "imu"}
    BY <1>4 DEF users, Users
  <2>2. users \cap Decoding = {"action", "imu"}
    BY <2>1 DEF Decoding
  <2> QED BY <1>1, <1>4, <2>1, <2>2
<1>5. CASE uart = "uart3"
  <2>1. users = {"camera"}
    BY <1>5 DEF users, Users
  <2>2. users \cap Decoding = {"camera"}
    BY <2>1 DEF Decoding
  <2> QED BY <1>1, <1>5, <2>1, <2>2
<1> QED BY <1>1, <1>2, <1>3, <1>4, <1>5

(* What the DMA brings in are the next bytes of the device.                *)
LEMMA ChunkFacts ==
  ASSUME NEW k \in Nat, device \in Decoding, at \in Places(device)
  PROVE  /\ Chunk(k) \in Seq(Bytes(device)) /\ Len(Chunk(k)) = k
         /\ \A i \in 1 .. k : Chunk(k)[i] = ByteAt(device, Advance(device, at, i - 1))
         /\ Advance(device, at, k) \in Places(device)
         /\ Successor(device, at) \in Places(device)
<1>1. ASSUME NEW i \in 1 .. k
      PROVE  ByteAt(device, Advance(device, at, i - 1)) \in Bytes(device)
  <2>1. i - 1 \in Nat
    OBVIOUS
  <2> QED BY <2>1, AdvancePlace, ByteFacts
<1>2. Chunk(k) = [i \in 1 .. k |-> ByteAt(device, Advance(device, at, i - 1))]
  BY DEF Chunk
<1>3. Advance(device, at, k) \in Places(device) /\ Successor(device, at) \in Places(device)
  BY AdvancePlace, SuccessorPlace
<1> QED BY <1>1, <1>2, <1>3

LEMMA ImuEmpty ==
  ASSUME NEW dev, NEW e \in ImuRecords(dev), Len(e.frm) = 0
  PROVE  e \in ImuStates(dev)
<1> DEFINE k == Len(e.frm)
<1>1. k = 0
  OBVIOUS
<1> HIDE DEF k
<1>2. k <= 7 /\ ~(k \in 1 .. 6) /\ ~(k >= 5)
  BY <1>1
<1> QED BY <1>2 DEF ImuStates, k

(* The decoders start with nothing collected.                              *)
LEMMA FreshFacts ==
  ASSUME NEW dev \in Decoding
  PROVE  /\ Fresh["ibus"] \in IbusStates(dev) /\ Fresh["flow"] \in FlowStates(dev)
         /\ Fresh["imu"] \in ImuStates(dev)
         /\ Fresh["action"] \in ActionStates(dev) /\ Fresh["action"].count = 0
         /\ Fresh["camera"] \in CameraStates /\ Fresh["camera"].state = 0
         /\ Fresh["camera"].buf = << >>
<1>1. << >> \in Seq(Bytes(dev)) /\ << >> \in Seq(Bytes("camera"))
      /\ \A u : << >> \in Gots(u, dev) /\ << >> \in Gots(u, "camera")
  BY DEF Gots
<1>2. Fresh["ibus"] \in IbusStates(dev) /\ Fresh["flow"] \in FlowStates(dev)
  BY <1>1 DEF Fresh, IbusStates, FlowStates
<1>3. /\ Fresh["action"] \in ActionStates(dev) /\ Fresh["action"].count = 0
      /\ Fresh["camera"] \in CameraStates /\ Fresh["camera"].state = 0
      /\ Fresh["camera"].buf = << >>
  BY <1>1 DEF Fresh, ActionStates, CameraStates
<1>4. Fresh["imu"] \in ImuStates(dev)
  <2> DEFINE z == [mark |-> "-", dev |-> "none", frame |-> 0, place |-> 0]
             s == << >>
             x == [i \in 1 .. Size |-> z]
             e == [frm |-> s, Buffer |-> x, BufferIndex |-> 0, got |-> s]
  <2>1. Fresh["imu"] = e
    BY DEF Fresh
  <2>2. x \in [1 .. Size -> Cells(dev)]
    <3>1. 1 \in 1 .. Size
      BY DecodersAssumption
    <3>2. e.Buffer[1] = z
      BY <3>1
    <3>3. z \in Cells(dev)
      BY <2>1, <3>2 DEF Cells
    <3> HIDE DEF z
    <3> QED BY <3>3
  <2>3. 0 \in 0 .. Size /\ s \in Seq(Bytes(dev)) /\ s \in Gots("imu", dev) /\ Len(s) = 0
    BY <1>1, DecodersAssumption
  <2> HIDE DEF s, x
  <2>4. e \in ImuRecords(dev)
    BY <2>2, <2>3 DEF ImuRecords
  <2>5. e.frm = s
    OBVIOUS
  <2> HIDE DEF e
  <2>7. Len(e.frm) = 0
    BY <2>3, <2>5
  <2>6. e \in ImuStates(dev)
    BY <2>4, <2>7, ImuEmpty
  <2> QED BY <2>1, <2>6
<1> QED BY <1>2, <1>3, <1>4

LEMMA InitBytes == Init => BytesInv
<1> SUFFICES ASSUME Init PROVE BytesInv
  OBVIOUS
<1>1. TypeOK
  BY InitIInv DEF IInv
<1>2. NotReading
  BY DEF Init, NotReading
<1>3. OwnBytes
  BY DEF Init, OwnBytes
<1>4. SumDecoders
  <2>1. dec = [u \in users \cap Decoding |-> Fresh[u]]
    BY DEF Init
  <2>2. \A u \in DOMAIN dec : dec[u] = Fresh[u]
    BY <2>1
  <2>3. device \in Decoding
    BY <1>1, LineUsers
  <2>4. CASE uart = "uart8"
    <3>1. dec["ibus"] = Fresh["ibus"] /\ dec["flow"] = Fresh["flow"]
      BY <1>1, <2>2, <2>4, LineUsers
    <3> QED BY <2>3, <2>4, <3>1, FreshFacts DEF SumDecoders
  <2>5. CASE uart = "uart7"
    <3>1. dec["imu"] = Fresh["imu"]
      BY <1>1, <2>2, <2>5, LineUsers
    <3> QED BY <2>3, <2>5, <3>1, FreshFacts DEF SumDecoders
  <2>6. CASE uart = "uart3"
    BY <2>6 DEF SumDecoders
  <2> QED BY <1>1, <2>4, <2>5, <2>6, LineUsers
<1> QED BY <1>1, <1>2, <1>3, <1>4 DEF BytesInv

(* What a function that is called with s in the ring does.                 *)
LEMMA IndicateFacts ==
  ASSUME TypeOK, NEW s \in Seq(Bytes(device)), RxIndicate(s)
  PROVE  /\ ring' \in Seq(Bytes(device))
         /\ rx_indicate # "action" => ring' = s /\ dec' = dec
         /\ rx_indicate = "action" =>
              ring' = << >> /\ dec' = [dec EXCEPT !["action"] = Analysed(@, s)]
         /\ \A u \in DOMAIN dec \ {"action"} : dec'[u] = dec[u]
<1>1. CASE rx_indicate = "action"
  BY <1>1 DEF RxIndicate
<1>2. CASE rx_indicate # "action"
  BY <1>2 DEF RxIndicate
<1> QED BY <1>1, <1>2

(* What a thread does that takes a byte off the ring.                      *)
LEMMA ReadFacts ==
  ASSUME BytesInv, NEW u \in users, ReadByte(u)
  PROVE  /\ ring \in Seq(Bytes(device)) /\ ring # << >> /\ Len(ring) \in Nat /\ Len(ring) >= 1
         /\ Head(ring) = ring[1] /\ ring[1] \in Bytes(device)
         /\ ring' \in Seq(Bytes(device)) /\ Len(ring') = Len(ring) - 1
         /\ \A i \in 1 .. Len(ring) - 1 : ring'[i] = ring[i + 1]
         /\ u \in Reading
         /\ dec'[u] = Decode(u, dec[u], ring[1])
         /\ \A v \in DOMAIN dec \ {u} : dec'[v] = dec[v]
         /\ DOMAIN dec' = DOMAIN dec
<1>1. ring \in Seq(Bytes(device)) /\ ring # << >> /\ ring' = Tail(ring)
  BY DEF BytesInv, OwnBytes, ReadByte
<1>2. /\ Len(ring) \in Nat /\ Len(ring) >= 1
      /\ Head(ring) = ring[1] /\ ring[1] \in Bytes(device)
      /\ ring' \in Seq(Bytes(device)) /\ Len(ring') = Len(ring) - 1
      /\ \A i \in 1 .. Len(ring) - 1 : ring'[i] = ring[i + 1]
  BY <1>1
<1>3. u \in Reading
  BY DEF BytesInv, NotReading, ReadByte
<1>4. u \in DOMAIN dec
  <2>1. u \in Decoding /\ DOMAIN dec = users \cap Decoding
    BY <1>3 DEF Reading, BytesInv, TypeOK
  <2> QED BY <2>1
<1>5. dec' = [dec EXCEPT ![u] = Decode(u, dec[u], ring[1])]
  BY <1>2 DEF ReadByte
<1>6. /\ dec'[u] = Decode(u, dec[u], ring[1])
      /\ \A v \in DOMAIN dec \ {u} : dec'[v] = dec[v]
      /\ DOMAIN dec' = DOMAIN dec
  BY <1>4, <1>5
<1> QED BY <1>1, <1>2, <1>3, <1>6

(* Each step keeps what the decoders with a checksum know.                 *)
LEMMA NextBytes == BytesInv /\ IInv' /\ [Next]_vars => BytesInv'
<1> SUFFICES ASSUME BytesInv, IInv', [Next]_vars PROVE BytesInv'
  OBVIOUS
<1>0. TypeOK' /\ TypeOK /\ NotReading /\ OwnBytes /\ SumDecoders
  BY DEF BytesInv, IInv
<1>9. device \in Decoding
  BY <1>0, LineUsers
<1>1. ASSUME NEW u \in users, SetRxIndicate(u) PROVE BytesInv'
  <2>1. NotReading'
    BY <1>0, <1>1 DEF SetRxIndicate, NotReading, TypeOK, users, attached
  <2>2. OwnBytes' /\ SumDecoders'
    BY <1>0, <1>1 DEF SetRxIndicate, OwnBytes, SumDecoders, attached
  <2> QED BY <1>0, <2>1, <2>2 DEF BytesInv
<1>2. ASSUME NEW u \in users, ReadByte(u) PROVE BytesInv'
  <2>1. NotReading'
    BY <1>0, <1>2 DEF ReadByte, NotReading, users, attached
  <2>2. OwnBytes'
    BY <1>0, <1>2, ReadFacts DEF ReadByte, OwnBytes, attached, BytesInv
  <2>3. uart' = uart /\ device' = device
    BY <1>2 DEF ReadByte, attached
  <2>4. CASE uart = "uart8"
    <3>1. DOMAIN dec = {"ibus", "flow"} /\ u \in {"ibus", "flow"}
      BY <1>0, <1>2, <2>4, LineUsers, ReadFacts DEF Reading, Decoding, BytesInv
    <3>2. dec["ibus"] \in IbusStates(device) /\ dec["flow"] \in FlowStates(device)
      BY <1>0, <2>4 DEF SumDecoders
    <3>3. CASE u = "ibus"
      <4>1. dec'["ibus"] = IbusIn(dec["ibus"], ring[1]) /\ dec'["flow"] = dec["flow"]
        BY <1>2, <3>1, <3>3, ReadFacts DEF Decode
      <4>2. dec'["ibus"] \in IbusStates(device)
        BY <1>2, <1>9, <3>2, <4>1, ReadFacts, IbusKeeps
      <4> QED BY <1>0, <2>1, <2>2, <2>3, <2>4, <3>2, <4>1, <4>2 DEF BytesInv, SumDecoders
    <3>4. CASE u = "flow"
      <4>1. dec'["flow"] = UpParseChar(dec["flow"], ring[1]) /\ dec'["ibus"] = dec["ibus"]
        BY <1>2, <3>1, <3>4, ReadFacts DEF Decode
      <4>2. dec'["flow"] \in FlowStates(device)
        BY <1>2, <1>9, <3>2, <4>1, ReadFacts, FlowKeeps
      <4> QED BY <1>0, <2>1, <2>2, <2>3, <2>4, <3>2, <4>1, <4>2 DEF BytesInv, SumDecoders
    <3> QED BY <3>1, <3>3, <3>4
  <2>5. CASE uart = "uart7"
    <3>1. u = "imu"
      BY <1>0, <1>2, <2>5, LineUsers, ReadFacts DEF Reading, Decoding, BytesInv
    <3>2. dec["imu"] \in ImuStates(device)
      BY <1>0, <2>5 DEF SumDecoders
    <3>3. dec'["imu"] = FDILinkReceive(dec["imu"], ring[1])
      BY <1>2, <3>1, ReadFacts DEF Decode
    <3>4. dec'["imu"] \in ImuStates(device)
      BY <1>2, <1>9, <3>2, <3>3, ReadFacts, ImuKeeps
    <3> QED BY <1>0, <2>1, <2>2, <2>3, <2>5, <3>4 DEF BytesInv, SumDecoders
  <2>6. CASE uart = "uart3"
    BY <1>0, <2>1, <2>2, <2>3, <2>6 DEF BytesInv, SumDecoders
  <2> QED BY <1>0, <2>4, <2>5, <2>6, LineUsers
<1>3. ASSUME NEW u \in users, ReadNone(u) PROVE BytesInv'
  <2>1. u \in Reading
    BY <1>0, <1>3 DEF ReadNone, NotReading
  <2>2. NotReading'
    BY <1>0, <1>3, <2>1 DEF ReadNone, NotReading, TypeOK, users, attached
  <2>3. OwnBytes' /\ SumDecoders'
    BY <1>0, <1>3 DEF ReadNone, OwnBytes, SumDecoders, attached
  <2> QED BY <1>0, <2>2, <2>3 DEF BytesInv
<1>4. ASSUME NEW u \in users, SemTake(u) PROVE BytesInv'
  <2>1. u \in Reading
    BY <1>0, <1>4 DEF SemTake, NotReading
  <2>2. NotReading'
    BY <1>0, <1>4, <2>1 DEF SemTake, NotReading, TypeOK, users, attached
  <2>3. OwnBytes' /\ SumDecoders'
    BY <1>0, <1>4 DEF SemTake, OwnBytes, SumDecoders, attached
  <2> QED BY <1>0, <2>2, <2>3 DEF BytesInv
<1>5. ASSUME NEW s \in Seq(Bytes(device)), RxIndicate(s), at' \in Places(device),
             UNCHANGED <<attached, lost, rx_indicate, pc>>
      PROVE  BytesInv'
  <2>1. uart' = uart /\ device' = device /\ pc' = pc
    BY <1>5 DEF attached
  <2>2. NotReading'
    BY <1>0, <2>1 DEF NotReading, users
  <2>3. OwnBytes'
    BY <1>0, <1>5, <2>1, IndicateFacts DEF OwnBytes
  <2>4. \A u \in DOMAIN dec \ {"action"} : dec'[u] = dec[u]
    BY <1>0, <1>5, IndicateFacts
  <2>5. SumDecoders'
    BY <1>0, <2>1, <2>4, LineUsers DEF SumDecoders
  <2> QED BY <1>0, <2>2, <2>3, <2>5 DEF BytesInv
<1>6. CASE Interrupt
  <2>0. ring \in Seq(Bytes(device)) /\ at \in Places(device)
    BY <1>0 DEF OwnBytes
  <2>1. ASSUME NEW k \in 1 .. MaxChunk, Arrive(k) PROVE BytesInv'
    <3>1. Chunk(k) \in Seq(Bytes(device)) /\ Advance(device, at, k) \in Places(device)
      BY <1>9, <2>0, ChunkFacts
    <3>2. ring \o Chunk(k) \in Seq(Bytes(device))
      BY <2>0, <3>1
    <3> QED BY <1>5, <2>1, <3>1, <3>2 DEF Arrive
  <2>2. ASSUME Overflow PROVE BytesInv'
    <3>1. Successor(device, at) \in Places(device)
      BY <1>9, <2>0, SuccessorPlace
    <3> QED BY <1>5, <2>0, <2>2, <3>1 DEF Overflow
  <2> QED BY <1>6, <2>1, <2>2 DEF Interrupt
<1>7. CASE LoseByte
  <2>1. Successor(device, at) \in Places(device)
    BY <1>0, <1>9, SuccessorPlace DEF OwnBytes
  <2>2. NotReading' /\ OwnBytes' /\ SumDecoders'
    BY <1>0, <1>7, <2>1 DEF LoseByte, NotReading, OwnBytes, SumDecoders, users, attached
  <2> QED BY <1>0, <2>2 DEF BytesInv
<1>8. CASE UNCHANGED vars
  <2>1. NotReading' /\ OwnBytes' /\ SumDecoders'
    BY <1>0, <1>8 DEF vars, NotReading, OwnBytes, SumDecoders, users, attached
  <2> QED BY <1>0, <2>1 DEF BytesInv
<1> QED BY <1>1, <1>2, <1>3, <1>4, <1>6, <1>7, <1>8 DEF Next, Thread

-----------------------------------------------------------------------------
(***************************************************************************)
(* The line of the camera.                                                 *)
(***************************************************************************)

(* The ring holds what follows place q in a row.                           *)
InRow(q) ==
  /\ at = Advance(device, q, Len(ring))
  /\ \A i \in 1 .. Len(ring) : ring[i] = ByteAt(device, Advance(device, q, i - 1))

(* The line of the camera: it loses nothing, and one decoder takes all of  *)
(* it in order.                                                            *)
Uart3Inv ==
  uart = "uart3" =>
    /\ lost = 0
    /\ rx_indicate = IF pc["camera"] = "start" THEN "none" ELSE "camera"
    /\ \E q \in Places("camera") : InRow(q) /\ CameraAt(dec["camera"], q)

CameraInv == BytesInv /\ OwnerAwake /\ Uart3Inv

(* The camera keeps its line in order: it overflows only when its reader   *)
(* sleeps, which OwnerAwake excludes.                                      *)
LEMMA NextUart3 ==
  ASSUME CameraText, CameraInv, IInv', BytesInv', [Next]_vars
  PROVE  Uart3Inv'
<1>0. /\ TypeOK /\ NotReading /\ OwnBytes /\ OwnerAwake /\ Uart3Inv /\ BytesInv
  BY DEF CameraInv, BytesInv
<1>1. uart' = uart /\ device' = device
  BY DEF Next, Thread, SetRxIndicate, ReadByte, ReadNone, SemTake, Interrupt, Arrive,
         Overflow, LoseByte, attached, vars
<1> SUFFICES ASSUME uart = "uart3" PROVE Uart3Inv'
  BY <1>1 DEF Uart3Inv
<1>2. users = {"camera"} /\ DOMAIN dec = {"camera"} /\ device = "camera"
  BY <1>0, LineUsers
<1>3. /\ lost = 0
      /\ rx_indicate = IF pc["camera"] = "start" THEN "none" ELSE "camera"
  BY <1>0 DEF Uart3Inv
<1>4. PICK q \in Places("camera") : InRow(q) /\ CameraAt(dec["camera"], q)
  BY <1>0 DEF Uart3Inv
<1>5. "camera" \in Decoding /\ "camera" \in Reading /\ ring \in Seq(Bytes("camera"))
      /\ Len(ring) \in Nat /\ at \in Places("camera")
  BY <1>0, <1>2 DEF Reading, Decoding, OwnBytes
<1>6. ASSUME lost' = lost, at' = at, ring' = ring, dec' = dec,
             rx_indicate' = IF pc'["camera"] = "start" THEN "none" ELSE "camera"
      PROVE  Uart3Inv'
  BY <1>1, <1>3, <1>4, <1>6 DEF Uart3Inv, InRow
<1>7. ASSUME NEW u \in users, SetRxIndicate(u) PROVE Uart3Inv'
  <2>1. u = "camera" /\ pc'["camera"] = "read"
    BY <1>0, <1>2, <1>5, <1>7 DEF SetRxIndicate, TypeOK
  <2> QED BY <1>6, <1>7, <2>1 DEF SetRxIndicate
<1>8. ASSUME NEW u \in users, ReadByte(u) PROVE Uart3Inv'
  <2>1. u = "camera"
    BY <1>2
  <2> DEFINE r == Successor("camera", q)
             k == Len(ring)
  <2>2. /\ k >= 1 /\ Len(ring') = k - 1 /\ k \in Nat
        /\ \A i \in 1 .. k - 1 : ring'[i] = ring[i + 1]
        /\ dec'["camera"] = Cvhandle(dec["camera"], ring[1])
    BY <1>0, <1>8, <2>1, ReadFacts DEF Decode
  <2>3. /\ at = Advance("camera", q, k)
        /\ \A i \in 1 .. k : ring[i] = ByteAt("camera", Advance("camera", q, i - 1))
    BY <1>2, <1>4 DEF InRow
  <2>4. r \in Places("camera")
    BY <1>5, SuccessorPlace
  <2>5. ring[1] = ByteAt("camera", q)
    <3>1. 1 \in 1 .. k /\ 1 - 1 = 0
      BY <2>2
    <3> QED BY <2>3, <3>1, AdvanceStep
  <2>6. CameraAt(dec'["camera"], r)
    BY <1>4, <2>2, <2>5, CameraKeeps
  <2> HIDE DEF k
  <2>7. ASSUME NEW j \in Nat PROVE Advance("camera", r, j) = Advance("camera", q, j + 1)
    <3>1. Advance("camera", q, 1) = r
      <4>1. 0 \in Nat /\ 0 + 1 = 1
        OBVIOUS
      <4>2. Advance("camera", q, 0 + 1) = Successor("camera", Advance("camera", q, 0))
        BY <4>1, AdvanceStep
      <4> QED BY <4>1, <4>2, AdvanceStep
    <3>2. 1 \in Nat /\ j + 1 = 1 + j
      OBVIOUS
    <3>3. Advance("camera", Advance("camera", q, 1), j) = Advance("camera", q, j + 1)
      BY <3>2, WindowAdvance
    <3> QED BY <3>1, <3>3
  <2> HIDE DEF r
  <2>8. at' = Advance("camera", r, k - 1)
    <3>1. k - 1 \in Nat /\ (k - 1) + 1 = k
      BY <2>2
    <3> QED BY <1>8, <2>3, <2>7, <3>1 DEF ReadByte
  <2>9. ASSUME NEW i \in 1 .. k - 1
        PROVE  ring'[i] = ByteAt("camera", Advance("camera", r, i - 1))
    <3>1. i + 1 \in 1 .. k /\ (i + 1) - 1 = i /\ i - 1 \in Nat /\ (i - 1) + 1 = i
      BY <2>2
    <3>2. ring[i + 1] = ByteAt("camera", Advance("camera", q, i))
      BY <2>3, <3>1
    <3>3. Advance("camera", r, i - 1) = Advance("camera", q, i)
      BY <2>7, <3>1
    <3> QED BY <2>2, <3>2, <3>3
  <2>10. InRow(r)'
    BY <1>1, <1>2, <2>2, <2>8, <2>9 DEF InRow
  <2>11. lost' = lost /\ rx_indicate' = rx_indicate /\ pc' = pc
    BY <1>8 DEF ReadByte
  <2> QED BY <1>1, <1>3, <2>4, <2>6, <2>10, <2>11 DEF Uart3Inv
<1>9. ASSUME NEW u \in users, ReadNone(u) PROVE Uart3Inv'
  <2>1. u = "camera" /\ pc'["camera"] = "take" /\ pc["camera"] = "read"
    BY <1>0, <1>2, <1>9 DEF ReadNone, TypeOK
  <2> QED BY <1>3, <1>6, <1>9, <2>1 DEF ReadNone
<1>10. ASSUME NEW u \in users, SemTake(u) PROVE Uart3Inv'
  <2>1. u = "camera" /\ pc'["camera"] = "read" /\ pc["camera"] = "take"
    BY <1>0, <1>2, <1>10 DEF SemTake, TypeOK
  <2> QED BY <1>3, <1>6, <1>10, <2>1 DEF SemTake
<1>11. ASSUME NEW k \in 1 .. MaxChunk, Arrive(k) PROVE Uart3Inv'
  <2> DEFINE n == Len(ring)
             c == Chunk(k)
  <2>1. c \in Seq(Bytes("camera")) /\ Len(c) = k
        /\ \A i \in 1 .. k : c[i] = ByteAt("camera", Advance("camera", at, i - 1))
    BY <1>2, <1>5, ChunkFacts
  <2>2. /\ at = Advance("camera", q, n)
        /\ \A i \in 1 .. n : ring[i] = ByteAt("camera", Advance("camera", q, i - 1))
    BY <1>2, <1>4 DEF InRow
  <2>3. rx_indicate # "action"
    BY <1>3
  <2>4. ring \o c \in Seq(Bytes(device)) /\ RxIndicate(ring \o c)
    BY <1>2, <1>5, <1>11, <2>1 DEF Arrive
  <2>5. ring' = ring \o c /\ dec' = dec
    BY <1>0, <2>3, <2>4, IndicateFacts
  <2>6. at' = Advance("camera", at, k)
    BY <1>2, <1>11 DEF Arrive
  <2>7. k \in Nat /\ n \in Nat
    BY <1>5
  <2> HIDE DEF c
  <2>8. Len(ring') = n + k
        /\ (\A i \in 1 .. n : ring'[i] = ring[i]) /\ (\A i \in 1 .. k : ring'[n + i] = c[i])
    <3>1. ring \in Seq(Bytes("camera")) /\ c \in Seq(Bytes("camera"))
      BY <1>5, <2>1
    <3>2. /\ Len(ring \o c) = Len(ring) + Len(c)
          /\ \A i \in 1 .. Len(ring) : (ring \o c)[i] = ring[i]
          /\ \A i \in 1 .. Len(c) : (ring \o c)[Len(ring) + i] = c[i]
      BY <3>1, ConcatFacts
    <3> QED BY <2>1, <2>5, <3>2
  <2> HIDE DEF n
  <2>9. at' = Advance("camera", q, n + k)
    BY <2>2, <2>6, <2>7, AdvanceSum
  <2>10. ASSUME NEW i \in 1 .. n + k
         PROVE  ring'[i] = ByteAt("camera", Advance("camera", q, i - 1))
    <3>1. CASE i <= n
      <4>1. i \in 1 .. n
        BY <2>7, <3>1
      <4> QED BY <2>2, <2>8, <4>1
    <3>2. CASE i > n
      <4>1. i - n \in 1 .. k /\ n + (i - n) = i /\ (i - n) - 1 \in Nat
            /\ i - 1 = n + ((i - n) - 1)
        BY <2>7, <3>2
      <4>2. ring'[i] = ByteAt("camera", Advance("camera", at, (i - n) - 1))
        BY <2>1, <2>8, <4>1
      <4>3. Advance("camera", at, (i - n) - 1) = Advance("camera", q, i - 1)
        BY <2>2, <2>7, <4>1, WindowAdvance
      <4> QED BY <4>2, <4>3
    <3> QED BY <2>7, <3>1, <3>2
  <2>11. InRow(q)'
    BY <1>1, <1>2, <2>8, <2>9, <2>10 DEF InRow
  <2>12. lost' = lost /\ rx_indicate' = rx_indicate /\ pc' = pc
    BY <1>11 DEF Arrive
  <2> QED BY <1>1, <1>3, <1>4, <2>5, <2>11, <2>12 DEF Uart3Inv
<1>12. ~Overflow
  <2> SUFFICES ASSUME Overflow PROVE FALSE
    OBVIOUS
  <2>1. Asleep("camera") /\ Len(ring) = RingSize
    BY <1>2 DEF Overflow
  <2>2. ring # << >>
    <3> SUFFICES ASSUME ring = << >> PROVE FALSE
      OBVIOUS
    <3>1. Len(ring) = 0
      OBVIOUS
    <3> QED BY <2>1, <3>1, UartLineAssumption
  <2>3. pc["camera"] # "start"
    BY <2>1 DEF Asleep
  <2> QED BY <1>0, <1>2, <1>3, <1>5, <2>1, <2>2, <2>3 DEF OwnerAwake
<1>13. ~LoseByte
  <2> SUFFICES ASSUME LoseByte PROVE FALSE
    OBVIOUS
  <2>1. "camera" \in LossyDevices /\ lost < MaxLost
    BY <1>2 DEF LoseByte
  <2> QED BY <1>3, <2>1, UartLineAssumption DEF CameraText
<1>14. CASE UNCHANGED vars
  BY <1>3, <1>6, <1>14 DEF vars
<1> QED BY <1>7, <1>8, <1>9, <1>10, <1>11, <1>12, <1>13, <1>14 DEF Next, Thread, Interrupt

-----------------------------------------------------------------------------
(***************************************************************************)
(* The line of the position module.                                        *)
(***************************************************************************)

(* k more bytes after m, with lo bytes lost before each of them.           *)
Extended(m, l, k, lo) == [j \in 1 .. m + k |-> IF j <= m THEN l[j] ELSE lo]

(* At most lo bytes have got lost before any of m bytes.                   *)
Below(m, l, lo) == \A i \in 1 .. m : l[i] <= lo

LEMMA ExtendedFacts ==
  ASSUME NEW dev \in Decoding, NEW p \in Places(dev), NEW m \in Nat, NEW l \in Losses(m),
         NEW lo \in 0 .. MaxLost, Below(m, l, lo), NEW k \in Nat
  PROVE  /\ Extended(m, l, k, lo) \in Losses(m + k)
         /\ Below(m + k, Extended(m, l, k, lo), lo)
         /\ \A j \in 1 .. m :
              Received(dev, p, Extended(m, l, k, lo))[j] = Received(dev, p, l)[j]
         /\ \A i \in 1 .. k :
              Received(dev, p, Extended(m, l, k, lo))[m + i]
                = ByteAt(dev, Advance(dev, Advance(dev, p, m + lo), i - 1))
<1> DEFINE x == Extended(m, l, k, lo)
<1>0. MaxLost \in Nat /\ lo \in Nat /\ m + k \in Nat
  BY UartLineAssumption
<1>1. /\ \A i \in 1 .. m : l[i] \in 0 .. MaxLost /\ l[i] <= lo
      /\ \A i, j \in 1 .. m : i <= j => l[i] <= l[j]
  BY DEF Losses, Below
<1>2. /\ DOMAIN x = 1 .. m + k /\ x = [j \in 1 .. m + k |-> x[j]]
      /\ \A j \in 1 .. m : j \in 1 .. m + k /\ x[j] = l[j]
      /\ \A j \in 1 .. m + k : j > m => x[j] = lo
  BY DEF Extended
<1> HIDE DEF x
<1>3. \A j \in 1 .. m + k : x[j] \in 0 .. MaxLost /\ x[j] <= lo
  <2> SUFFICES ASSUME NEW j \in 1 .. m + k PROVE x[j] \in 0 .. MaxLost /\ x[j] <= lo
    OBVIOUS
  <2>1. CASE j <= m
    <3>1. j \in 1 .. m
      BY <2>1
    <3> QED BY <1>1, <1>2, <3>1
  <2>2. CASE j > m
    <3>1. x[j] = lo
      BY <1>2, <2>2
    <3> QED BY <1>0, <3>1
  <2> QED BY <2>1, <2>2
<1>4. \A i, j \in 1 .. m + k : i <= j => x[i] <= x[j]
  <2> SUFFICES ASSUME NEW i \in 1 .. m + k, NEW j \in 1 .. m + k, i <= j PROVE x[i] <= x[j]
    OBVIOUS
  <2>1. CASE j <= m
    <3>1. i \in 1 .. m /\ j \in 1 .. m
      BY <2>1
    <3>2. x[i] = l[i] /\ x[j] = l[j]
      BY <1>2, <3>1
    <3> QED BY <1>1, <3>1, <3>2
  <2>2. CASE j > m
    <3>1. x[j] = lo
      BY <1>2, <2>2
    <3> QED BY <1>3, <3>1
  <2> QED BY <2>1, <2>2
<1>5. x \in [1 .. m + k -> 0 .. MaxLost]
  BY <1>2, <1>3
<1>6. x \in Losses(m + k)
  BY <1>4, <1>5 DEF Losses
<1>7. ASSUME NEW j \in 1 .. m PROVE Received(dev, p, x)[j] = Received(dev, p, l)[j]
  <2>1. j \in 1 .. m + k /\ x[j] = l[j]
    BY <1>2
  <2>2. Received(dev, p, x)[j] = ByteAt(dev, Advance(dev, p, j - 1 + x[j]))
    BY <1>0, <1>6, <2>1, ReceivedFacts
  <2>3. Received(dev, p, l)[j] = ByteAt(dev, Advance(dev, p, j - 1 + l[j]))
    BY ReceivedFacts
  <2> QED BY <2>1, <2>2, <2>3
<1>8. ASSUME NEW i \in 1 .. k
      PROVE  Received(dev, p, x)[m + i]
                = ByteAt(dev, Advance(dev, Advance(dev, p, m + lo), i - 1))
  <2>1. m + i \in 1 .. m + k /\ m + i > m
    OBVIOUS
  <2>2. x[m + i] = lo
    BY <1>2, <2>1
  <2>3. Received(dev, p, x)[m + i] = ByteAt(dev, Advance(dev, p, (m + i) - 1 + x[m + i]))
    BY <1>0, <1>6, <2>1, ReceivedFacts
  <2>4. m + lo \in Nat /\ i - 1 \in Nat /\ (m + i) - 1 + lo = (m + lo) + (i - 1)
    BY <1>0
  <2>5. Advance(dev, Advance(dev, p, m + lo), i - 1) = Advance(dev, p, (m + i) - 1 + lo)
    BY <2>4, WindowAdvance
  <2> QED BY <2>2, <2>3, <2>5
<1>9. Below(m + k, x, lo)
  BY <1>3 DEF Below
<1> QED BY <1>6, <1>7, <1>8, <1>9 DEF x

(* What the decoder has taken is all that ActionAt speaks of.              *)
LEMMA ActionPrefix ==
  ASSUME NEW dev, NEW d, NEW w, NEW v, NEW c \in Nat, ActionAt(dev, d, w, c),
         \A j \in 1 .. c : v[j] = w[j]
  PROVE  ActionAt(dev, d, v, c)
<1>1. d.count = 1 => c >= 1 /\ v[c].mark = "0D"
  <2> SUFFICES ASSUME d.count = 1 PROVE c >= 1 /\ v[c].mark = "0D"
    OBVIOUS
  <2>1. c >= 1 /\ w[c].mark = "0D"
    BY DEF ActionAt
  <2>2. c \in 1 .. c
    BY <2>1
  <2> QED BY <2>1, <2>2
<1>2. ASSUME d.count \in 2 .. 4
      PROVE  \E h \in 2 .. c :
         /\ v[h - 1].mark = "0D" /\ v[h].mark = "0A"
         /\ \A i \in 1 .. Len(d.date) : d.date[i] = v[h + i]
         /\ d.count = 2 => Len(d.date) < Size /\ c = h + Len(d.date)
         /\ d.count = 3 => Len(d.date) = Size /\ c = h + Size
         /\ d.count = 4 => Len(d.date) = Size /\ c = h + Size + 1 /\ v[c].mark = "0A"
  <2>0. Len(d.date) \in Nat /\ Size \in Nat
    BY DecodersAssumption DEF ActionAt, ActionStates
  <2>1. PICK h \in 2 .. c :
         /\ w[h - 1].mark = "0D" /\ w[h].mark = "0A"
         /\ \A i \in 1 .. Len(d.date) : d.date[i] = w[h + i]
         /\ d.count = 2 => Len(d.date) < Size /\ c = h + Len(d.date)
         /\ d.count = 3 => Len(d.date) = Size /\ c = h + Size
         /\ d.count = 4 => Len(d.date) = Size /\ c = h + Size + 1 /\ w[c].mark = "0A"
    BY <1>2 DEF ActionAt
  <2> DEFINE k == Len(d.date)
  <2>2. h - 1 \in 1 .. c /\ h \in 1 .. c /\ c \in 1 .. c
    OBVIOUS
  <2>3. h + k <= c
    <3>1. d.count = 2 \/ d.count = 3 \/ d.count = 4
      BY <1>2
    <3>2. k \in Nat /\ (d.count = 2 => c = h + k) /\ (d.count = 3 => k = Size /\ c = h + Size)
          /\ (d.count = 4 => k = Size /\ c = h + Size + 1)
      BY <2>0, <2>1
    <3> HIDE DEF k
    <3> QED BY <2>0, <3>1, <3>2
  <2>4. ASSUME NEW i \in 1 .. k PROVE v[h + i] = w[h + i]
    <3>1. k \in Nat
      BY <2>0
    <3> HIDE DEF k
    <3>2. h + i \in 1 .. c
      BY <2>3, <3>1
    <3> QED BY <3>2
  <2>5. v[h - 1] = w[h - 1] /\ v[h] = w[h] /\ v[c] = w[c]
    BY <2>2
  <2>6. \A i \in 1 .. Len(d.date) : d.date[i] = v[h + i]
    BY <2>1, <2>4
  <2> QED BY <2>1, <2>5, <2>6
<1> QED BY <1>1, <1>2 DEF ActionAt

-----------------------------------------------------------------------------
(* From place p on m bytes have been received, l[j] lost before the j-th;  *)
(* the last of them are in the ring, the others the decoder has taken.     *)
History(p, m, l) ==
  /\ p \in Places(device) /\ m \in Nat /\ l \in Losses(m)
  /\ Below(m, l, lost)
  /\ at = Advance(device, p, m + lost)
  /\ Len(ring) <= m
  /\ \A i \in 1 .. Len(ring) : ring[i] = Received(device, p, l)[m - Len(ring) + i]
  /\ ActionAt(device, dec["action"], Received(device, p, l), m - Len(ring))

(* The line of the position module: its decoder has taken all that was     *)
(* received up to now but the ring, until the inertial unit takes the line *)
(* over for ever.                                                          *)
Uart7Inv ==
  uart = "uart7" =>
    /\ dec["action"].got \in Gots("action", device)
    /\ pc["imu"] # "start" => pc["action"] = "done" /\ rx_indicate = "imu"
    /\ pc["imu"] = "start" => \E p, m, l : History(p, m, l)

(* The history of the line grows with each interrupt by what arrives, and  *)
(* what the function of the position module takes is a part of it.         *)
LEMMA NextUart7 ==
  ASSUME NoFalseFrame, BytesInv, Uart7Inv, IInv', BytesInv', [Next]_vars
  PROVE  Uart7Inv'
<1>0. /\ TypeOK /\ NotReading /\ OwnBytes /\ TypeOK'
  BY DEF BytesInv
<1>1. uart' = uart /\ device' = device
  BY DEF Next, Thread, SetRxIndicate, ReadByte, ReadNone, SemTake, Interrupt, Arrive,
         Overflow, LoseByte, attached, vars
<1> SUFFICES ASSUME uart = "uart7" PROVE Uart7Inv'
  BY <1>1 DEF Uart7Inv
<1>2. /\ users = {"action", "imu"} /\ DOMAIN dec = {"action", "imu"}
      /\ device \in {"action", "imu"} /\ device \in Decoding
  BY <1>0, LineUsers
<1>3. /\ dec["action"].got \in Gots("action", device)
      /\ pc["imu"] # "start" => pc["action"] = "done" /\ rx_indicate = "imu"
      /\ pc["imu"] = "start" => \E p, m, l : History(p, m, l)
  BY DEF Uart7Inv
<1>4. "action" \notin Reading /\ pc["action"] \in {"start", "done"}
  BY <1>0, <1>2 DEF Reading, NotReading
<1>5. ring \in Seq(Bytes(device)) /\ Len(ring) \in Nat /\ at \in Places(device)
      /\ lost \in 0 .. MaxLost /\ lost \in Nat
  BY <1>0, UartLineAssumption DEF OwnBytes, TypeOK
<1>6. ASSUME lost' = lost, at' = at, ring' = ring, dec' = dec,
             pc'["imu"] # "start" => pc'["action"] = "done" /\ rx_indicate' = "imu",
             pc'["imu"] = "start" => pc["imu"] = "start"
      PROVE  Uart7Inv'
  <2>1. ASSUME NEW p, NEW m, NEW l, History(p, m, l) PROVE History(p, m, l)'
    BY <1>1, <1>6, <2>1 DEF History
  <2> QED BY <1>1, <1>3, <1>6, <2>1 DEF Uart7Inv
<1>7. ASSUME NEW u \in users, SetRxIndicate(u), Runs(u) PROVE Uart7Inv'
  <2>1. pc[u] = "start" /\ rx_indicate' = u /\ \A v \in users \ {u} : pc'[v] = pc[v]
    BY <1>0, <1>7 DEF SetRxIndicate, TypeOK
  <2>2. CASE u = "action"
    <3>1. pc["imu"] = "start"
      BY <1>3, <2>1, <2>2
    <3>2. pc'["imu"] = "start"
      BY <1>2, <2>1, <2>2, <3>1
    <3> QED BY <1>6, <1>7, <3>1, <3>2 DEF SetRxIndicate
  <2>3. CASE u = "imu"
    <3>1. Priority["action"] < Priority["imu"]
      BY DEF Priority
    <3>2. Asleep("action")
      BY <1>2, <1>7, <2>3, <3>1 DEF Runs
    <3>3. pc["action"] = "done"
      BY <1>4, <3>2 DEF Asleep
    <3>4. pc'["action"] = "done"
      BY <1>2, <2>1, <2>3, <3>3
    <3> QED BY <1>6, <1>7, <2>1, <2>3, <3>4 DEF SetRxIndicate
  <2> QED BY <1>2, <2>2, <2>3
<1>8. ASSUME NEW u \in users, pc[u] \in {"read", "take"} 
      PROVE  /\ u = "imu" /\ pc["action"] = "done" /\ rx_indicate = "imu"
             /\ pc["imu"] # "start"
  BY <1>2, <1>3, <1>4, <1>8
<1>9. ASSUME dec'["action"] = dec["action"], pc["imu"] # "start", pc'["imu"] # "start",
             pc'["action"] = pc["action"], rx_indicate' = rx_indicate
      PROVE  Uart7Inv'
  BY <1>1, <1>3, <1>9 DEF Uart7Inv
<1>10. ASSUME NEW u \in users, ReadByte(u) PROVE Uart7Inv'
  <2>1. u = "imu" /\ pc["imu"] # "start"
    BY <1>8, <1>10 DEF ReadByte
  <2>2. dec'["action"] = dec["action"]
    BY <1>2, <1>10, <2>1, ReadFacts
  <2> QED BY <1>9, <1>10, <2>1, <2>2 DEF ReadByte
<1>11. ASSUME NEW u \in users, ReadNone(u) PROVE Uart7Inv'
  <2>1. u = "imu" /\ pc["imu"] # "start"
    BY <1>8, <1>11 DEF ReadNone
  <2>2. pc'["action"] = pc["action"] /\ pc'["imu"] # "start"
    BY <1>0, <1>2, <1>11, <2>1 DEF ReadNone, TypeOK
  <2> QED BY <1>9, <1>11, <2>1, <2>2 DEF ReadNone
<1>12. ASSUME NEW u \in users, SemTake(u) PROVE Uart7Inv'
  <2>1. u = "imu" /\ pc["imu"] # "start"
    BY <1>8, <1>12 DEF SemTake
  <2>2. pc'["action"] = pc["action"] /\ pc'["imu"] # "start"
    BY <1>0, <1>2, <1>12, <2>1 DEF SemTake, TypeOK
  <2> QED BY <1>9, <1>12, <2>1, <2>2 DEF SemTake
<1>13. ASSUME pc["imu"] # "start", NEW s \in Seq(Bytes(device)), RxIndicate(s),
              pc' = pc, rx_indicate' = rx_indicate
       PROVE  Uart7Inv'
  <2>1. dec' = dec
    BY <1>0, <1>3, <1>13, IndicateFacts
  <2> QED BY <1>9, <1>13, <2>1
<1>14. ASSUME NEW k \in 1 .. MaxChunk, Arrive(k) PROVE Uart7Inv'
  <2> DEFINE n == Len(ring)
             s == ring \o Chunk(k)
  <2>1. Chunk(k) \in Seq(Bytes(device)) /\ Len(Chunk(k)) = k
        /\ \A i \in 1 .. k : Chunk(k)[i] = ByteAt(device, Advance(device, at, i - 1))
    BY <1>2, <1>5, ChunkFacts
  <2>2. /\ s \in Seq(Bytes(device)) /\ Len(s) = n + k
        /\ (\A i \in 1 .. n : s[i] = ring[i])
        /\ (\A i \in 1 .. k : s[n + i] = ByteAt(device, Advance(device, at, i - 1)))
    <3> DEFINE c == Chunk(k)
    <3>0. ring \in Seq(Bytes(device)) /\ c \in Seq(Bytes(device)) /\ s = ring \o c
      BY <1>5, <2>1
    <3> HIDE DEF c, s
    <3>1. /\ ring \o c \in Seq(Bytes(device)) /\ Len(ring \o c) = Len(ring) + Len(c)
          /\ \A i \in 1 .. Len(ring) : (ring \o c)[i] = ring[i]
          /\ \A i \in 1 .. Len(c) : (ring \o c)[Len(ring) + i] = c[i]
      BY <3>0, ConcatFacts
    <3>2. /\ s \in Seq(Bytes(device)) /\ Len(s) = Len(ring) + Len(c)
          /\ \A i \in 1 .. Len(ring) : s[i] = ring[i]
          /\ \A i \in 1 .. Len(c) : s[Len(ring) + i] = c[i]
      BY <3>0, <3>1
    <3> QED BY <2>1, <3>2 DEF c
  <2>3. RxIndicate(s) /\ pc' = pc /\ rx_indicate' = rx_indicate /\ lost' = lost
        /\ at' = Advance(device, at, k)
    BY <1>14 DEF Arrive
  <2>4. n \in Nat /\ k \in Nat
    BY <1>5
  <2> HIDE DEF s
  <2>5. CASE pc["imu"] # "start"
    BY <1>13, <2>2, <2>3, <2>5
  <2>6. CASE pc["imu"] = "start"
    <3>1. PICK p, m, l : History(p, m, l)
      BY <1>3, <2>6
    <3>0. PICK x : x = Extended(m, l, k, lost)
      OBVIOUS
    <3> DEFINE w == Received(device, p, l)
               v == Received(device, p, x)
               c == m - n
    <3>2. /\ p \in Places(device) /\ m \in Nat /\ l \in Losses(m)
          /\ Below(m, l, lost)
          /\ at = Advance(device, p, m + lost)
          /\ n <= m
          /\ \A i \in 1 .. n : ring[i] = w[c + i]
          /\ ActionAt(device, dec["action"], w, c)
      BY <3>1 DEF History
    <3>3. /\ x \in Losses(m + k) /\ Below(m + k, x, lost)
          /\ \A j \in 1 .. m : v[j] = w[j]
          /\ \A i \in 1 .. k : v[m + i] = ByteAt(device, Advance(device, at, i - 1))
      <4>1. /\ Extended(m, l, k, lost) \in Losses(m + k)
            /\ Below(m + k, Extended(m, l, k, lost), lost)
            /\ \A j \in 1 .. m : Received(device, p, Extended(m, l, k, lost))[j] = w[j]
            /\ \A i \in 1 .. k :
                 Received(device, p, Extended(m, l, k, lost))[m + i]
                   = ByteAt(device, Advance(device, Advance(device, p, m + lost), i - 1))
        <5>1. /\ device \in Decoding /\ p \in Places(device) /\ m \in Nat /\ l \in Losses(m)
              /\ lost \in 0 .. MaxLost /\ k \in Nat /\ Below(m, l, lost)
          BY <1>2, <1>5, <2>4, <3>2
        <5> QED BY <5>1, ExtendedFacts
      <4> QED BY <3>0, <3>2, <4>1
    <3>4. \A i \in 1 .. m + k : v[i] \in Bytes(device)
      <4>1. m + k \in Nat
        BY <2>4, <3>2
      <4> QED BY <1>2, <3>2, <3>3, <4>1, ReceivedFacts
    <3>5. NoFalseIn(device, v, m + k)
      <4>1. m + k \in Nat
        BY <2>4, <3>2
      <4> QED BY <1>2, <3>2, <3>3, <4>1, ReceivedNoFalse
    <3>6. at' = Advance(device, p, (m + k) + lost)
      <4>1. m + lost \in Nat /\ (m + k) + lost = (m + lost) + k
        BY <1>5, <2>4, <3>2
      <4> QED BY <2>3, <2>4, <3>2, <4>1, WindowAdvance
    <3> HIDE DEF n, w, v, c
    <3>7. c \in Nat /\ c + n = m /\ c + (n + k) = m + k /\ m + k \in Nat
      BY <2>4, <3>2 DEF c
    <3>8. ASSUME NEW i \in 1 .. n + k PROVE s[i] = v[c + i]
      <4>1. CASE i <= n
        <5>1. i \in 1 .. n /\ c + i \in 1 .. m
          BY <2>4, <3>7, <4>1
        <5> QED BY <2>2, <3>2, <3>3, <5>1
      <4>2. CASE i > n
        <5>1. i - n \in 1 .. k /\ n + (i - n) = i /\ m + (i - n) = c + i
          BY <2>4, <3>2, <3>7, <4>2
        <5>2. s[n + (i - n)] = v[m + (i - n)]
          BY <2>2, <3>3, <5>1
        <5> QED BY <5>1, <5>2
      <4> QED BY <2>4, <4>1, <4>2
    <3>9. ActionAt(device, dec["action"], v, c)
      <4>1. \A j \in 1 .. c : j \in 1 .. m
        BY <2>4, <3>2, <3>7
      <4>2. \A j \in 1 .. c : v[j] = w[j]
        BY <3>3, <4>1
      <4> QED BY <3>2, <3>7, <4>2, ActionPrefix
    <3>10. ASSUME Len(ring') \in Nat, Len(ring') <= m + k,
                  \A i \in 1 .. Len(ring') : ring'[i] = v[(m + k) - Len(ring') + i],
                  ActionAt(device, dec'["action"], v, (m + k) - Len(ring'))
           PROVE  Uart7Inv'
      <4>1. History(p, m + k, x)'
        BY <1>1, <2>3, <3>2, <3>3, <3>6, <3>7, <3>10 DEF History, v
      <4>2. dec'["action"].got \in Gots("action", device)
        BY <3>10 DEF ActionAt, ActionStates
      <4> QED BY <1>1, <2>3, <2>6, <4>1, <4>2 DEF Uart7Inv
    <3>11. CASE rx_indicate = "action"
      <4>1. ring' = << >> /\ dec'["action"] = Analysed(dec["action"], s)
        BY <1>0, <1>2, <2>2, <2>3, <3>11, IndicateFacts
      <4>2. ActionAt(device, Analysed(dec["action"], s), v, m + k)
        <5>1. /\ Len(s) \in Nat /\ c + Len(s) = m + k
              /\ \A i \in 1 .. Len(s) : s[i] = v[c + i]
          BY <2>2, <2>4, <3>7, <3>8
        <5>2. \A i \in 1 .. Len(s) : v[c + i] \in Bytes(device)
          <6>1. \A i \in 1 .. n + k : c + i \in 1 .. m + k
            BY <2>4, <3>7
          <6> QED BY <2>2, <3>4, <6>1
        <5> QED BY <1>2, <3>5, <3>7, <3>9, <5>1, <5>2, AnalysedKeeps
      <4>3. Len(ring') = 0
        BY <4>1
      <4>4. (m + k) - 0 = m + k
        BY <3>7
      <4> QED BY <3>7, <3>10, <4>1, <4>2, <4>3, <4>4
    <3>12. CASE rx_indicate # "action"
      <4>1. ring' = s /\ dec' = dec
        BY <1>0, <2>2, <2>3, <3>12, IndicateFacts
      <4>2. Len(ring') = n + k /\ (m + k) - (n + k) = c /\ n + k <= m + k /\ n + k \in Nat
        BY <2>2, <2>4, <3>2, <3>7, <4>1
      <4> QED BY <3>8, <3>9, <3>10, <4>1, <4>2
    <3> QED BY <3>11, <3>12
  <2> QED BY <2>5, <2>6
<1>15. CASE Overflow
  <2>1. pc["imu"] # "start"
    BY <1>2, <1>15 DEF Overflow, Asleep
  <2> QED BY <1>5, <1>13, <1>15, <2>1 DEF Overflow
<1>16. CASE LoseByte
  <2>1. lost' = lost + 1 /\ at' = Successor(device, at)
        /\ UNCHANGED <<ring, rx_indicate, pc, dec>>
    BY <1>16 DEF LoseByte
  <2>2. ASSUME NEW p, NEW m, NEW l, History(p, m, l) PROVE History(p, m, l)'
    <3>1. /\ p \in Places(device) /\ m \in Nat /\ l \in Losses(m)
          /\ Below(m, l, lost)
          /\ at = Advance(device, p, m + lost)
      BY <2>2 DEF History
    <3>2. Below(m, l, lost + 1)
      <4>1. \A i \in 1 .. m : l[i] \in Nat
        BY <1>2, <3>1, ReceivedFacts
      <4> QED BY <1>5, <3>1, <4>1 DEF Below
    <3>3. at' = Advance(device, p, m + (lost + 1))
      <4>1. m + lost \in Nat /\ m + (lost + 1) = (m + lost) + 1
        BY <1>5, <3>1
      <4>2. Advance(device, p, (m + lost) + 1) = Successor(device, Advance(device, p, m + lost))
        BY <4>1, AdvanceStep
      <4> QED BY <2>1, <3>1, <4>1, <4>2
    <3> QED BY <1>1, <2>1, <2>2, <3>1, <3>2, <3>3 DEF History
  <2> QED BY <1>1, <1>3, <2>1, <2>2 DEF Uart7Inv
<1>17. CASE UNCHANGED vars
  BY <1>3, <1>6, <1>17 DEF vars
<1> QED BY <1>7, <1>10, <1>11, <1>12, <1>14, <1>15, <1>16, <1>17 DEF Next, Thread, Interrupt

-----------------------------------------------------------------------------
(***************************************************************************)
(* What decoders publish.                                                  *)
(***************************************************************************)

(* What user has published is the data of one frame of its own device.     *)
Whole(u) ==
  dec[u].got # << >> =>
    u = device /\ \E n \in FrameNumbers(u) : Wanted(u, n) /\ dec[u].got = Data(u, n)

(* The decoders that check a sum or a CRC. The sum is abstracted to a test *)
(* that holds of the bytes of one frame only.                              *)
SummedWhole == \A u \in DOMAIN dec \cap {"ibus", "flow", "imu"} : Whole(u)

(* Gots are the values that Whole allows.                                  *)
LEMMA GotWhole ==
  ASSUME NEW u, dec[u].got \in Gots(u, device)
  PROVE  Whole(u)
BY DEF Gots, Whole

LEMMA BytesWhole == BytesInv => SummedWhole
<1> SUFFICES ASSUME BytesInv, NEW u \in DOMAIN dec, u \in {"ibus", "flow", "imu"} PROVE Whole(u)
  BY DEF SummedWhole
<1>1. TypeOK /\ SumDecoders
  BY DEF BytesInv
<1>2. CASE uart = "uart8"
  <2>1. u \in {"ibus", "flow"}
    BY <1>1, <1>2, LineUsers
  <2>2. dec["ibus"] \in IbusStates(device) /\ dec["flow"] \in FlowStates(device)
    BY <1>1, <1>2 DEF SumDecoders
  <2>3. dec["ibus"].got \in Gots("ibus", device) /\ dec["flow"].got \in Gots("flow", device)
    BY <2>2 DEF IbusStates, FlowStates
  <2> QED BY <2>1, <2>3, GotWhole
<1>3. CASE uart = "uart7"
  <2>1. u = "imu"
    BY <1>1, <1>3, LineUsers
  <2>2. dec["imu"] \in ImuRecords(device)
    BY <1>1, <1>3 DEF SumDecoders, ImuStates
  <2>3. dec["imu"].got \in Gots("imu", device)
    BY <2>2 DEF ImuRecords
  <2> QED BY <2>1, <2>3, GotWhole
<1>4. CASE uart = "uart3"
  BY <1>1, <1>4, LineUsers
<1> QED BY <1>1, <1>2, <1>3, <1>4, LineUsers

LEMMA InitUart3 == Init => Uart3Inv
<1> SUFFICES ASSUME Init, uart = "uart3" PROVE Uart3Inv
  BY DEF Uart3Inv
<1>1. BytesInv /\ TypeOK
  BY InitBytes DEF BytesInv
<1>2. users = {"camera"} /\ DOMAIN dec = {"camera"} /\ device = "camera" /\ device \in Decoding
  BY <1>1, LineUsers
<1>3. lost = 0 /\ rx_indicate = "none" /\ pc["camera"] = "start" /\ ring = << >>
  BY <1>2 DEF Init
<1>4. dec["camera"] = Fresh["camera"]
  BY <1>2 DEF Init
<1>5. at \in Places("camera")
  BY <1>2 DEF Init
<1>6. InRow(at)
  <2>1. Len(ring) = 0 /\ Advance(device, at, 0) = at
    BY <1>3, AdvanceStep
  <2> QED BY <2>1 DEF InRow
<1>7. CameraAt(dec["camera"], at)
  BY <1>2, <1>4, FreshFacts DEF CameraAt
<1> QED BY <1>3, <1>5, <1>6, <1>7 DEF Uart3Inv

LEMMA InitUart7 == Init => Uart7Inv
<1> SUFFICES ASSUME Init, uart = "uart7" PROVE Uart7Inv
  BY DEF Uart7Inv
<1>1. BytesInv /\ TypeOK
  BY InitBytes DEF BytesInv
<1>2. users = {"action", "imu"} /\ DOMAIN dec = {"action", "imu"} /\ device \in Decoding
  BY <1>1, LineUsers
<1>3. lost = 0 /\ pc["imu"] = "start" /\ ring = << >> /\ at \in Places(device)
  BY <1>2 DEF Init
<1>4. dec["action"] = Fresh["action"]
  BY <1>2 DEF Init
<1>5. dec["action"] \in ActionStates(device) /\ dec["action"].count = 0
  BY <1>2, <1>4, FreshFacts
<1> DEFINE m == 0
           l == [j \in 1 .. m |-> 0]
<1>6. l \in Losses(m) /\ Below(m, l, lost) /\ m \in Nat
  BY DEF Losses, Below
<1>7. at = Advance(device, at, m + lost)
  <2>1. m + lost = 0
    BY <1>3
  <2> QED BY <2>1, AdvanceStep
<1>8. Len(ring) = 0 /\ m - Len(ring) = 0 /\ Len(ring) <= m
  <2>1. Len(ring) = 0
    BY <1>3
  <2> QED BY <2>1
<1>9. ActionAt(device, dec["action"], Received(device, at, l), m - Len(ring))
  BY <1>5 DEF ActionAt
<1> HIDE DEF l, m
<1>10. History(at, m, l)
  BY <1>3, <1>6, <1>7, <1>8, <1>9 DEF History
<1>11. dec["action"].got \in Gots("action", device)
  BY <1>5 DEF ActionStates
<1> QED BY <1>3, <1>10, <1>11 DEF Uart7Inv

(* The inductive invariant OnlyWhole follows from.                         *)
WholeInv == IInv /\ BytesInv /\ Uart3Inv /\ Uart7Inv

LEMMA WholeInvInit == Init => WholeInv
BY InitIInv, InitBytes, InitUart3, InitUart7 DEF WholeInv

LEMMA WholeInvNext ==
  ASSUME NoFalseFrame, CameraText
  PROVE  WholeInv /\ [Next]_vars => WholeInv'
<1> SUFFICES ASSUME WholeInv, [Next]_vars PROVE WholeInv'
  OBVIOUS
<1>1. IInv /\ BytesInv /\ Uart3Inv /\ Uart7Inv /\ CameraInv
  BY DEF WholeInv, IInv, CameraInv
<1>2. IInv'
  BY <1>1, NextIInv
<1>3. BytesInv'
  BY <1>1, <1>2, NextBytes
<1>4. Uart3Inv'
  BY <1>1, <1>2, <1>3, NextUart3
<1>5. Uart7Inv'
  BY <1>1, <1>2, <1>3, NextUart7
<1> QED BY <1>2, <1>3, <1>4, <1>5 DEF WholeInv

LEMMA WholeInvWhole == WholeInv => OnlyWhole
<1> SUFFICES ASSUME WholeInv, NEW u \in DOMAIN dec PROVE Whole(u)
  BY DEF OnlyWhole, Whole
<1>1. TypeOK /\ BytesInv /\ Uart3Inv /\ Uart7Inv
  BY DEF WholeInv, BytesInv
<1>2. CASE u \in {"ibus", "flow", "imu"}
  BY <1>1, <1>2, BytesWhole DEF SummedWhole
<1>3. CASE u = "action"
  <2>1. uart = "uart7"
    BY <1>1, <1>3, LineUsers
  <2>2. dec["action"].got \in Gots("action", device)
    BY <1>1, <2>1 DEF Uart7Inv
  <2> QED BY <1>3, <2>2, GotWhole
<1>4. CASE u = "camera"
  <2>1. uart = "uart3" /\ device = "camera"
    BY <1>1, <1>4, LineUsers
  <2>2. dec["camera"] \in CameraStates
    BY <1>1, <2>1 DEF Uart3Inv, CameraAt
  <2>3. dec["camera"].got \in Gots("camera", "camera")
    BY <2>2 DEF CameraStates
  <2> QED BY <1>4, <2>1, <2>3, GotWhole
<1>5. u \in {"ibus", "flow", "imu", "action", "camera"}
  BY <1>1, LineUsers
<1> QED BY <1>2, <1>3, <1>4, <1>5

(* What the decoders of the remote control, of the optical flow and of the *)
(* inertial unit publish is the data of one frame of their own device,     *)
(* whatever it sends, whatever is lost of it, and whoever else takes bytes *)
(* off the same ring.                                                      *)
THEOREM SummedWholeAlways == Spec => []SummedWhole
<1>1. Init => IInv /\ BytesInv
  BY InitIInv, InitBytes
<1>2. IInv /\ BytesInv /\ [Next]_vars => IInv' /\ BytesInv'
  BY NextIInv, NextBytes
<1> QED BY <1>1, <1>2, BytesWhole, PTL DEF Spec

(* Where nothing that is received in a row looks like a frame to the       *)
(* position module but one of its frames, and the text of the camera comes *)
(* complete and without delimiters in a number, no decoder publishes       *)
(* anything but the data of one frame of its own device.                   *)
THEOREM OnlyWholeAlways == ASSUME NoFalseFrame, CameraText PROVE Spec => []OnlyWhole
<1>1. WholeInv /\ [Next]_vars => WholeInv'
  BY WholeInvNext
<1> QED BY WholeInvInit, <1>1, WholeInvWhole, PTL DEF Spec

-----------------------------------------------------------------------------
(***************************************************************************)
(* When nothing looks like a frame to the position module but a frame: no  *)
(* delimiter within the data, and fewer bytes lost than a frame has.       *)
(***************************************************************************)

(* No byte of the data on the line of the position module is marked like   *)
(* one of its delimiters, and fewer bytes get lost than one of its frames  *)
(* has: the end of a frame is not joined to the start of another.          *)
PlainData ==
  /\ \A dev \in Users.uart7 : \A n \in FrameNumbers(dev), i \in 1 .. Size :
       Alias(dev, n, i) \notin {"0D", "0A"}
  /\ MaxLost < Size + 4

(* Which device it is, in a form the provers do not replace dev by.        *)
IsImu(dev) == dev = "imu"

IsAction(dev) == dev = "action"

(* A part of a sequence has elements of the sequence.                      *)
LEMMA PrefixType ==
  ASSUME NEW A, NEW s \in Seq(A), NEW n \in Nat, n <= Len(s)
  PROVE  SubSeq(s, 1, n) \in Seq(A)
<1>1. SubSeq(s, 1, n) = [i \in 1 .. n |-> s[i]]
  OBVIOUS
<1>2. \A i \in 1 .. n : s[i] \in A
  OBVIOUS
<1> QED BY <1>1, <1>2

(* Nothing the inertial unit sends looks like the start of a frame of the  *)
(* position module.                                                        *)
LEMMA ImuMarks ==
  ASSUME PlainData, NEW dev \in Decoding, IsImu(dev),
         NEW n \in FrameNumbers(dev), NEW i \in 1 .. Len(Marks(dev, n))
  PROVE  Marks(dev, n)[i] # "0D"
<1> DEFINE k == DataLen(dev, n)
<1>1. /\ dev \in Users.uart7 /\ Size \in Nat /\ Len(Before[dev]) = 7 /\ Len(After[dev]) = 1
      /\ Before[dev] = <<"FC", "-", "-", "-", "-", "-", "-">> /\ After[dev] = <<"FD">>
  BY Delimiters, DecodersAssumption DEF Users, IsImu
<1>2. k \in 0 .. Size /\ k \in Nat
  BY <1>1, DataLenFacts
<1>3. CASE k = 0
  <2> DEFINE s == Before[dev]
             A == {"FC", "-"}
  <2>1. Marks(dev, n) = SubSeq(s, 1, 5)
    BY <1>3 DEF Marks
  <2>2. s \in Seq(A) /\ Len(s) = 7
    BY <1>1
  <2> HIDE DEF s, A
  <2>3. SubSeq(s, 1, 5) \in Seq(A)
    <3>1. 5 \in Nat /\ 5 <= Len(s)
      BY <2>2
    <3> QED BY <2>2, <3>1, PrefixType
  <2>4. Marks(dev, n)[i] \in A
    BY <2>1, <2>3
  <2> QED BY <2>4 DEF A
<1>4. CASE k # 0
  <2>1. /\ Len(Marks(dev, n)) = Len(Before[dev]) + k + Len(After[dev])
        /\ \A j \in 1 .. Len(Before[dev]) : Marks(dev, n)[j] = Before[dev][j]
        /\ \A j \in 1 .. k : Marks(dev, n)[Len(Before[dev]) + j] = Alias(dev, n, j)
        /\ \A j \in 1 .. Len(After[dev]) :
             Marks(dev, n)[Len(Before[dev]) + k + j] = After[dev][j]
    BY <1>4, MarksShape
  <2>2. /\ Len(Marks(dev, n)) = 7 + k + 1
        /\ \A j \in 1 .. 7 : Marks(dev, n)[j] = Before[dev][j]
        /\ \A j \in 1 .. k : Marks(dev, n)[7 + j] = Alias(dev, n, j)
        /\ \A j \in 1 .. 1 : Marks(dev, n)[7 + k + j] = After[dev][j]
    BY <1>1, <2>1
  <2> HIDE DEF k
  <2>3. CASE i \in 1 .. 7
    <3>1. Before[dev][i] # "0D"
      BY <1>1, <2>3
    <3> QED BY <2>2, <2>3, <3>1
  <2>4. CASE i - 7 \in 1 .. k
    <3>0. i \in Int
      BY <1>2, <2>2
    <3>1. 7 + (i - 7) = i /\ i - 7 \in 1 .. Size
      BY <1>1, <1>2, <2>4, <3>0
    <3>2. Marks(dev, n)[7 + (i - 7)] = Alias(dev, n, i - 7)
      BY <2>2, <2>4
    <3> QED BY <1>1, <3>1, <3>2 DEF PlainData
  <2>5. CASE i = 7 + k + 1
    <3>1. 1 \in 1 .. 1 /\ After[dev][1] = "FD"
      BY <1>1
    <3>2. Marks(dev, n)[7 + k + 1] = "FD"
      BY <2>2, <3>1
    <3> QED BY <2>5, <3>2
  <2> QED BY <1>2, <2>2, <2>3, <2>4, <2>5
<1> QED BY <1>3, <1>4

(* The delimiters of the position module are where they belong.            *)
LEMMA ActionMarks ==
  ASSUME PlainData, NEW dev \in Decoding, IsAction(dev), NEW n \in FrameNumbers(dev)
  PROVE  /\ Len(Marks(dev, n)) = Size + 4
         /\ \A i \in 1 .. Size + 4 :
              /\ Marks(dev, n)[i] = "0D" => i \in {1, Size + 4}
              /\ Marks(dev, n)[i] = "0A" => i \in {2, Size + 3}
<1> DEFINE f == Marks(dev, n)
<1>1. dev \in Users.uart7 /\ Size \in Nat \ {0} /\ DataLen(dev, n) = Size
  BY DecodersAssumption, DataLenFacts DEF Users, IsAction
<1>2. /\ Before[dev] = <<"0D", "0A">> /\ After[dev] = <<"0A", "0D">>
      /\ Len(Before[dev]) = 2 /\ Len(After[dev]) = 2
  BY Delimiters DEF IsAction
<1>9. /\ Len(f) = Len(Before[dev]) + DataLen(dev, n) + Len(After[dev])
      /\ \A i \in 1 .. Len(Before[dev]) : f[i] = Before[dev][i]
      /\ \A i \in 1 .. DataLen(dev, n) : f[Len(Before[dev]) + i] = Alias(dev, n, i)
      /\ \A i \in 1 .. Len(After[dev]) :
           f[Len(Before[dev]) + DataLen(dev, n) + i] = After[dev][i]
  BY <1>1, MarksShape
<1>3. /\ Len(f) = 2 + Size + 2
      /\ \A i \in 1 .. 2 : f[i] = Before[dev][i]
      /\ \A i \in 1 .. Size : f[2 + i] = Alias(dev, n, i)
      /\ \A i \in 1 .. 2 : f[2 + Size + i] = After[dev][i]
  BY <1>1, <1>2, <1>9
<1> HIDE DEF f
<1>4. f[1] = "0D" /\ f[2] = "0A"
  <2>1. 1 \in 1 .. 2 /\ 2 \in 1 .. 2 /\ Before[dev][1] = "0D" /\ Before[dev][2] = "0A"
    BY <1>2
  <2> QED BY <1>3, <2>1
<1>5. f[Size + 3] = "0A" /\ f[Size + 4] = "0D"
  <2>1. 1 \in 1 .. 2 /\ 2 \in 1 .. 2 /\ After[dev][1] = "0A" /\ After[dev][2] = "0D"
        /\ 2 + Size + 1 = Size + 3 /\ 2 + Size + 2 = Size + 4
    BY <1>1, <1>2
  <2>2. f[2 + Size + 1] = "0A" /\ f[2 + Size + 2] = "0D"
    BY <1>3, <2>1
  <2> QED BY <2>1, <2>2
<1>6. ASSUME NEW i \in 3 .. Size + 2 PROVE f[i] \notin {"0D", "0A"}
  <2>1. i - 2 \in 1 .. Size /\ 2 + (i - 2) = i
    BY <1>1
  <2>2. f[2 + (i - 2)] = Alias(dev, n, i - 2)
    BY <1>3, <2>1
  <2> QED BY <1>1, <2>1, <2>2 DEF PlainData
<1>7. ASSUME NEW i \in 1 .. Size + 4
      PROVE  (f[i] = "0D" => i \in {1, Size + 4}) /\ (f[i] = "0A" => i \in {2, Size + 3})
  <2>1. i \in 3 .. Size + 2 \/ i = 1 \/ i = 2 \/ i = Size + 3 \/ i = Size + 4
    BY <1>1
  <2> QED BY <1>4, <1>5, <1>6, <2>1
<1>8. Len(f) = Size + 4
  BY <1>1, <1>3
<1> QED BY <1>7, <1>8 DEF f

(* Frames of the position module are of one length: frame m follows n.     *)
LEMMA ActionRun ==
  ASSUME NEW dev \in Decoding, IsAction(dev), NEW n \in FrameNumbers(dev), NEW a \in 1 .. Size + 4
  PROVE  \E m \in FrameNumbers(dev) : \A k \in Nat :
           /\ a + k <= Size + 4 => Advance(dev, <<n, a>>, k) = <<n, a + k>>
           /\ a + k > Size + 4 =>
                Advance(dev, <<n, a>>, k)
                  = Advance(dev, <<m, 1>>, (a + k) - (Size + 5))
<1> DEFINE p == <<n, a>>
           m == (n + 1) % NumFrames[dev]
           S == {k \in Nat : a + k <= Size + 4 => Advance(dev, p, k) = <<n, a + k>>}
<1>0. Size \in Nat \ {0} /\ a \in Nat /\ DataLen(dev, n) = Size
  BY DecodersAssumption, DataLenFacts DEF IsAction
<1>1. Len(Frames[dev][n]) = Size + 4
  <2>1. Len(Before[dev]) = 2 /\ Len(After[dev]) = 2
    BY Delimiters DEF IsAction
  <2>2. Len(Marks(dev, n)) = Len(Before[dev]) + Size + Len(After[dev])
    BY <1>0, MarksShape
  <2>3. Len(Frames[dev][n]) = Len(Marks(dev, n))
    BY FrameShape
  <2> QED BY <1>0, <2>1, <2>2, <2>3
<1>2. ASSUME NEW i PROVE
        Successor(dev, <<n, i>>)
          = IF i < Size + 4 THEN <<n, i + 1>> ELSE <<m, 1>>
  BY <1>1 DEF Successor
<1>3. m \in FrameNumbers(dev)
  <2>1. NumFrames[dev] \in Nat \ {0} /\ n \in Nat
    BY <1>0, DecodersAssumption, DataLenFacts
  <2>2. m \in 0 .. NumFrames[dev] - 1
    BY <2>1
  <2> QED BY <2>2 DEF FrameNumbers
<1> HIDE DEF m
<1>4. 0 \in S
  <2>1. a + 0 = a
    BY <1>0
  <2> QED BY <2>1, AdvanceStep
<1>5. ASSUME NEW k \in Nat, k \in S PROVE k + 1 \in S
  <2>1. SUFFICES ASSUME a + (k + 1) <= Size + 4
                 PROVE  Advance(dev, p, k + 1) = <<n, a + (k + 1)>>
    OBVIOUS
  <2>2. a + k <= Size + 4 /\ a + k < Size + 4 /\ (a + k) + 1 = a + (k + 1)
    BY <1>0, <2>1
  <2>3. Advance(dev, p, k) = <<n, a + k>>
    BY <1>5, <2>2
  <2> HIDE DEF p, S
  <2>4. Advance(dev, p, k + 1) = Successor(dev, Advance(dev, p, k))
    BY AdvanceStep
  <2> QED BY <1>2, <2>2, <2>3, <2>4
<1>6. \A k \in Nat : a + k <= Size + 4 => Advance(dev, p, k) = <<n, a + k>>
  <2>1. Nat \subseteq S
    <3> HIDE DEF S
    <3> QED BY <1>4, <1>5, NatInd
  <2> QED BY <2>1
<1> HIDE DEF S, p
<1>7. Advance(dev, p, (Size + 4 - a) + 1) = <<m, 1>>
  <2>1. Size + 4 - a \in Nat /\ a + (Size + 4 - a) = Size + 4 /\ ~(Size + 4 < Size + 4)
        /\ a + (Size + 4 - a) <= Size + 4
    BY <1>0
  <2>2. Advance(dev, p, Size + 4 - a) = <<n, Size + 4>>
    <3>1. Advance(dev, p, Size + 4 - a) = <<n, a + (Size + 4 - a)>>
      BY <1>6, <2>1
    <3> QED BY <2>1, <3>1
  <2>3. Advance(dev, p, (Size + 4 - a) + 1)
          = Successor(dev, Advance(dev, p, Size + 4 - a))
    BY <2>1, AdvanceStep
  <2> QED BY <1>2, <2>1, <2>2, <2>3
<1>8. ASSUME NEW k \in Nat, a + k > Size + 4
      PROVE  Advance(dev, p, k) = Advance(dev, <<m, 1>>, (a + k) - (Size + 5))
  <2>1. /\ (Size + 4 - a) + 1 \in Nat /\ (a + k) - (Size + 5) \in Nat
        /\ k = ((Size + 4 - a) + 1) + ((a + k) - (Size + 5))
    BY <1>0, <1>8
  <2>2. Advance(dev, Advance(dev, p, (Size + 4 - a) + 1), (a + k) - (Size + 5))
          = Advance(dev, p, k)
    BY <2>1, WindowAdvance
  <2> QED BY <1>7, <2>2
<1> QED BY <1>3, <1>6, <1>8 DEF p

(* The same of the byte at a place.                                        *)
LEMMA MarkAt ==
  ASSUME PlainData, NEW dev \in Decoding, IsAction(dev),
         NEW n \in FrameNumbers(dev), NEW i \in 1 .. Size + 4
  PROVE  /\ ByteAt(dev, <<n, i>>).mark = "0D" => i \in {1, Size + 4}
         /\ ByteAt(dev, <<n, i>>).mark = "0A" => i \in {2, Size + 3}
<1>1. Len(Frames[dev][n]) = Size + 4
  <2>1. Len(Marks(dev, n)) = Size + 4
    BY ActionMarks
  <2> QED BY <2>1, FrameShape
<1> DEFINE p == <<n, i>>
<1>2. p[1] = n /\ p[2] = i /\ p = <<p[1], p[2]>>
  OBVIOUS
<1> HIDE DEF p
<1>3. p \in Places(dev)
  BY <1>1, <1>2, PlaceFacts
<1>4. ByteAt(dev, p).mark = Marks(dev, n)[i]
  BY <1>2, <1>3, ByteFacts
<1>5. /\ Marks(dev, n)[i] = "0D" => i \in {1, Size + 4}
      /\ Marks(dev, n)[i] = "0A" => i \in {2, Size + 3}
  BY ActionMarks
<1> QED BY <1>4, <1>5 DEF p

(* A byte s places after the start of frame n, of three that follow each   *)
(* other, where they are delimiters.                                       *)
Ahead(dev, n, m, s, b) ==
  /\ b.mark = "0D" => \/ s = 1 \/ s = Size + 4 \/ s = Size + 5 \/ s = 2 * Size + 8
                      \/ s = 2 * Size + 9 \/ s = 3 * Size + 12
  /\ b.mark = "0A" => \/ s = 2 \/ s = Size + 3 \/ s = Size + 6 \/ s = 2 * Size + 7
                      \/ s = 2 * Size + 10 \/ s = 3 * Size + 11
  /\ s <= Size + 4 => b = ByteAt(dev, <<n, s>>)
  /\ s > Size + 4 /\ s <= 2 * Size + 8 => b = ByteAt(dev, <<m, s - (Size + 4)>>)

LEMMA DelimitersAhead ==
  ASSUME PlainData, NEW dev \in Decoding, IsAction(dev),
         NEW n \in FrameNumbers(dev), NEW a \in 1 .. Size + 4
  PROVE  \E m \in FrameNumbers(dev) : \A k \in Nat :
           a + k <= 3 * Size + 12 =>
             Ahead(dev, n, m, a + k, ByteAt(dev, Advance(dev, <<n, a>>, k)))
<1>0. Size \in Nat \ {0} /\ a \in Nat /\ 1 \in 1 .. Size + 4
  BY DecodersAssumption
<1>1. PICK m \in FrameNumbers(dev) : \A k \in Nat :
           /\ a + k <= Size + 4 => Advance(dev, <<n, a>>, k) = <<n, a + k>>
           /\ a + k > Size + 4 =>
                Advance(dev, <<n, a>>, k)
                  = Advance(dev, <<m, 1>>, (a + k) - (Size + 5))
  BY ActionRun
<1>2. PICK o \in FrameNumbers(dev) : \A k \in Nat :
           /\ 1 + k <= Size + 4 => Advance(dev, <<m, 1>>, k) = <<m, 1 + k>>
           /\ 1 + k > Size + 4 =>
                Advance(dev, <<m, 1>>, k)
                  = Advance(dev, <<o, 1>>, (1 + k) - (Size + 5))
  BY <1>0, ActionRun
<1>3. PICK q \in FrameNumbers(dev) : \A k \in Nat :
           /\ 1 + k <= Size + 4 => Advance(dev, <<o, 1>>, k) = <<o, 1 + k>>
           /\ 1 + k > Size + 4 =>
                Advance(dev, <<o, 1>>, k)
                  = Advance(dev, <<q, 1>>, (1 + k) - (Size + 5))
  BY <1>0, ActionRun
<1> SUFFICES ASSUME NEW k \in Nat, NEW b, b = ByteAt(dev, Advance(dev, <<n, a>>, k)),
                    a + k <= 3 * Size + 12
             PROVE  Ahead(dev, n, m, a + k, b)
  BY <1>1
<1>4. CASE a + k <= Size + 4
  <2>1. a + k \in 1 .. Size + 4 /\ b = ByteAt(dev, <<n, a + k>>)
    BY <1>0, <1>1, <1>4
  <2>2. /\ b.mark = "0D" => a + k \in {1, Size + 4}
        /\ b.mark = "0A" => a + k \in {2, Size + 3}
    BY <2>1, MarkAt
  <2> QED BY <1>0, <1>4, <2>1, <2>2 DEF Ahead
<1>5. CASE a + k > Size + 4 /\ a + k <= 2 * Size + 8
  <2> DEFINE c == a + k - (Size + 5)
             i == a + k - (Size + 4)
  <2>0. c \in Nat /\ 1 + c <= Size + 4 /\ 1 + c = i /\ i \in 1 .. Size + 4
    BY <1>0, <1>5
  <2>1. Advance(dev, <<n, a>>, k) = Advance(dev, <<m, 1>>, c)
    BY <1>0, <1>1, <1>5
  <2>2. Advance(dev, <<m, 1>>, c) = <<m, 1 + c>>
    <3> HIDE DEF c
    <3> QED BY <1>2, <2>0
  <2>3. b = ByteAt(dev, <<m, i>>)
    BY <2>0, <2>1, <2>2
  <2>4. /\ b.mark = "0D" => i \in {1, Size + 4}
        /\ b.mark = "0A" => i \in {2, Size + 3}
    <3> HIDE DEF i, c
    <3> QED BY <2>0, <2>3, MarkAt
  <2>5. /\ b.mark = "0D" => a + k = Size + 5 \/ a + k = 2 * Size + 8
        /\ b.mark = "0A" => a + k = Size + 6 \/ a + k = 2 * Size + 7
    BY <1>0, <2>4
  <2> QED BY <1>0, <1>5, <2>3, <2>5 DEF Ahead
<1>6. CASE a + k > 2 * Size + 8
  <2> DEFINE c == a + k - (Size + 5)
             e == (1 + c) - (Size + 5)
             i == a + k - (2 * Size + 8)
  <2>0. /\ c \in Nat /\ 1 + c > Size + 4 /\ a + k > Size + 4
        /\ e \in Nat /\ 1 + e = i /\ i \in 1 .. Size + 4 /\ 1 + e <= Size + 4
    BY <1>0, <1>6
  <2>1. Advance(dev, <<n, a>>, k) = Advance(dev, <<m, 1>>, c)
    BY <1>0, <1>1, <2>0
  <2>2. Advance(dev, <<m, 1>>, c) = Advance(dev, <<o, 1>>, e)
    <3>1. c \in Nat /\ 1 + c > Size + 4
      BY <2>0
    <3> HIDE DEF c
    <3> QED BY <1>2, <3>1
  <2>3. Advance(dev, <<o, 1>>, e) = <<o, 1 + e>>
    <3> HIDE DEF e
    <3> QED BY <1>3, <2>0
  <2>4. b = ByteAt(dev, <<o, i>>)
    BY <2>0, <2>1, <2>2, <2>3
  <2>5. /\ b.mark = "0D" => i \in {1, Size + 4}
        /\ b.mark = "0A" => i \in {2, Size + 3}
    <3>1. i \in 1 .. Size + 4
      BY <2>0
    <3> HIDE DEF i, c, e
    <3> QED BY <2>4, <3>1, MarkAt
  <2>6. /\ b.mark = "0D" => a + k = 2 * Size + 9 \/ a + k = 3 * Size + 12
        /\ b.mark = "0A" => a + k = 2 * Size + 10 \/ a + k = 3 * Size + 11
    BY <1>0, <2>5
  <2> QED BY <1>0, <1>6, <2>6 DEF Ahead
<1> QED BY <1>0, <1>4, <1>5, <1>6

(* From the delimiters of a frame on: either nothing has got lost, or the  *)
(* first byte of the frame, with the last of the frame before in its place.*)
LEMMA PlainNoFalse ==
  ASSUME PlainData, NEW dev \in Decoding, IsAction(dev), NEW p \in Places(dev),
         NEW l \in Losses(Size + 4), NEW r, r = Received(dev, p, l),
         r[1].mark = "0D", r[2].mark = "0A",
         r[Size + 3].mark = "0A", r[Size + 4].mark = "0D"
  PROVE  \E n \in FrameNumbers(dev) : SubSeq(r, 3, Size + 2) = Data(dev, n)
<1>0. /\ Size \in Nat \ {0} /\ Size + 4 \in Nat /\ MaxLost \in Nat /\ MaxLost < Size + 4
      /\ 1 \in 1 .. Size + 4 /\ 2 \in 1 .. Size + 4
      /\ Size + 3 \in 1 .. Size + 4 /\ Size + 4 \in 1 .. Size + 4
  BY DecodersAssumption, UartLineAssumption DEF PlainData
<1> DEFINE q == Advance(dev, p, l[1])
           k(i) == i - 1 + l[i] - l[1]
<1>1. /\ DOMAIN l = 1 .. Size + 4
      /\ \A i \in 1 .. Size + 4 :
           /\ l[i] \in Nat /\ l[i] \in 0 .. MaxLost /\ i - 1 + l[i] \in Nat
           /\ r[i] = ByteAt(dev, Advance(dev, p, i - 1 + l[i]))
  BY <1>0, ReceivedFacts
<1>20. \A i, j \in 1 .. Size + 4 : i <= j => l[i] <= l[j]
  BY DEF Losses
<1>21. l[1] \in Nat
  BY <1>0, <1>1
<1>2. ASSUME NEW i \in 1 .. Size + 4
      PROVE  /\ k(i) \in Nat /\ k(i) >= i - 1 /\ k(i) < i + 3 + Size
             /\ r[i] = ByteAt(dev, Advance(dev, q, k(i)))
  <2>5. i \in Nat /\ i >= 1
    BY <1>0
  <2>6. l[i] \in Nat /\ l[i] \in 0 .. MaxLost
    BY <1>1
  <2>7. l[1] <= l[i]
    BY <1>0, <1>20, <2>5
  <2>1. l[1] \in Nat /\ l[i] \in Nat /\ l[1] <= l[i] /\ l[i] <= MaxLost /\ i \in Nat /\ i >= 1
    BY <1>0, <1>21, <2>5, <2>6, <2>7
  <2>2. k(i) \in Nat /\ k(i) >= i - 1 /\ k(i) < i + 3 + Size
    BY <1>0, <2>1
  <2>3. i - 1 + l[i] = l[1] + k(i)
    BY <2>1
  <2>8. i - 1 + l[i] \in Nat
    BY <1>1
  <2> HIDE DEF k
  <2>4. Advance(dev, q, k(i)) = Advance(dev, p, i - 1 + l[i])
    <3>1. l[1] \in Nat /\ k(i) \in Nat
      BY <2>1, <2>2
    <3>2. Advance(dev, Advance(dev, p, l[1]), k(i)) = Advance(dev, p, l[1] + k(i))
      BY <3>1, AdvanceSum
    <3> QED BY <2>3, <3>2
  <2> QED BY <1>1, <2>2, <2>4
<1>3. ASSUME NEW i \in 1 .. Size + 4, NEW j \in 1 .. Size + 4, i <= j
      PROVE  k(j) - k(i) >= j - i
  <2>1. l[i] \in Nat /\ l[j] \in Nat
    BY <1>1
  <2>2. l[i] <= l[j]
    BY <1>3, <1>20
  <2>3. i \in Nat /\ j \in Nat
    BY <1>0
  <2> QED BY <1>21, <2>1, <2>2, <2>3
<1>4. k(1) = 0
  BY <1>21
<1>5. q \in Places(dev)
  BY <1>21, AdvancePlace
<1> HIDE DEF k, q
<1>6. PICK n, a : q = <<n, a>> /\ n \in FrameNumbers(dev) /\ a \in 1 .. Size + 4
  <2>1. q = <<q[1], q[2]>> /\ q[1] \in FrameNumbers(dev)
        /\ q[2] \in 1 .. Len(Frames[dev][q[1]])
    BY <1>5, PlaceFacts
  <2>2. Len(Marks(dev, q[1])) = Size + 4
    BY <2>1, ActionMarks
  <2>3. Len(Frames[dev][q[1]]) = Size + 4
    BY <2>1, <2>2, FrameShape
  <2> QED BY <2>1, <2>3
<1>7. PICK m \in FrameNumbers(dev) : \A i \in Nat :
        a + i <= 3 * Size + 12 =>
          Ahead(dev, n, m, a + i, ByteAt(dev, Advance(dev, <<n, a>>, i)))
  BY <1>6, DelimitersAhead
<1>8. a \in Nat /\ a >= 1 /\ a <= Size + 4
  BY <1>0, <1>6
<1>9. ASSUME NEW i \in 1 .. Size + 4
      PROVE  k(i) \in Nat /\ Ahead(dev, n, m, a + k(i), r[i])
  <2>1. k(i) \in Nat /\ a + k(i) <= 3 * Size + 12
    BY <1>0, <1>2, <1>8
  <2>2. r[i] = ByteAt(dev, Advance(dev, <<n, a>>, k(i)))
    BY <1>2, <1>6
  <2> QED BY <1>7, <2>1, <2>2
<1>10. a = 1 \/ a = Size + 4
  <2>1. \/ a + 0 = 1 \/ a + 0 = Size + 4 \/ a + 0 = Size + 5
        \/ a + 0 = 2 * Size + 8 \/ a + 0 = 2 * Size + 9 \/ a + 0 = 3 * Size + 12
    BY <1>0, <1>4, <1>9 DEF Ahead
  <2> QED BY <1>0, <1>8, <2>1
<1> DEFINE x == k(2)
           y == k(Size + 3)
           z == k(Size + 4)
<1>11. /\ x \in Nat /\ y \in Nat /\ z \in Nat
       /\ x >= 1 /\ x < 5 + Size
       /\ y >= Size + 2 /\ y < Size + 6 + Size /\ z < Size + 7 + Size /\ z - y >= 1
       /\ y - x >= Size + 1
  <2>1. x \in Nat /\ x >= 1 /\ x < 5 + Size
    BY <1>0, <1>2
  <2>2. y \in Nat /\ y >= Size + 2 /\ y < Size + 6 + Size
    BY <1>0, <1>2
  <2>3. z \in Nat /\ z < Size + 7 + Size
    BY <1>0, <1>2
  <2>4. z - y >= (Size + 4) - (Size + 3)
    BY <1>0, <1>3
  <2>5. y - x >= (Size + 3) - 2
    BY <1>0, <1>3
  <2> QED BY <1>0, <2>1, <2>2, <2>3, <2>4, <2>5
<1>12. /\ \/ a + x = 2 \/ a + x = Size + 3 \/ a + x = Size + 6
          \/ a + x = 2 * Size + 7 \/ a + x = 2 * Size + 10 \/ a + x = 3 * Size + 11
       /\ \/ a + y = 2 \/ a + y = Size + 3 \/ a + y = Size + 6
          \/ a + y = 2 * Size + 7 \/ a + y = 2 * Size + 10 \/ a + y = 3 * Size + 11
       /\ \/ a + z = 1 \/ a + z = Size + 4 \/ a + z = Size + 5
          \/ a + z = 2 * Size + 8 \/ a + z = 2 * Size + 9 \/ a + z = 3 * Size + 12
  BY <1>0, <1>9 DEF Ahead
<1> HIDE DEF x, y, z
<1>13. a = 1 => x = 1 /\ y = Size + 2
  BY <1>0, <1>11, <1>12
<1>14. a = Size + 4 => x = 2 /\ y = Size + 3
  BY <1>0, <1>11, <1>12
<1>15. ASSUME NEW i \in 3 .. Size + 2
       PROVE  k(i) - x >= i - 2 /\ y - k(i) >= (Size + 3) - i /\ k(i) \in Nat
  <2>1. i \in 1 .. Size + 4 /\ 2 <= i /\ i <= Size + 3
    BY <1>0
  <2> QED BY <1>0, <1>2, <1>3, <2>1 DEF x, y
<1>16. \E o \in FrameNumbers(dev) : \A i \in 3 .. Size + 2 : r[i] = ByteAt(dev, <<o, i>>)
  <2>1. CASE a = 1
    <3>1. ASSUME NEW i \in 3 .. Size + 2 PROVE r[i] = ByteAt(dev, <<n, i>>)
      <4>0. k(i) - 1 >= i - 2 /\ Size + 2 - k(i) >= (Size + 3) - i /\ k(i) \in Nat
        BY <1>0, <1>13, <1>15, <2>1
      <4>1. a + k(i) = i /\ i <= Size + 4 /\ i \in 1 .. Size + 4
        BY <1>0, <2>1, <4>0
      <4> QED BY <1>9, <4>1 DEF Ahead
    <3> QED BY <1>6, <3>1
  <2>2. CASE a = Size + 4
    <3>1. ASSUME NEW i \in 3 .. Size + 2 PROVE r[i] = ByteAt(dev, <<m, i>>)
      <4>1. /\ a + k(i) > Size + 4 /\ a + k(i) <= 2 * Size + 8 /\ i \in 1 .. Size + 4
            /\ a + k(i) - (Size + 4) = i
        BY <1>0, <1>14, <1>15, <2>2
      <4>2. PICK s : s = a + k(i)
        OBVIOUS
      <4>3. Ahead(dev, n, m, s, r[i])
        BY <1>9, <4>1, <4>2
      <4>4. s > Size + 4 /\ s <= 2 * Size + 8 /\ s - (Size + 4) = i
        BY <1>0, <1>8, <1>15, <4>1, <4>2
      <4>5. r[i] = ByteAt(dev, <<m, s - (Size + 4)>>)
        BY <4>3, <4>4 DEF Ahead
      <4> QED BY <4>4, <4>5
    <3> QED BY <3>1
  <2> QED BY <1>10, <2>1, <2>2
<1>17. PICK o \in FrameNumbers(dev) : \A i \in 3 .. Size + 2 : r[i] = ByteAt(dev, <<o, i>>)
  BY <1>16
<1>18. SubSeq(r, 3, Size + 2) = [i \in 1 .. Size |-> r[i + 2]]
  BY <1>0
<1>19. SubSeq(r, 3, Size + 2) = Data(dev, o)
  <2> DEFINE f == Frames[dev][o]
  <2>1. Data(dev, o) = SubSeq(f, 3, Size + 2)
    <3>1. Len(Before[dev]) = 2
      BY Delimiters DEF IsAction
    <3>2. DataLen(dev, o) = Size
      BY DataLenFacts DEF IsAction
    <3> QED BY <1>0, <3>1, <3>2 DEF Data
  <2>2. \A i \in 3 .. Size + 2 : r[i] = f[i]
    BY <1>17 DEF ByteAt
  <2> HIDE DEF f
  <2>3. SubSeq(f, 3, Size + 2) = [i \in 1 .. Size |-> f[i + 2]]
    BY <1>0
  <2>4. \A i \in 1 .. Size : i + 2 \in 3 .. Size + 2
    BY <1>0
  <2> QED BY <1>18, <2>1, <2>2, <2>3, <2>4
<1> QED BY <1>19

(* In plain data nothing looks like a frame of the position module but one *)
(* of them: the four delimiters that Data_Analyse looks for, so far apart, *)
(* are those of one frame, or the last of the frame before and three of    *)
(* it.                                                                     *)
THEOREM PlainDataNoFalseFrame == PlainData => NoFalseFrame
<1> SUFFICES ASSUME PlainData, NEW dev \in Users.uart7, NEW l \in Losses(Size + 4),
                    NEW p \in Places(dev), NEW r, r = Received(dev, p, l),
                    r[1].mark = "0D", r[2].mark = "0A",
                    r[Size + 3].mark = "0A", r[Size + 4].mark = "0D"
             PROVE  /\ dev = "action"
                    /\ \E n \in FrameNumbers(dev) : SubSeq(r, 3, Size + 2) = Data(dev, n)
  BY DEF NoFalseFrame
<1>1. dev \in Decoding /\ dev \in {"action", "imu"} /\ Size + 4 \in Nat /\ 1 \in 1 .. Size + 4
  BY DecodersAssumption DEF Decoding, Users
<1>2. ASSUME IsImu(dev) PROVE FALSE
  <2> DEFINE q == Advance(dev, p, 1 - 1 + l[1])
  <2>1. 1 - 1 + l[1] \in Nat /\ r[1] = ByteAt(dev, q)
    BY <1>1, ReceivedFacts
  <2>2. q \in Places(dev)
    BY <1>1, <2>1, AdvancePlace
  <2> HIDE DEF q
  <2>3. ByteAt(dev, q).mark = Marks(dev, q[1])[q[2]]
    BY <1>1, <2>2, ByteFacts
  <2>4. q[1] \in FrameNumbers(dev) /\ q[2] \in 1 .. Len(Marks(dev, q[1]))
    BY <1>1, <2>2, PlaceFacts, FrameShape
  <2>5. IsImu(dev) => Marks(dev, q[1])[q[2]] # "0D"
    <3> HIDE <1>2
    <3> QED BY <1>1, <2>4, ImuMarks
  <2> QED BY <1>2, <2>1, <2>3, <2>5
<1>3. IsAction(dev)
  BY <1>1, <1>2 DEF IsImu, IsAction
<1>4. \E n \in FrameNumbers(dev) : SubSeq(r, 3, Size + 2) = Data(dev, n)
  BY <1>1, <1>3, PlainNoFalse
<1> QED BY <1>3, <1>4 DEF IsAction

(* With plain data no decoder publishes anything but the data of one frame *)
(* of its own device.                                                      *)
THEOREM OnlyWholePlain == ASSUME PlainData, CameraText PROVE Spec => []OnlyWhole
<1>1. NoFalseFrame
  BY PlainDataNoFalseFrame
<1> QED BY <1>1, OnlyWholeAlways
=============================================================================
