---------------------------- MODULE EmmBusProofs ----------------------------
(***************************************************************************)
(* Proofs about EmmBus for any number of threads and motors. The mutex,    *)
(* the semaphore and the types need nothing of the line: replies may come  *)
(* in time or late, whole or with bytes missing. That a reply is that of   *)
(* the request waited for, and that only a loss ends in a timeout, holds   *)
(* on a timely line (constant Timely), whatever it loses; on a late one it *)
(* does not, which MCEmmBusLate shows.                                     *)
(***************************************************************************)
EXTENDS EmmBus, SequenceTheorems, TLAPS

Busy == {"send", "read", "sem"}

(* What the mutex and the semaphore need of TypeOK.                        *)
CallerType ==
  /\ pc \in [Threads -> {"idle", "take"} \cup Busy]
  /\ owner \in Threads \cup {NoOne}
  /\ sem \in 0 .. SemMax

CallerInv == CallerType /\ MutexBalanced /\ NoLostWakeup

LEMMA CallerInit == Init => CallerInv
<1> SUFFICES ASSUME Init PROVE CallerInv
  OBVIOUS
<1>1. pc = [t \in Threads |-> "idle"] /\ owner = NoOne /\ sem = 0
  BY DEF Init
<1>2. CallerType
  BY <1>1, EmmBusAssumption DEF CallerType
<1> QED BY <1>1, <1>2, EmmBusAssumption DEF CallerInv, MutexBalanced, NoLostWakeup

(* A thread that returns leaves the mutex to exactly one waiting thread,   *)
(* or free, and no thread waiting for the semaphore.                       *)
LEMMA ReturnHandsOver ==
  ASSUME CallerType, MutexBalanced, NEW t \in Threads, pc[t] \in Busy, Return(t),
         sem' \in 0 .. SemMax
  PROVE  CallerType' /\ MutexBalanced' /\ NoLostWakeup'
<1>1. owner = t /\ \A u \in Threads \ {t} : pc[u] \notin Busy
  BY DEF MutexBalanced, Busy
<1>2. ASSUME NEW w \in Threads, pc[w] = "take", owner' = w,
             pc' = [pc EXCEPT ![t] = "idle", ![w] = "send"]
      PROVE  CallerType' /\ MutexBalanced' /\ NoLostWakeup'
  <2>1. w # t
    BY <1>2 DEF Busy
  <2>2. /\ pc' \in [Threads -> {"idle", "take"} \cup Busy]
        /\ pc'[w] = "send" /\ pc'[t] = "idle"
        /\ \A u \in Threads \ {t, w} : pc'[u] = pc[u]
    BY <1>2, <2>1 DEF CallerType, Busy
  <2>3. \A u \in Threads : pc'[u] \in Busy => u = w
    BY <1>1, <2>2 DEF Busy
  <2> QED BY <1>2, <2>2, <2>3 DEF CallerType, MutexBalanced, NoLostWakeup, Busy
<1>3. ASSUME owner' = NoOne, pc' = [pc EXCEPT ![t] = "idle"]
      PROVE  CallerType' /\ MutexBalanced' /\ NoLostWakeup'
  <2>1. /\ pc' \in [Threads -> {"idle", "take"} \cup Busy]
        /\ pc'[t] = "idle"
        /\ \A u \in Threads \ {t} : pc'[u] = pc[u]
    BY <1>3 DEF CallerType
  <2>2. \A u \in Threads : pc'[u] \notin Busy
    BY <1>1, <2>1 DEF Busy
  <2> QED BY <1>3, <2>1, <2>2, EmmBusAssumption
          DEF CallerType, MutexBalanced, NoLostWakeup, Busy
<1> QED BY <1>2, <1>3 DEF Return

(* A step of the owner that keeps the mutex.                               *)
LEMMA OwnerMoves ==
  ASSUME CallerType, MutexBalanced, NEW t \in Threads, pc[t] \in Busy,
         NEW s \in Busy, pc' = [pc EXCEPT ![t] = s], owner' = owner,
         sem' \in 0 .. SemMax
  PROVE  /\ CallerType' /\ MutexBalanced'
         /\ \A u \in Threads : pc'[u] = "sem" => u = t
<1>1. owner = t /\ \A u \in Threads \ {t} : pc[u] \notin Busy
  BY DEF MutexBalanced, Busy
<1>2. /\ pc' \in [Threads -> {"idle", "take"} \cup Busy]
      /\ pc'[t] = s
      /\ \A u \in Threads \ {t} : pc'[u] = pc[u]
  BY DEF CallerType
<1> QED BY <1>1, <1>2 DEF CallerType, MutexBalanced, Busy

LEMMA CallerNext == CallerInv /\ [Next]_vars => CallerInv'
<1> SUFFICES ASSUME CallerInv, [Next]_vars PROVE CallerInv'
  OBVIOUS
<1>0. CallerType /\ MutexBalanced /\ NoLostWakeup
  BY DEF CallerInv
<1>1. ASSUME NEW t \in Threads, NEW r \in Requests, Call(t, r) PROVE CallerInv'
  <2>1. pc[t] = "idle" /\ UNCHANGED <<sem, rxq>>
    BY <1>1 DEF Call
  <2>2. CASE owner = NoOne /\ owner' = t /\ pc' = [pc EXCEPT ![t] = "send"]
    <3>1. /\ pc' \in [Threads -> {"idle", "take"} \cup Busy]
          /\ pc'[t] = "send"
          /\ \A u \in Threads \ {t} : pc'[u] = pc[u]
      BY <1>0, <2>2 DEF CallerType, Busy
    <3>2. \A u \in Threads : pc[u] \notin Busy
      BY <1>0, <2>2, EmmBusAssumption DEF MutexBalanced, Busy
    <3>3. \A u \in Threads : pc'[u] \in Busy <=> u = t
      BY <3>1, <3>2 DEF Busy
    <3> QED BY <1>0, <2>1, <2>2, <3>1, <3>3
            DEF CallerInv, CallerType, MutexBalanced, NoLostWakeup, Busy
  <2>3. CASE owner # NoOne /\ owner' = owner /\ pc' = [pc EXCEPT ![t] = "take"]
    <3>1. /\ pc' \in [Threads -> {"idle", "take"} \cup Busy]
          /\ pc'[t] = "take"
          /\ \A u \in Threads \ {t} : pc'[u] = pc[u]
      BY <1>0, <2>3 DEF CallerType, Busy
    <3>2. \A u \in Threads : pc'[u] \in Busy <=> pc[u] \in Busy
      BY <2>1, <3>1 DEF Busy
    <3>3. \A u \in Threads : pc'[u] = "sem" => pc[u] = "sem"
      BY <3>1
    <3>4. MutexBalanced'
      BY <1>0, <2>3, <3>2 DEF MutexBalanced, Busy
    <3> QED BY <1>0, <2>1, <2>3, <3>1, <3>3, <3>4
            DEF CallerInv, CallerType, NoLostWakeup
  <2> QED BY <1>1, <2>2, <2>3 DEF Call
<1>2. ASSUME NEW t \in Threads, Transmit(t) PROVE CallerInv'
  <2>1. /\ pc[t] \in Busy /\ "read" \in Busy
        /\ pc' = [pc EXCEPT ![t] = "read"] /\ owner' = owner /\ sem' = sem
    BY <1>2 DEF Transmit, Busy
  <2>2. sem' \in 0 .. SemMax
    BY <1>0, <2>1 DEF CallerType
  <2>3. pc'[t] = "read"
    BY <1>0, <2>1 DEF CallerType
  <2>4. CallerType' /\ MutexBalanced' /\ \A u \in Threads : pc'[u] = "sem" => u = t
    BY <1>0, <2>1, <2>2, OwnerMoves
  <2> QED BY <2>3, <2>4 DEF CallerInv, NoLostWakeup
<1>3. ASSUME NEW t \in Threads, ReadByte(t) PROVE CallerInv'
  <2>1. pc[t] \in Busy /\ sem' = sem /\ rxq # << >>
    BY <1>3 DEF ReadByte, Busy
  <2>2. CASE Return(t)
    <3>1. sem' \in 0 .. SemMax
      BY <1>0, <2>1 DEF CallerType
    <3> QED BY <1>0, <2>1, <2>2, <3>1, ReturnHandsOver DEF CallerInv
  <2>3. CASE UNCHANGED <<pc, owner>>
    BY <1>0, <2>1, <2>3 DEF CallerInv, CallerType, MutexBalanced, NoLostWakeup
  <2> QED BY <1>3, <2>2, <2>3 DEF ReadByte
<1>4. ASSUME NEW t \in Threads, ReadNone(t) PROVE CallerInv'
  <2>1. /\ pc[t] \in Busy /\ "sem" \in Busy
        /\ pc' = [pc EXCEPT ![t] = "sem"] /\ owner' = owner /\ sem' = sem
        /\ rxq = << >> /\ rxq' = rxq
    BY <1>4 DEF ReadNone, Busy
  <2>2. sem' \in 0 .. SemMax
    BY <1>0, <2>1 DEF CallerType
  <2>3. CallerType' /\ MutexBalanced'
    BY <1>0, <2>1, <2>2, OwnerMoves
  <2> QED BY <2>1, <2>3 DEF CallerInv, NoLostWakeup
<1>5. ASSUME NEW t \in Threads, SemTake(t) PROVE CallerInv'
  <2>1. /\ pc[t] \in Busy /\ "read" \in Busy
        /\ pc' = [pc EXCEPT ![t] = "read"] /\ owner' = owner
        /\ sem > 0 /\ sem' = sem - 1
    BY <1>5 DEF SemTake, Busy
  <2>2. sem' \in 0 .. SemMax
    BY <1>0, <2>1, EmmBusAssumption DEF CallerType
  <2>3. pc'[t] = "read"
    BY <1>0, <2>1 DEF CallerType
  <2>4. CallerType' /\ MutexBalanced' /\ \A u \in Threads : pc'[u] = "sem" => u = t
    BY <1>0, <2>1, <2>2, OwnerMoves
  <2> QED BY <2>3, <2>4 DEF CallerInv, NoLostWakeup
<1>6. ASSUME NEW t \in Threads, SemTimeout(t) PROVE CallerInv'
  <2>1. pc[t] \in Busy /\ sem' = sem /\ Return(t)
    BY <1>6 DEF SemTimeout, Busy
  <2>2. sem' \in 0 .. SemMax
    BY <1>0, <2>1 DEF CallerType
  <2> QED BY <1>0, <2>1, <2>2, ReturnHandsOver DEF CallerInv
<1>7. CASE Interrupt
  <2>1. UNCHANGED <<pc, owner>> /\ sem' = IF sem < SemMax THEN sem + 1 ELSE sem
    BY <1>7 DEF Interrupt, EmmUartRxInd, caller
  <2>2. sem' \in 0 .. SemMax /\ sem' > 0
    BY <1>0, <2>1, EmmBusAssumption DEF CallerType
  <2> QED BY <1>0, <2>1, <2>2 DEF CallerInv, CallerType, MutexBalanced, NoLostWakeup
<1>8. CASE Motor \/ Loss \/ UNCHANGED vars
  <2>1. UNCHANGED <<pc, owner, sem, rxq>>
    BY <1>8 DEF Motor, Loss, Answer, LoseRequest, LoseByte, caller, vars
  <2> QED BY <1>0, <2>1 DEF CallerInv, CallerType, MutexBalanced, NoLostWakeup
<1> QED BY <1>1, <1>2, <1>3, <1>4, <1>5, <1>6, <1>7, <1>8 DEF Next, Thread

(* Two operations never share the line, and each releases the mutex once.  *)
THEOREM MutexBalancedAlways == Spec => []MutexBalanced
<1>1. CallerInv => MutexBalanced
  BY DEF CallerInv
<1> QED BY CallerInit, CallerNext, <1>1, PTL DEF Spec

(* No byte that is already in the ring is waited for.                      *)
THEOREM NoLostWakeupAlways == Spec => []NoLostWakeup
<1>1. CallerInv => NoLostWakeup
  BY DEF CallerInv
<1> QED BY CallerInit, CallerNext, <1>1, PTL DEF Spec

-----------------------------------------------------------------------------
(***************************************************************************)
(* Sequences of bytes and requests.                                        *)
(***************************************************************************)

LEMMA StaleBytes ==
  ASSUME NEW s \in Seq(Bytes)
  PROVE  Stale(s) \in Seq(Bytes) /\ (s = << >> => Stale(s) = << >>)
<1>1. DOMAIN s = 1 .. Len(s) /\ Len(s) \in Nat /\ s \in [1 .. Len(s) -> Bytes]
  BY LenProperties
<1>2. \A b \in Bytes : [b EXCEPT !.live = FALSE] \in Bytes
  BY DEF Bytes
<1>3. Stale(s) \in [1 .. Len(s) -> Bytes]
  BY <1>1, <1>2 DEF Stale
<1>4. Stale(s) \in Seq(Bytes) /\ Len(Stale(s)) = Len(s)
  BY <1>1, <1>3, SeqDef
<1> QED BY <1>4, EmptySeq

LEMMA StalePending ==
  ASSUME NEW s \in Seq(Pending)
  PROVE  Stale(s) \in Seq(Pending) /\ (s = << >> => Stale(s) = << >>)
<1>1. DOMAIN s = 1 .. Len(s) /\ Len(s) \in Nat /\ s \in [1 .. Len(s) -> Pending]
  BY LenProperties
<1>2. \A b \in Pending : [b EXCEPT !.live = FALSE] \in Pending
  BY DEF Pending
<1>3. Stale(s) \in [1 .. Len(s) -> Pending]
  BY <1>1, <1>2 DEF Stale
<1>4. Stale(s) \in Seq(Pending) /\ Len(Stale(s)) = Len(s)
  BY <1>1, <1>3, SeqDef
<1> QED BY <1>4, EmptySeq

(* A sequence without one of its elements.                                 *)
LEMMA WithoutProperties ==
  ASSUME NEW S, NEW s \in Seq(S), NEW i \in 1 .. Len(s)
  PROVE  /\ Without(s, i) \in Seq(S)
         /\ Len(Without(s, i)) = Len(s) - 1
         /\ \A j \in 1 .. Len(s) - 1 :
              \E k \in 1 .. Len(s) : Without(s, i)[j] = s[k]
<1> DEFINE a == SubSeq(s, 1, i - 1)
           b == SubSeq(s, i + 1, Len(s))
<1>1. Len(s) \in Nat /\ \A k \in 1 .. Len(s) : s[k] \in S
  BY LenProperties, ElementOfSeq
<1>2. /\ a \in Seq(S) /\ Len(a) = i - 1
      /\ \A k \in 1 .. i - 1 : a[k] = s[k]
  <2>1. 1 \in Int /\ i - 1 \in Int /\ \A k \in 1 .. i - 1 : s[k] \in S
    BY <1>1
  <2>2. /\ a \in Seq(S) /\ Len(a) = IF 1 <= i - 1 THEN i - 1 - 1 + 1 ELSE 0
        /\ \A k \in 1 .. i - 1 - 1 + 1 : a[k] = s[1 + k - 1]
    BY <2>1, SubSeqProperties
  <2> QED BY <1>1, <2>2
<1>3. /\ b \in Seq(S) /\ Len(b) = Len(s) - i
      /\ \A k \in 1 .. Len(s) - i : b[k] = s[i + k]
  <2>1. i + 1 \in Int /\ Len(s) \in Int /\ \A k \in i + 1 .. Len(s) : s[k] \in S
    BY <1>1
  <2>2. /\ b \in Seq(S) /\ Len(b) = IF i + 1 <= Len(s) THEN Len(s) - (i + 1) + 1 ELSE 0
        /\ \A k \in 1 .. Len(s) - (i + 1) + 1 : b[k] = s[i + 1 + k - 1]
    BY <2>1, SubSeqProperties
  <2> QED BY <1>1, <2>2
<1> HIDE DEF a, b
<1>4. /\ a \o b \in Seq(S) /\ Len(a \o b) = Len(a) + Len(b)
      /\ \A j \in 1 .. Len(a) + Len(b) :
           (a \o b)[j] = IF j <= Len(a) THEN a[j] ELSE b[j - Len(a)]
  BY <1>2, <1>3, ConcatProperties
<1>5. Without(s, i) = a \o b
  BY DEF Without, a, b
<1>6. ASSUME NEW j \in 1 .. Len(s) - 1
      PROVE  \E k \in 1 .. Len(s) : (a \o b)[j] = s[k]
  <2>1. CASE j <= i - 1
    <3>1. (a \o b)[j] = s[j] /\ j \in 1 .. Len(s)
      BY <1>1, <1>2, <1>3, <1>4, <2>1
    <3> QED BY <3>1
  <2>2. CASE ~(j <= i - 1)
    <3>1. (a \o b)[j] = b[j - (i - 1)]
      BY <1>1, <1>2, <1>3, <1>4, <2>2
    <3>2. b[j - (i - 1)] = s[j + 1] /\ j + 1 \in 1 .. Len(s)
      BY <1>1, <1>3, <2>2
    <3> QED BY <3>1, <3>2
  <2> QED BY <1>1, <2>1, <2>2
<1>7. Len(a \o b) = Len(s) - 1
  BY <1>1, <1>2, <1>3, <1>4
<1> QED BY <1>4, <1>5, <1>6, <1>7, Zenon

(* A reply has the size its reader waits for, and is as live as its        *)
(* request.                                                                *)
LEMMA ReplyProperties ==
  ASSUME NEW m \in Steppers, NEW c \in Cmds, NEW live \in BOOLEAN
  PROVE  /\ Reply(m, c, live) \in Seq(Bytes)
         /\ Len(Reply(m, c, live)) = ReceiveSize(c)
         /\ \A i \in 1 .. ReceiveSize(c) : Reply(m, c, live)[i].live = live
         /\ ReceiveSize(c) \in 4 .. 8
<1>1. ReceiveSize(c) \in 4 .. 8
  BY DEF ReceiveSize
<1>2. Reply(m, c, live) \in [1 .. ReceiveSize(c) -> Bytes]
  BY <1>1 DEF Reply, Bytes
<1>3. Reply(m, c, live) \in Seq(Bytes) /\ Len(Reply(m, c, live)) = ReceiveSize(c)
  BY <1>1, <1>2, SeqDef
<1> QED BY <1>1, <1>3 DEF Reply

LEMMA LiveReply ==
  ASSUME NEW m \in Steppers, NEW c \in Cmds
  PROVE  /\ Reply(m, c, TRUE) \in Seq(Bytes)
         /\ Len(Reply(m, c, TRUE)) = ReceiveSize(c)
         /\ \A i \in 1 .. ReceiveSize(c) : Reply(m, c, TRUE)[i].live
<1> DEFINE R == Reply(m, c, TRUE)
<1>1. ReceiveSize(c) \in 4 .. 8 /\ 1 .. ReceiveSize(c) \subseteq 1 .. 8
  BY DEF ReceiveSize
<1>2. R \in [1 .. ReceiveSize(c) -> Bytes]
  <2>1. TRUE \in BOOLEAN
    OBVIOUS
  <2>2. \A i \in 1 .. 8 : [motor |-> m, cmd |-> c, place |-> i, live |-> TRUE] \in Bytes
    BY <2>1, Zenon DEF Bytes
  <2> QED BY <1>1, <2>2, Zenon DEF Reply
<1>3. \A i \in 1 .. ReceiveSize(c) : R[i].live
  BY Zenon DEF Reply
<1> HIDE DEF R
<1>4. R \in Seq(Bytes) /\ Len(R) = ReceiveSize(c)
  BY <1>1, <1>2, SeqDef
<1> QED BY <1>3, <1>4, Zenon DEF R

(* Concatenation under a name of its own, for what needs no more of it     *)
(* than that it is associative.                                            *)
Cat(a, b) == a \o b

(* A byte read moves from the front of one sequence to the end of another. *)
LEMMA ShiftHead ==
  ASSUME NEW S, NEW a \in Seq(S), NEW b \in Seq(S), b # << >>
  PROVE  /\ Append(a, Head(b)) \in Seq(S)
         /\ Len(Append(a, Head(b))) = Len(a) + 1
         /\ Tail(b) \in Seq(S) /\ Len(Tail(b)) = Len(b) - 1
         /\ Cat(Append(a, Head(b)), Tail(b)) = Cat(a, b)
<1> DEFINE x == Append(a, Head(b))
           y == Tail(b)
<1>1. /\ Head(b) \in S /\ Head(b) = b[1]
      /\ y \in Seq(S) /\ Len(y) = Len(b) - 1
      /\ \A i \in 1 .. Len(y) : y[i] = b[i + 1]
  BY HeadTailProperties
<1>2. /\ x \in Seq(S) /\ Len(x) = Len(a) + 1
      /\ \A i \in 1 .. Len(a) : x[i] = a[i]
      /\ x[Len(a) + 1] = Head(b)
  BY <1>1, AppendProperties
<1>3. Len(a) \in Nat /\ Len(b) \in Nat
  BY LenProperties
<1> HIDE DEF x, y
<1>4. /\ x \o y \in Seq(S) /\ Len(x \o y) = Len(x) + Len(y)
      /\ \A i \in 1 .. Len(x) + Len(y) :
           (x \o y)[i] = IF i <= Len(x) THEN x[i] ELSE y[i - Len(x)]
  BY <1>1, <1>2, ConcatProperties
<1>5. /\ a \o b \in Seq(S) /\ Len(a \o b) = Len(a) + Len(b)
      /\ \A i \in 1 .. Len(a) + Len(b) :
           (a \o b)[i] = IF i <= Len(a) THEN a[i] ELSE b[i - Len(a)]
  BY ConcatProperties
<1>6. ASSUME NEW i \in 1 .. Len(x \o y) PROVE (x \o y)[i] = (a \o b)[i]
  <2>1. i \in 1 .. Len(a) + Len(b)
    BY <1>1, <1>2, <1>3, <1>4
  <2>2. CASE i <= Len(a)
    BY <1>1, <1>2, <1>3, <1>4, <1>5, <2>1, <2>2
  <2>3. CASE i = Len(a) + 1
    BY <1>1, <1>2, <1>3, <1>4, <1>5, <2>1, <2>3
  <2>4. CASE i > Len(a) + 1
    <3>1. i - Len(x) \in 1 .. Len(y)
      BY <1>1, <1>2, <1>3, <2>1, <2>4
    <3>2. (x \o y)[i] = y[i - Len(x)]
      BY <1>1, <1>2, <1>3, <1>4, <2>1, <2>4
    <3>3. y[i - Len(x)] = b[i - Len(x) + 1]
      BY <1>1, <3>1
    <3>4. (a \o b)[i] = b[i - Len(a)]
      BY <1>3, <1>5, <2>1, <2>4
    <3> QED BY <1>2, <1>3, <3>2, <3>3, <3>4
  <2> QED BY <1>3, <2>1, <2>2, <2>3, <2>4
<1>7. Len(x \o y) = Len(a \o b)
  BY <1>1, <1>2, <1>3, <1>4, <1>5
<1>8. x \o y = a \o b
  BY <1>4, <1>5, <1>6, <1>7, SeqEqual
<1>9. Cat(x, y) = Cat(a, b)
  BY <1>8, Zenon DEF Cat
<1> QED BY <1>1, <1>2, <1>9 DEF x, y

LEMMA Regroup ==
  ASSUME NEW S, NEW a \in Seq(S), NEW b \in Seq(S), NEW c \in Seq(S)
  PROVE  Cat(Cat(a, b), c) = Cat(a, Cat(b, c))
BY ConcatAssociative DEF Cat

LEMMA RegroupEqual ==
  ASSUME NEW S, NEW b \in Seq(S), NEW r \in Seq(S), NEW w \in Seq(S),
         NEW x \in Seq(S), NEW y \in Seq(S), Cat(x, y) = Cat(r, w)
  PROVE  Cat(Cat(b, x), y) = Cat(Cat(b, r), w)
<1>1. Cat(Cat(b, x), y) = Cat(b, Cat(x, y))
  BY Regroup
<1>2. Cat(Cat(b, r), w) = Cat(b, Cat(r, w))
  BY Regroup
<1> QED BY <1>1, <1>2

(* The bytes an interrupt brings move from the line to the ring.           *)
LEMMA Transfer ==
  ASSUME NEW S, NEW r \in Seq(S), NEW w \in Seq(S), NEW k \in 1 .. Len(w)
  PROVE  /\ r \o SubSeq(w, 1, k) \in Seq(S)
         /\ Len(r \o SubSeq(w, 1, k)) = Len(r) + k
         /\ SubSeq(w, k + 1, Len(w)) \in Seq(S)
         /\ Len(SubSeq(w, k + 1, Len(w))) = Len(w) - k
         /\ \A i \in 1 .. Len(w) - k : SubSeq(w, k + 1, Len(w))[i] = w[k + i]
         /\ Cat(r \o SubSeq(w, 1, k), SubSeq(w, k + 1, Len(w))) = Cat(r, w)
<1> DEFINE a == SubSeq(w, 1, k)
           b == SubSeq(w, k + 1, Len(w))
<1>1. Len(w) \in Nat /\ \A i \in 1 .. Len(w) : w[i] \in S
  BY LenProperties, ElementOfSeq
<1>2. a \in Seq(S) /\ Len(a) = k
  <2>1. 1 \in Int /\ k \in Int /\ \A i \in 1 .. k : w[i] \in S
    BY <1>1
  <2>2. a \in Seq(S) /\ Len(a) = IF 1 <= k THEN k - 1 + 1 ELSE 0
    BY <2>1, SubSeqProperties
  <2> QED BY <1>1, <2>2
<1>3. /\ b \in Seq(S) /\ Len(b) = Len(w) - k
      /\ \A i \in 1 .. Len(w) - k : b[i] = w[k + i]
  <2>1. k + 1 \in Int /\ Len(w) \in Int /\ \A i \in k + 1 .. Len(w) : w[i] \in S
    BY <1>1
  <2>2. /\ b \in Seq(S) /\ Len(b) = IF k + 1 <= Len(w) THEN Len(w) - (k + 1) + 1 ELSE 0
        /\ \A i \in 1 .. Len(w) - (k + 1) + 1 : b[i] = w[k + 1 + i - 1]
    BY <2>1, SubSeqProperties
  <2> QED BY <1>1, <2>2
<1>4. a \o b = w
  <2>1. 1 \in 1 .. Len(w) + 1 /\ k \in 1 - 1 .. Len(w) /\ Len(w) \in k .. Len(w)
    BY <1>1
  <2>2. a \o b = SubSeq(w, 1, Len(w))
    BY <2>1, ConcatAdjacentSubSeq
  <2> QED BY <2>2, SubSeqFull
<1> HIDE DEF a, b
<1>5. r \o a \in Seq(S) /\ Len(r \o a) = Len(r) + k
  BY <1>2, ConcatProperties
<1>6. Cat(r \o a, b) = Cat(r, w)
  <2>1. Cat(a, b) = w
    BY <1>4, Zenon DEF Cat
  <2>2. Cat(Cat(r, a), b) = Cat(r, Cat(a, b))
    BY <1>2, <1>3, Regroup
  <2>3. Cat(r, a) = r \o a
    BY Zenon DEF Cat
  <2> QED BY <2>1, <2>2, <2>3
<1>7. r \o SubSeq(w, 1, k) \in Seq(S) /\ Len(r \o SubSeq(w, 1, k)) = Len(r) + k
  BY <1>5, Zenon DEF a
<1>8. /\ SubSeq(w, k + 1, Len(w)) \in Seq(S)
      /\ Len(SubSeq(w, k + 1, Len(w))) = Len(w) - k
      /\ \A i \in 1 .. Len(w) - k : SubSeq(w, k + 1, Len(w))[i] = w[k + i]
  BY <1>3, Zenon DEF b
<1>9. Cat(r \o SubSeq(w, 1, k), SubSeq(w, k + 1, Len(w))) = Cat(r, w)
  BY <1>6, Zenon DEF a, b
<1> QED BY <1>7, <1>8, <1>9, Zenon

-----------------------------------------------------------------------------
(***************************************************************************)
(* Type correctness, on any line.                                          *)
(***************************************************************************)

(* What of TypeOK is about the line and what has been measured.            *)
LineType ==
  /\ req \in [Threads -> Requests]
  /\ rxq \in Seq(Bytes) /\ buf \in Seq(Bytes)
  /\ meas \in [Steppers -> [Measured -> Seq(Bytes)]]
  /\ pending \in Seq(Pending)
  /\ wire \in Seq(Bytes)
  /\ lost \in BOOLEAN

LEMMA TypeSplit == TypeOK <=> CallerType /\ LineType
BY DEF TypeOK, CallerType, LineType, Busy

LEMMA LineTypeInit == Init => LineType
<1> SUFFICES ASSUME Init PROVE LineType
  OBVIOUS
<1>1. req \in [Threads -> Requests]
  BY DEF Init
<1>2. << >> \in Seq(Bytes) /\ << >> \in Seq(Pending)
  BY EmptySeq
<1>3. meas \in [Steppers -> [Measured -> Seq(Bytes)]]
  BY <1>2 DEF Init
<1> QED BY <1>1, <1>2, <1>3 DEF Init, LineType

(* What is stored is what was there or the bytes in the buffer.            *)
LEMMA EmmCmdAnaStores ==
  ASSUME NEW m \in Steppers, NEW c \in Cmds, NEW s \in Seq(Bytes),
         meas \in [Steppers -> [Measured -> Seq(Bytes)]], EmmCmdAna(m, c, s)
  PROVE  /\ meas' \in [Steppers -> [Measured -> Seq(Bytes)]]
         /\ \A n \in Steppers, d \in Measured :
              \/ meas'[n][d] = meas[n][d]
              \/ n = m /\ d = c /\ meas'[n][d] = s
<1>1. \/ meas' = meas
      \/ c \in Measured /\ meas' = [meas EXCEPT ![m][c] = s]
  BY Zenon DEF EmmCmdAna
<1>2. CASE meas' = meas
  BY <1>2
<1>3. CASE c \in Measured /\ meas' = [meas EXCEPT ![m][c] = s]
  BY <1>3
<1> QED BY <1>1, <1>2, <1>3

LEMMA LineTypeNext == TypeOK /\ [Next]_vars => LineType'
<1> SUFFICES ASSUME TypeOK, [Next]_vars PROVE LineType'
  OBVIOUS
<1>0. LineType
  BY TypeSplit
<1>1. ASSUME NEW t \in Threads, NEW r \in Requests, Call(t, r) PROVE LineType'
  BY <1>0, <1>1 DEF Call, LineType, line
<1>2. ASSUME NEW t \in Threads, Transmit(t) PROVE LineType'
  <2> DEFINE p == [motor |-> req[t].motor, cmd |-> req[t].cmd, live |-> TRUE]
  <2>1. p \in Pending
    BY <1>0 DEF LineType, Requests, Pending
  <2>2. pending' \in Seq(Pending)
    BY <1>0, <1>2, <2>1, AppendProperties DEF Transmit, LineType
  <2> QED BY <1>0, <1>2, <2>2 DEF Transmit, LineType
<1>3. ASSUME NEW t \in Threads, ReadByte(t) PROVE LineType'
  <2>1. /\ rxq # << >> /\ rxq \in Seq(Bytes) /\ buf \in Seq(Bytes)
        /\ UNCHANGED <<req, lost>>
    BY <1>0, <1>3 DEF ReadByte, LineType
  <2>2. Append(buf, Head(rxq)) \in Seq(Bytes) /\ Tail(rxq) \in Seq(Bytes)
    BY <2>1, ShiftHead
  <2>3. CASE /\ EmmCmdAna(req[t].motor, req[t].cmd, Append(buf, Head(rxq)))
             /\ Return(t)
             /\ rxq' = Stale(Tail(rxq))
    <3>1. req[t].motor \in Steppers /\ req[t].cmd \in Cmds
      BY <1>0 DEF LineType, Requests
    <3>2. meas' \in [Steppers -> [Measured -> Seq(Bytes)]]
      BY <1>0, <2>2, <2>3, <3>1, EmmCmdAnaStores DEF LineType
    <3>3. buf' = << >> /\ pending' = Stale(pending) /\ wire' = Stale(wire)
      BY <2>3 DEF Return
    <3>4. rxq' \in Seq(Bytes) /\ wire' \in Seq(Bytes)
      BY <1>0, <2>2, <2>3, <3>3, StaleBytes DEF LineType
    <3>5. pending' \in Seq(Pending)
      BY <1>0, <3>3, StalePending DEF LineType
    <3>6. buf' \in Seq(Bytes)
      BY <3>3, EmptySeq
    <3> QED BY <1>0, <2>1, <3>2, <3>4, <3>5, <3>6 DEF LineType
  <2>4. CASE /\ rxq' = Tail(rxq) /\ buf' = Append(buf, Head(rxq))
             /\ UNCHANGED <<meas, pending, wire>>
    BY <1>0, <2>1, <2>2, <2>4 DEF LineType
  <2> QED BY <1>3, <2>3, <2>4 DEF ReadByte
<1>4. ASSUME NEW t \in Threads, ReadNone(t) \/ SemTake(t) PROVE LineType'
  BY <1>0, <1>4 DEF ReadNone, SemTake, LineType, line
<1>5. ASSUME NEW t \in Threads, SemTimeout(t) PROVE LineType'
  <2>1. /\ buf' = << >> /\ pending' = Stale(pending) /\ wire' = Stale(wire)
        /\ rxq' = Stale(rxq) /\ UNCHANGED <<req, meas, lost>>
    BY <1>5 DEF SemTimeout, Return
  <2>2. rxq' \in Seq(Bytes) /\ wire' \in Seq(Bytes)
    BY <1>0, <2>1, StaleBytes DEF LineType
  <2>3. pending' \in Seq(Pending)
    BY <1>0, <2>1, StalePending DEF LineType
  <2>4. buf' \in Seq(Bytes)
    BY <2>1, EmptySeq
  <2> QED BY <1>0, <2>1, <2>2, <2>3, <2>4 DEF LineType
<1>6. ASSUME NEW k \in 1 .. Len(wire), EmmUartRxInd(k) PROVE LineType'
  <2>1. /\ rxq' = rxq \o SubSeq(wire, 1, k)
        /\ wire' = SubSeq(wire, k + 1, Len(wire))
        /\ UNCHANGED <<req, buf, meas, pending, lost>>
    BY <1>6 DEF EmmUartRxInd, caller
  <2>2. rxq \in Seq(Bytes) /\ wire \in Seq(Bytes)
    BY <1>0 DEF LineType
  <2>3. rxq' \in Seq(Bytes) /\ wire' \in Seq(Bytes)
    BY <2>1, <2>2, Transfer, Zenon
  <2> QED BY <1>0, <2>1, <2>3 DEF LineType
<1>7. ASSUME NEW i \in 1 .. Len(pending), Answer(i) PROVE LineType'
  <2>1. pending[i] \in Pending /\ pending \in Seq(Pending) /\ wire \in Seq(Bytes)
    BY <1>0, ElementOfSeq DEF LineType
  <2>2. pending' \in Seq(Pending)
    BY <1>7, <2>1, WithoutProperties DEF Answer
  <2>3. Reply(pending[i].motor, pending[i].cmd, pending[i].live) \in Seq(Bytes)
    BY <2>1, ReplyProperties DEF Pending
  <2>4. wire' \in Seq(Bytes)
    BY <1>7, <2>1, <2>3, ConcatProperties DEF Answer
  <2> QED BY <1>0, <1>7, <2>2, <2>4 DEF Answer, LineType, caller
<1>8. ASSUME NEW i \in 1 .. Len(pending), LoseRequest(i) PROVE LineType'
  <2>1. pending[i] \in Pending /\ pending \in Seq(Pending)
    BY <1>0, ElementOfSeq DEF LineType
  <2>2. pending' \in Seq(Pending)
    BY <1>8, <2>1, WithoutProperties DEF LoseRequest
  <2>3. lost' \in BOOLEAN
    BY <1>0, <1>8, <2>1 DEF LoseRequest, LineType, Pending
  <2> QED BY <1>0, <1>8, <2>2, <2>3 DEF LoseRequest, LineType, caller
<1>9. ASSUME NEW i \in 1 .. Len(wire), LoseByte(i) PROVE LineType'
  <2>1. wire[i] \in Bytes /\ wire \in Seq(Bytes)
    BY <1>0, ElementOfSeq DEF LineType
  <2>2. wire' \in Seq(Bytes)
    BY <1>9, <2>1, WithoutProperties DEF LoseByte
  <2>3. lost' \in BOOLEAN
    BY <1>0, <1>9, <2>1 DEF LoseByte, LineType, Bytes
  <2> QED BY <1>0, <1>9, <2>2, <2>3 DEF LoseByte, LineType, caller
<1>10. CASE UNCHANGED vars
  BY <1>0, <1>10 DEF vars, caller, line, LineType
<1> QED BY <1>1, <1>2, <1>3, <1>4, <1>5, <1>6, <1>7, <1>8, <1>9, <1>10
        DEF Next, Thread, Interrupt, Motor, Loss

-----------------------------------------------------------------------------
(***************************************************************************)
(* A timely line: the inductive invariant.                                 *)
(***************************************************************************)

(* The three stages of a reply: not yet given, whole, part of it lost.     *)
Asked ==
  /\ pending = << [motor |-> Awaited.motor, cmd |-> Awaited.cmd, live |-> TRUE] >>
  /\ buf = << >> /\ rxq = << >> /\ wire = << >> /\ ~lost

Coming ==
  /\ pending = << >> /\ ~lost
  /\ Len(buf) < ReceiveSize(Awaited.cmd)
  /\ Cat(Cat(buf, rxq), wire) = Reply(Awaited.motor, Awaited.cmd, TRUE)

Broken ==
  /\ pending = << >> /\ lost
  /\ Len(buf) + Len(rxq) + Len(wire) < ReceiveSize(Awaited.cmd)
  /\ \A i \in DOMAIN wire : wire[i].live

Clean == buf = << >> /\ rxq = << >> /\ wire = << >> /\ pending = << >>

(* IInv read by the stage the reply is in.                                 *)
LEMMA Stages ==
  /\ ReplyInOrder <=> (Waiting => Asked \/ Coming \/ Broken)
  /\ LineClean <=> (Waiting \/ Clean)
BY Zenon DEF ReplyInOrder, LineClean, Asked, Coming, Broken, Clean, Cat

LEMMA StagesNext ==
  /\ ReplyInOrder' <=> (Waiting' => Asked' \/ Coming' \/ Broken')
  /\ LineClean' <=> (Waiting' \/ Clean')
BY Zenon DEF ReplyInOrder, LineClean, Asked, Coming, Broken, Clean, Cat

(* The one operation that waits is the owner's.                            *)
LEMMA OneWaits ==
  ASSUME MutexBalanced, NEW t \in Threads, pc[t] \in {"read", "sem"}
  PROVE  Waiting /\ owner = t /\ Awaited = req[t]
BY DEF MutexBalanced, Waiting, Awaited

LEMMA ReturnEndsWait ==
  ASSUME CallerType, MutexBalanced, NEW t \in Threads, pc[t] \in Busy, Return(t)
  PROVE  ~Waiting'
<1>1. owner = t /\ \A u \in Threads \ {t} : pc[u] \notin Busy
  BY DEF MutexBalanced, Busy
<1>2. ASSUME NEW w \in Threads, pc[w] = "take",
             pc' = [pc EXCEPT ![t] = "idle", ![w] = "send"]
      PROVE  ~Waiting'
  <2>1. w # t
    BY <1>2 DEF Busy
  <2>2. /\ pc'[w] = "send" /\ pc'[t] = "idle"
        /\ \A u \in Threads \ {t, w} : pc'[u] = pc[u]
    BY <1>2, <2>1 DEF CallerType
  <2> QED BY <1>1, <2>2 DEF Waiting, Busy
<1>3. ASSUME pc' = [pc EXCEPT ![t] = "idle"] PROVE ~Waiting'
  <2>1. pc'[t] = "idle" /\ \A u \in Threads \ {t} : pc'[u] = pc[u]
    BY <1>3 DEF CallerType
  <2> QED BY <1>1, <2>1 DEF Waiting, Busy
<1> QED BY <1>2, <1>3 DEF Return

(* Lengths of what is read, received and on the line.                      *)
LEMMA ComingLength ==
  ASSUME LineType, Awaited \in Requests, Coming
  PROVE  /\ Len(buf) + Len(rxq) + Len(wire) = ReceiveSize(Awaited.cmd)
         /\ \A i \in 1 .. Len(wire) : wire[i].live
<1> DEFINE R == Reply(Awaited.motor, Awaited.cmd, TRUE)
<1>1. /\ buf \in Seq(Bytes) /\ rxq \in Seq(Bytes) /\ wire \in Seq(Bytes)
      /\ Awaited.motor \in Steppers /\ Awaited.cmd \in Cmds
  BY DEF LineType, Requests
<1>2. /\ Len(R) = ReceiveSize(Awaited.cmd)
      /\ \A i \in 1 .. ReceiveSize(Awaited.cmd) : R[i].live
      /\ (buf \o rxq) \o wire = R
  BY <1>1, LiveReply, Zenon DEF Coming, Cat
<1> HIDE DEF R
<1>3. buf \o rxq \in Seq(Bytes) /\ Len(buf \o rxq) = Len(buf) + Len(rxq)
  BY <1>1, ConcatProperties
<1>4. /\ Len((buf \o rxq) \o wire) = Len(buf \o rxq) + Len(wire)
      /\ \A i \in 1 .. Len(buf \o rxq) + Len(wire) :
           ((buf \o rxq) \o wire)[i]
             = IF i <= Len(buf \o rxq) THEN (buf \o rxq)[i] ELSE wire[i - Len(buf \o rxq)]
  BY <1>1, <1>3, ConcatProperties
<1>5. Len(buf \o rxq) + Len(wire) = ReceiveSize(Awaited.cmd)
  BY <1>2, <1>4
<1>6. Len(buf) \in Nat /\ Len(rxq) \in Nat /\ Len(wire) \in Nat
  BY <1>1, LenProperties
<1>7. ASSUME NEW i \in 1 .. Len(wire) PROVE wire[i].live
  <2> DEFINE n == Len(buf \o rxq)
  <2>1. n \in Nat
    BY <1>3, <1>6
  <2> HIDE DEF n
  <2>2. n + i \in 1 .. n + Len(wire) /\ ~(n + i <= n) /\ (n + i) - n = i
    BY <1>6, <2>1
  <2>3. ((buf \o rxq) \o wire)[n + i] = wire[i]
    BY <1>4, <2>2 DEF n
  <2>4. ((buf \o rxq) \o wire)[n + i].live
    BY <1>2, <1>5, <2>2 DEF n
  <2> QED BY <2>3, <2>4
<1> QED BY <1>3, <1>5, <1>7

(* The stages while nothing but the line and the buffers changes.          *)
LEMMA SameWait ==
  ASSUME UNCHANGED <<pc, req, owner>>
  PROVE  Waiting' = Waiting /\ Awaited' = Awaited
BY DEF Waiting, Awaited

WaitInv == OwnReply /\ LineClean /\ ReplyInOrder

LEMMA IInvParts == IInv <=> CallerInv /\ LineType /\ WaitInv
BY TypeSplit DEF IInv, CallerInv, WaitInv

(* A request of its own replaces nothing the waiting operation relies on.  *)
LEMMA WaitCall ==
  ASSUME IInv, NEW t \in Threads, NEW r \in Requests, Call(t, r)
  PROVE  WaitInv'
<1>1. CallerType /\ MutexBalanced /\ LineType /\ WaitInv
  BY IInvParts DEF CallerInv
<1>2. /\ UNCHANGED <<sem, rxq, buf, meas, pending, wire, lost>>
      /\ pc[t] = "idle" /\ req' = [req EXCEPT ![t] = r]
      /\ \E s \in {"send", "take"} : pc' = [pc EXCEPT ![t] = s]
  BY <1>1 DEF Call, line
<1>3. \A u \in Threads : pc'[u] \in {"read", "sem"} <=> pc[u] \in {"read", "sem"}
  BY <1>1, <1>2 DEF CallerType
<1>4. Waiting' <=> Waiting
  BY <1>3 DEF Waiting
<1>5. Waiting => Awaited' = Awaited
  <2> SUFFICES ASSUME NEW w \in Threads, pc[w] \in {"read", "sem"}
               PROVE  Awaited' = Awaited
    BY DEF Waiting
  <2>1. owner = w /\ w # t /\ owner # NoOne
    BY <1>1, <1>2, OneWaits, EmmBusAssumption
  <2>2. owner' = owner
    BY <2>1 DEF Call
  <2> QED BY <1>1, <1>2, <2>1, <2>2 DEF Awaited, LineType
<1>6. OwnReply'
  BY <1>1, <1>2 DEF WaitInv, OwnReply
<1>7. Waiting => (Asked => Asked') /\ (Coming => Coming') /\ (Broken => Broken')
  BY <1>2, <1>5 DEF Asked, Coming, Broken
<1>8. Clean => Clean'
  BY <1>2 DEF Clean
<1> QED BY <1>1, <1>4, <1>6, <1>7, <1>8, Stages, StagesNext DEF WaitInv

(* The line is clean when a request goes out on it.                        *)
LEMMA WaitTransmit ==
  ASSUME IInv, NEW t \in Threads, Transmit(t)
  PROVE  WaitInv' /\ Clean
<1>1. CallerType /\ MutexBalanced /\ LineType /\ WaitInv
  BY IInvParts DEF CallerInv
<1>2. owner = t /\ ~Waiting
  BY <1>1 DEF Transmit, MutexBalanced, Waiting
<1>3. Clean
  BY <1>1, <1>2, Stages DEF WaitInv
<1>4. pc'[t] = "read" /\ owner' = t /\ req' = req
  BY <1>1, <1>2 DEF Transmit, CallerType
<1>5. Waiting' /\ Awaited' = req[t]
  BY <1>4 DEF Waiting, Awaited
<1>6. pending' = << [motor |-> req[t].motor, cmd |-> req[t].cmd, live |-> TRUE] >>
  BY <1>3 DEF Transmit, Clean
<1>7. Asked'
  BY <1>3, <1>5, <1>6 DEF Asked, Clean, Transmit
<1>8. OwnReply'
  BY <1>1 DEF Transmit, WaitInv, OwnReply
<1> QED BY <1>3, <1>5, <1>7, <1>8, Stages, StagesNext DEF WaitInv

(* The end of an operation after which nothing is under way.               *)
LEMMA WaitReturn ==
  ASSUME IInv, NEW t \in Threads, pc[t] \in Busy, Return(t),
         rxq' = << >>, pending = << >>, wire = << >>
  PROVE  LineClean' /\ ReplyInOrder'
<1>1. CallerType /\ MutexBalanced
  BY IInvParts DEF CallerInv
<1>2. ~Waiting'
  BY <1>1, ReturnEndsWait
<1>3. buf' = << >> /\ pending' = Stale(pending) /\ wire' = Stale(wire)
  BY DEF Return
<1>4. Stale(<< >>) = << >>
  BY StaleBytes, EmptySeq
<1>5. Clean'
  BY <1>3, <1>4, Zenon DEF Clean
<1> QED BY <1>2, <1>5, StagesNext

(* The last byte of the expected size completes the whole reply.           *)
LEMMA WaitReadByte ==
  ASSUME IInv, NEW t \in Threads, ReadByte(t)
  PROVE  WaitInv'
<1>1. CallerType /\ MutexBalanced /\ LineType /\ WaitInv
  BY IInvParts DEF CallerInv
<1>2. pc[t] = "read" /\ rxq # << >> /\ UNCHANGED <<req, sem, lost>>
  BY DEF ReadByte
<1>3. Waiting /\ owner = t /\ Awaited = req[t]
  BY <1>1, <1>2, OneWaits
<1>4. /\ Awaited \in Requests /\ Awaited.motor \in Steppers /\ Awaited.cmd \in Cmds
      /\ ReceiveSize(Awaited.cmd) \in 4 .. 8
  BY <1>1, <1>3 DEF LineType, Requests, ReceiveSize
<1>5. Coming \/ Broken
  BY <1>1, <1>2, <1>3, Stages DEF WaitInv, Asked
<1>6. rxq \in Seq(Bytes) /\ buf \in Seq(Bytes) /\ wire \in Seq(Bytes)
  BY <1>1 DEF LineType
<1>7. /\ Append(buf, Head(rxq)) \in Seq(Bytes)
      /\ Len(Append(buf, Head(rxq))) = Len(buf) + 1
      /\ Tail(rxq) \in Seq(Bytes) /\ Len(Tail(rxq)) = Len(rxq) - 1
      /\ Cat(Append(buf, Head(rxq)), Tail(rxq)) = Cat(buf, rxq)
  BY <1>2, <1>6, ShiftHead
<1>8. Len(buf) \in Nat /\ Len(rxq) \in Nat \ {0} /\ Len(wire) \in Nat
  BY <1>2, <1>6, EmptySeq, LenProperties
<1>9. CASE /\ Len(buf) + 1 >= ReceiveSize(req[t].cmd)
           /\ EmmCmdAna(req[t].motor, req[t].cmd, Append(buf, Head(rxq)))
           /\ Return(t)
           /\ rxq' = Stale(Tail(rxq))
  <2>1. Len(buf) + 1 >= ReceiveSize(Awaited.cmd)
    BY <1>3, <1>9
  <2>2. Coming
    BY <1>4, <1>5, <1>8, <2>1 DEF Broken
  <2>3. Len(buf) + Len(rxq) + Len(wire) = ReceiveSize(Awaited.cmd)
    BY <1>1, <1>4, <2>2, ComingLength
  <2>4. Len(Tail(rxq)) = 0 /\ Len(wire) = 0
    BY <1>4, <1>7, <1>8, <2>1, <2>3
  <2>5. Tail(rxq) = << >> /\ wire = << >>
    BY <1>6, <1>7, <2>4, EmptySeq
  <2>6. rxq' = << >> /\ pending = << >>
    BY <1>9, <2>2, <2>5, StaleBytes, EmptySeq DEF Coming
  <2>7. LineClean' /\ ReplyInOrder'
    BY <1>2, <1>9, <2>5, <2>6, WaitReturn DEF Busy
  <2> DEFINE b == Append(buf, Head(rxq))
             R == Reply(Awaited.motor, Awaited.cmd, TRUE)
  <2>8. b = R
    <3>1. Cat(b, << >>) = Cat(buf, rxq)
      BY <1>7, <2>5
    <3>2. Cat(Cat(buf, rxq), << >>) = R
      BY <2>2, <2>5 DEF Coming
    <3>3. Cat(buf, rxq) \in Seq(Bytes) /\ b \in Seq(Bytes)
      BY <1>6, <1>7, ConcatProperties DEF Cat
    <3> HIDE DEF b, R
    <3>4. \A s \in Seq(Bytes) : Cat(s, << >>) = s
      BY ConcatEmptySeq DEF Cat
    <3> QED BY <3>1, <3>2, <3>3, <3>4
  <2>9. \A n \in Steppers, d \in Measured :
          \/ meas'[n][d] = meas[n][d]
          \/ n = Awaited.motor /\ d = Awaited.cmd /\ meas'[n][d] = b
    <3>1. /\ b \in Seq(Bytes) /\ EmmCmdAna(Awaited.motor, Awaited.cmd, b)
          /\ meas \in [Steppers -> [Measured -> Seq(Bytes)]]
      BY <1>1, <1>3, <1>7, <1>9 DEF LineType
    <3> HIDE DEF b
    <3> QED BY <1>4, <3>1, EmmCmdAnaStores
  <2>10. OwnReply'
    BY <1>1, <2>8, <2>9, Zenon DEF WaitInv, OwnReply
  <2> QED BY <2>7, <2>10 DEF WaitInv
<1>10. CASE /\ Len(buf) + 1 < ReceiveSize(req[t].cmd)
            /\ rxq' = Tail(rxq)
            /\ buf' = Append(buf, Head(rxq))
            /\ UNCHANGED <<pc, owner, meas, pending, wire>>
  <2>1. Waiting' = Waiting /\ Awaited' = Awaited
    BY <1>2, <1>10, SameWait
  <2>2. Len(buf') < ReceiveSize(Awaited.cmd)
    BY <1>3, <1>7, <1>10
  <2>3. ASSUME Coming PROVE Coming'
    <3>1. Cat(buf', rxq') = Cat(buf, rxq)
      BY <1>7, <1>10
    <3>2. Cat(Cat(buf', rxq'), wire') = Cat(Cat(buf, rxq), wire)
      BY <1>10, <3>1
    <3> QED BY <1>2, <1>10, <2>1, <2>2, <2>3, <3>2 DEF Coming
  <2>4. ASSUME Broken PROVE Broken'
    <3>1. Len(buf') + Len(rxq') + Len(wire') = Len(buf) + Len(rxq) + Len(wire)
      BY <1>7, <1>8, <1>10
    <3> QED BY <1>2, <1>10, <2>1, <2>4, <3>1 DEF Broken
  <2>5. OwnReply'
    BY <1>1, <1>10 DEF WaitInv, OwnReply
  <2> QED BY <1>3, <1>5, <2>1, <2>3, <2>4, <2>5, Stages, StagesNext DEF WaitInv
<1> QED BY <1>9, <1>10 DEF ReadByte

(* On a timely line the semaphore stays empty for 100 ticks only when part *)
(* of the reply is lost, and then nothing of it is left to come.           *)
LEMMA TimeoutLost ==
  ASSUME IInv, Timely, NEW t \in Threads, SemTimeout(t)
  PROVE  Broken /\ lost /\ rxq = << >> /\ wire = << >> /\ pending = << >>
<1>1. CallerType /\ MutexBalanced /\ NoLostWakeup /\ LineType /\ WaitInv
  BY IInvParts DEF CallerInv
<1>2. pc[t] = "sem" /\ sem = 0 /\ ~Live(pending) /\ ~Live(wire)
  BY DEF SemTimeout
<1>3. rxq = << >>
  BY <1>1, <1>2 DEF NoLostWakeup
<1>4. Waiting /\ owner = t /\ Awaited = req[t]
  BY <1>1, <1>2, OneWaits
<1>5. /\ Awaited \in Requests
      /\ buf \in Seq(Bytes) /\ rxq \in Seq(Bytes) /\ wire \in Seq(Bytes)
  BY <1>1, <1>4 DEF LineType
<1>6. Len(buf) \in Nat /\ Len(wire) \in Nat /\ Len(rxq) = 0
      /\ DOMAIN wire = 1 .. Len(wire)
  BY <1>3, <1>5, LenProperties
<1>7. ~Asked
  BY <1>2 DEF Asked, Live
<1>8. ~Coming
  <2> SUFFICES ASSUME Coming PROVE FALSE
    OBVIOUS
  <2>1. /\ Len(buf) + Len(rxq) + Len(wire) = ReceiveSize(Awaited.cmd)
        /\ \A i \in 1 .. Len(wire) : wire[i].live
    BY <1>1, <1>5, ComingLength
  <2>2. ReceiveSize(Awaited.cmd) \in Nat /\ Len(buf) < ReceiveSize(Awaited.cmd)
    BY DEF ReceiveSize, Coming
  <2>3. 1 \in DOMAIN wire
    BY <1>6, <2>1, <2>2
  <2> QED BY <1>2, <1>6, <2>1, <2>3 DEF Live
<1>9. Broken
  BY <1>1, <1>4, <1>7, <1>8, Stages DEF WaitInv
<1>10. wire = << >>
  <2>1. \A i \in DOMAIN wire : FALSE
    BY <1>2, <1>9 DEF Broken, Live
  <2>2. 1 \notin 1 .. Len(wire)
    BY <1>6, <2>1
  <2>3. Len(wire) = 0
    BY <1>6, <2>2
  <2> QED BY <1>5, <2>3, EmptySeq
<1> QED BY <1>3, <1>9, <1>10 DEF Broken

LEMMA WaitTimeout ==
  ASSUME IInv, Timely, NEW t \in Threads, SemTimeout(t)
  PROVE  WaitInv'
<1>1. rxq = << >> /\ wire = << >> /\ pending = << >>
  BY TimeoutLost
<1>2. /\ pc[t] \in Busy /\ Return(t) /\ rxq' = Stale(rxq)
      /\ meas' = meas
  BY DEF SemTimeout, Busy
<1>3. rxq' = << >>
  BY <1>1, <1>2, StaleBytes, EmptySeq
<1>4. LineClean' /\ ReplyInOrder'
  BY <1>1, <1>2, <1>3, WaitReturn
<1>5. OwnReply'
  BY <1>2, IInvParts DEF WaitInv, OwnReply
<1> QED BY <1>4, <1>5 DEF WaitInv

(* The interrupt moves bytes from the line to the ring in their order.     *)
LEMMA WaitInterrupt ==
  ASSUME IInv, NEW k \in 1 .. Len(wire), EmmUartRxInd(k)
  PROVE  WaitInv'
<1>1. LineType /\ WaitInv
  BY IInvParts
<1>2. rxq \in Seq(Bytes) /\ wire \in Seq(Bytes) /\ buf \in Seq(Bytes)
  BY <1>1 DEF LineType
<1>3. Len(wire) \in Nat /\ Len(rxq) \in Nat /\ Len(buf) \in Nat
  BY <1>2, LenProperties
<1>4. wire # << >>
  BY <1>3
<1>5. Waiting
  BY <1>1, <1>4, Stages DEF WaitInv, Clean
<1>6. Coming \/ Broken
  BY <1>1, <1>4, <1>5, Stages DEF WaitInv, Asked
<1>7. /\ rxq' = rxq \o SubSeq(wire, 1, k)
      /\ wire' = SubSeq(wire, k + 1, Len(wire))
      /\ UNCHANGED <<pc, req, owner, buf, meas, pending, lost>>
  BY DEF EmmUartRxInd, caller
<1>8. /\ rxq' \in Seq(Bytes) /\ Len(rxq') = Len(rxq) + k
      /\ wire' \in Seq(Bytes) /\ Len(wire') = Len(wire) - k
      /\ \A i \in 1 .. Len(wire) - k : wire'[i] = wire[k + i]
      /\ Cat(rxq', wire') = Cat(rxq, wire)
  <2> DEFINE x == rxq \o SubSeq(wire, 1, k)
             y == SubSeq(wire, k + 1, Len(wire))
  <2>1. /\ x \in Seq(Bytes) /\ Len(x) = Len(rxq) + k
        /\ y \in Seq(Bytes) /\ Len(y) = Len(wire) - k
        /\ \A i \in 1 .. Len(wire) - k : y[i] = wire[k + i]
        /\ Cat(x, y) = Cat(rxq, wire)
    <3>1. x \in Seq(Bytes) /\ Len(x) = Len(rxq) + k
      BY <1>2, Transfer, Zenon
    <3>2. y \in Seq(Bytes) /\ Len(y) = Len(wire) - k
      BY <1>2, Transfer, SMTT(30)
    <3>3. \A i \in 1 .. Len(wire) - k : y[i] = wire[k + i]
      BY <1>2, Transfer, SMTT(30)
    <3>4. Cat(x, y) = Cat(rxq, wire)
      BY <1>2, Transfer, SMTT(30)
    <3> QED BY <3>1, <3>2, <3>3, <3>4
  <2>2. rxq' = x /\ wire' = y
    BY <1>7
  <2> HIDE DEF x, y
  <2> QED BY <2>1, <2>2
<1>9. Waiting' = Waiting /\ Awaited' = Awaited
  BY <1>7, SameWait
<1>10. ASSUME Coming PROVE Coming'
  <2>1. Cat(Cat(buf, rxq'), wire') = Cat(Cat(buf, rxq), wire)
    BY <1>2, <1>8, RegroupEqual
  <2> QED BY <1>7, <1>9, <1>10, <2>1 DEF Coming
<1>11. ASSUME Broken PROVE Broken'
  <2>1. Len(buf) + Len(rxq') + Len(wire') = Len(buf) + Len(rxq) + Len(wire)
    BY <1>3, <1>8
  <2>2. \A i \in DOMAIN wire' : wire'[i].live
    <3>1. DOMAIN wire' = 1 .. Len(wire) - k /\ DOMAIN wire = 1 .. Len(wire)
      BY <1>2, <1>8, LenProperties
    <3>2. \A i \in 1 .. Len(wire) - k : k + i \in 1 .. Len(wire)
      BY <1>3
    <3> QED BY <1>8, <1>11, <3>1, <3>2 DEF Broken
  <2> QED BY <1>7, <1>9, <1>11, <2>1, <2>2 DEF Broken
<1>12. OwnReply'
  BY <1>1, <1>7 DEF WaitInv, OwnReply
<1> QED BY <1>5, <1>6, <1>9, <1>10, <1>11, <1>12, Stages, StagesNext DEF WaitInv

(* Only the motor that has been asked answers, and with what is awaited.   *)
LEMMA WaitAnswer ==
  ASSUME IInv, NEW i \in 1 .. Len(pending), Answer(i)
  PROVE  WaitInv'
<1>1. LineType /\ WaitInv
  BY IInvParts
<1>2. pending \in Seq(Pending) /\ Len(pending) \in Nat /\ pending # << >>
  BY <1>1, LenProperties DEF LineType
<1>3. Waiting /\ Asked
  BY <1>1, <1>2, Stages DEF WaitInv, Clean, Coming, Broken
<1>4. Len(pending) = 1 /\ i = 1
  BY <1>3 DEF Asked
<1>5. pending[1] = [motor |-> Awaited.motor, cmd |-> Awaited.cmd, live |-> TRUE]
  BY <1>3 DEF Asked
<1>6. /\ UNCHANGED <<pc, req, owner, buf, rxq, meas, lost>>
      /\ pending' = Without(pending, i)
      /\ wire' = wire \o Reply(pending[i].motor, pending[i].cmd, pending[i].live)
  BY DEF Answer, caller
<1>7. Waiting' = Waiting /\ Awaited' = Awaited
  BY <1>6, SameWait
<1>8. pending' = << >>
  <2>1. pending' \in Seq(Pending) /\ Len(pending') = Len(pending) - 1
    BY <1>2, <1>6, WithoutProperties
  <2> QED BY <1>4, <2>1, EmptySeq
<1> DEFINE R == Reply(Awaited.motor, Awaited.cmd, TRUE)
<1>9. wire' = << >> \o R
  <2>1. /\ pending[1].motor = Awaited.motor /\ pending[1].cmd = Awaited.cmd
        /\ pending[1].live = TRUE
    BY <1>5
  <2>2. wire = << >>
    BY <1>3 DEF Asked
  <2> QED BY <1>4, <1>6, <2>1, <2>2, Zenon
<1>10. Awaited \in Requests
  <2>1. pending[1] \in Pending
    BY <1>2, <1>4, ElementOfSeq
  <2>2. owner \in Threads
    BY <1>3, IInvParts DEF CallerInv, MutexBalanced, Waiting
  <2> QED BY <1>1, <2>2 DEF LineType, Awaited
<1>11. R \in Seq(Bytes) /\ Len(R) = ReceiveSize(Awaited.cmd)
  BY <1>10, LiveReply, Zenon DEF Requests
<1>12. ReceiveSize(Awaited.cmd) \in 4 .. 8
  BY DEF ReceiveSize
<1> HIDE DEF R
<1>13. buf' = << >> /\ rxq' = << >>
  BY <1>3, <1>6 DEF Asked
<1>14. Cat(Cat(buf', rxq'), wire') = R
  BY <1>9, <1>11, <1>13, ConcatEmptySeq, EmptySeq DEF Cat
<1>15. Coming'
  <2>1. Len(buf') = 0
    BY <1>13
  <2>2. ~lost'
    BY <1>3, <1>6 DEF Asked
  <2>3. Cat(Cat(buf', rxq'), wire') = Reply(Awaited'.motor, Awaited'.cmd, TRUE)
    BY <1>7, <1>14, Zenon DEF R
  <2>4. Len(buf') < ReceiveSize(Awaited'.cmd)
    BY <1>7, <1>12, <2>1
  <2> QED BY <1>8, <2>2, <2>3, <2>4, Zenon DEF Coming
<1>16. OwnReply'
  BY <1>1, <1>6 DEF WaitInv, OwnReply
<1> QED BY <1>3, <1>7, <1>15, <1>16, StagesNext DEF WaitInv

LEMMA WaitLoseRequest ==
  ASSUME IInv, NEW i \in 1 .. Len(pending), LoseRequest(i)
  PROVE  WaitInv'
<1>1. LineType /\ WaitInv
  BY IInvParts
<1>2. pending \in Seq(Pending) /\ Len(pending) \in Nat /\ pending # << >>
  BY <1>1, LenProperties DEF LineType
<1>3. Waiting /\ Asked
  BY <1>1, <1>2, Stages DEF WaitInv, Clean, Coming, Broken
<1>4. Len(pending) = 1 /\ i = 1 /\ pending[1].live
  BY <1>3 DEF Asked
<1>5. /\ UNCHANGED <<pc, req, owner, buf, rxq, wire, meas>>
      /\ pending' = Without(pending, i) /\ lost'
  BY <1>4 DEF LoseRequest, caller
<1>6. Waiting' = Waiting /\ Awaited' = Awaited
  BY <1>5, SameWait
<1>7. pending' = << >>
  <2>1. pending' \in Seq(Pending) /\ Len(pending') = Len(pending) - 1
    BY <1>2, <1>5, WithoutProperties
  <2> QED BY <1>4, <2>1, EmptySeq
<1>8. buf' = << >> /\ rxq' = << >> /\ wire' = << >>
  BY <1>3, <1>5 DEF Asked
<1>9. Broken'
  <2>1. 0 + 0 + 0 < ReceiveSize(Awaited.cmd)
    BY DEF ReceiveSize
  <2> QED BY <1>5, <1>6, <1>7, <1>8, <2>1 DEF Broken
<1>10. OwnReply'
  BY <1>1, <1>5 DEF WaitInv, OwnReply
<1> QED BY <1>3, <1>6, <1>9, <1>10, StagesNext DEF WaitInv

(* A byte less: the reply can no longer reach the size waited for.         *)
LEMMA WaitLoseByte ==
  ASSUME IInv, NEW i \in 1 .. Len(wire), LoseByte(i)
  PROVE  WaitInv'
<1>1. LineType /\ WaitInv
  BY IInvParts
<1>2. rxq \in Seq(Bytes) /\ wire \in Seq(Bytes) /\ buf \in Seq(Bytes)
  BY <1>1 DEF LineType
<1>3. /\ Len(wire) \in Nat /\ Len(rxq) \in Nat /\ Len(buf) \in Nat
      /\ DOMAIN wire = 1 .. Len(wire)
  BY <1>2, LenProperties
<1>4. wire # << >>
  BY <1>3
<1>5. Waiting
  BY <1>1, <1>4, Stages DEF WaitInv, Clean
<1>6. Coming \/ Broken
  BY <1>1, <1>4, <1>5, Stages DEF WaitInv, Asked
<1>7. Awaited \in Requests
  <2>1. owner \in Threads
    BY <1>5, IInvParts DEF CallerInv, MutexBalanced, Waiting
  <2> QED BY <1>1, <2>1 DEF LineType, Awaited
<1>8. /\ \A j \in 1 .. Len(wire) : wire[j].live
      /\ Len(buf) + Len(rxq) + Len(wire) <= ReceiveSize(Awaited.cmd)
      /\ pending = << >> /\ ReceiveSize(Awaited.cmd) \in Nat
  <2>1. CASE Coming
    BY <1>1, <1>3, <1>7, <2>1, ComingLength DEF Coming, ReceiveSize
  <2>2. CASE Broken
    BY <1>3, <2>2 DEF Broken, ReceiveSize
  <2> QED BY <1>6, <2>1, <2>2
<1>9. /\ UNCHANGED <<pc, req, owner, buf, rxq, pending, meas>>
      /\ wire' = Without(wire, i) /\ lost'
  BY <1>8 DEF LoseByte, caller
<1>10. /\ wire' \in Seq(Bytes) /\ Len(wire') = Len(wire) - 1
       /\ \A j \in 1 .. Len(wire) - 1 : \E k \in 1 .. Len(wire) : wire'[j] = wire[k]
  BY <1>2, <1>9, WithoutProperties, Zenon
<1>11. DOMAIN wire' = 1 .. Len(wire) - 1
  BY <1>10, LenProperties
<1>12. Waiting' = Waiting /\ Awaited' = Awaited
  BY <1>9, SameWait
<1>13. Broken'
  <2>1. \A j \in DOMAIN wire' : wire'[j].live
    BY <1>8, <1>10, <1>11
  <2>2. Len(buf') + Len(rxq') + Len(wire') < ReceiveSize(Awaited'.cmd)
    BY <1>3, <1>8, <1>9, <1>10, <1>12
  <2> QED BY <1>8, <1>9, <2>1, <2>2 DEF Broken
<1>14. OwnReply'
  BY <1>1, <1>9 DEF WaitInv, OwnReply
<1> QED BY <1>5, <1>12, <1>13, <1>14, StagesNext DEF WaitInv

LEMMA IInvInit == Init => IInv
<1> SUFFICES ASSUME Init PROVE IInv
  OBVIOUS
<1>1. CallerInv /\ LineType
  BY CallerInit, LineTypeInit
<1>2. \A t \in Threads : pc[t] = "idle"
  BY DEF Init
<1>3. ~Waiting
  BY <1>2 DEF Waiting
<1>4. LineClean /\ ReplyInOrder
  BY <1>3 DEF Init, LineClean, ReplyInOrder
<1>5. OwnReply
  BY DEF Init, OwnReply
<1> QED BY <1>1, <1>4, <1>5, IInvParts DEF WaitInv

LEMMA IInvNext == ASSUME Timely PROVE IInv /\ [Next]_vars => IInv'
<1> SUFFICES ASSUME IInv, [Next]_vars PROVE IInv'
  OBVIOUS
<1>1. CallerInv' /\ LineType'
  BY IInvParts, CallerNext, LineTypeNext DEF IInv
<1>2. ASSUME NEW t \in Threads, ReadNone(t) \/ SemTake(t) PROVE WaitInv'
  <2>1. CallerType /\ MutexBalanced /\ WaitInv
    BY IInvParts DEF CallerInv
  <2>2. /\ UNCHANGED <<req, owner, rxq, buf, meas, pending, wire, lost>>
        /\ pc[t] \in {"read", "sem"} /\ pc'[t] \in {"read", "sem"}
    BY <1>2, <2>1 DEF ReadNone, SemTake, line, CallerType
  <2>3. Waiting /\ Waiting' /\ Awaited' = Awaited
    BY <2>2 DEF Waiting, Awaited
  <2>4. (Asked => Asked') /\ (Coming => Coming') /\ (Broken => Broken')
    BY <2>2, <2>3 DEF Asked, Coming, Broken
  <2>5. OwnReply'
    BY <2>1, <2>2 DEF WaitInv, OwnReply
  <2> QED BY <2>1, <2>3, <2>4, <2>5, Stages, StagesNext DEF WaitInv
<1>3. WaitInv'
  <2>1. CASE \E t \in Threads : Thread(t) \/ \E r \in Requests : Call(t, r)
    BY <1>2, <2>1, WaitCall, WaitTransmit, WaitReadByte, WaitTimeout DEF Thread
  <2>2. CASE Interrupt
    BY <2>2, WaitInterrupt DEF Interrupt
  <2>3. CASE Motor
    BY <2>3, WaitAnswer DEF Motor
  <2>4. CASE Loss
    BY <2>4, WaitLoseRequest, WaitLoseByte DEF Loss
  <2>5. CASE UNCHANGED vars
    BY <2>5, IInvParts DEF WaitInv, OwnReply, LineClean, ReplyInOrder, Waiting, Awaited,
                           vars, caller, line
  <2> QED BY <2>1, <2>2, <2>3, <2>4, <2>5 DEF Next
<1>4. (CallerInv /\ LineType /\ WaitInv <=> IInv)'
  BY DEF IInv, CallerInv, WaitInv, TypeOK, CallerType, LineType, Busy
<1> QED BY <1>1, <1>3, <1>4

(* Type correctness, on any line.                                          *)
THEOREM TypeOKAlways == Spec => []TypeOK
<1>1. Init => CallerInv /\ LineType
  BY CallerInit, LineTypeInit
<1>2. CallerInv /\ LineType /\ [Next]_vars => (CallerInv /\ LineType)'
  BY CallerNext, LineTypeNext, TypeSplit DEF CallerInv
<1>3. CallerInv /\ LineType => TypeOK
  BY TypeSplit DEF CallerInv
<1> QED BY <1>1, <1>2, <1>3, PTL DEF Spec

(* On a timely line the reply under way is that to the one request that is *)
(* waited for, in its order, whole or with bytes missing.                  *)
THEOREM IInvAlways == ASSUME Timely PROVE Spec => []IInv
<1>1. IInv /\ [Next]_vars => IInv'
  BY IInvNext
<1> QED BY IInvInit, <1>1, PTL DEF Spec

(* On a timely line, a speed or an angle kept for a motor was computed     *)
(* from the whole reply of that motor to that request, whatever is lost.   *)
THEOREM OwnReplyAlways == ASSUME Timely PROVE Spec => []OwnReply
<1>1. IInv => OwnReply
  BY DEF IInv
<1>2. IInv /\ [Next]_vars => IInv'
  BY IInvNext
<1> QED BY IInvInit, <1>1, <1>2, PTL DEF Spec

(* On a timely line no operation finds anything of a former one there.     *)
THEOREM CleanStartAlways == ASSUME Timely PROVE Spec => []CleanStart
<1>1. IInv => CleanStart
  <2> SUFFICES ASSUME IInv, NEW t \in Threads, pc[t] = "send"
               PROVE  rxq = << >> /\ wire = << >> /\ pending = << >>
    BY DEF CleanStart
  <2>1. ~Waiting
    BY DEF IInv, MutexBalanced, Waiting
  <2> QED BY <2>1 DEF IInv, LineClean
<1>2. IInv /\ [Next]_vars => IInv'
  BY IInvNext
<1> QED BY IInvInit, <1>1, <1>2, PTL DEF Spec

(* On a timely line only a loss ends an operation in the timeout: no order *)
(* of the interrupt and the reader does.                                   *)
THEOREM TimeoutOnlyIfLostAlways == ASSUME Timely PROVE Spec => TimeoutOnlyIfLost
<1>1. IInv => [\A t \in Threads : SemTimeout(t) => lost]_vars
  BY TimeoutLost
<1>2. IInv /\ [Next]_vars => IInv'
  BY IInvNext
<1> QED BY IInvInit, <1>1, <1>2, PTL DEF Spec, TimeoutOnlyIfLost
=============================================================================
