-------------------------- MODULE AbusTopicProofs --------------------------
(***************************************************************************)
(* Proofs about AbusTopic for any publishers, accounters and bounds: the   *)
(* walk over the vector of subscribers implements what TopicSpec promises. *)
(***************************************************************************)
EXTENDS AbusTopic, SequenceTheorems, FiniteSetTheorems, TLAPS

LEMMA InitInv == Init => WalkInv
<1> SUFFICES ASSUME Init PROVE WalkInv
  OBVIOUS
<1> USE AbusTopicAssumption DEF Init
<1>1. TypeOK
  BY DEF TypeOK, Places
<1>2. Progress /\ IndexBehind
  BY DEF Progress, IndexBehind
<1> QED BY <1>1, <1>2 DEF WalkInv

(* A message appended to the log of a place.                               *)
LEMMA LogAppended ==
  ASSUME NEW M, NEW log \in [Places -> Seq(M)], NEW s \in Places, NEW m \in M
  PROVE  [log EXCEPT ![s] = Append(@, m)] \in [Places -> Seq(M)]
OBVIOUS

(* Appending keeps what was there.                                         *)
LEMMA Appended ==
  ASSUME WalkInv, NEW b \in Kinds, Pushback(b)
  PROVE  /\ subcribers' \in Seq(Subscribers)
         /\ Len(subcribers') = Len(subcribers) + 1
         /\ Len(subcribers) + 1 \in Places
         /\ subcribers'[Len(subcribers) + 1] = b
         /\ \A i \in DOMAIN subcribers : i \in DOMAIN subcribers' /\ subcribers'[i] = subcribers[i]
         /\ b \in Subscribers
<1> USE AbusTopicAssumption DEF WalkInv, TypeOK, Pushback, Places
<1>1. b \in Subscribers
  OBVIOUS
<1>2. subcribers' = Append(subcribers, b) /\ subcribers \in Seq(Subscribers)
  OBVIOUS
<1>3. Len(subcribers) \in Nat /\ Len(subcribers) < MaxSubs /\ MaxSubs \in Nat
  OBVIOUS
<1> QED BY <1>1, <1>2, <1>3

LEMMA PushbackInv ==
  ASSUME WalkInv, NEW b \in Kinds, Pushback(b)
  PROVE  WalkInv'
<1> USE AbusTopicAssumption
<1>1. TypeOK'
  <2>1. Len(subcribers') <= MaxSubs
    BY Appended DEF Pushback, WalkInv, TypeOK
  <2>2. rx_cnt' \in [Places -> Nat]
    BY DEF Pushback, WalkInv, TypeOK
  <2>3. naming' \in Accounts \cup {NoName}
    BY Appended DEF Pushback, Subscribers
  <2> QED BY <2>1, <2>2, <2>3, Appended DEF Pushback, WalkInv, TypeOK, publisher, data
<1>2. Progress'
  <2>1. Len(subcribers') = Len(subcribers) + 1 /\ Len(subcribers) \in Nat
    BY Appended DEF WalkInv, TypeOK
  <2>2. UNCHANGED <<pc, start, given, sub>>
    BY DEF Pushback, publisher
  <2>3. start \in [Publishers -> Nat] /\ sub \in [Publishers -> Nat]
    BY DEF WalkInv, TypeOK
  <2> QED BY <2>1, <2>2, <2>3 DEF WalkInv, Progress
<1>3. IndexBehind'
  <2>1. UNCHANGED sub_hash_table /\ naming = NoName /\ naming' \in {b.acc, NoName}
    BY DEF Pushback
  <2>2. Len(subcribers) + 1 \in DOMAIN subcribers'
    BY Appended DEF WalkInv, TypeOK
  <2> QED BY <2>1, <2>2, Appended DEF WalkInv, IndexBehind
<1> QED BY <1>1, <1>2, <1>3 DEF WalkInv

(* Steps that leave the vector and its index alone.                        *)
LEMMA VectorKept ==
  ASSUME WalkInv, UNCHANGED <<subcribers, sub_hash_table, naming>>
  PROVE  IndexBehind'
BY DEF WalkInv, IndexBehind

LEMMA IndexInv ==
  ASSUME WalkInv, Index
  PROVE  WalkInv'
<1>1. TypeOK'
  BY DEF WalkInv, TypeOK, Index, publisher, data
<1>2. Progress'
  BY DEF WalkInv, Progress, Index, publisher
<1>3. IndexBehind'
  BY DEF WalkInv, IndexBehind, Index
<1> QED BY <1>1, <1>2, <1>3 DEF WalkInv

LEMMA PublishInv ==
  ASSUME WalkInv, NEW p \in Publishers, Publish(p)
  PROVE  WalkInv'
<1> USE AbusTopicAssumption
<1>0. Len(subcribers) \in 0 .. MaxSubs
  BY DEF WalkInv, TypeOK
<1>1. TypeOK'
  <2>1. msgs' \in [Publishers -> Nat] /\ \A q \in Publishers : msgs'[q] <= MaxMsgs[q]
    <3>1. /\ msgs \in [Publishers -> Nat] /\ \A q \in Publishers : msgs[q] <= MaxMsgs[q]
          /\ msgs[p] < MaxMsgs[p]
          /\ msgs' = [msgs EXCEPT ![p] = @ + 1]
      BY DEF WalkInv, TypeOK, Publish
    <3>2. \A m, n \in Nat : m < n => m + 1 <= n
      OBVIOUS
    <3>3. msgs[p] \in Nat /\ MaxMsgs[p] \in Nat
      BY <3>1
    <3>4. msgs[p] + 1 <= MaxMsgs[p] /\ msgs[p] + 1 \in Nat
      BY <3>1, <3>2, <3>3
    <3> QED BY <3>1, <3>4
  <2>2. pc' \in [Publishers -> {"idle", "next", "cb", "load", "store"}]
    BY DEF WalkInv, TypeOK, Publish
  <2>3. sub' \in [Publishers -> 1 .. MaxSubs + 1]
    <3>1. 1 \in 1 .. MaxSubs + 1
      OBVIOUS
    <3> QED BY <3>1 DEF WalkInv, TypeOK, Publish
  <2>4. start' \in [Publishers -> 0 .. MaxSubs]
    BY <1>0 DEF WalkInv, TypeOK, Publish
  <2>5. given' \in [Publishers -> SUBSET Places]
    BY DEF WalkInv, TypeOK, Publish
  <2> QED BY <2>1, <2>2, <2>3, <2>4, <2>5 DEF WalkInv, TypeOK, Publish, data
<1>2. Progress'
  <2> SUFFICES ASSUME NEW q \in Publishers, pc'[q] # "idle"
               PROVE  /\ start'[q] <= Len(subcribers)
                      /\ given'[q] = 1 .. (IF pc'[q] \in {"load", "store"} THEN sub'[q] ELSE sub'[q] - 1)
                      /\ sub'[q] <= (IF pc'[q] = "next" THEN Len(subcribers) + 1 ELSE Len(subcribers))
    BY DEF Progress, Publish
  <2>1. CASE q = p
    BY <1>0, <2>1 DEF WalkInv, TypeOK, Publish
  <2>2. CASE q # p
    BY <2>2 DEF WalkInv, TypeOK, Publish, Progress
  <2> QED BY <2>1, <2>2
<1>3. IndexBehind'
  BY VectorKept DEF Publish
<1> QED BY <1>1, <1>2, <1>3 DEF WalkInv

(* One step of a walk: what the parts of Progress come to.                 *)
LEMMA WalkStep ==
  ASSUME WalkInv, NEW p \in Publishers, Walk(p)
  PROVE  WalkInv'
<1> USE AbusTopicAssumption
<1>0. Len(subcribers) \in 0 .. MaxSubs
  BY DEF WalkInv, TypeOK
<1>a. UNCHANGED <<subcribers, sub_hash_table, naming, msgs, start>>
  BY DEF Walk, FifoIn, Callback, LoadCount, StoreCount, Return
<1>b. \A q \in Publishers \ {p} : pc'[q] = pc[q] /\ sub'[q] = sub[q] /\ given'[q] = given[q]
  BY DEF WalkInv, TypeOK, Walk, FifoIn, Callback, LoadCount, StoreCount, Return
<1>c. /\ pc[p] # "idle" /\ sub[p] \in 1 .. MaxSubs + 1
      /\ pc[p] # "next" => sub[p] \in Places
      /\ FifoIn(p) => sub[p] \in Places
  <2>1. pc[p] # "idle"
    BY DEF Walk, FifoIn, Callback, LoadCount, StoreCount, Return
  <2>2. sub[p] \in 1 .. MaxSubs + 1
    BY DEF WalkInv, TypeOK
  <2>3. pc[p] # "next" => sub[p] <= Len(subcribers)
    BY <2>1 DEF WalkInv, Progress
  <2>4. FifoIn(p) => sub[p] <= Len(subcribers)
    BY DEF FifoIn
  <2>5. sub[p] <= Len(subcribers) => sub[p] \in Places
    BY <1>0, <2>2 DEF Places
  <2> QED BY <2>1, <2>2, <2>3, <2>4, <2>5
<1>d. Message(p) \in Publishers \X Nat
  BY DEF WalkInv, TypeOK, Message
<1>1. TypeOK'
  <2>1. CASE FifoIn(p)
    <3>1. fed' \in [Places -> Seq(Publishers \X Nat)]
      <4>1. fed \in [Places -> Seq(Publishers \X Nat)]
        BY DEF WalkInv, TypeOK
      <4>2. fed' = fed \/ fed' = [fed EXCEPT ![sub[p]] = Append(@, Message(p))]
        BY <2>1 DEF FifoIn
      <4>3. sub[p] \in Places
        BY <2>1, <1>c
      <4>4. [fed EXCEPT ![sub[p]] = Append(@, Message(p))] \in [Places -> Seq(Publishers \X Nat)]
        BY <4>1, <4>3, <1>d, LogAppended
      <4> QED BY <4>1, <4>2, <4>4
    <3>2. pc' \in [Publishers -> {"idle", "next", "cb", "load", "store"}]
      BY <2>1 DEF FifoIn, WalkInv, TypeOK
    <3> QED BY <2>1, <3>1, <3>2 DEF FifoIn, WalkInv, TypeOK
  <2>2. CASE Callback(p)
    <3>1. called' \in [Places -> Seq(Publishers \X Nat)]
      BY <2>2, <1>c, <1>d, LogAppended DEF Callback, WalkInv, TypeOK
    <3>2. pc' \in [Publishers -> {"idle", "next", "cb", "load", "store"}]
      BY <2>2 DEF Callback, WalkInv, TypeOK
    <3>3. given' \in [Publishers -> SUBSET Places]
      BY <2>2, <1>c DEF Callback, WalkInv, TypeOK
    <3> QED BY <2>2, <3>1, <3>2, <3>3 DEF Callback, WalkInv, TypeOK
  <2>3. CASE LoadCount(p)
    BY <2>3, <1>c DEF LoadCount, WalkInv, TypeOK, data
  <2>4. CASE StoreCount(p)
    <3>1. sub[p] \in Places /\ MaxSubs \in Nat
      BY <2>4, <1>c DEF StoreCount
    <3>2. rx_cnt' \in [Places -> Nat]
      <4>1. rx_cnt \in [Places -> Nat] /\ reg[p] + 1 \in Nat
        BY DEF WalkInv, TypeOK
      <4> QED BY <2>4, <4>1 DEF StoreCount
    <3>3. sub' \in [Publishers -> 1 .. MaxSubs + 1]
      <4>1. sub[p] + 1 \in 1 .. MaxSubs + 1
        BY <3>1 DEF Places
      <4>2. sub \in [Publishers -> 1 .. MaxSubs + 1] /\ sub' = [sub EXCEPT ![p] = sub[p] + 1]
        BY <2>4 DEF StoreCount, WalkInv, TypeOK
      <4> QED BY <4>1, <4>2
    <3>4. pc' \in [Publishers -> {"idle", "next", "cb", "load", "store"}]
      BY <2>4 DEF StoreCount, WalkInv, TypeOK
    <3> QED BY <2>4, <3>1, <3>2, <3>3, <3>4 DEF StoreCount, WalkInv, TypeOK, data
  <2>5. CASE Return(p)
    BY <2>5 DEF Return, WalkInv, TypeOK, data
  <2> QED BY <2>1, <2>2, <2>3, <2>4, <2>5 DEF Walk
<1>2. Progress'
  <2>1. pc'[p] # "idle" =>
          /\ start[p] <= Len(subcribers)
          /\ given'[p] = 1 .. (IF pc'[p] \in {"load", "store"} THEN sub'[p] ELSE sub'[p] - 1)
          /\ sub'[p] <= (IF pc'[p] = "next" THEN Len(subcribers) + 1 ELSE Len(subcribers))
    <3>0. /\ start[p] <= Len(subcribers)
          /\ given[p] = 1 .. (IF pc[p] \in {"load", "store"} THEN sub[p] ELSE sub[p] - 1)
          /\ sub[p] <= (IF pc[p] = "next" THEN Len(subcribers) + 1 ELSE Len(subcribers))
      BY <1>c DEF WalkInv, Progress
    <3>1. CASE FifoIn(p)
      BY <1>0, <1>c, <3>0, <3>1 DEF FifoIn, WalkInv, TypeOK
    <3>2. CASE Callback(p)
      <4>1. /\ pc[p] = "cb" /\ pc'[p] = "load" /\ sub' = sub
            /\ given'[p] = given[p] \cup {sub[p]}
        BY <3>2 DEF Callback, WalkInv, TypeOK
      <4>2. (1 .. sub[p] - 1) \cup {sub[p]} = 1 .. sub[p]
        BY <1>c
      <4> QED BY <3>0, <4>1, <4>2
    <3>3. CASE LoadCount(p)
      BY <1>c, <3>0, <3>3 DEF LoadCount, WalkInv, TypeOK
    <3>4. CASE StoreCount(p)
      <4>1. /\ pc[p] = "store" /\ pc'[p] = "next" /\ given' = given
            /\ sub'[p] = sub[p] + 1
        BY <3>4 DEF StoreCount, WalkInv, TypeOK
      <4> QED BY <1>0, <1>c, <3>0, <4>1
    <3>5. CASE Return(p)
      BY <3>5 DEF Return, WalkInv, TypeOK
    <3> QED BY <3>1, <3>2, <3>3, <3>4, <3>5 DEF Walk
  <2> QED BY <1>a, <1>b, <2>1 DEF WalkInv, Progress
<1>3. IndexBehind'
  BY <1>a, VectorKept
<1> QED BY <1>1, <1>2, <1>3 DEF WalkInv

LEMMA StutterInv ==
  ASSUME WalkInv, UNCHANGED vars
  PROVE  WalkInv'
BY DEF WalkInv, TypeOK, Progress, IndexBehind, vars, publisher, data

LEMMA NextInv ==
  ASSUME WalkInv, [Next]_vars
  PROVE  WalkInv'
<1>1. ASSUME NEW b \in Kinds, Pushback(b) PROVE WalkInv'
  BY <1>1, PushbackInv
<1>2. CASE Index
  BY <1>2, IndexInv
<1>3. ASSUME NEW p \in Publishers, Publish(p) PROVE WalkInv'
  BY <1>3, PublishInv
<1>4. ASSUME NEW p \in Publishers, Walk(p) PROVE WalkInv'
  BY <1>4, WalkStep
<1>5. CASE Done
  BY <1>5, StutterInv DEF Done
<1>6. CASE UNCHANGED vars
  BY <1>6, StutterInv
<1> QED BY <1>1, <1>2, <1>3, <1>4, <1>5, <1>6 DEF Next, Subcribe

(* Every publication has given its message to exactly the places before    *)
(* the one it has come to, and the index never runs ahead of the vector.   *)
THEOREM WalkInvariance == Spec => []WalkInv
BY InitInv, NextInv, PTL DEF Spec

-----------------------------------------------------------------------------
(* The mapping to TopicSpec.                                               *)
there == 1 .. Len(subcribers)
open == {p \in Publishers : pc[p] # "idle"}
owed == [p \in Publishers |-> 1 .. start[p]]

(* A step of the abstract topic or none, whichever action the bus takes.   *)
LEMMA Refines ==
  ASSUME WalkInv, [Next]_vars
  PROVE  [Topic!Next]_(Topic!vars)
<1> USE AbusTopicAssumption
<1>0. Len(subcribers) \in 0 .. MaxSubs /\ pc \in [Publishers -> {"idle", "next", "cb", "load", "store"}]
  BY DEF WalkInv, TypeOK
<1>a. /\ sub \in [Publishers -> 1 .. MaxSubs + 1]
      /\ start \in [Publishers -> 0 .. MaxSubs]
      /\ given \in [Publishers -> SUBSET Places]
  BY DEF WalkInv, TypeOK
<1>b. ASSUME NEW p \in Publishers, pc[p] \in {"next", "cb"}
      PROVE  given[p] = 1 .. (sub[p] - 1)
  BY <1>b DEF WalkInv, Progress
<1>1. ASSUME NEW b \in Kinds, Pushback(b)
      PROVE  Topic!Next
  <2> DEFINE s == Len(subcribers) + 1
  <2>1. s \in Places /\ s \notin there /\ there' = there \cup {s}
    BY <1>0, <1>1, Appended DEF there, Places
  <2>2. UNCHANGED <<open, owed, given>>
    BY <1>1 DEF Pushback, publisher, open, owed
  <2>3. Topic!Subscribe(s)
    BY <2>1, <2>2 DEF Topic!Subscribe, there, open, owed
  <2> QED BY <2>1, <2>3 DEF Topic!Next
<1>2. ASSUME NEW p \in Publishers, Publish(p)
      PROVE  Topic!Next
  <2>1. p \notin open /\ open' = open \cup {p}
    BY <1>0, <1>2 DEF Publish, open
  <2>2. owed' = [owed EXCEPT ![p] = there]
    BY <1>2, <1>a DEF Publish, owed, there
  <2>3. given' = [given EXCEPT ![p] = {}] /\ there' = there
    BY <1>2 DEF Publish, there
  <2>4. Topic!Begin(p)
    BY <2>1, <2>2, <2>3 DEF Topic!Begin, there, open, owed
  <2> QED BY <2>4 DEF Topic!Next
<1>3. ASSUME NEW p \in Publishers, Callback(p)
      PROVE  Topic!Next
  <2>1. /\ pc[p] = "cb" /\ sub[p] \in Nat \ {0} /\ sub[p] <= Len(subcribers)
        /\ given[p] = 1 .. (sub[p] - 1)
    <3>1. pc[p] = "cb"
      BY <1>3 DEF Callback
    <3>2. sub[p] <= Len(subcribers)
      BY <3>1 DEF WalkInv, Progress
    <3> QED BY <1>a, <1>b, <3>1, <3>2
  <2>2. sub[p] \in there \ given[p] /\ sub[p] \in Places
    BY <1>0, <2>1 DEF there, Places
  <2>3. p \in open /\ open' = open
    BY <1>0, <1>3 DEF Callback, open
  <2>4. given' = [given EXCEPT ![p] = @ \cup {sub[p]}] /\ UNCHANGED <<there, owed>>
    BY <1>3 DEF Callback, there, owed
  <2>5. Topic!Hand(p, sub[p])
    BY <2>2, <2>3, <2>4 DEF Topic!Hand, there, open, owed
  <2> QED BY <2>2, <2>5 DEF Topic!Next
<1>4. ASSUME NEW p \in Publishers, Return(p)
      PROVE  Topic!Next
  <2>1. /\ pc[p] = "next" /\ start[p] < sub[p] /\ start[p] \in Nat /\ sub[p] \in Nat
        /\ given[p] = 1 .. (sub[p] - 1)
    <3>1. pc[p] = "next" /\ sub[p] > start[p]
      BY <1>4 DEF Return
    <3> QED BY <1>a, <1>b, <3>1
  <2>2. owed[p] \subseteq given[p]
    BY <2>1 DEF owed
  <2>3. p \in open /\ open' = open \ {p}
    BY <1>0, <1>4 DEF Return, open
  <2>4. UNCHANGED <<there, owed, given>>
    BY <1>4 DEF Return, there, owed
  <2>5. Topic!End(p)
    BY <2>2, <2>3, <2>4 DEF Topic!End, there, open, owed
  <2> QED BY <2>5 DEF Topic!Next
<1>5. ASSUME NEW p \in Publishers, FifoIn(p) \/ LoadCount(p) \/ StoreCount(p)
      PROVE  UNCHANGED Topic!vars
  <2>1. open' = open
    BY <1>0, <1>5 DEF FifoIn, LoadCount, StoreCount, open
  <2>2. UNCHANGED <<there, owed, given>>
    BY <1>5 DEF FifoIn, LoadCount, StoreCount, there, owed
  <2> QED BY <2>1, <2>2 DEF Topic!vars, there, open, owed
<1>6. CASE Index \/ Done \/ UNCHANGED vars
  BY <1>6 DEF Index, Done, vars, publisher, Topic!vars
<1> QED BY <1>1, <1>2, <1>3, <1>4, <1>5, <1>6 DEF Next, Subcribe, Walk

(* abus_publish does what TopicSpec promises, for any number of publishers *)
(* and however subscribing comes in between.                               *)
THEOREM Refinement == Spec => Implements
<1>1. Init => Topic!Init
  BY DEF Init, Topic!Init
<1>2. WalkInv /\ [Next]_vars => [Topic!Next]_(Topic!vars)
  BY Refines
<1> QED BY <1>1, <1>2, WalkInvariance, PTL DEF Spec, Implements, Topic!Spec

-----------------------------------------------------------------------------
(***************************************************************************)
(* The order of the messages in the log of a place.                        *)
(***************************************************************************)

Logs == Seq(Publishers \X Nat)

LEMMA LogElements ==
  ASSUME NEW log \in Logs, NEW q \in Publishers, NEW k \in Nat
  PROVE  LET l == Append(log, <<q, k>>) IN
         /\ l \in Logs /\ Len(log) \in Nat
         /\ DOMAIN log = 1 .. Len(log) /\ DOMAIN l = 1 .. Len(log) + 1
         /\ \A i \in DOMAIN log : l[i] = log[i]
         /\ l[Len(log) + 1][1] = q /\ l[Len(log) + 1][2] = k
<1> DEFINE m == <<q, k>>
           l == Append(log, m)
<1>1. m \in Publishers \X Nat /\ m[1] = q /\ m[2] = k
  OBVIOUS
<1> HIDE DEF m
<1>2. /\ l \in Logs /\ Len(log) \in Nat
      /\ DOMAIN log = 1 .. Len(log) /\ DOMAIN l = 1 .. Len(log) + 1
      /\ \A i \in DOMAIN log : l[i] = log[i]
      /\ l[Len(log) + 1] = m
  BY <1>1 DEF Logs
<1> QED BY <1>1, <1>2 DEF m

(* A message of q that follows on the last of q, in a log that may also    *)
(* hold others.                                                            *)
LEMMA LogGrown ==
  ASSUME NEW log \in Logs, NEW p \in Publishers, NEW q \in Publishers,
         NEW n \in Int, NEW k \in Nat,
         GapFree(p, log), Latest(p, log, n), q = p => k = n + 1
  PROVE  LET l == Append(log, <<q, k>>) IN
         /\ GapFree(p, l) /\ Latest(p, l, IF q = p THEN k ELSE n)
         /\ q # p => (HasFrom(p, l) <=> HasFrom(p, log))
<1> DEFINE l == Append(log, <<q, k>>)
           e == Len(log) + 1
<1>1. /\ e \in Nat /\ DOMAIN log = 1 .. e - 1 /\ DOMAIN l = 1 .. e
      /\ \A i \in DOMAIN log : l[i] = log[i]
      /\ l[e][1] = q /\ l[e][2] = k
  BY LogElements
<1> HIDE DEF l, e
<1>2. GapFree(p, l)
  <2> SUFFICES ASSUME NEW i \in DOMAIN l, NEW j \in DOMAIN l,
                      i < j, l[i][1] = p, l[j][1] = p,
                      \A h \in DOMAIN l : i < h /\ h < j => l[h][1] # p
               PROVE  l[j][2] = l[i][2] + 1
    BY DEF GapFree
  <2>1. i \in DOMAIN log /\ l[i] = log[i]
    BY <1>1
  <2>2. CASE j = e
    <3>1. \A h \in DOMAIN log : i < h => log[h][1] # p
      BY <1>1, <2>2
    <3>2. log[i][2] = n
      BY <2>1, <3>1 DEF Latest
    <3> QED BY <1>1, <2>1, <2>2, <3>2
  <2>3. CASE j # e
    <3>1. j \in DOMAIN log /\ l[j] = log[j]
      BY <1>1, <2>3
    <3>2. \A h \in DOMAIN log : i < h /\ h < j => log[h][1] # p
      BY <1>1
    <3> QED BY <2>1, <3>1, <3>2 DEF GapFree
  <2> QED BY <2>2, <2>3
<1>3. Latest(p, l, IF q = p THEN k ELSE n)
  <2> SUFFICES ASSUME NEW i \in DOMAIN l, l[i][1] = p,
                      \A h \in DOMAIN l : i < h => l[h][1] # p
               PROVE  l[i][2] = IF q = p THEN k ELSE n
    BY DEF Latest
  <2>1. CASE i = e
    BY <1>1, <2>1
  <2>2. CASE i # e
    <3>1. i \in DOMAIN log /\ l[i] = log[i] /\ q # p
      BY <1>1, <2>2
    <3>2. \A h \in DOMAIN log : i < h => log[h][1] # p
      BY <1>1
    <3> QED BY <3>1, <3>2 DEF Latest
  <2> QED BY <2>1, <2>2
<1>4. q # p => (HasFrom(p, l) <=> HasFrom(p, log))
  BY <1>1 DEF HasFrom
<1> QED BY <1>2, <1>3, <1>4 DEF l

LEMMA LogGrownByOther ==
  ASSUME NEW log \in Logs, NEW p \in Publishers, NEW q \in Publishers \ {p},
         NEW n \in Int, NEW k \in Nat, GapFree(p, log), Latest(p, log, n)
  PROVE  /\ GapFree(p, Append(log, <<q, k>>)) /\ Latest(p, Append(log, <<q, k>>), n)
         /\ HasFrom(p, Append(log, <<q, k>>)) <=> HasFrom(p, log)
<1>1. q # p
  OBVIOUS
<1> QED BY <1>1, LogGrown

LEMMA LogGrownByOwn ==
  ASSUME NEW log \in Logs, NEW p \in Publishers, NEW k \in Nat,
         GapFree(p, log), Latest(p, log, k - 1)
  PROVE  GapFree(p, Append(log, <<p, k>>)) /\ Latest(p, Append(log, <<p, k>>), k)
<1>1. k - 1 \in Int /\ k = (k - 1) + 1
  OBVIOUS
<1> QED BY <1>1, LogGrown

LEMMA NothingFrom ==
  ASSUME NEW log, NEW p, ~HasFrom(p, log)
  PROVE  GapFree(p, log) /\ \A n : Latest(p, log, n)
BY DEF HasFrom, GapFree, Latest

LEMMA EmptyLog ==
  ASSUME NEW p
  PROVE  ~HasFrom(p, << >>)
BY DEF HasFrom

(* What InOrder says, place by place.                                      *)
Filled ==
  \A s \in Places :
    /\ fed[s] # << >> => s <= Len(subcribers) /\ subcribers[s].fifo
    /\ called[s] # << >> => s <= Len(subcribers) /\ subcribers[s].cb = "user"

OrderedFed(p, s) ==
  /\ GapFree(p, fed[s])
  /\ PastFifo(p, s) => Latest(p, fed[s], msgs[p])
  /\ ~PastFifo(p, s) => Latest(p, fed[s], msgs[p] - 1)
  /\ HasFrom(p, fed[s]) => (PastFifo(p, s) \/ s <= start[p])

OrderedCalled(p, s) ==
  /\ GapFree(p, called[s])
  /\ PastCallback(p, s) => Latest(p, called[s], msgs[p])
  /\ ~PastCallback(p, s) => Latest(p, called[s], msgs[p] - 1)
  /\ HasFrom(p, called[s]) => (PastCallback(p, s) \/ s <= start[p])

LEMMA InOrderMeans ==
  InOrder <=> Filled /\ \A s \in Places, p \in Publishers : OrderedFed(p, s) /\ OrderedCalled(p, s)
<1>1. \A s \in Places, p \in Publishers :
        /\ UpTo(p, s, fed[s], PastFifo(p, s)) <=> OrderedFed(p, s)
        /\ UpTo(p, s, called[s], PastCallback(p, s)) <=> OrderedCalled(p, s)
  BY DEF UpTo, OrderedFed, OrderedCalled
<1> QED BY <1>1 DEF InOrder, Filled

LEMMA InOrderNextMeans ==
  InOrder' <=> Filled' /\ \A s \in Places, p \in Publishers : OrderedFed(p, s)' /\ OrderedCalled(p, s)'
<1>1. \A s \in Places, p \in Publishers :
        /\ UpTo(p, s, fed[s], PastFifo(p, s))' <=> OrderedFed(p, s)'
        /\ UpTo(p, s, called[s], PastCallback(p, s))' <=> OrderedCalled(p, s)'
  BY DEF UpTo, OrderedFed, OrderedCalled
<1> QED BY <1>1 DEF InOrder, Filled

(* Steps after which each log, and where each walk stands to it, is as it  *)
(* was.                                                                    *)
LEMMA OrderKept ==
  ASSUME NEW p \in Publishers, NEW s \in Places, OrderedFed(p, s), OrderedCalled(p, s),
         UNCHANGED <<fed, called>>, msgs'[p] = msgs[p], start'[p] = start[p],
         PastFifo(p, s)' <=> PastFifo(p, s), PastCallback(p, s)' <=> PastCallback(p, s)
  PROVE  OrderedFed(p, s)' /\ OrderedCalled(p, s)'
BY DEF OrderedFed, OrderedCalled

LEMMA PushbackOrder ==
  ASSUME WalkInv, InOrder, NEW b \in Kinds, Pushback(b)
  PROVE  InOrder'
<1>1. UNCHANGED <<pc, sub, msgs, start, given, fed, called>>
  BY DEF Pushback, publisher, data
<1>2. \A s \in Places, p \in Publishers : OrderedFed(p, s)' /\ OrderedCalled(p, s)'
  BY <1>1, InOrderMeans, OrderKept DEF PastFifo, PastCallback
<1>3. \A s \in 1 .. Len(subcribers) : s <= Len(subcribers') /\ subcribers'[s] = subcribers[s]
  BY Appended DEF WalkInv, TypeOK
<1>4. Filled'
  <2>1. Len(subcribers) \in Nat /\ MaxSubs \in Nat
    BY AbusTopicAssumption DEF WalkInv, TypeOK
  <2>2. Filled
    BY InOrderMeans
  <2> QED BY <1>1, <1>3, <2>1, <2>2 DEF Filled, Places
<1> QED BY <1>2, <1>4, InOrderNextMeans

LEMMA IndexOrder ==
  ASSUME InOrder, Index
  PROVE  InOrder'
<1>1. UNCHANGED <<subcribers, pc, sub, msgs, start, given, fed, called>>
  BY DEF Index, publisher, data
<1>2. \A s \in Places, p \in Publishers : OrderedFed(p, s)' /\ OrderedCalled(p, s)'
  BY <1>1, InOrderMeans, OrderKept DEF PastFifo, PastCallback
<1>3. Filled'
  BY <1>1, InOrderMeans DEF Filled
<1> QED BY <1>2, <1>3, InOrderNextMeans

(* A publication begins: the last message of its publisher is the one      *)
(* before, in all places that have had one.                                *)
LEMMA PublishOrder ==
  ASSUME WalkInv, InOrder, NEW q \in Publishers, Publish(q)
  PROVE  InOrder'
<1>1. /\ pc[q] = "idle" /\ pc'[q] = "next" /\ msgs'[q] = msgs[q] + 1
      /\ start'[q] = Len(subcribers) /\ given'[q] = {}
      /\ UNCHANGED <<subcribers, fed, called>>
      /\ \A p \in Publishers \ {q} :
           pc'[p] = pc[p] /\ sub'[p] = sub[p] /\ msgs'[p] = msgs[p] /\ start'[p] = start[p] /\ given'[p] = given[p]
  BY DEF WalkInv, TypeOK, Publish, data
<1>2. Filled'
  BY <1>1, InOrderMeans DEF Filled
<1>3. ASSUME NEW s \in Places, NEW p \in Publishers
      PROVE  OrderedFed(p, s)' /\ OrderedCalled(p, s)'
  <2>1. OrderedFed(p, s) /\ OrderedCalled(p, s)
    BY InOrderMeans
  <2>2. CASE p # q
    BY <1>1, <2>1, <2>2, OrderKept DEF PastFifo, PastCallback
  <2>3. CASE p = q
    <3>1. PastFifo(p, s) /\ PastCallback(p, s) /\ ~PastFifo(p, s)' /\ ~PastCallback(p, s)'
      BY <1>1, <2>3 DEF PastFifo, PastCallback
    <3>2. msgs'[p] - 1 = msgs[p]
      <4>1. msgs[q] \in Nat
        BY DEF WalkInv, TypeOK
      <4> QED BY <1>1, <2>3, <4>1
    <3>3. (HasFrom(p, fed[s]) \/ HasFrom(p, called[s])) => s <= start'[p]
      <4>1. (HasFrom(p, fed[s]) => fed[s] # << >>) /\ (HasFrom(p, called[s]) => called[s] # << >>)
        BY EmptyLog
      <4> QED BY <1>1, <2>3, <4>1, InOrderMeans DEF Filled
    <3> QED BY <1>1, <2>1, <3>1, <3>2, <3>3 DEF OrderedFed, OrderedCalled
  <2> QED BY <2>2, <2>3
<1> QED BY <1>2, <1>3, InOrderNextMeans

(* Where a walk stands.                                                    *)
LEMMA WalkPlace ==
  ASSUME WalkInv, NEW q \in Publishers, Walk(q)
  PROVE  /\ pc[q] # "idle" /\ sub[q] \in Nat \ {0} /\ start[q] \in Nat /\ msgs[q] \in Nat
         /\ UNCHANGED <<subcribers, msgs, start>>
         /\ \A p \in Publishers \ {q} :
              pc'[p] = pc[p] /\ sub'[p] = sub[p] /\ given'[p] = given[p]
         /\ given[q] = 1 .. (IF pc[q] \in {"load", "store"} THEN sub[q] ELSE sub[q] - 1)
         /\ pc[q] # "next" => sub[q] \in Places /\ sub[q] <= Len(subcribers)
         /\ FifoIn(q) => sub[q] \in Places /\ sub[q] <= Len(subcribers)
<1> USE AbusTopicAssumption
<1>1. pc[q] # "idle" /\ UNCHANGED <<subcribers, msgs, start>>
  BY DEF Walk, FifoIn, Callback, LoadCount, StoreCount, Return
<1>2. \A p \in Publishers \ {q} : pc'[p] = pc[p] /\ sub'[p] = sub[p] /\ given'[p] = given[p]
  BY DEF WalkInv, TypeOK, Walk, FifoIn, Callback, LoadCount, StoreCount, Return
<1>3. /\ sub[q] \in 1 .. MaxSubs + 1 /\ start[q] \in 0 .. MaxSubs /\ msgs[q] \in Nat
      /\ Len(subcribers) \in 0 .. MaxSubs
  BY DEF WalkInv, TypeOK
<1>4. /\ given[q] = 1 .. (IF pc[q] \in {"load", "store"} THEN sub[q] ELSE sub[q] - 1)
      /\ pc[q] # "next" => sub[q] <= Len(subcribers)
  BY <1>1 DEF WalkInv, Progress
<1>5. FifoIn(q) => sub[q] <= Len(subcribers)
  BY DEF FifoIn
<1>6. sub[q] <= Len(subcribers) => sub[q] \in Places
  BY <1>3 DEF Places
<1>7. sub[q] \in Nat \ {0} /\ start[q] \in Nat
  BY <1>3
<1> QED BY <1>1, <1>2, <1>3, <1>4, <1>5, <1>6, <1>7

(* The fifo of the place a walk has come to.                               *)
LEMMA FifoInOrder ==
  ASSUME WalkInv, InOrder, NEW q \in Publishers, FifoIn(q)
  PROVE  InOrder'
<1> DEFINE r == sub[q]
<1>1. /\ r \in Places /\ r <= Len(subcribers) /\ r \in Nat \ {0} /\ msgs[q] \in Nat
      /\ given[q] = 1 .. (r - 1)
      /\ \A p \in Publishers \ {q} :
           pc'[p] = pc[p] /\ sub'[p] = sub[p] /\ given'[p] = given[p]
  <2>1. pc[q] = "next" /\ Walk(q)
    BY DEF FifoIn, Walk
  <2> QED BY <2>1, WalkPlace
<1>2. /\ pc[q] = "next" /\ pc'[q] = "cb" /\ sub' = sub /\ given' = given
      /\ UNCHANGED <<subcribers, msgs, start, called>>
      /\ fed' = IF subcribers[r].fifo
                THEN [fed EXCEPT ![r] = Append(@, Message(q))] ELSE fed
  BY DEF WalkInv, TypeOK, FifoIn
<1>3. /\ \A s \in Places : fed[s] \in Logs
      /\ \A s \in Places \ {r} : fed'[s] = fed[s]
      /\ subcribers[r].fifo => fed'[r] = Append(fed[r], <<q, msgs[q]>>)
      /\ ~subcribers[r].fifo => fed' = fed
  BY <1>1, <1>2 DEF WalkInv, TypeOK, Message, Logs
<1>4. Filled
  BY InOrderMeans
<1>5. Filled'
  <2> SUFFICES ASSUME NEW s \in Places
               PROVE  /\ fed'[s] # << >> => s <= Len(subcribers) /\ subcribers[s].fifo
                      /\ called[s] # << >> => s <= Len(subcribers) /\ subcribers[s].cb = "user"
    BY <1>2 DEF Filled
  <2>1. CASE s = r
    BY <1>1, <1>3, <1>4, <2>1 DEF Filled
  <2>2. CASE s # r
    BY <1>3, <1>4, <2>2 DEF Filled
  <2> QED BY <2>1, <2>2
<1>6. ASSUME NEW s \in Places, NEW p \in Publishers
      PROVE  OrderedFed(p, s)' /\ OrderedCalled(p, s)'
  <2>1. OrderedFed(p, s) /\ OrderedCalled(p, s)
    BY InOrderMeans
  <2>2. PastCallback(p, s)' <=> PastCallback(p, s)
    BY <1>1, <1>2 DEF PastCallback
  <2>3. OrderedCalled(p, s)'
    BY <1>2, <2>1, <2>2 DEF OrderedCalled
  <2>4. CASE s # r
    <3>1. PastFifo(p, s)' <=> PastFifo(p, s)
      BY <1>1, <1>2, <2>2, <2>4 DEF PastFifo
    <3>2. fed'[s] = fed[s]
      BY <1>3, <2>4
    <3> QED BY <1>2, <2>1, <2>3, <3>1, <3>2 DEF OrderedFed
  <2>5. CASE s = r /\ p # q
    <3>1. PastFifo(p, s)' <=> PastFifo(p, s)
      BY <1>1, <1>2, <2>2, <2>5 DEF PastFifo
    <3> DEFINE n == IF PastFifo(p, s) THEN msgs[p] ELSE msgs[p] - 1
    <3>2. n \in Int /\ GapFree(p, fed[s]) /\ Latest(p, fed[s], n)
      <4>1. msgs[p] \in Nat
        BY DEF WalkInv, TypeOK
      <4> QED BY <2>1, <4>1 DEF OrderedFed
    <3> HIDE DEF n
    <3>3. /\ GapFree(p, fed'[s]) /\ Latest(p, fed'[s], n)
          /\ HasFrom(p, fed'[s]) <=> HasFrom(p, fed[s])
      <4>1. CASE subcribers[r].fifo
        <5>1. /\ fed[s] \in Logs /\ fed'[s] = Append(fed[s], <<q, msgs[q]>>)
              /\ q \in Publishers \ {p} /\ msgs[q] \in Nat
          BY <1>1, <1>3, <2>5, <4>1
        <5> QED BY <3>2, <5>1, LogGrownByOther
      <4>2. CASE ~subcribers[r].fifo
        BY <1>3, <3>2, <4>2
      <4> QED BY <4>1, <4>2
    <3> QED BY <1>2, <2>1, <2>3, <3>1, <3>3 DEF OrderedFed, n
  <2>6. CASE s = r /\ p = q
    <3>1. ~PastFifo(p, s) /\ PastFifo(p, s)'
      BY <1>1, <1>2, <2>6 DEF PastFifo, PastCallback
    <3>2. GapFree(p, fed[s]) /\ Latest(p, fed[s], msgs[p] - 1)
      BY <2>1, <3>1 DEF OrderedFed
    <3>3. GapFree(p, fed'[s]) /\ Latest(p, fed'[s], msgs[p])
      <4>1. CASE subcribers[r].fifo
        <5>1. /\ fed[s] \in Logs /\ fed'[s] = Append(fed[s], <<p, msgs[p]>>)
              /\ msgs[p] \in Nat
          BY <1>1, <1>3, <2>6, <4>1
        <5> QED BY <3>2, <5>1, LogGrownByOwn
      <4>2. CASE ~subcribers[r].fifo
        <5>1. fed'[s] = << >>
          BY <1>1, <1>3, <1>4, <2>6, <4>2 DEF Filled
        <5> QED BY <5>1, EmptyLog, NothingFrom
      <4> QED BY <4>1, <4>2
    <3> QED BY <1>2, <2>3, <3>1, <3>3 DEF OrderedFed
  <2> QED BY <2>4, <2>5, <2>6
<1> QED BY <1>5, <1>6, InOrderNextMeans

(* Its callback.                                                           *)
LEMMA CallbackOrder ==
  ASSUME WalkInv, InOrder, NEW q \in Publishers, Callback(q)
  PROVE  InOrder'
<1> DEFINE r == sub[q]
<1>1. /\ pc[q] = "cb" /\ r \in Places /\ r <= Len(subcribers) /\ r \in Nat \ {0}
      /\ msgs[q] \in Nat /\ given[q] = 1 .. (r - 1)
      /\ \A p \in Publishers \ {q} :
           pc'[p] = pc[p] /\ sub'[p] = sub[p] /\ given'[p] = given[p]
  <2>1. pc[q] = "cb" /\ Walk(q)
    BY DEF Callback, Walk
  <2> QED BY <2>1, WalkPlace
<1>2. /\ pc'[q] = "load" /\ sub' = sub /\ given'[q] = given[q] \cup {r}
      /\ UNCHANGED <<subcribers, msgs, start, fed>>
      /\ called' = IF subcribers[r].cb = "user"
                   THEN [called EXCEPT ![r] = Append(@, Message(q))] ELSE called
  BY DEF WalkInv, TypeOK, Callback
<1>3. /\ \A s \in Places : called[s] \in Logs
      /\ \A s \in Places \ {r} : called'[s] = called[s]
      /\ subcribers[r].cb = "user" => called'[r] = Append(called[r], <<q, msgs[q]>>)
      /\ subcribers[r].cb # "user" => called' = called
  BY <1>1, <1>2 DEF WalkInv, TypeOK, Message, Logs
<1>4. Filled
  BY InOrderMeans
<1>5. Filled'
  <2> SUFFICES ASSUME NEW s \in Places
               PROVE  /\ fed[s] # << >> => s <= Len(subcribers) /\ subcribers[s].fifo
                      /\ called'[s] # << >> => s <= Len(subcribers) /\ subcribers[s].cb = "user"
    BY <1>2 DEF Filled
  <2>1. CASE s = r
    BY <1>1, <1>3, <1>4, <2>1 DEF Filled
  <2>2. CASE s # r
    BY <1>3, <1>4, <2>2 DEF Filled
  <2> QED BY <2>1, <2>2
<1>6. ASSUME NEW s \in Places, NEW p \in Publishers
      PROVE  OrderedFed(p, s)' /\ OrderedCalled(p, s)'
  <2>1. OrderedFed(p, s) /\ OrderedCalled(p, s)
    BY InOrderMeans
  <2>2. PastFifo(p, s)' <=> PastFifo(p, s)
    <3>1. CASE p # q
      BY <1>1, <1>2, <3>1 DEF PastFifo, PastCallback
    <3>2. CASE p = q
      BY <1>1, <1>2, <3>2 DEF PastFifo, PastCallback
    <3> QED BY <3>1, <3>2
  <2>3. OrderedFed(p, s)'
    BY <1>2, <2>1, <2>2 DEF OrderedFed
  <2>4. CASE s # r
    <3>1. PastCallback(p, s)' <=> PastCallback(p, s)
      BY <1>1, <1>2, <2>4 DEF PastCallback
    <3>2. called'[s] = called[s]
      BY <1>3, <2>4
    <3> QED BY <1>2, <2>1, <2>3, <3>1, <3>2 DEF OrderedCalled
  <2>5. CASE s = r /\ p # q
    <3>1. PastCallback(p, s)' <=> PastCallback(p, s)
      BY <1>1, <1>2, <2>5 DEF PastCallback
    <3> DEFINE n == IF PastCallback(p, s) THEN msgs[p] ELSE msgs[p] - 1
    <3>2. n \in Int /\ GapFree(p, called[s]) /\ Latest(p, called[s], n)
      <4>1. msgs[p] \in Nat
        BY DEF WalkInv, TypeOK
      <4> QED BY <2>1, <4>1 DEF OrderedCalled
    <3> HIDE DEF n
    <3>3. /\ GapFree(p, called'[s]) /\ Latest(p, called'[s], n)
          /\ HasFrom(p, called'[s]) <=> HasFrom(p, called[s])
      <4>1. CASE subcribers[r].cb = "user"
        <5>1. /\ called[s] \in Logs /\ called'[s] = Append(called[s], <<q, msgs[q]>>)
              /\ q \in Publishers \ {p} /\ msgs[q] \in Nat
          BY <1>1, <1>3, <2>5, <4>1
        <5> QED BY <3>2, <5>1, LogGrownByOther
      <4>2. CASE subcribers[r].cb # "user"
        BY <1>3, <3>2, <4>2
      <4> QED BY <4>1, <4>2
    <3> QED BY <1>2, <2>1, <2>3, <3>1, <3>3 DEF OrderedCalled, n
  <2>6. CASE s = r /\ p = q
    <3>1. ~PastCallback(p, s) /\ PastCallback(p, s)'
      BY <1>1, <1>2, <2>6 DEF PastCallback
    <3>2. GapFree(p, called[s]) /\ Latest(p, called[s], msgs[p] - 1)
      BY <2>1, <3>1 DEF OrderedCalled
    <3>3. GapFree(p, called'[s]) /\ Latest(p, called'[s], msgs[p])
      <4>1. CASE subcribers[r].cb = "user"
        <5>1. /\ called[s] \in Logs /\ called'[s] = Append(called[s], <<p, msgs[p]>>)
              /\ msgs[p] \in Nat
          BY <1>1, <1>3, <2>6, <4>1
        <5> QED BY <3>2, <5>1, LogGrownByOwn
      <4>2. CASE subcribers[r].cb # "user"
        <5>1. called'[s] = << >>
          BY <1>1, <1>3, <1>4, <2>6, <4>2 DEF Filled
        <5> QED BY <5>1, EmptyLog, NothingFrom
      <4> QED BY <4>1, <4>2
    <3> QED BY <1>2, <2>3, <3>1, <3>3 DEF OrderedCalled
  <2> QED BY <2>4, <2>5, <2>6
<1> QED BY <1>5, <1>6, InOrderNextMeans

LEMMA CountOrder ==
  ASSUME WalkInv, InOrder, NEW q \in Publishers, LoadCount(q) \/ StoreCount(q)
  PROVE  InOrder'
<1>1. /\ pc[q] \in {"load", "store"} /\ pc'[q] \in {"store", "next"}
      /\ UNCHANGED <<subcribers, msgs, start, given, fed, called>>
  BY DEF WalkInv, TypeOK, LoadCount, StoreCount, data
<1>2. \A p \in Publishers \ {q} : pc'[p] = pc[p] /\ sub'[p] = sub[p]
  BY DEF WalkInv, TypeOK, LoadCount, StoreCount
<1>3. Filled'
  BY <1>1, InOrderMeans DEF Filled
<1>4. ASSUME NEW s \in Places, NEW p \in Publishers
      PROVE  OrderedFed(p, s)' /\ OrderedCalled(p, s)'
  <2>1. /\ PastFifo(p, s)' <=> PastFifo(p, s)
        /\ PastCallback(p, s)' <=> PastCallback(p, s)
    <3>1. CASE p # q
      BY <1>1, <1>2, <3>1 DEF PastFifo, PastCallback
    <3>2. CASE p = q
      BY <1>1, <3>2 DEF PastFifo, PastCallback
    <3> QED BY <3>1, <3>2
  <2> QED BY <1>1, <2>1, InOrderMeans, OrderKept
<1> QED BY <1>3, <1>4, InOrderNextMeans

(* The end of a walk: it has passed all places that have had a message of  *)
(* its publisher, for they were there when it began.                       *)
LEMMA ReturnOrder ==
  ASSUME WalkInv, InOrder, NEW q \in Publishers, Return(q)
  PROVE  InOrder'
<1>1. /\ pc[q] = "next" /\ pc'[q] = "idle" /\ start[q] < sub[q]
      /\ UNCHANGED <<subcribers, sub, msgs, start, given, fed, called>>
  BY DEF WalkInv, TypeOK, Return, data
<1>2. /\ given[q] = 1 .. (sub[q] - 1) /\ sub[q] \in Nat /\ start[q] \in Nat
      /\ \A p \in Publishers \ {q} : pc'[p] = pc[p]
  <2>1. Walk(q)
    BY DEF Walk
  <2> QED BY <1>1, <2>1, WalkPlace
<1>3. Filled'
  BY <1>1, InOrderMeans DEF Filled
<1>4. ASSUME NEW s \in Places, NEW p \in Publishers
      PROVE  OrderedFed(p, s)' /\ OrderedCalled(p, s)'
  <2>1. OrderedFed(p, s) /\ OrderedCalled(p, s)
    BY InOrderMeans
  <2>2. CASE p # q
    BY <1>1, <1>2, <2>1, <2>2, OrderKept DEF PastFifo, PastCallback
  <2>3. CASE p = q
    <3>1. PastFifo(p, s)' /\ PastCallback(p, s)'
      BY <1>1, <2>3 DEF PastFifo, PastCallback
    <3>2. s <= start[q] => PastCallback(p, s) /\ PastFifo(p, s)
      <4>1. s \in Nat \ {0}
        BY AbusTopicAssumption DEF Places
      <4> QED BY <1>1, <1>2, <2>3, <4>1 DEF PastFifo, PastCallback
    <3>3. OrderedFed(p, s)'
      <4>1. CASE HasFrom(p, fed[s])
        BY <1>1, <2>1, <2>3, <3>1, <3>2, <4>1 DEF OrderedFed
      <4>2. CASE ~HasFrom(p, fed[s])
        BY <1>1, <3>1, <4>2, NothingFrom DEF OrderedFed
      <4> QED BY <4>1, <4>2
    <3>4. OrderedCalled(p, s)'
      <4>1. CASE HasFrom(p, called[s])
        BY <1>1, <2>1, <2>3, <3>1, <3>2, <4>1 DEF OrderedCalled
      <4>2. CASE ~HasFrom(p, called[s])
        BY <1>1, <3>1, <4>2, NothingFrom DEF OrderedCalled
      <4> QED BY <4>1, <4>2
    <3> QED BY <3>3, <3>4
  <2> QED BY <2>2, <2>3
<1> QED BY <1>3, <1>4, InOrderNextMeans

LEMMA InOrderInit == Init => InOrder
<1> SUFFICES ASSUME Init PROVE InOrder
  OBVIOUS
<1>1. \A s \in Places : fed[s] = << >> /\ called[s] = << >>
  BY DEF Init
<1>2. Filled
  BY <1>1 DEF Filled
<1>3. \A s \in Places, p \in Publishers : OrderedFed(p, s) /\ OrderedCalled(p, s)
  BY <1>1, EmptyLog, NothingFrom DEF OrderedFed, OrderedCalled
<1> QED BY <1>2, <1>3, InOrderMeans

LEMMA InOrderStutter ==
  ASSUME InOrder, UNCHANGED vars
  PROVE  InOrder'
<1>1. UNCHANGED <<subcribers, pc, sub, msgs, start, given, fed, called>>
  BY DEF vars, publisher, data
<1>2. \A s \in Places, p \in Publishers : OrderedFed(p, s)' /\ OrderedCalled(p, s)'
  BY <1>1, InOrderMeans, OrderKept DEF PastFifo, PastCallback
<1>3. Filled'
  BY <1>1, InOrderMeans DEF Filled
<1> QED BY <1>2, <1>3, InOrderNextMeans

LEMMA InOrderNext ==
  ASSUME WalkInv, InOrder, [Next]_vars
  PROVE  InOrder'
<1>1. ASSUME NEW b \in Kinds, Pushback(b) PROVE InOrder'
  BY <1>1, PushbackOrder
<1>2. CASE Index
  BY <1>2, IndexOrder
<1>3. ASSUME NEW p \in Publishers, Publish(p) PROVE InOrder'
  BY <1>3, PublishOrder
<1>4. ASSUME NEW p \in Publishers, Walk(p) PROVE InOrder'
  BY <1>4, FifoInOrder, CallbackOrder, CountOrder, ReturnOrder DEF Walk
<1>5. CASE Done \/ UNCHANGED vars
  BY <1>5, InOrderStutter DEF Done
<1> QED BY <1>1, <1>2, <1>3, <1>4, <1>5 DEF Next, Subcribe

-----------------------------------------------------------------------------
(***************************************************************************)
(* The counter of a subscriber.                                            *)
(***************************************************************************)

LEMMA CountingFinite ==
  ASSUME NEW s
  PROVE  /\ IsFiniteSet(Counting(s)) /\ Cardinality(Counting(s)) \in Nat
         /\ IsFiniteSet(Feeding(s)) /\ Cardinality(Feeding(s)) \in Nat
<1>1. Counting(s) \in SUBSET Publishers /\ Feeding(s) \in SUBSET Publishers
  BY DEF Counting, Feeding
<1>2. IsFiniteSet(Counting(s)) /\ IsFiniteSet(Feeding(s))
  BY <1>1, AbusTopicAssumption, FS_Subset
<1> QED BY <1>2, FS_CardinalityType

(* What a step of q leaves of the publishers at the places it is not at.   *)
LEMMA OtherPlaces ==
  ASSUME WalkInv, NEW q \in Publishers, NEW s, sub[q] # s \/ pc[q] \in {"idle", "next"},
         sub'[q] # s \/ pc'[q] \in {"idle", "next"},
         \A p \in Publishers \ {q} : pc'[p] = pc[p] /\ sub'[p] = sub[p]
  PROVE  Counting(s)' = Counting(s) /\ Feeding(s)' = Feeding(s)
BY DEF Counting, Feeding

(* Adding to and taking from a finite set.                                 *)
LEMMA OneMore ==
  ASSUME NEW S, NEW T, NEW x, IsFiniteSet(S), x \notin S, T = S \cup {x}
  PROVE  Cardinality(T) = Cardinality(S) + 1
BY FS_AddElement

LEMMA OneLess ==
  ASSUME NEW S, NEW T, NEW x, IsFiniteSet(S), x \in S, T = S \ {x}
  PROVE  Cardinality(S) = Cardinality(T) + 1
<1>1. S = T \cup {x} /\ x \notin T
  OBVIOUS
<1>2. IsFiniteSet(T)
  BY FS_RemoveElement
<1> QED BY <1>1, <1>2, OneMore

Counted(s) ==
  /\ subcribers[s].cb = "user" => Len(called[s]) = rx_cnt[s] + Cardinality(Counting(s))
  /\ subcribers[s].fifo =>
       Len(fed[s]) = rx_cnt[s] + Cardinality(Counting(s)) + Cardinality(Feeding(s))

LEMMA RxCountedMeans ==
  /\ RxCounted <=> \A s \in 1 .. Len(subcribers) : s \notin raced => Counted(s)
  /\ RxCounted' <=> \A s \in 1 .. Len(subcribers') : s \notin raced' => Counted(s)'
BY DEF RxCounted, Counted

LEMMA CountedKept ==
  ASSUME NEW s, Counted(s), subcribers'[s] = subcribers[s],
         rx_cnt'[s] = rx_cnt[s], fed'[s] = fed[s], called'[s] = called[s],
         Counting(s)' = Counting(s), Feeding(s)' = Feeding(s)
  PROVE  Counted(s)'
BY DEF Counted

(* So it does when what the logs gain, the counter and the publishers at   *)
(* the place gain together.                                                *)
LEMMA CountedMoves ==
  ASSUME NEW s, Counted(s), subcribers'[s] = subcribers[s],
         rx_cnt[s] \in Nat, rx_cnt'[s] \in Nat,
         Cardinality(Counting(s)) \in Nat, Cardinality(Counting(s)') \in Nat,
         Cardinality(Feeding(s)) \in Nat, Cardinality(Feeding(s)') \in Nat,
         subcribers[s].cb = "user" =>
           Len(called'[s]) = Len(called[s]) + (rx_cnt'[s] - rx_cnt[s])
                              + (Cardinality(Counting(s)') - Cardinality(Counting(s))),
         subcribers[s].fifo =>
           Len(fed'[s]) = Len(fed[s]) + (rx_cnt'[s] - rx_cnt[s])
                           + (Cardinality(Counting(s)') - Cardinality(Counting(s)))
                           + (Cardinality(Feeding(s)') - Cardinality(Feeding(s)))
  PROVE  Counted(s)'
<1>1. subcribers[s].cb = "user" => Len(called'[s]) = rx_cnt'[s] + Cardinality(Counting(s)')
  BY DEF Counted
<1>2. subcribers[s].fifo =>
        Len(fed'[s]) = rx_cnt'[s] + Cardinality(Counting(s)') + Cardinality(Feeding(s)')
  BY DEF Counted
<1> QED BY <1>1, <1>2 DEF Counted

LEMMA LogLengths ==
  ASSUME TypeOK, NEW s \in Places
  PROVE  Len(fed[s]) \in Nat /\ Len(called[s]) \in Nat
<1>1. fed \in [Places -> Logs] /\ called \in [Places -> Logs]
  BY DEF TypeOK, Logs
<1>2. fed[s] \in Logs /\ called[s] \in Logs
  BY <1>1
<1> QED BY <1>2 DEF Logs

LEMMA PushbackCounted ==
  ASSUME WalkInv, InOrder, RxCounted, NEW b \in Kinds, Pushback(b)
  PROVE  RxCounted'
<1>1. /\ UNCHANGED <<pc, sub, fed, called, raced>>
      /\ rx_cnt' = [rx_cnt EXCEPT ![Len(subcribers) + 1] = 0]
  BY DEF Pushback, publisher, data
<1>2. /\ Len(subcribers) \in Nat /\ Len(subcribers) + 1 \in Places
      /\ Len(subcribers') = Len(subcribers) + 1
      /\ \A s \in 1 .. Len(subcribers) : s \in Places /\ subcribers'[s] = subcribers[s]
  <2>1. /\ subcribers \in Seq(Subscribers) /\ Len(subcribers) <= MaxSubs
        /\ MaxSubs \in Nat
    BY AbusTopicAssumption DEF WalkInv, TypeOK
  <2>2. Len(subcribers) \in Nat /\ DOMAIN subcribers = 1 .. Len(subcribers)
    BY <2>1
  <2>3. /\ Len(subcribers) + 1 \in Places /\ Len(subcribers') = Len(subcribers) + 1
        /\ \A s \in DOMAIN subcribers : subcribers'[s] = subcribers[s]
    BY Appended
  <2>4. \A s \in 1 .. Len(subcribers) : s \in Places
    BY <2>1, <2>2 DEF Places
  <2> QED BY <2>2, <2>3, <2>4
<1>3. ASSUME NEW s \in 1 .. Len(subcribers'), s \notin raced'
      PROVE  Counted(s)'
  <2>1. Counting(s)' = Counting(s) /\ Feeding(s)' = Feeding(s)
    BY <1>1 DEF Counting, Feeding
  <2>2. CASE s \in 1 .. Len(subcribers)
    <3>1. rx_cnt'[s] = rx_cnt[s] /\ Counted(s)
      BY <1>1, <1>2, <1>3, <2>2, RxCountedMeans DEF WalkInv, TypeOK
    <3> QED BY <1>1, <1>2, <2>1, <2>2, <3>1, CountedKept
  <2>3. CASE s = Len(subcribers) + 1
    <3>1. rx_cnt'[s] = 0
      BY <1>1, <1>2, <2>3 DEF WalkInv, TypeOK
    <3>2. Len(fed[s]) = 0 /\ Len(called[s]) = 0
      <4>1. fed[s] = << >> /\ called[s] = << >>
        BY <1>2, <2>3, InOrderMeans DEF Filled
      <4> QED BY <4>1
    <3>3. Counting(s) = {} /\ Feeding(s) = {}
      <4>1. \A p \in Publishers : pc[p] \in {"cb", "load", "store"} => sub[p] <= Len(subcribers)
        BY DEF WalkInv, Progress
      <4>2. \A p \in Publishers : sub[p] \in Nat
        BY AbusTopicAssumption DEF WalkInv, TypeOK
      <4> QED BY <1>2, <2>3, <4>1, <4>2 DEF Counting, Feeding
    <3>4. Cardinality(Counting(s)') = 0 /\ Cardinality(Feeding(s)') = 0
      BY <2>1, <3>3, FS_EmptySet
    <3> QED BY <1>1, <3>1, <3>2, <3>4 DEF Counted
  <2> QED BY <1>2, <2>2, <2>3
<1> QED BY <1>3, RxCountedMeans

(* Steps that reach neither a log nor a counter nor who is at a place.     *)
LEMMA QuietCounted ==
  ASSUME WalkInv, RxCounted, NEW q \in Publishers, Publish(q) \/ LoadCount(q) \/ Return(q)
  PROVE  RxCounted'
<1>1. /\ UNCHANGED <<subcribers, rx_cnt, fed, called, raced>>
      /\ \A p \in Publishers \ {q} : pc'[p] = pc[p] /\ sub'[p] = sub[p]
      /\ \/ pc[q] \in {"idle", "next"} /\ pc'[q] \in {"idle", "next"}
         \/ pc[q] = "load" /\ pc'[q] = "store" /\ sub' = sub
  BY DEF WalkInv, TypeOK, Publish, LoadCount, Return, data
<1>2. \A s : Counting(s)' = Counting(s) /\ Feeding(s)' = Feeding(s)
  BY <1>1 DEF Counting, Feeding
<1>3. \A s \in 1 .. Len(subcribers) : s \notin raced => Counted(s)'
  BY <1>1, <1>2, RxCountedMeans, CountedKept
<1> QED BY <1>1, <1>3, RxCountedMeans

LEMMA FifoInCounted ==
  ASSUME WalkInv, RxCounted, NEW q \in Publishers, FifoIn(q)
  PROVE  RxCounted'
<1> DEFINE r == sub[q]
<1>1. /\ r \in Places /\ pc[q] = "next" /\ pc'[q] = "cb" /\ sub' = sub
      /\ \A p \in Publishers \ {q} : pc'[p] = pc[p] /\ sub'[p] = sub[p]
      /\ UNCHANGED <<subcribers, rx_cnt, called, raced>>
  <2>1. Walk(q)
    BY DEF Walk
  <2> QED BY <2>1, WalkPlace DEF WalkInv, TypeOK, FifoIn
<1>2. /\ \A s \in Places \ {r} : fed'[s] = fed[s]
      /\ subcribers[r].fifo => Len(fed'[r]) = Len(fed[r]) + 1
  <2>1. /\ fed \in [Places -> Logs] /\ Message(q) \in Publishers \X Nat
        /\ fed' = IF subcribers[r].fifo
                  THEN [fed EXCEPT ![r] = Append(@, Message(q))] ELSE fed
    BY DEF WalkInv, TypeOK, FifoIn, Message, Logs
  <2>2. Len(Append(fed[r], Message(q))) = Len(fed[r]) + 1
    BY <1>1, <2>1 DEF Logs
  <2> QED BY <1>1, <2>1, <2>2
<1>3. ASSUME NEW s \in 1 .. Len(subcribers), s \notin raced
      PROVE  Counted(s)'
  <2>1. Counted(s) /\ s \in Places
    BY <1>3, RxCountedMeans, AbusTopicAssumption DEF WalkInv, TypeOK, Places
  <2>2. CASE s # r
    <3>1. Counting(s)' = Counting(s) /\ Feeding(s)' = Feeding(s)
      BY <1>1, <2>2, OtherPlaces
    <3> QED BY <1>1, <1>2, <2>1, <2>2, <3>1, CountedKept
  <2>3. CASE s = r
    <3>1. /\ Counting(s)' = Counting(s)
          /\ q \notin Feeding(s) /\ Feeding(s)' = Feeding(s) \cup {q}
      BY <1>1, <2>3 DEF Counting, Feeding
    <3>2. Cardinality(Feeding(s)') = Cardinality(Feeding(s)) + 1
      BY <3>1, CountingFinite, OneMore
    <3>3. rx_cnt[s] \in Nat
      BY <2>1 DEF WalkInv, TypeOK
    <3>4. Cardinality(Counting(s)) \in Nat /\ Cardinality(Feeding(s)) \in Nat
      BY CountingFinite
    <3>5. subcribers'[s] = subcribers[s] /\ rx_cnt'[s] = rx_cnt[s] /\ called'[s] = called[s]
      BY <1>1
    <3>6. Len(fed[s]) \in Nat /\ Len(called[s]) \in Nat
      BY <2>1, LogLengths DEF WalkInv
    <3>7. subcribers[s].cb = "user" =>
           Len(called'[s]) = Len(called[s]) + (rx_cnt'[s] - rx_cnt[s])
                              + (Cardinality(Counting(s)') - Cardinality(Counting(s)))
      BY <3>1, <3>3, <3>4, <3>5, <3>6
    <3>8. subcribers[s].fifo =>
           Len(fed'[s]) = Len(fed[s]) + (rx_cnt'[s] - rx_cnt[s])
                           + (Cardinality(Counting(s)') - Cardinality(Counting(s)))
                           + (Cardinality(Feeding(s)') - Cardinality(Feeding(s)))
      BY <1>2, <2>3, <3>1, <3>2, <3>3, <3>4, <3>5, <3>6
    <3>9. Cardinality(Counting(s)') \in Nat /\ Cardinality(Feeding(s)') \in Nat
      BY <3>1, <3>2, <3>4
    <3> QED BY <2>1, <3>3, <3>4, <3>5, <3>7, <3>8, <3>9, CountedMoves
  <2> QED BY <2>2, <2>3
<1> QED BY <1>1, <1>3, RxCountedMeans

LEMMA CallbackCounted ==
  ASSUME WalkInv, RxCounted, NEW q \in Publishers, Callback(q)
  PROVE  RxCounted'
<1> DEFINE r == sub[q]
<1>1. /\ r \in Places /\ pc[q] = "cb" /\ pc'[q] = "load" /\ sub' = sub
      /\ \A p \in Publishers \ {q} : pc'[p] = pc[p] /\ sub'[p] = sub[p]
      /\ UNCHANGED <<subcribers, rx_cnt, fed, raced>>
  <2>1. Walk(q) /\ pc[q] = "cb"
    BY DEF Walk, Callback
  <2> QED BY <2>1, WalkPlace DEF WalkInv, TypeOK, Callback
<1>2. /\ \A s \in Places \ {r} : called'[s] = called[s]
      /\ subcribers[r].cb = "user" => Len(called'[r]) = Len(called[r]) + 1
  <2>1. /\ called \in [Places -> Logs] /\ Message(q) \in Publishers \X Nat
        /\ called' = IF subcribers[r].cb = "user"
                     THEN [called EXCEPT ![r] = Append(@, Message(q))] ELSE called
    BY DEF WalkInv, TypeOK, Callback, Message, Logs
  <2>2. Len(Append(called[r], Message(q))) = Len(called[r]) + 1
    BY <1>1, <2>1 DEF Logs
  <2> QED BY <1>1, <2>1, <2>2
<1>3. ASSUME NEW s \in 1 .. Len(subcribers), s \notin raced
      PROVE  Counted(s)'
  <2>1. Counted(s) /\ s \in Places
    BY <1>3, RxCountedMeans, AbusTopicAssumption DEF WalkInv, TypeOK, Places
  <2>2. CASE s # r
    <3>1. Counting(s)' = Counting(s) /\ Feeding(s)' = Feeding(s)
      BY <1>1, <2>2, OtherPlaces
    <3> QED BY <1>1, <1>2, <2>1, <2>2, <3>1, CountedKept
  <2>3. CASE s = r
    <3>1. /\ q \notin Counting(s) /\ Counting(s)' = Counting(s) \cup {q}
          /\ q \in Feeding(s) /\ Feeding(s)' = Feeding(s) \ {q}
      BY <1>1, <2>3 DEF Counting, Feeding
    <3>2. Cardinality(Counting(s)') = Cardinality(Counting(s)) + 1
      BY <3>1, CountingFinite, OneMore
    <3>3. Cardinality(Feeding(s)) = Cardinality(Feeding(s)') + 1
      BY <3>1, CountingFinite, OneLess
    <3>4. Cardinality(Feeding(s)') \in Nat
      <4>1. IsFiniteSet(Feeding(s)')
        BY <3>1, CountingFinite, FS_RemoveElement
      <4> QED BY <4>1, FS_CardinalityType
    <3>5. rx_cnt[s] \in Nat
      BY <2>1 DEF WalkInv, TypeOK
    <3>6. Cardinality(Counting(s)) \in Nat
      BY CountingFinite
    <3>7. subcribers'[s] = subcribers[s] /\ rx_cnt'[s] = rx_cnt[s] /\ fed'[s] = fed[s]
      BY <1>1
    <3>8. Len(fed[s]) \in Nat /\ Len(called[s]) \in Nat
      BY <2>1, LogLengths DEF WalkInv
    <3>9. subcribers[s].cb = "user" =>
           Len(called'[s]) = Len(called[s]) + (rx_cnt'[s] - rx_cnt[s])
                              + (Cardinality(Counting(s)') - Cardinality(Counting(s)))
      BY <1>2, <2>3, <3>2, <3>5, <3>6, <3>7, <3>8
    <3>10. subcribers[s].fifo =>
           Len(fed'[s]) = Len(fed[s]) + (rx_cnt'[s] - rx_cnt[s])
                           + (Cardinality(Counting(s)') - Cardinality(Counting(s)))
                           + (Cardinality(Feeding(s)') - Cardinality(Feeding(s)))
      BY <3>2, <3>3, <3>4, <3>5, <3>6, <3>7, <3>8
    <3> QED BY <2>1, <3>2, <3>3, <3>4, <3>5, <3>6, <3>7, <3>9, <3>10, CountedMoves
  <2> QED BY <2>2, <2>3
<1> QED BY <1>1, <1>3, RxCountedMeans

(* What is stored is one more than the counter, unless another publisher   *)
(* has loaded it too.                                                      *)
LEMMA StoreCounted ==
  ASSUME WalkInv, LoadedFresh, RxCounted, NEW q \in Publishers, StoreCount(q)
  PROVE  RxCounted'
<1> DEFINE r == sub[q]
<1>1. /\ r \in Places /\ pc[q] = "store" /\ pc'[q] = "next"
      /\ \A p \in Publishers \ {q} : pc'[p] = pc[p] /\ sub'[p] = sub[p]
      /\ UNCHANGED <<subcribers, fed, called>> /\ raced \subseteq raced'
      /\ rx_cnt' = [rx_cnt EXCEPT ![r] = reg[q] + 1]
  <2>1. Walk(q) /\ pc[q] = "store"
    BY DEF Walk, StoreCount
  <2> QED BY <2>1, WalkPlace DEF WalkInv, TypeOK, StoreCount, data
<1>2. ASSUME NEW s \in 1 .. Len(subcribers), s \notin raced'
      PROVE  Counted(s)'
  <2>1. Counted(s) /\ s \in Places /\ s \notin raced
    BY <1>1, <1>2, RxCountedMeans, AbusTopicAssumption DEF WalkInv, TypeOK, Places
  <2>2. CASE s # r
    <3>1. Counting(s)' = Counting(s) /\ Feeding(s)' = Feeding(s)
      BY <1>1, <2>2, OtherPlaces
    <3>2. rx_cnt'[s] = rx_cnt[s]
      BY <1>1, <2>1, <2>2 DEF WalkInv, TypeOK
    <3> QED BY <1>1, <2>1, <3>1, <3>2, CountedKept
  <2>3. CASE s = r
    <3>1. /\ q \in Counting(s) /\ Counting(s)' = Counting(s) \ {q}
          /\ Feeding(s)' = Feeding(s)
      BY <1>1, <2>3 DEF Counting, Feeding
    <3>2. Cardinality(Counting(s)) = Cardinality(Counting(s)') + 1
      BY <3>1, CountingFinite, OneLess
    <3>3. Cardinality(Counting(s)') \in Nat
      <4>1. IsFiniteSet(Counting(s)')
        BY <3>1, CountingFinite, FS_RemoveElement
      <4> QED BY <4>1, FS_CardinalityType
    <3>4. rx_cnt[s] \in Nat /\ rx_cnt'[s] = rx_cnt[s] + 1
      <4>1. reg[q] = rx_cnt[r]
        BY <1>1, <2>1, <2>3 DEF LoadedFresh
      <4> QED BY <1>1, <2>1, <2>3, <4>1 DEF WalkInv, TypeOK
    <3>5. Cardinality(Feeding(s)) \in Nat
      BY CountingFinite
    <3>6. subcribers'[s] = subcribers[s] /\ called'[s] = called[s] /\ fed'[s] = fed[s]
      BY <1>1
    <3>7. Len(fed[s]) \in Nat /\ Len(called[s]) \in Nat
      BY <2>1, LogLengths DEF WalkInv
    <3>8. subcribers[s].cb = "user" =>
           Len(called'[s]) = Len(called[s]) + (rx_cnt'[s] - rx_cnt[s])
                              + (Cardinality(Counting(s)') - Cardinality(Counting(s)))
      BY <3>2, <3>3, <3>4, <3>6, <3>7
    <3>9. subcribers[s].fifo =>
           Len(fed'[s]) = Len(fed[s]) + (rx_cnt'[s] - rx_cnt[s])
                           + (Cardinality(Counting(s)') - Cardinality(Counting(s)))
                           + (Cardinality(Feeding(s)') - Cardinality(Feeding(s)))
      BY <3>1, <3>2, <3>3, <3>4, <3>5, <3>6, <3>7
    <3>10. Cardinality(Counting(s)) \in Nat /\ Cardinality(Feeding(s)') \in Nat
      BY <3>1, <3>2, <3>3, <3>5
    <3>11. rx_cnt[s] \in Nat /\ rx_cnt'[s] \in Nat
      BY <3>4
    <3> QED BY <2>1, <3>3, <3>5, <3>6, <3>8, <3>9, <3>10, <3>11, CountedMoves
  <2> QED BY <2>2, <2>3
<1> QED BY <1>1, <1>2, RxCountedMeans

LEMMA LoadedFreshNext ==
  ASSUME WalkInv, LoadedFresh, [Next]_vars
  PROVE  LoadedFresh'
<1>1. ASSUME NEW b \in Kinds, Pushback(b) PROVE LoadedFresh'
  <2>1. /\ UNCHANGED <<pc, sub, reg, raced>>
        /\ rx_cnt' = [rx_cnt EXCEPT ![Len(subcribers) + 1] = 0]
    BY <1>1 DEF Pushback, publisher
  <2>2. \A p \in Publishers : pc[p] = "store" => sub[p] \in Places /\ sub[p] # Len(subcribers) + 1
    <3>1. \A p \in Publishers : pc[p] = "store" => sub[p] <= Len(subcribers)
      BY DEF WalkInv, Progress
    <3>2. sub \in [Publishers -> 1 .. MaxSubs + 1] /\ MaxSubs \in Nat
      BY AbusTopicAssumption DEF WalkInv, TypeOK
    <3>3. subcribers \in Seq(Subscribers) /\ Len(subcribers) <= MaxSubs
      BY DEF WalkInv, TypeOK
    <3>4. Len(subcribers) \in Nat
      BY <3>3
    <3>5. \A p \in Publishers : sub[p] \in 1 .. MaxSubs + 1
      BY <3>2
    <3> QED BY <3>1, <3>2, <3>3, <3>4, <3>5 DEF Places
  <2>3. rx_cnt \in [Places -> Nat]
    BY DEF WalkInv, TypeOK
  <2>4. \A s \in Places : s # Len(subcribers) + 1 => rx_cnt'[s] = rx_cnt[s]
    BY <2>1, <2>3
  <2> QED BY <2>1, <2>2, <2>4 DEF LoadedFresh
<1>2. ASSUME NEW q \in Publishers, Publish(q) \/ FifoIn(q) \/ Callback(q) \/ Return(q)
      PROVE  LoadedFresh'
  <2>1. /\ UNCHANGED <<rx_cnt, reg, raced>> /\ pc'[q] # "store"
        /\ \A p \in Publishers \ {q} : pc'[p] = pc[p] /\ sub'[p] = sub[p]
    BY <1>2 DEF WalkInv, TypeOK, Publish, FifoIn, Callback, Return, data
  <2> QED BY <2>1 DEF LoadedFresh
<1>3. ASSUME NEW q \in Publishers, LoadCount(q) PROVE LoadedFresh'
  <2>1. /\ UNCHANGED <<rx_cnt, raced, sub>> /\ reg'[q] = rx_cnt[sub[q]]
        /\ \A p \in Publishers \ {q} : pc'[p] = pc[p] /\ reg'[p] = reg[p]
    BY <1>3 DEF WalkInv, TypeOK, LoadCount, data
  <2> QED BY <2>1 DEF LoadedFresh
<1>4. ASSUME NEW q \in Publishers, StoreCount(q) PROVE LoadedFresh'
  <2>1. /\ reg' = reg /\ pc[q] = "store" /\ pc'[q] = "next"
        /\ \A p \in Publishers \ {q} : pc'[p] = pc[p] /\ sub'[p] = sub[p]
        /\ rx_cnt' = [rx_cnt EXCEPT ![sub[q]] = reg[q] + 1]
        /\ raced \subseteq raced' /\ (Loaded(sub[q]) # {q} => sub[q] \in raced')
    BY <1>4 DEF WalkInv, TypeOK, StoreCount
  <2>2. ASSUME NEW p \in Publishers, pc'[p] = "store", sub'[p] \notin raced'
        PROVE  reg'[p] = rx_cnt'[sub'[p]]
    <3>1. p # q /\ pc[p] = "store" /\ sub'[p] = sub[p] /\ reg[p] = rx_cnt[sub[p]]
      BY <2>1, <2>2 DEF LoadedFresh
    <3>2. sub[p] # sub[q]
      <4> SUFFICES ASSUME sub[p] = sub[q] PROVE FALSE
        OBVIOUS
      <4>1. p \in Loaded(sub[q])
        BY <3>1 DEF Loaded
      <4> QED BY <2>1, <2>2, <3>1, <4>1
    <3> QED BY <2>1, <3>1, <3>2 DEF WalkInv, TypeOK
  <2> QED BY <2>2 DEF LoadedFresh
<1>5. CASE Index \/ Done \/ UNCHANGED vars
  BY <1>5 DEF Index, Done, vars, publisher, data, LoadedFresh
<1> QED BY <1>1, <1>2, <1>3, <1>4, <1>5 DEF Next, Subcribe, Walk

LEMMA RxCountedNext ==
  ASSUME IInv, [Next]_vars
  PROVE  RxCounted'
<1> USE DEF IInv
<1>1. ASSUME NEW b \in Kinds, Pushback(b) PROVE RxCounted'
  BY <1>1, PushbackCounted
<1>2. CASE Index \/ Done \/ UNCHANGED vars
  <2>1. UNCHANGED <<subcribers, rx_cnt, pc, sub, fed, called, raced>>
    BY <1>2 DEF Index, Done, vars, publisher, data
  <2>2. \A s : Counting(s)' = Counting(s) /\ Feeding(s)' = Feeding(s)
    BY <2>1 DEF Counting, Feeding
  <2>3. \A s \in 1 .. Len(subcribers) : s \notin raced => Counted(s)'
    BY <2>1, <2>2, RxCountedMeans, CountedKept
  <2> QED BY <2>1, <2>3, RxCountedMeans
<1>3. ASSUME NEW p \in Publishers, Publish(p) PROVE RxCounted'
  BY <1>3, QuietCounted
<1>4. ASSUME NEW p \in Publishers, Walk(p) PROVE RxCounted'
  BY <1>4, FifoInCounted, CallbackCounted, StoreCounted, QuietCounted DEF Walk
<1> QED BY <1>1, <1>2, <1>3, <1>4 DEF Next, Subcribe

(* The logs of all places are in order and complete, and agree with the    *)
(* counters.                                                               *)
THEOREM Invariance == Spec => []IInv
<1>1. Init => IInv
  <2> SUFFICES ASSUME Init PROVE IInv
    OBVIOUS
  <2>1. LoadedFresh /\ RxCounted
    BY DEF Init, LoadedFresh, RxCounted
  <2> QED BY <2>1, InitInv, InOrderInit DEF IInv
<1>2. IInv /\ [Next]_vars => IInv'
  BY NextInv, InOrderNext, LoadedFreshNext, RxCountedNext DEF IInv
<1> QED BY <1>1, <1>2, PTL DEF Spec

(* Once a subscriber has received a message of a publisher it receives     *)
(* every later one of it in order, through its fifo as through its         *)
(* callback.                                                               *)
THEOREM NoGapAlways == Spec => []NoGap
<1>1. IInv => NoGap
  BY DEF IInv, InOrder, UpTo, NoGap
<1> QED BY <1>1, Invariance, PTL

(* rx_cnt counts what a subscriber was given, as long as no store of it    *)
(* has met another publisher that had loaded it.                           *)
THEOREM RxCountedAlways == Spec => []RxCounted
<1>1. IInv => RxCounted
  BY DEF IInv
<1> QED BY <1>1, Invariance, PTL
=============================================================================
