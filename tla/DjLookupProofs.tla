--------------------------- MODULE DjLookupProofs ---------------------------
(***************************************************************************)
(* Proofs about DjLookup for every table in ascending order and every id.  *)
(***************************************************************************)
EXTENDS DjLookup, TLAPS

(* The middle of a range lies in it.                                       *)
LEMMA MidBetween ==
  ASSUME left \in Nat, right \in Nat, left <= right
  PROVE  Mid \in Nat /\ left <= Mid /\ Mid <= right
BY DEF Mid

LEMMA InitInv == Init => IInv
<1> SUFFICES ASSUME Init PROVE IInv
  OBVIOUS
<1>1. TypeOK
  BY DjLookupAssumption DEF Init, TypeOK, Index
<1>2. pc = "idle"
  BY DEF Init
<1> QED BY <1>1, <1>2 DEF IInv, Narrowed, AnswerRight, OutsideOnlyBelow

LEMMA NextInv == IInv /\ [Next]_vars => IInv'
<1> SUFFICES ASSUME IInv, [Next]_vars PROVE IInv'
  OBVIOUS
<1>0. /\ DJ_M_NUM \in Nat \ {0} /\ Byte \in Nat /\ DJ_M_NUM < Byte
      /\ CanIds \subseteq Nat
      /\ TypeOK
  BY DjLookupAssumption DEF IInv
<1>t. (\A i \in Index : table[i] \in Int) /\ can_id \in Int /\ left \in Nat /\ right \in Nat
  <2>1. table \in [Index -> CanIds] /\ can_id \in CanIds
    BY <1>0 DEF TypeOK
  <2>2. left \in 0 .. DJ_M_NUM /\ right \in 0 .. Byte - 1
    BY <1>0 DEF TypeOK
  <2>3. left \in Nat /\ right \in Nat
    BY <1>0, <2>2
  <2>4. \A i \in Index : table[i] \in Int
    <3> SUFFICES ASSUME NEW i \in Index PROVE table[i] \in Int
      OBVIOUS
    <3>1. table[i] \in CanIds
      BY <2>1
    <3>2. table[i] \in Nat
      BY <1>0, <3>1
    <3> QED BY <3>2
  <2>5. can_id \in Nat
    BY <1>0, <2>1
  <2> QED BY <2>3, <2>4, <2>5
<1>1. ASSUME NEW id \in CanIds, Call(id) PROVE IInv'
  <2>1. TypeOK'
    <3>1. /\ can_id' = id /\ left' = 0 /\ right' = DJ_M_NUM - 1 /\ pc' = "search"
          /\ UNCHANGED <<table, result>>
      BY <1>1 DEF Call
    <3>2. right' \in 0 .. Byte - 1 /\ left' \in 0 .. DJ_M_NUM
      BY <1>0, <3>1
    <3> QED BY <1>0, <3>1, <3>2 DEF TypeOK, Ascending
  <2>2. Narrowed'
    BY <1>0, <1>1 DEF Call, Narrowed, Index
  <2> QED BY <1>1, <2>1, <2>2 DEF IInv, Call, AnswerRight, OutsideOnlyBelow
<1>2. CASE Found
  <2>1. TypeOK'
    BY <1>0, <1>2 DEF Found, TypeOK, Ascending
  <2> QED BY <1>2, <2>1 DEF Found, IInv, Narrowed, AnswerRight, OutsideOnlyBelow
<1>3. CASE GoRight
  <2>1. Mid \in Index /\ table[Mid] < can_id /\ UNCHANGED <<table, can_id, right, pc, result>>
    BY <1>3 DEF GoRight
  <2>2. left' = Mid + 1
    BY <1>0, <1>3 DEF GoRight, Index
  <2>3. TypeOK'
    <3>1. left' \in 0 .. DJ_M_NUM
      BY <1>0, <2>1, <2>2 DEF Index
    <3> QED BY <1>0, <2>1, <3>1 DEF TypeOK, Ascending
  <2>4. \A i \in Index : i < left' => table[i] < can_id
    <3> SUFFICES ASSUME NEW i \in Index, i < left' PROVE table[i] < can_id
      OBVIOUS
    <3>1. CASE i = Mid
      BY <2>1, <3>1
    <3>2. CASE i # Mid
      <4>1. i < Mid
        BY <2>1, <2>2, <3>2, <1>0 DEF Index
      <4>2. table[i] < table[Mid]
        BY <2>1, <4>1, <1>0 DEF TypeOK, Ascending
      <4>3. table[i] \in Int /\ table[Mid] \in Int
        BY <1>t, <2>1
      <4> QED BY <1>t, <2>1, <4>2, <4>3
    <3> QED BY <3>1, <3>2
  <2>5. Narrowed'
    BY <1>3, <2>1, <2>4 DEF IInv, Narrowed, GoRight
  <2> QED BY <1>3, <2>1, <2>3, <2>5 DEF IInv, AnswerRight, OutsideOnlyBelow, GoRight
<1>4. CASE GoLeft
  <2>1. Mid \in Index /\ can_id < table[Mid] /\ UNCHANGED <<table, can_id, left, pc, result>>
    <3>1. Mid \in Index /\ table[Mid] > can_id
      BY <1>4 DEF GoLeft
    <3> QED BY <1>4, <1>t, <3>1 DEF GoLeft
  <2>2. CASE Mid = 0
    <3>1. right' = Byte - 1
      BY <1>0, <1>4, <2>2 DEF GoLeft
    <3>2. TypeOK'
      BY <1>0, <2>1, <3>1 DEF TypeOK, Ascending
    <3>3. can_id < table[0]
      BY <2>1, <2>2
    <3>4. Narrowed'
      <4>1. \A i \in Index : ~ (i > right')
        BY <1>0, <3>1 DEF Index
      <4> QED BY <1>4, <2>1, <3>3, <4>1 DEF IInv, Narrowed, GoLeft
    <3> QED BY <1>4, <2>1, <3>2, <3>4 DEF IInv, AnswerRight, OutsideOnlyBelow, GoLeft
  <2>3. CASE Mid # 0
    <3>1. right' = Mid - 1 /\ right' \in Index /\ right' \in 0 .. Byte - 1
      BY <1>0, <1>4, <2>1, <2>3 DEF GoLeft, Index
    <3>2. TypeOK'
      BY <1>0, <2>1, <3>1 DEF TypeOK, Ascending
    <3>3. \A i \in Index : i > right' => can_id < table[i]
      <4> SUFFICES ASSUME NEW i \in Index, i > right' PROVE can_id < table[i]
        OBVIOUS
      <4>1. CASE i = Mid
        BY <2>1, <4>1
      <4>2. CASE i # Mid
        <5>1. Mid < i
          BY <1>0, <2>1, <3>1, <4>2 DEF Index
        <5>2. table[Mid] < table[i]
          BY <1>0, <2>1, <5>1 DEF TypeOK, Ascending
        <5>3. table[i] \in Int /\ table[Mid] \in Int
          BY <1>t, <2>1
        <5> QED BY <1>t, <2>1, <5>2, <5>3
      <4> QED BY <4>1, <4>2
    <3>4. Narrowed'
      BY <1>4, <2>1, <3>1, <3>3 DEF IInv, Narrowed, GoLeft
    <3> QED BY <1>4, <2>1, <3>2, <3>4 DEF IInv, AnswerRight, OutsideOnlyBelow, GoLeft
  <2> QED BY <2>2, <2>3
<1>5. CASE NotFound
  <2>1. pc = "search" /\ left > right /\ pc' = "absent"
        /\ UNCHANGED <<table, can_id, left, right, result>>
    BY <1>5 DEF NotFound
  <2>2. \A i \in Index : table[i] # can_id
    <3> SUFFICES ASSUME NEW i \in Index PROVE table[i] # can_id
      OBVIOUS
    <3>1. i < left \/ i > right
      BY <1>t, <2>1 DEF Index
    <3>2. table[i] < can_id \/ can_id < table[i]
      BY <2>1, <3>1 DEF IInv, Narrowed
    <3> QED BY <1>t, <3>2
  <2>3. TypeOK'
    BY <1>0, <2>1 DEF TypeOK, Ascending
  <2> QED BY <2>1, <2>2, <2>3 DEF IInv, Narrowed, AnswerRight, OutsideOnlyBelow
<1>6. CASE ReadOutside
  <2>1. pc = "search" /\ left <= right /\ Mid \notin Index /\ pc' = "outside"
        /\ UNCHANGED <<table, can_id, left, right, result>>
    BY <1>6 DEF ReadOutside
  <2>2. ~ (right \in Index)
    BY <1>0, <1>t, <2>1, MidBetween DEF Index
  <2>3. can_id < table[0]
    BY <2>1, <2>2 DEF IInv, Narrowed
  <2>4. TypeOK'
    BY <1>0, <2>1 DEF TypeOK, Ascending
  <2> QED BY <2>1, <2>3, <2>4 DEF IInv, Narrowed, AnswerRight, OutsideOnlyBelow
<1>7. CASE UNCHANGED vars
  BY <1>0, <1>7 DEF vars, IInv, TypeOK, Ascending, Narrowed, AnswerRight, OutsideOnlyBelow
<1> QED BY <1>1, <1>2, <1>3, <1>4, <1>5, <1>6, <1>7 DEF Next, Search

(* The entry returned is the one of the id, for every table and every id.  *)
THEOREM AnswerRightAlways == Spec => []AnswerRight
<1>1. IInv => AnswerRight
  BY DEF IInv
<1> QED BY InitInv, NextInv, <1>1, PTL DEF Spec

(* Only an id below that of the first entry leads out of the table.        *)
THEOREM OutsideOnlyBelowAlways == Spec => []OutsideOnlyBelow
<1>1. IInv => OutsideOnlyBelow
  BY DEF IInv
<1> QED BY InitInv, NextInv, <1>1, PTL DEF Spec
=============================================================================
