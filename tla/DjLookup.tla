------------------------------ MODULE DjLookup ------------------------------
(***************************************************************************)
(* motor_get_by_canid (motor_dj_rm_driver.c): the binary search by which   *)
(* the CAN interrupt finds the motor a frame comes from.                   *)
(*                                                                         *)
(* left, right and mid are uint8_t, so right = mid - 1 wraps around when   *)
(* the search has gone below the first entry of dj_motors[].               *)
(***************************************************************************)
EXTENDS Integers

CONSTANTS
  DJ_M_NUM,   \* entries of dj_motors[]
  CanIds,     \* can_ids that frames and motors can have
  Byte        \* values of an uint8_t: 256

Index == 0 .. DJ_M_NUM - 1

ASSUME DjLookupAssumption ==
  /\ DJ_M_NUM \in Nat \ {0}
  /\ CanIds \subseteq Nat
  /\ Byte \in Nat /\ DJ_M_NUM < Byte

VARIABLES
  table,      \* the can_id of each entry of dj_motors[], fixed by motor_cfg.h
  can_id,     \* the id looked for
  left, right,
  pc,         \* "idle", "search", "found", "absent", or "outside": an entry
              \* beyond dj_motors[] is about to be read
  result      \* the index of the entry returned

vars == <<table, can_id, left, right, pc, result>>

(* motor_cfg.h with motors of CAN1 only: the entries are in the order of   *)
(* the enumeration DJ_M_CAN1_1, DJ_M_CAN1_2, ..., and so are their ids.    *)
Ascending(t) == \A i, j \in Index : i < j => t[i] < t[j]

TypeOK ==
  /\ table \in [Index -> CanIds] /\ Ascending(table)
  /\ can_id \in CanIds
  /\ left \in 0 .. DJ_M_NUM
  /\ right \in 0 .. Byte - 1
  /\ pc \in {"idle", "search", "found", "absent", "outside"}
  /\ result \in Index

Init ==
  /\ table \in [Index -> CanIds] /\ Ascending(table)
  /\ can_id \in CanIds
  /\ left = 0 /\ right = 0 /\ result = 0
  /\ pc = "idle"

Mid == (left + right) \div 2

(* Mutated: the search starts one entry past the last.                     *)
CallOnePast(id) ==
  /\ pc \in {"idle", "found", "absent"}
  /\ can_id' = id
  /\ left' = 0 /\ right' = DJ_M_NUM
  /\ pc' = "search"
  /\ UNCHANGED <<table, result>>

(* The interrupt for a frame with identifier id calls the search.          *)
Call(id) ==
  /\ pc \in {"idle", "found", "absent"}
  /\ can_id' = id
  /\ left' = 0 /\ right' = DJ_M_NUM - 1
  /\ pc' = "search"
  /\ UNCHANGED <<table, result>>

Found ==
  /\ pc = "search" /\ left <= right /\ Mid \in Index
  /\ table[Mid] = can_id
  /\ result' = Mid /\ pc' = "found"
  /\ UNCHANGED <<table, can_id, left, right>>

GoRight ==
  /\ pc = "search" /\ left <= right /\ Mid \in Index
  /\ table[Mid] < can_id
  /\ left' = (Mid + 1) % Byte
  /\ UNCHANGED <<table, can_id, right, pc, result>>

(* Mutated: the entry compared stays in the range.                         *)
GoLeftKeepMid ==
  /\ pc = "search" /\ left <= right /\ Mid \in Index
  /\ table[Mid] > can_id
  /\ right' = Mid
  /\ UNCHANGED <<table, can_id, left, pc, result>>

(* Mutated: one entry too many leaves the range, with the wrap guarded.    *)
GoLeftTwo ==
  /\ pc = "search" /\ left <= right /\ Mid \in Index
  /\ table[Mid] > can_id
  /\ right' = IF Mid > 1 THEN Mid - 2 ELSE 0
  /\ UNCHANGED <<table, can_id, left, pc, result>>

GoLeft ==
  /\ pc = "search" /\ left <= right /\ Mid \in Index
  /\ table[Mid] > can_id
  /\ right' = (Mid - 1) % Byte
  /\ UNCHANGED <<table, can_id, left, pc, result>>

NotFound ==
  /\ pc = "search" /\ left > right
  /\ pc' = "absent"
  /\ UNCHANGED <<table, can_id, left, right, result>>

(* dj_motors[mid] lies beyond the table; what is read there is undefined.  *)
ReadOutside ==
  /\ pc = "search" /\ left <= right /\ Mid \notin Index
  /\ pc' = "outside"
  /\ UNCHANGED <<table, can_id, left, right, result>>

Search == Found \/ GoRight \/ GoLeft \/ NotFound \/ ReadOutside

Next == Search \/ \E id \in CanIds : Call(id)

Spec == Init /\ [][Next]_vars

(* The interrupt is not left before the search has returned.               *)
FairSpec == Spec /\ WF_vars(Search)

-----------------------------------------------------------------------------
(* "write a binary search, find the structure of the motor by can_id"      *)
(* (comment of motor_get_by_canid): what is returned is the entry of that  *)
(* id, and nothing is returned only if there is none.                      *)
AnswerRight ==
  /\ pc = "found" => table[result] = can_id
  /\ pc = "absent" => \A i \in Index : table[i] # can_id

(* The search leaves dj_motors[] at most for an id below that of the first *)
(* entry: with a motor of id 0x201 in the table, never for a frame the     *)
(* filter 0x200 / 0x7f0 passes other than 0x200 itself.                    *)
OutsideOnlyBelow == pc = "outside" => can_id < table[0]

(* The interrupt returns: the search ends for every id that is not below   *)
(* the first entry.                                                        *)
SearchEnds == pc = "search" ~> pc # "search"

-----------------------------------------------------------------------------
(* The inductive invariant: what has been ruled out on either side.        *)
Narrowed ==
  pc = "search" =>
    /\ right \in Index \/ can_id < table[0]
    /\ \A i \in Index : i < left => table[i] < can_id
    /\ \A i \in Index : i > right => can_id < table[i]

IInv ==
  TypeOK /\ Narrowed /\ AnswerRight /\ OutsideOnlyBelow
=============================================================================
