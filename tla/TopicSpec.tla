----------------------------- MODULE TopicSpec -----------------------------
(***************************************************************************)
(* What a topic of the message bus promises: every publication is handed   *)
(* to each subscription once, to all that were there when it began and at  *)
(* most to those that have come since.                                     *)
(***************************************************************************)
EXTENDS Naturals

CONSTANTS
  Publishers,   \* threads that publish
  Places        \* subscriptions a topic can have

VARIABLES
  there,        \* the subscriptions
  open,         \* the publishers with a publication under way
  owed,         \* per publisher: the subscriptions it has to reach
  given         \* per publisher: the subscriptions it has reached

vars == <<there, open, owed, given>>

Init ==
  /\ there = {} /\ open = {}
  /\ owed = [p \in Publishers |-> {}]
  /\ given = [p \in Publishers |-> {}]

Subscribe(s) ==
  /\ s \notin there
  /\ there' = there \cup {s}
  /\ UNCHANGED <<open, owed, given>>

Begin(p) ==
  /\ p \notin open
  /\ open' = open \cup {p}
  /\ owed' = [owed EXCEPT ![p] = there]
  /\ given' = [given EXCEPT ![p] = {}]
  /\ UNCHANGED there

Hand(p, s) ==
  /\ p \in open
  /\ s \in there \ given[p]
  /\ given' = [given EXCEPT ![p] = @ \cup {s}]
  /\ UNCHANGED <<there, open, owed>>

End(p) ==
  /\ p \in open
  /\ owed[p] \subseteq given[p]
  /\ open' = open \ {p}
  /\ UNCHANGED <<there, owed, given>>

Next ==
  \/ \E s \in Places : Subscribe(s)
  \/ \E p \in Publishers : Begin(p) \/ End(p) \/ \E s \in Places : Hand(p, s)

Spec == Init /\ [][Next]_vars
=============================================================================
