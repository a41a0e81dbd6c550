----------------------------- MODULE AbusTopic -----------------------------
(***************************************************************************)
(* One topic of the message bus (abus_topic.c): abus_subcribe, which       *)
(* appends to the vector of subscribers and then to the index of their     *)
(* names, and abus_publish, which walks that vector and gives the message  *)
(* to the fifo and to the callback of each subscriber and counts it.       *)
(*                                                                         *)
(* There is no lock. The chassis thread publishes, main and the shell are  *)
(* more urgent and come in between any two steps; they can also block, in  *)
(* the printf of abus_subcribe or in a callback, so that a less urgent     *)
(* thread goes on in the middle of their call.                             *)
(*                                                                         *)
(* The topic and the accounters exist: without the topic abus_subcribe     *)
(* returns before it has changed anything.                                 *)
(*                                                                         *)
(* The vector (cvector.h) is external: it appends in one step and does not *)
(* move, which is so while it has no more entries than it was created for. *)
(***************************************************************************)
EXTENDS Integers, Sequences, FiniteSets

CONSTANTS
  Publishers,   \* threads that publish on the topic
  Accounts,     \* accounters; one can subscribe more than once
  Kinds,        \* bound: subscriptions that are made
  Indexed,      \* hash_table_size is not 0
  MaxSubs,      \* bound: subscriptions
  MaxMsgs       \* bound, for each publisher: its publications

NoName == "none"

(* cb of a subscriber: the user's, abus_cb_async_notify, or NULL.          *)
Callbacks == {"user", "notify", "none"}
Subscribers == [acc : Accounts, fifo : BOOLEAN, cb : Callbacks]

ASSUME AbusTopicAssumption ==
  /\ IsFiniteSet(Publishers)
  /\ NoName \notin Accounts
  /\ Kinds \subseteq Subscribers
  /\ Indexed \in BOOLEAN
  /\ MaxSubs \in Nat /\ MaxMsgs \in [Publishers -> Nat]

Places == 1 .. MaxSubs

VARIABLES
  subcribers,   \* the vector
  rx_cnt,       \* state.rx_cnt of each place of it
  sub_hash_table, \* names in the index
  naming,       \* name the subscribing thread has yet to put there, or NoName
  pc,           \* per publisher: "idle", "next", "cb", "load", "store"
  sub,          \* per publisher: the place it has come to
  reg,          \* per publisher: the counter it has loaded
  \* ghosts
  msgs,         \* per publisher: publications begun
  start,        \* per publisher: length of the vector when it began this one
  given,        \* per publisher: places this publication has been given to
  fed,          \* per place: messages given to its fifo, <<publisher, number>>
  called,       \* per place: messages its callback was called with
  raced         \* places whose counter two publishers had loaded at a time

publisher == <<pc, sub, reg, msgs, start, given>>
data == <<fed, called>>
vars == <<subcribers, rx_cnt, sub_hash_table, naming, publisher, data, raced>>

TypeOK ==
  /\ subcribers \in Seq(Subscribers) /\ Len(subcribers) <= MaxSubs
  /\ rx_cnt \in [Places -> Nat]
  /\ sub_hash_table \subseteq Accounts
  /\ naming \in Accounts \cup {NoName}
  /\ pc \in [Publishers -> {"idle", "next", "cb", "load", "store"}]
  /\ sub \in [Publishers -> 1 .. MaxSubs + 1]
  /\ reg \in [Publishers -> Nat]
  /\ msgs \in [Publishers -> Nat] /\ \A p \in Publishers : msgs[p] <= MaxMsgs[p]
  /\ start \in [Publishers -> 0 .. MaxSubs]
  /\ given \in [Publishers -> SUBSET Places]
  /\ fed \in [Places -> Seq(Publishers \X Nat)]
  /\ called \in [Places -> Seq(Publishers \X Nat)]
  /\ raced \subseteq Places

Init ==
  /\ subcribers = << >> /\ rx_cnt = [s \in Places |-> 0]
  /\ sub_hash_table = {} /\ naming = NoName
  /\ pc = [p \in Publishers |-> "idle"]
  /\ sub = [p \in Publishers |-> 1]
  /\ reg = [p \in Publishers |-> 0]
  /\ msgs = [p \in Publishers |-> 0]
  /\ start = [p \in Publishers |-> 0]
  /\ given = [p \in Publishers |-> {}]
  /\ fed = [s \in Places |-> << >>]
  /\ called = [s \in Places |-> << >>]
  /\ raced = {}

-----------------------------------------------------------------------------
(***************************************************************************)
(* abus_subcribe                                                           *)
(***************************************************************************)

(* Mutated: the newest subscription goes to the front of the vector.       *)
PushbackFront(b) ==
  /\ naming = NoName /\ Len(subcribers) < MaxSubs
  /\ subcribers' = << b >> \o subcribers
  /\ rx_cnt' = [s \in Places |-> IF s = 1 THEN 0 ELSE rx_cnt[s - 1]]
  /\ fed' = [s \in Places |-> IF s = 1 THEN << >> ELSE fed[s - 1]]
  /\ called' = [s \in Places |-> IF s = 1 THEN << >> ELSE called[s - 1]]
  /\ naming' = IF Indexed THEN b.acc ELSE NoName
  /\ UNCHANGED <<sub_hash_table, publisher, raced>>

(* The subscriber b is appended with its counter at 0 ...                  *)
Pushback(b) ==
  /\ naming = NoName /\ Len(subcribers) < MaxSubs
  /\ subcribers' = Append(subcribers, b)
  /\ rx_cnt' = [rx_cnt EXCEPT ![Len(subcribers) + 1] = 0]
  /\ naming' = IF Indexed THEN b.acc ELSE NoName
  /\ UNCHANGED <<sub_hash_table, publisher, data, raced>>

(* ... and its name put into the index, if the topic has one.              *)
Index ==
  /\ naming # NoName
  /\ sub_hash_table' = sub_hash_table \cup {naming}
  /\ naming' = NoName
  /\ UNCHANGED <<subcribers, rx_cnt, publisher, data, raced>>

-----------------------------------------------------------------------------
(***************************************************************************)
(* abus_publish                                                            *)
(***************************************************************************)

Message(p) == <<p, msgs[p]>>

(* Mutated: the walk goes on where the last one ended.                     *)
PublishResumes(p) ==
  /\ pc[p] = "idle" /\ msgs[p] < MaxMsgs[p]
  /\ pc' = [pc EXCEPT ![p] = "next"]
  /\ msgs' = [msgs EXCEPT ![p] = @ + 1]
  /\ start' = [start EXCEPT ![p] = Len(subcribers)]
  /\ given' = [given EXCEPT ![p] = {}]
  /\ UNCHANGED <<subcribers, rx_cnt, sub_hash_table, naming, sub, reg, data, raced>>

(* abus_publish is called.                                                 *)
Publish(p) ==
  /\ pc[p] = "idle" /\ msgs[p] < MaxMsgs[p]
  /\ pc' = [pc EXCEPT ![p] = "next"]
  /\ sub' = [sub EXCEPT ![p] = 1]
  /\ msgs' = [msgs EXCEPT ![p] = @ + 1]
  /\ start' = [start EXCEPT ![p] = Len(subcribers)]
  /\ given' = [given EXCEPT ![p] = {}]
  /\ UNCHANGED <<subcribers, rx_cnt, sub_hash_table, naming, reg, data, raced>>

(* The next subscriber, and afifo_in if it has a fifo.                     *)
FifoIn(p) ==
  /\ pc[p] = "next" /\ sub[p] <= Len(subcribers)
  /\ fed' = IF subcribers[sub[p]].fifo
            THEN [fed EXCEPT ![sub[p]] = Append(@, Message(p))] ELSE fed
  /\ pc' = [pc EXCEPT ![p] = "cb"]
  /\ UNCHANGED <<subcribers, rx_cnt, sub_hash_table, naming, sub, reg, msgs,
                 start, given, called, raced>>

(* Mutated: the walk ends before the last subscriber.                      *)
ReturnEarly(p) ==
  /\ pc[p] = "next" /\ sub[p] >= start[p]
  /\ pc' = [pc EXCEPT ![p] = "idle"]
  /\ UNCHANGED <<subcribers, rx_cnt, sub_hash_table, naming, sub, reg, msgs,
                 start, given, data, raced>>

(* The end of CVECTOR_FOREACH: whether the macro takes the length once or  *)
(* looks at it every time is not known, so the walk may or may not reach   *)
(* those who have come since it began.                                     *)
Return(p) ==
  /\ pc[p] = "next" /\ sub[p] > start[p]
  /\ pc' = [pc EXCEPT ![p] = "idle"]
  /\ UNCHANGED <<subcribers, rx_cnt, sub_hash_table, naming, sub, reg, msgs,
                 start, given, data, raced>>

(* Mutated: a subscriber without a callback of its own is not counted.     *)
CallbackOrSkip(p) ==
  /\ pc[p] = "cb"
  /\ given' = [given EXCEPT ![p] = @ \cup {sub[p]}]
  /\ IF subcribers[sub[p]].cb = "user"
     THEN /\ called' = [called EXCEPT ![sub[p]] = Append(@, Message(p))]
          /\ pc' = [pc EXCEPT ![p] = "load"]
          /\ UNCHANGED sub
     ELSE /\ pc' = [pc EXCEPT ![p] = "next"]
          /\ sub' = [sub EXCEPT ![p] = @ + 1]
          /\ UNCHANGED called
  /\ UNCHANGED <<subcribers, rx_cnt, sub_hash_table, naming, reg, msgs, start,
                 fed, raced>>

(* The callback. abus_cb_async_notify finds no semaphore, as abus_subcribe *)
(* does not store one, and returns -1; without a callback a line is        *)
(* printed.                                                                *)
Callback(p) ==
  /\ pc[p] = "cb"
  /\ given' = [given EXCEPT ![p] = @ \cup {sub[p]}]
  /\ called' = IF subcribers[sub[p]].cb = "user"
               THEN [called EXCEPT ![sub[p]] = Append(@, Message(p))] ELSE called
  /\ pc' = [pc EXCEPT ![p] = "load"]
  /\ UNCHANGED <<subcribers, rx_cnt, sub_hash_table, naming, sub, reg, msgs, start,
                 fed, raced>>

(* rx_cnt++ is a load and a store.                                         *)
LoadCount(p) ==
  /\ pc[p] = "load"
  /\ reg' = [reg EXCEPT ![p] = rx_cnt[sub[p]]]
  /\ pc' = [pc EXCEPT ![p] = "store"]
  /\ UNCHANGED <<subcribers, rx_cnt, sub_hash_table, naming, sub, msgs, start,
                 given, data, raced>>

Loaded(s) == {p \in Publishers : pc[p] = "store" /\ sub[p] = s}

StoreCount(p) ==
  /\ pc[p] = "store"
  /\ rx_cnt' = [rx_cnt EXCEPT ![sub[p]] = reg[p] + 1]
  /\ raced' = IF Loaded(sub[p]) = {p} THEN raced ELSE raced \cup {sub[p]}
  /\ sub' = [sub EXCEPT ![p] = @ + 1]
  /\ pc' = [pc EXCEPT ![p] = "next"]
  /\ UNCHANGED <<subcribers, sub_hash_table, naming, reg, msgs, start, given, data>>

-----------------------------------------------------------------------------
Subcribe == Index \/ \E b \in Kinds : Pushback(b)

Walk(p) ==
  \/ FifoIn(p)
  \/ Callback(p)
  \/ LoadCount(p)
  \/ StoreCount(p)
  \/ Return(p)

(* The publications of the instance have been made.                        *)
Done ==
  /\ \A p \in Publishers : pc[p] = "idle" /\ msgs[p] = MaxMsgs[p]
  /\ UNCHANGED vars

Next == Subcribe \/ Done \/ \E p \in Publishers : Publish(p) \/ Walk(p)

Spec == Init /\ [][Next]_vars

-----------------------------------------------------------------------------
(***************************************************************************)
(* Properties                                                              *)
(***************************************************************************)

(* What is handed out in one publication, as TopicSpec promises it: no     *)
(* subscription that was there when abus_publish was called is passed over *)
(* or served twice, however subscribing and other publishers interleave.   *)
Topic == INSTANCE TopicSpec WITH
  there <- 1 .. Len(subcribers),
  open <- {p \in Publishers : pc[p] # "idle"},
  owed <- [p \in Publishers |-> 1 .. start[p]],
  given <- given

Implements == Topic!Spec

(* Two messages of p in a log with none of p between them are numbered one *)
(* after the other.                                                        *)
GapFree(p, log) ==
  \A i, j \in DOMAIN log :
    /\ i < j /\ log[i][1] = p /\ log[j][1] = p
    /\ \A k \in DOMAIN log : i < k /\ k < j => log[k][1] # p
    => log[j][2] = log[i][2] + 1

(* Once a subscriber has received a message of a publisher it receives     *)
(* every later one of it, in the order of publication and through its fifo *)
(* as through its callback.                                                *)
NoGap ==
  \A s \in Places, p \in Publishers : GapFree(p, fed[s]) /\ GapFree(p, called[s])

(* Publishers between the fifo and the callback of s, and between the      *)
(* callback and the counter.                                               *)
Feeding(s) == {p \in Publishers : pc[p] = "cb" /\ sub[p] = s}
Counting(s) == {p \in Publishers : pc[p] \in {"load", "store"} /\ sub[p] = s}

(* "number of packets the user has received" (rx_cnt): what a subscriber's *)
(* callback or fifo was given and rx_cnt agree, except for the messages    *)
(* being counted, as long as no two publishers have had its counter loaded *)
(* when one of them stored it.                                             *)
RxCounted ==
  \A s \in 1 .. Len(subcribers) : s \notin raced =>
    /\ subcribers[s].cb = "user" => Len(called[s]) = rx_cnt[s] + Cardinality(Counting(s))
    /\ subcribers[s].fifo =>
         Len(fed[s]) = rx_cnt[s] + Cardinality(Counting(s)) + Cardinality(Feeding(s))

-----------------------------------------------------------------------------
(***************************************************************************)
(* The inductive invariants: of the walk, behind Implements, and of what   *)
(* the walks have left with the subscribers, behind NoGap and RxCounted.   *)
(***************************************************************************)

(* How far each publication has come.                                      *)
Progress ==
  \A p \in Publishers : pc[p] # "idle" =>
    /\ start[p] <= Len(subcribers)
    /\ given[p] = 1 .. (IF pc[p] \in {"load", "store"} THEN sub[p] ELSE sub[p] - 1)
    /\ sub[p] <= (IF pc[p] = "next" THEN Len(subcribers) + 1 ELSE Len(subcribers))

(* The index never has a name the vector does not have.                    *)
IndexBehind ==
  /\ sub_hash_table \subseteq {subcribers[i].acc : i \in DOMAIN subcribers}
  /\ naming # NoName => \E i \in DOMAIN subcribers : subcribers[i].acc = naming

WalkInv == TypeOK /\ Progress /\ IndexBehind

(* The last message of p in a log, if there is one, has number n.          *)
Latest(p, log, n) ==
  \A i \in DOMAIN log :
    log[i][1] = p /\ (\A k \in DOMAIN log : i < k => log[k][1] # p) => log[i][2] = n

HasFrom(p, log) == \E i \in DOMAIN log : log[i][1] = p

(* The walk of p, if there is one, is past the callback of s, or its fifo. *)
PastCallback(p, s) == pc[p] = "idle" \/ s \in given[p]
PastFifo(p, s) == PastCallback(p, s) \/ (pc[p] = "cb" /\ sub[p] = s)

(* A place that p has given a message was there when the walk of p began,  *)
(* and the last message there is the one of this walk or, ahead of it, the *)
(* one before.                                                             *)
UpTo(p, s, log, past) ==
  /\ GapFree(p, log)
  /\ Latest(p, log, IF past THEN msgs[p] ELSE msgs[p] - 1)
  /\ HasFrom(p, log) => (past \/ s <= start[p])

InOrder ==
  /\ \A s \in Places, p \in Publishers :
       UpTo(p, s, fed[s], PastFifo(p, s)) /\ UpTo(p, s, called[s], PastCallback(p, s))
  /\ \A s \in Places :
       /\ fed[s] # << >> => s <= Len(subcribers) /\ subcribers[s].fifo
       /\ called[s] # << >> => s <= Len(subcribers) /\ subcribers[s].cb = "user"

(* What a publisher has loaded is still the counter.                       *)
LoadedFresh ==
  \A p \in Publishers :
    pc[p] = "store" /\ sub[p] \notin raced => reg[p] = rx_cnt[sub[p]]

IInv == WalkInv /\ InOrder /\ LoadedFresh /\ RxCounted
=============================================================================
