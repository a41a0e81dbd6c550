----------------------------- MODULE AbusHash -----------------------------
(***************************************************************************)
(* The hash table of the message bus (abus_hash.c), which finds topics and *)
(* accounters by name. A table is a row of head nodes, each with a chain   *)
(* of further nodes of the same address. There is no lock: one thread puts *)
(* names in, while others (the publishers, abus_topic_find_by_name) look   *)
(* names up, and any of them may be preempted between two statements.      *)
(*                                                                         *)
(* A name is put in once. What is stored with it is the object of that     *)
(* name, so the model stores the name itself. Removing is not modelled     *)
(* here: no topic or accounter of the program is ever destroyed.           *)
(***************************************************************************)
EXTENDS Integers

CONSTANTS
  Keys,         \* names
  Addresses,    \* indices of the heads
  hashFunction, \* the address of a name
  Heap,         \* bound: nodes that can be allocated
  Searchers,    \* threads that look names up
  NoKey         \* NullKey

ASSUME AbusHashAssumption ==
  /\ hashFunction \in [Keys -> Addresses]
  /\ Heap \in Nat
  /\ NoKey \notin Keys

Nodes == 1 .. Heap
Null == 0

VARIABLES
  hname, hdata, hnext,  \* the heads
  name, data, next,     \* the nodes of the chains
  used,                 \* nodes allocated: node n is the n-th
  ipc, ikey, inode,     \* HashTableInsert: next statement, key, node s
  done,                 \* names put in, HashTableInsert has returned
  spc, skey, sat,       \* HashTableSearch: next statement, key, node p
  known,                \* ghost: key was in done when the search began
  result                \* what the search has returned last

heads == <<hname, hdata, hnext>>
chains == <<name, data, next, used>>
insert == <<ipc, ikey, inode, done>>
search == <<spc, skey, sat, known, result>>
vars == <<heads, chains, insert, search>>

Maybe == Keys \cup {NoKey}

TypeOK ==
  /\ hname \in [Addresses -> Maybe] /\ hdata \in [Addresses -> Maybe]
  /\ hnext \in [Addresses -> 0 .. Heap]
  /\ name \in [Nodes -> Maybe] /\ data \in [Nodes -> Maybe]
  /\ next \in [Nodes -> 0 .. Heap]
  /\ used \in 0 .. Heap
  /\ ipc \in {"idle", "test", "name", "data", "fill", "next", "link"}
  /\ ikey \in Maybe /\ inode \in 0 .. Heap
  /\ done \subseteq Keys
  /\ spc \in [Searchers -> {"idle", "head", "head_data", "head_next", "node",
                            "node_data", "node_next"}]
  /\ skey \in [Searchers -> Maybe] /\ sat \in [Searchers -> 0 .. Heap]
  /\ known \in [Searchers -> BOOLEAN] /\ result \in [Searchers -> Maybe]

(* HashTableInit.                                                          *)
Init ==
  /\ hname = [a \in Addresses |-> NoKey] /\ hdata = [a \in Addresses |-> NoKey]
  /\ hnext = [a \in Addresses |-> Null]
  /\ name = [n \in Nodes |-> NoKey] /\ data = [n \in Nodes |-> NoKey]
  /\ next = [n \in Nodes |-> Null]
  /\ used = 0
  /\ ipc = "idle" /\ ikey = NoKey /\ inode = Null
  /\ done = {}
  /\ spc = [s \in Searchers |-> "idle"] /\ skey = [s \in Searchers |-> NoKey]
  /\ sat = [s \in Searchers |-> Null]
  /\ known = [s \in Searchers |-> FALSE] /\ result = [s \in Searchers |-> NoKey]

-----------------------------------------------------------------------------
(***************************************************************************)
(* HashTableInsert                                                         *)
(***************************************************************************)

address == hashFunction[ikey]

Insert(k) ==
  /\ ipc = "idle" /\ k \notin done
  /\ ipc' = "test"
  /\ ikey' = k
  /\ UNCHANGED <<heads, chains, inode, done, search>>

(* Mutated: the node is a static one.                                      *)
FreshStatic == 1

Fresh == used + 1

(* Mutated: the head is taken whether or not it is free.                   *)
HeadFreeAlways == TRUE

HeadFree == hname[address] = NoKey

(* A name goes to the head, if that is free, or to a new node.             *)
Test ==
  /\ ipc = "test"
  /\ \/ /\ HeadFree
        /\ ipc' = "name"
        /\ UNCHANGED <<used, inode>>
     \/ /\ ~HeadFree
        /\ used < Heap
        /\ used' = used + 1
        /\ inode' = Fresh
        /\ ipc' = "fill"
  /\ UNCHANGED <<heads, name, data, next, ikey, done, search>>

SetHeadName ==
  /\ ipc = "name"
  /\ hname' = [hname EXCEPT ![address] = ikey]
  /\ ipc' = "data"
  /\ UNCHANGED <<hdata, hnext, chains, ikey, inode, done, search>>

SetHeadData ==
  /\ ipc = "data"
  /\ hdata' = [hdata EXCEPT ![address] = ikey]
  /\ ipc' = "idle"
  /\ done' = done \cup {ikey}
  /\ UNCHANGED <<hname, hnext, chains, ikey, inode, search>>

(* The new node is seen by no one before it is linked.                     *)
Fill ==
  /\ ipc = "fill"
  /\ name' = [name EXCEPT ![inode] = ikey]
  /\ data' = [data EXCEPT ![inode] = ikey]
  /\ ipc' = "next"
  /\ UNCHANGED <<heads, next, used, ikey, inode, done, search>>

SetNext ==
  /\ ipc = "next"
  /\ next' = [next EXCEPT ![inode] = hnext[address]]
  /\ ipc' = "link"
  /\ UNCHANGED <<heads, name, data, used, ikey, inode, done, search>>

(* Mutated: the node is linked before its successor is read.               *)
LinkFirst ==
  /\ ipc = "link"
  /\ hnext' = [hnext EXCEPT ![address] = inode]
  /\ next' = [next EXCEPT ![inode] = inode]
  /\ ipc' = "idle"
  /\ done' = done \cup {ikey}
  /\ UNCHANGED <<hname, hdata, name, data, used, ikey, inode, search>>

Link ==
  /\ ipc = "link"
  /\ hnext' = [hnext EXCEPT ![address] = inode]
  /\ ipc' = "idle"
  /\ done' = done \cup {ikey}
  /\ UNCHANGED <<hname, hdata, chains, ikey, inode, search>>

-----------------------------------------------------------------------------
(***************************************************************************)
(* HashTableSearch                                                         *)
(***************************************************************************)

Goto(s, at) == spc' = [spc EXCEPT ![s] = at]

Search(s, k) ==
  /\ spc[s] = "idle"
  /\ Goto(s, "head")
  /\ skey' = [skey EXCEPT ![s] = k]
  /\ known' = [known EXCEPT ![s] = (k \in done)]
  /\ result' = [result EXCEPT ![s] = NoKey]
  /\ UNCHANGED <<heads, chains, insert, sat>>

(* p->name is compared with the key ...                                    *)
Compare(s) ==
  /\ \/ /\ spc[s] = "head"
        /\ Goto(s, IF hname[hashFunction[skey[s]]] = skey[s] THEN "head_data" ELSE "head_next")
     \/ /\ spc[s] = "node"
        /\ Goto(s, IF name[sat[s]] = skey[s] THEN "node_data" ELSE "node_next")
  /\ UNCHANGED <<heads, chains, insert, skey, sat, known, result>>

(* ... p->data returned if it is the key ...                               *)
Return(s) ==
  /\ \/ /\ spc[s] = "head_data"
        /\ result' = [result EXCEPT ![s] = hdata[hashFunction[skey[s]]]]
     \/ /\ spc[s] = "node_data"
        /\ result' = [result EXCEPT ![s] = data[sat[s]]]
  /\ Goto(s, "idle")
  /\ UNCHANGED <<heads, chains, insert, skey, sat, known>>

Successor(s) ==
  IF spc[s] = "head_next" THEN hnext[hashFunction[skey[s]]] ELSE next[sat[s]]

(* ... and the next node taken if it is not, up to the end of the chain.   *)
Follow(s) ==
  /\ spc[s] \in {"head_next", "node_next"}
  /\ sat' = [sat EXCEPT ![s] = Successor(s)]
  /\ Goto(s, IF Successor(s) = Null THEN "idle" ELSE "node")
  /\ UNCHANGED <<heads, chains, insert, skey, known, result>>

-----------------------------------------------------------------------------
Inserting ==
  \/ \E k \in Keys : Insert(k)
  \/ Test \/ SetHeadName \/ SetHeadData \/ Fill \/ SetNext \/ Link

Searching(s) == Compare(s) \/ Return(s) \/ Follow(s)

Next == Inserting \/ \E s \in Searchers : Searching(s) \/ \E k \in Keys : Search(s, k)

Spec == Init /\ [][Next]_vars

FairSpec == Spec /\ \A s \in Searchers : WF_vars(Searching(s))

-----------------------------------------------------------------------------
(***************************************************************************)
(* Properties                                                              *)
(***************************************************************************)

Idle(s) == spc[s] = "idle" /\ skey[s] # NoKey

(* A search never returns the object of another name, whatever is being    *)
(* put in while it runs (HashTableSearch compares before it returns).      *)
NeverAnother == \A s \in Searchers : result[s] \in {skey[s], NoKey}

(* A name that has been put in is found by every search that begins        *)
(* afterwards, whatever is being put in while it runs: abus_publish, which *)
(* does not check for a topic that is not found, has its topic.            *)
FoundOnceIn == \A s \in Searchers : Idle(s) /\ known[s] => result[s] = skey[s]

(* Every search ends, however many names are put in while it runs.         *)
SearchEnds == \A s \in Searchers : spc[s] # "idle" ~> spc[s] = "idle"

-----------------------------------------------------------------------------
(***************************************************************************)
(* Inductive invariant                                                     *)
(***************************************************************************)

(* Nodes that are linked: all that are allocated but the one in the making. *)
Linked == {n \in 1 .. used : ~(ipc \in {"fill", "next", "link"} /\ n = inode)}

In(n, a) == n \in Linked /\ hashFunction[name[n]] = a

(* A new node is the last allocated.                                       *)
Making ==
  /\ ipc # "idle" => ikey \in Keys /\ ikey \notin done
  /\ ipc \in {"fill", "next", "link"} =>
       inode = used /\ inode \in Nodes /\ hname[address] # NoKey
  /\ ipc \in {"next", "link"} => name[inode] = ikey /\ data[inode] = ikey
  /\ ipc = "link" => next[inode] = hnext[address]
  /\ ipc = "name" => hname[address] = NoKey
  /\ ipc = "data" => hname[address] = ikey

(* Every node has the name it is stored with.                              *)
Contents ==
  /\ \A n \in Linked : name[n] \in Keys /\ data[n] = name[n]
  /\ \A a \in Addresses :
       hdata[a] = IF ipc = "data" /\ a = address THEN NoKey ELSE hname[a]
  /\ \A a \in Addresses : hname[a] \in Keys => hashFunction[hname[a]] = a

(* A chain runs through all nodes of its address, newest first.            *)
Chain(m, a, below) ==
  /\ m # Null => In(m, a) /\ m < below
  /\ \A n \in Linked : In(n, a) /\ n < below => n <= m

Chains ==
  /\ \A a \in Addresses : Chain(hnext[a], a, used + 1)
  /\ \A n \in Linked : Chain(next[n], hashFunction[name[n]], n)
  /\ \A a \in Addresses : hname[a] = NoKey => hnext[a] = Null

(* Where a name is that has been put in.                                   *)
AtHead(k) == hname[hashFunction[k]] = k /\ hdata[hashFunction[k]] = k
InChain(k, upto) == \E n \in Linked : n <= upto /\ name[n] = k

Stored == \A k \in done : AtHead(k) \/ InChain(k, used)

(* A search has not passed the name it looks for.                          *)
Progress(s) ==
  LET k == skey[s] IN
  /\ spc[s] # "idle" => k \in Keys
  /\ spc[s] = "head_data" => hname[hashFunction[k]] = k
  /\ spc[s] \in {"node", "node_data", "node_next"} => In(sat[s], hashFunction[k])
  /\ spc[s] = "node_data" => name[sat[s]] = k
  /\ known[s] =>
       /\ spc[s] # "idle" => k \in done
       /\ spc[s] = "head_data" => AtHead(k)
       /\ spc[s] = "head_next" => InChain(k, used)
       /\ spc[s] = "node" => InChain(k, sat[s])
       /\ spc[s] = "node_next" => InChain(k, sat[s] - 1)

IInv ==
  /\ TypeOK
  /\ Making
  /\ Contents
  /\ Chains
  /\ Stored
  /\ \A s \in Searchers : Progress(s)
  /\ NeverAnother
  /\ FoundOnceIn
=============================================================================
