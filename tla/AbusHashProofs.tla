--------------------------- MODULE AbusHashProofs ---------------------------
(***************************************************************************)
(* Proofs about AbusHash for every set of names, every hash function and   *)
(* any number of searching threads.                                        *)
(***************************************************************************)
EXTENDS AbusHash, TLAPS

LEMMA InitInv == Init => IInv
<1> SUFFICES ASSUME Init PROVE IInv
  OBVIOUS
<1> USE AbusHashAssumption DEF Init
<1>1. TypeOK
  BY DEF TypeOK, Maybe, Nodes, Null
<1>2. Linked = {}
  BY DEF Linked
<1>3. Making /\ Stored
  BY DEF Making, Stored
<1>4. Contents
  BY <1>2 DEF Contents
<1>5. Chains
  BY <1>2 DEF Chains, Chain, Null
<1>6. \A s \in Searchers : Progress(s)
  BY DEF Progress
<1>7. NeverAnother /\ FoundOnceIn
  BY DEF NeverAnother, FoundOnceIn
<1> QED BY <1>1, <1>3, <1>4, <1>5, <1>6, <1>7 DEF IInv

(* Steps of a search leave the table alone.                                *)
LEMMA TableKept ==
  ASSUME IInv, UNCHANGED <<heads, chains, insert>>
  PROVE  Making' /\ Contents' /\ Chains' /\ Stored'
<1> USE DEF IInv, heads, chains, insert
<1>1. Linked' = Linked
  BY DEF Linked
<1>2. Making'
  BY DEF Making, address
<1>3. Contents'
  BY <1>1 DEF Contents, address
<1>4. Chains'
  BY <1>1 DEF Chains, Chain, In
<1>5. Stored'
  BY <1>1 DEF Stored, AtHead, InChain
<1> QED BY <1>2, <1>3, <1>4, <1>5

(* What an insertion may do to the table while searches are on their way:  *)
(* it takes no head and no linked node away.                               *)
Grows ==
  /\ used' >= used
  /\ done \subseteq done'
  /\ \A n \in Linked : n \in Linked' /\ name'[n] = name[n]
  /\ \A a \in Addresses : hname[a] # NoKey => hname'[a] = hname[a]
  /\ \A k \in done : AtHead(k) => AtHead(k)'

(* Then no search loses its way.                                           *)
LEMMA SearchesKept ==
  ASSUME IInv, TypeOK', Grows, UNCHANGED search
  PROVE  /\ \A s \in Searchers : Progress(s)'
         /\ NeverAnother' /\ FoundOnceIn'
<1>0. \A k \in Keys : hashFunction[k] \in Addresses /\ k # NoKey
  BY AbusHashAssumption
<1>1. ASSUME NEW s \in Searchers PROVE Progress(s)'
  <2> DEFINE k == skey[s]
  <2>0. /\ UNCHANGED <<spc, skey, sat, known, result>>
        /\ Progress(s)
    BY DEF search, IInv
  <2>n. sat[s] \in Nat /\ used \in Nat /\ used' \in Nat
    <3>1. Progress(s) /\ TypeOK
      BY DEF IInv
    <3>2. sat[s] \in 0 .. Heap /\ used \in 0 .. Heap /\ used' \in 0 .. Heap
      BY <3>1 DEF TypeOK
    <3>3. Heap \in Nat
      BY AbusHashAssumption
    <3> QED BY <3>2, <3>3
  <2>1. spc[s] # "idle" => k \in Keys
    BY <2>0 DEF Progress
  <2>2. spc[s] = "head_data" => hname'[hashFunction[k]] = k
    BY <1>0, <2>0, <2>1 DEF Progress, Grows
  <2>3. \A a : In(sat[s], a) => In(sat[s], a)'
    BY <2>0 DEF Grows, In
  <2>4. \A upto, upto2 \in Int : upto <= upto2 /\ InChain(k, upto) =>
           \E n \in Linked' : n <= upto2 /\ name'[n] = k
    <3> SUFFICES ASSUME NEW upto \in Int, NEW upto2 \in Int, upto <= upto2, InChain(k, upto)
                 PROVE  \E n \in Linked' : n <= upto2 /\ name'[n] = k
      OBVIOUS
    <3>1. PICK n \in Linked : n <= upto /\ name[n] = k
      BY DEF InChain
    <3>2. n \in Int
      BY <2>n DEF Linked
    <3> QED BY <3>1, <3>2 DEF Grows
  <2>5. ASSUME known[s]
        PROVE  /\ spc[s] # "idle" => k \in done'
               /\ spc[s] = "head_data" => AtHead(k)'
               /\ spc[s] = "head_next" => InChain(k, used)'
               /\ spc[s] = "node" => InChain(k, sat[s])'
               /\ spc[s] = "node_next" => InChain(k, sat[s] - 1)'
    <3>1. spc[s] # "idle" => k \in done'
      BY <2>0, <2>5 DEF Progress, Grows
    <3>2. spc[s] = "head_data" => AtHead(k)'
      BY <2>0, <2>5 DEF Progress, Grows
    <3>3. spc[s] = "head_next" => InChain(k, used)'
      <4> SUFFICES ASSUME spc[s] = "head_next" PROVE InChain(k, used)'
        OBVIOUS
      <4>1. InChain(k, used)
        BY <2>0, <2>5 DEF Progress
      <4>2. used <= used' /\ used \in Int /\ used' \in Int
        BY <2>n DEF Grows
      <4>3. \E n \in Linked' : n <= used' /\ name'[n] = k
        BY <2>4, <4>1, <4>2
      <4> QED BY <2>0, <4>3 DEF InChain
    <3>4. spc[s] = "node" => InChain(k, sat[s])'
      BY <2>0, <2>n, <2>4, <2>5 DEF Progress, InChain
    <3>5. spc[s] = "node_next" => InChain(k, sat[s] - 1)'
      <4> SUFFICES ASSUME spc[s] = "node_next" PROVE InChain(k, sat[s] - 1)'
        OBVIOUS
      <4>1. InChain(k, sat[s] - 1)
        BY <2>0, <2>5 DEF Progress
      <4>2. sat[s] - 1 \in Int /\ sat[s] - 1 <= sat[s] - 1
        BY <2>n
      <4>3. \E n \in Linked' : n <= sat[s] - 1 /\ name'[n] = k
        BY <2>4, <4>1, <4>2
      <4> QED BY <2>0, <4>3 DEF InChain
    <3> QED BY <3>1, <3>2, <3>3, <3>4, <3>5
  <2>6. spc[s] = "node_data" => In(sat[s], hashFunction[k]) /\ name'[sat[s]] = k
    BY <2>0 DEF Progress, Grows, In
  <2> QED BY <2>0, <2>1, <2>2, <2>3, <2>5, <2>6 DEF Progress
<1>2. NeverAnother' /\ FoundOnceIn'
  BY DEF search, IInv, NeverAnother, FoundOnceIn, Idle
<1> QED BY <1>1, <1>2

-----------------------------------------------------------------------------
(* The steps of HashTableSearch.                                           *)
LEMMA SearchInv ==
  ASSUME IInv, NEW s \in Searchers, Searching(s) \/ \E k \in Keys : Search(s, k)
  PROVE  IInv'
<1>0. \A k \in Keys : hashFunction[k] \in Addresses /\ k # NoKey
  BY AbusHashAssumption
<1>1. UNCHANGED <<heads, chains, insert>>
  BY DEF Searching, Search, Compare, Return, Follow
<1>2. Making' /\ Contents' /\ Chains' /\ Stored'
  BY <1>1, TableKept
<1>3. TypeOK /\ Making /\ Contents /\ Chains /\ Stored /\ Progress(s) /\ NeverAnother /\ FoundOnceIn
  BY DEF IInv
<1>4. Linked' = Linked /\ (\A n, a : In(n, a)' <=> In(n, a)) /\ (\A k : AtHead(k)' <=> AtHead(k))
      /\ \A k, upto : InChain(k, upto)' <=> InChain(k, upto)
  BY <1>1 DEF Linked, In, AtHead, InChain, heads, chains, insert
<1>n. used \in Nat /\ sat[s] \in Nat /\ \A n \in Linked : n \in Nat
  <2>1. used \in 0 .. Heap /\ sat[s] \in 0 .. Heap /\ Heap \in Nat
    BY <1>3, AbusHashAssumption DEF TypeOK
  <2> QED BY <2>1 DEF Linked
<1>5. ASSUME NEW k \in Keys, Search(s, k) PROVE TypeOK' /\ Progress(s)' /\ NeverAnother' /\ FoundOnceIn'
  <2>1. TypeOK'
    BY <1>1, <1>3, <1>5 DEF TypeOK, Search, Goto, heads, chains, insert, Maybe
  <2>2. spc'[s] = "head" /\ skey'[s] = k /\ known'[s] = (k \in done)
    BY <1>3, <1>5 DEF TypeOK, Search, Goto
  <2>3. Progress(s)'
    BY <1>1, <2>2 DEF Progress, insert
  <2>4. NeverAnother'
    BY <1>3, <1>5 DEF TypeOK, Search, NeverAnother
  <2>5. FoundOnceIn'
    BY <1>3, <1>5 DEF TypeOK, Search, Goto, FoundOnceIn, Idle
  <2> QED BY <2>1, <2>3, <2>4, <2>5
<1>6. ASSUME Compare(s) PROVE TypeOK' /\ Progress(s)' /\ NeverAnother' /\ FoundOnceIn'
  <2>0. skey[s] \in Keys
    BY <1>3, <1>6 DEF Progress, Compare
  <2>1. TypeOK'
    BY <1>1, <1>3, <1>6 DEF TypeOK, Compare, Goto, heads, chains, insert
  <2>2. Progress(s)'
    <3>1. CASE spc[s] = "head"
      <4>1. spc'[s] = IF hname[hashFunction[skey[s]]] = skey[s] THEN "head_data" ELSE "head_next"
        BY <1>3, <1>6, <3>1 DEF TypeOK, Compare, Goto
      <4>2. known[s] => AtHead(skey[s]) \/ InChain(skey[s], used)
        BY <1>3, <3>1 DEF Progress, Stored
      <4>3. hname[hashFunction[skey[s]]] # skey[s] => ~AtHead(skey[s])
        BY DEF AtHead
      <4>4. ASSUME known[s], hname[hashFunction[skey[s]]] = skey[s] PROVE AtHead(skey[s])
        <5>1. skey[s] \in done
          BY <1>3, <3>1, <4>4 DEF Progress
        <5>2. hdata[hashFunction[skey[s]]] = skey[s]
          BY <1>0, <1>3, <2>0, <4>4, <5>1 DEF Contents, Making
        <5> QED BY <4>4, <5>2 DEF AtHead
      <4> QED BY <1>1, <1>3, <1>4, <1>6, <2>0, <3>1, <4>1, <4>2, <4>3, <4>4
              DEF Progress, Compare, heads, chains, insert
    <3>2. CASE spc[s] = "node"
      <4>1. spc'[s] = IF name[sat[s]] = skey[s] THEN "node_data" ELSE "node_next"
        BY <1>3, <1>6, <3>2 DEF TypeOK, Compare, Goto
      <4>2. ASSUME known[s], name[sat[s]] # skey[s] PROVE InChain(skey[s], sat[s] - 1)
        <5>1. PICK n \in Linked : n <= sat[s] /\ name[n] = skey[s]
          BY <1>3, <3>2, <4>2 DEF Progress, InChain
        <5>2. n <= sat[s] - 1
          BY <1>n, <4>2, <5>1
        <5> QED BY <5>1, <5>2 DEF InChain
      <4> QED BY <1>1, <1>3, <1>4, <1>6, <2>0, <3>2, <4>1, <4>2
              DEF Progress, Compare, heads, chains, insert
    <3> QED BY <1>6, <3>1, <3>2 DEF Compare
  <2>3. NeverAnother'
    BY <1>3, <1>6 DEF Compare, NeverAnother
  <2>4. FoundOnceIn'
    BY <1>3, <1>6 DEF TypeOK, Compare, Goto, FoundOnceIn, Idle
  <2> QED BY <2>1, <2>2, <2>3, <2>4
<1>7. ASSUME Return(s) PROVE TypeOK' /\ Progress(s)' /\ NeverAnother' /\ FoundOnceIn'
  <2>0. /\ skey[s] \in Keys /\ spc' = [spc EXCEPT ![s] = "idle"]
        /\ UNCHANGED <<skey, sat, known>>
    BY <1>3, <1>7 DEF Progress, Return, Goto
  <2>1. result' = [result EXCEPT ![s] = result'[s]] /\ result'[s] \in {skey[s], NoKey}
    <3>1. CASE spc[s] = "head_data"
      <4>1. hname[hashFunction[skey[s]]] = skey[s]
        BY <1>3, <3>1 DEF Progress
      <4>2. hdata[hashFunction[skey[s]]] \in {skey[s], NoKey}
        BY <1>0, <1>3, <2>0, <4>1 DEF Contents
      <4> QED BY <1>3, <1>7, <3>1, <4>2 DEF Return, TypeOK
    <3>2. CASE spc[s] = "node_data"
      <4>1. sat[s] \in Linked /\ name[sat[s]] = skey[s]
        BY <1>3, <3>2 DEF Progress, In
      <4>2. data[sat[s]] = skey[s]
        BY <1>3, <4>1 DEF Contents
      <4> QED BY <1>3, <1>7, <3>2, <4>2 DEF Return, TypeOK
    <3> QED BY <1>7, <3>1, <3>2 DEF Return
  <2>2. known[s] => result'[s] = skey[s]
    <3>1. ASSUME known[s], spc[s] = "head_data" PROVE result'[s] = skey[s]
      <4>1. AtHead(skey[s])
        BY <1>3, <3>1 DEF Progress
      <4> QED BY <1>3, <1>7, <3>1, <4>1 DEF Return, TypeOK, AtHead
    <3>2. ASSUME spc[s] = "node_data" PROVE result'[s] = skey[s]
      <4>1. sat[s] \in Linked /\ name[sat[s]] = skey[s]
        BY <1>3, <3>2 DEF Progress, In
      <4>2. data[sat[s]] = skey[s]
        BY <1>3, <4>1 DEF Contents
      <4> QED BY <1>3, <1>7, <3>2, <4>2 DEF Return, TypeOK
    <3> QED BY <1>7, <3>1, <3>2 DEF Return
  <2>3. TypeOK'
    <3>1. result' \in [Searchers -> Maybe]
      BY <1>3, <2>0, <2>1 DEF TypeOK, Maybe
    <3> QED BY <1>1, <1>3, <2>0, <3>1 DEF TypeOK, heads, chains, insert
  <2>4. Progress(s)'
    BY <1>3, <2>0 DEF TypeOK, Progress
  <2>5. NeverAnother'
    BY <1>3, <2>0, <2>1 DEF TypeOK, NeverAnother
  <2>6. FoundOnceIn'
    BY <1>3, <2>0, <2>1, <2>2 DEF TypeOK, FoundOnceIn, Idle
  <2> QED BY <2>3, <2>4, <2>5, <2>6
<1>8. ASSUME Follow(s) PROVE TypeOK' /\ Progress(s)' /\ NeverAnother' /\ FoundOnceIn'
  <2> DEFINE a == hashFunction[skey[s]]
             m == Successor(s)
             below == IF spc[s] = "head_next" THEN used + 1 ELSE sat[s]
  <2>0. skey[s] \in Keys /\ a \in Addresses
    BY <1>0, <1>3, <1>8 DEF Progress, Follow
  <2>1. Chain(m, a, below) /\ m \in 0 .. Heap /\ m \in Nat
    <3>1. CASE spc[s] = "head_next"
      <4>1. m = hnext[a] /\ below = used + 1
        BY <3>1 DEF Successor
      <4> QED BY <1>3, <2>0, <4>1, AbusHashAssumption DEF Chains, TypeOK
    <3>2. CASE spc[s] = "node_next"
      <4>1. m = next[sat[s]] /\ below = sat[s]
        BY <3>2 DEF Successor
      <4>2. sat[s] \in Linked /\ hashFunction[name[sat[s]]] = a
        BY <1>3, <3>2 DEF Progress, In
      <4>3. sat[s] \in Nodes
        BY <1>3, <4>2, AbusHashAssumption DEF Linked, TypeOK, Nodes
      <4> QED BY <1>3, <4>1, <4>2, <4>3, AbusHashAssumption DEF Chains, TypeOK
    <3> QED BY <1>8, <3>1, <3>2 DEF Follow
  <2>2. known[s] => \E n \in Linked : n < below /\ name[n] = skey[s]
    <3>1. CASE spc[s] = "head_next"
      <4>1. ASSUME known[s] PROVE InChain(skey[s], used)
        BY <1>3, <3>1, <4>1 DEF Progress
      <4>2. \A n \in Linked : n < used + 1
        BY <1>n DEF Linked
      <4> QED BY <3>1, <4>1, <4>2 DEF InChain
    <3>2. CASE spc[s] = "node_next"
      <4>1. ASSUME known[s] PROVE InChain(skey[s], sat[s] - 1)
        BY <1>3, <3>2, <4>1 DEF Progress
      <4>2. \A n \in Linked : n <= sat[s] - 1 => n < sat[s]
        BY <1>n
      <4> QED BY <3>2, <4>1, <4>2 DEF InChain
    <3> QED BY <1>8, <3>1, <3>2 DEF Follow
  <2>3. ASSUME known[s] PROVE m # Null /\ InChain(skey[s], m)
    <3>1. PICK n \in Linked : n < below /\ name[n] = skey[s]
      BY <2>2, <2>3
    <3>2. n <= m
      BY <2>1, <3>1 DEF Chain, In
    <3>3. n \in 1 .. used
      BY DEF Linked
    <3> QED BY <1>n, <2>1, <3>1, <3>2, <3>3 DEF InChain, Null
  <2>4. /\ spc' = [spc EXCEPT ![s] = IF m = Null THEN "idle" ELSE "node"]
        /\ sat' = [sat EXCEPT ![s] = m]
        /\ UNCHANGED <<skey, known, result>>
    BY <1>8 DEF Follow, Goto
  <2>5. TypeOK'
    <3>1. spc' \in [Searchers -> {"idle", "head", "head_data", "head_next", "node", "node_data", "node_next"}]
      BY <1>3, <2>4 DEF TypeOK
    <3>2. sat' \in [Searchers -> 0 .. Heap]
      BY <1>3, <2>1, <2>4 DEF TypeOK
    <3> QED BY <1>1, <1>3, <2>4, <3>1, <3>2 DEF TypeOK, heads, chains, insert
  <2>6. spc'[s] = (IF m = Null THEN "idle" ELSE "node") /\ sat'[s] = m
    BY <1>3, <2>4 DEF TypeOK
  <2>7. Progress(s)'
    <3>0. Linked' = Linked /\ name' = name /\ done' = done
      BY <1>1, <1>4 DEF chains, insert
    <3>1. m # Null => m \in Linked' /\ hashFunction[name'[m]] = a
      BY <2>1, <3>0 DEF Chain, In
    <3>2. ASSUME known[s]
          PROVE  m # Null /\ skey[s] \in done' /\ \E n \in Linked' : n <= m /\ name'[n] = skey[s]
      <4>1. skey[s] \in done
        BY <1>3, <1>8, <3>2 DEF Progress, Follow
      <4> QED BY <2>3, <3>0, <3>2, <4>1 DEF InChain
    <3>3. m = Null => spc'[s] = "idle"
      BY <2>6
    <3>4. m # Null => spc'[s] = "node" /\ sat'[s] = m
      BY <2>6
    <3>5. CASE m = Null
      BY <2>4, <3>2, <3>3, <3>5 DEF Progress
    <3>6. CASE m # Null
      <4>1. In(sat[s], hashFunction[skey[s]])'
        BY <2>4, <3>1, <3>4, <3>6 DEF In
      <4>2. known[s] => InChain(skey[s], sat[s])' /\ skey[s] \in done'
        BY <2>4, <3>2, <3>4, <3>6 DEF InChain
      <4> QED BY <2>0, <2>4, <3>4, <3>6, <4>1, <4>2 DEF Progress
    <3> QED BY <3>5, <3>6
  <2>8. NeverAnother'
    BY <1>3, <2>4 DEF NeverAnother
  <2>9. FoundOnceIn'
    <3>1. known[s] => spc'[s] # "idle"
      BY <2>3, <2>6
    <3> QED BY <1>3, <2>4, <3>1 DEF FoundOnceIn, Idle, TypeOK
  <2> QED BY <2>5, <2>7, <2>8, <2>9
<1>9. ASSUME NEW t \in Searchers, t # s PROVE Progress(t)'
  <2>1. spc'[t] = spc[t] /\ skey'[t] = skey[t] /\ sat'[t] = sat[t] /\ known'[t] = known[t]
    BY <1>3, <1>9 DEF TypeOK, Searching, Search, Compare, Return, Follow, Goto
  <2>2. Progress(t)
    BY DEF IInv
  <2> QED BY <1>1, <1>4, <2>1, <2>2 DEF Progress, heads, chains, insert
<1> QED BY <1>2, <1>5, <1>6, <1>7, <1>8, <1>9 DEF IInv, Searching

-----------------------------------------------------------------------------
LEMMA BelowNext == \A u, v \in Nat : u <= v => \A n \in 1 .. u : n < v + 1
OBVIOUS

(* The steps of HashTableInsert that write no linked node: the table, as a *)
(* search sees it, stays what it is.                                       *)
LEMMA PrivateInv ==
  ASSUME IInv, (\E k \in Keys : Insert(k)) \/ Test \/ Fill \/ SetNext
  PROVE  IInv'
<1>0. \A k \in Keys : hashFunction[k] \in Addresses /\ k # NoKey
  BY AbusHashAssumption
<1>1. TypeOK /\ Making /\ Contents /\ Chains /\ Stored
  BY DEF IInv
<1>n. used \in Nat /\ Heap \in Nat /\ used \in 0 .. Heap
  <2>1. used \in 0 .. Heap /\ Heap \in Nat
    BY <1>1, AbusHashAssumption DEF TypeOK
  <2> QED BY <2>1
<1>2. UNCHANGED <<heads, done, search>>
  BY DEF Insert, Test, Fill, SetNext
<1>u. used' \in Nat /\ used' >= used
  <2>1. used' = used \/ used' = used + 1
    BY DEF Insert, Test, Fill, SetNext, chains
  <2> QED BY <1>n, <2>1
<1>v. \A n \in 1 .. used : n < used' + 1
  BY <1>n, <1>u, BelowNext
<1>3. Linked' = Linked
  <2>1. ASSUME NEW k \in Keys, Insert(k) PROVE Linked' = Linked
    BY <2>1 DEF Linked, Insert, chains
  <2>2. ASSUME Test PROVE Linked' = Linked
    <3>1. CASE ipc' = "name" /\ UNCHANGED <<used, inode>>
      BY <2>2, <3>1 DEF Linked, Test
    <3>2. CASE used' = used + 1 /\ inode' = Fresh /\ ipc' = "fill"
      BY <1>n, <2>2, <3>2 DEF Linked, Test, Fresh
    <3> QED BY <2>2, <3>1, <3>2 DEF Test
  <2>3. ASSUME Fill \/ SetNext PROVE Linked' = Linked
    BY <2>3 DEF Linked, Fill, SetNext
  <2> QED BY <2>1, <2>2, <2>3
<1>4. \A n \in Linked : name'[n] = name[n] /\ data'[n] = data[n] /\ next'[n] = next[n]
  <2>1. ASSUME (\E k \in Keys : Insert(k)) \/ Test PROVE UNCHANGED <<name, data, next>>
    BY <2>1 DEF Insert, Test, chains
  <2>2. ASSUME Fill \/ SetNext, NEW n \in Linked
        PROVE  name'[n] = name[n] /\ data'[n] = data[n] /\ next'[n] = next[n]
    <3>1. n # inode
      BY <2>2 DEF Linked, Fill, SetNext
    <3>2. n \in Nodes
      BY <1>n DEF Linked, Nodes
    <3> QED BY <1>1, <2>2, <3>1, <3>2 DEF TypeOK, Fill, SetNext
  <2> QED BY <2>1, <2>2
<1>5. TypeOK'
  <2>1. ASSUME NEW k \in Keys, Insert(k) PROVE TypeOK'
    BY <1>1, <2>1 DEF TypeOK, Insert, heads, chains, search, Maybe
  <2>2. ASSUME Test PROVE TypeOK'
    <3>1. used' \in 0 .. Heap /\ inode' \in 0 .. Heap
      BY <1>1, <1>n, <2>2 DEF TypeOK, Test, Fresh
    <3>2. ipc' \in {"name", "fill"}
      BY <2>2 DEF Test
    <3> QED BY <1>1, <2>2, <3>1, <3>2 DEF TypeOK, Test, heads, search
  <2>3. ASSUME Fill PROVE TypeOK'
    BY <1>1, <2>3 DEF TypeOK, Fill, heads, search
  <2>4. ASSUME SetNext PROVE TypeOK'
    <3>1. hnext[address] \in 0 .. Heap
      BY <1>0, <1>1, <2>4 DEF TypeOK, Making, SetNext, address
    <3> QED BY <1>1, <2>4, <3>1 DEF TypeOK, SetNext, heads, search
  <2> QED BY <2>1, <2>2, <2>3, <2>4
<1>6. Making'
  <2>1. ASSUME NEW k \in Keys, Insert(k) PROVE Making'
    BY <2>1 DEF Making, Insert
  <2>2. ASSUME Test PROVE Making'
    <3>1. (inode' = used' /\ inode' \in Nodes) \/ (ipc' = "name" /\ hname[address] = NoKey)
      BY <1>n, <2>2 DEF Test, Fresh, Nodes, HeadFree
    <3> QED BY <1>1, <2>2, <3>1 DEF Making, Test, HeadFree, address, heads
  <2>3. ASSUME Fill PROVE Making'
    BY <1>1, <2>3 DEF Making, Fill, address, heads, TypeOK
  <2>4. ASSUME SetNext PROVE Making'
    BY <1>1, <2>4 DEF Making, SetNext, address, heads, TypeOK
  <2> QED BY <2>1, <2>2, <2>3, <2>4
<1>7. Contents'
  <2>1. ipc # "data" /\ ipc' # "data"
    BY DEF Insert, Test, Fill, SetNext
  <2> QED BY <1>1, <1>2, <1>3, <1>4, <2>1 DEF Contents, heads
<1>8. Chains'
  <2>1. \A m, a, below : Chain(m, a, below) <=>
           /\ m # Null => m \in Linked' /\ hashFunction[name'[m]] = a /\ m < below
           /\ \A n \in Linked' : n \in Linked' /\ hashFunction[name'[n]] = a /\ n < below => n <= m
    BY <1>3, <1>4 DEF Chain, In
  <2>2. \A n \in Linked : n < used + 1
    BY <1>n DEF Linked
  <2>3. ASSUME NEW a \in Addresses PROVE Chain(hnext[a], a, used' + 1)
    <3>1. Chain(hnext[a], a, used + 1)
      BY <1>1 DEF Chains
    <3>2. ASSUME NEW n \in Linked PROVE n < used' + 1
      <4>1. n \in 1 .. used
        BY DEF Linked
      <4> QED BY <1>v, <4>1
    <3> QED BY <2>2, <3>1, <3>2 DEF Chain, In
  <2>4. \A a \in Addresses : Chain(hnext[a], a, used + 1)'
    BY <1>2, <2>1, <2>3 DEF Chain, In, heads
  <2>5. \A n \in Linked' : Chain(next[n], hashFunction[name[n]], n)'
    BY <1>1, <1>3, <1>4, <2>1 DEF Chain, In, Chains
  <2> QED BY <1>1, <1>2, <2>4, <2>5 DEF Chains, heads
<1>9. Stored'
  <2>1. ASSUME NEW k \in done, InChain(k, used) PROVE InChain(k, used)'
    <3>1. PICK n \in Linked : n <= used /\ name[n] = k
      BY <2>1 DEF InChain
    <3>2. n \in Nat
      BY DEF Linked
    <3>3. n \in Linked' /\ n <= used' /\ name'[n] = k
      BY <1>n, <1>u, <1>3, <1>4, <3>1, <3>2
    <3> QED BY <3>3 DEF InChain
  <2> QED BY <1>1, <1>2, <2>1 DEF Stored, AtHead, heads
<1>10. Grows
  BY <1>2, <1>u, <1>3, <1>4 DEF Grows, AtHead, heads
<1> QED BY <1>2, <1>5, <1>6, <1>7, <1>8, <1>9, <1>10, SearchesKept DEF IInv

(* The two writes to a free head.                                          *)
LEMMA HeadInv ==
  ASSUME IInv, SetHeadName \/ SetHeadData
  PROVE  IInv'
<1>0. \A k \in Keys : hashFunction[k] \in Addresses /\ k # NoKey
  BY AbusHashAssumption
<1>1. TypeOK /\ Making /\ Contents /\ Chains /\ Stored
  BY DEF IInv
<1>2. /\ UNCHANGED <<hnext, chains, ikey, inode, search>>
      /\ ikey \in Keys /\ ikey \notin done /\ address \in Addresses /\ address' = address
  BY <1>0, <1>1 DEF SetHeadName, SetHeadData, Making, address
<1>n. used \in Nat
  <2>1. used \in 0 .. Heap /\ Heap \in Nat
    BY <1>1, AbusHashAssumption DEF TypeOK
  <2> QED BY <2>1
<1>3. Linked' = Linked
  BY <1>2 DEF SetHeadName, SetHeadData, Linked, chains
<1>4. /\ SetHeadName => hname[address] = NoKey /\ hname' = [hname EXCEPT ![address] = ikey]
                        /\ hdata' = hdata /\ ipc' = "data" /\ ipc = "name" /\ done' = done
      /\ SetHeadData => hname[address] = ikey /\ hdata' = [hdata EXCEPT ![address] = ikey]
                        /\ hname' = hname /\ ipc' = "idle" /\ ipc = "data"
                        /\ done' = done \cup {ikey}
  BY <1>1 DEF SetHeadName, SetHeadData, Making
<1>5. TypeOK'
  <2>1. hname' \in [Addresses -> Maybe] /\ hdata' \in [Addresses -> Maybe]
    BY <1>1, <1>2, <1>4 DEF TypeOK, Maybe
  <2>2. done' \subseteq Keys /\ ipc' \in {"data", "idle"}
    BY <1>1, <1>2, <1>4 DEF TypeOK
  <2> QED BY <1>1, <1>2, <2>1, <2>2 DEF TypeOK, chains, search
<1>6. Making'
  BY <1>1, <1>2, <1>4 DEF Making, TypeOK
<1>7. Contents'
  <2>1. \A n \in Linked' : name'[n] \in Keys /\ data'[n] = name'[n]
    BY <1>1, <1>2, <1>3 DEF Contents, chains
  <2>2. ASSUME NEW a \in Addresses
        PROVE  hdata'[a] = IF ipc' = "data" /\ a = address THEN NoKey ELSE hname'[a]
    BY <1>0, <1>1, <1>2, <1>4 DEF Contents, TypeOK
  <2>3. ASSUME NEW a \in Addresses, hname'[a] \in Keys PROVE hashFunction[hname'[a]] = a
    BY <1>0, <1>1, <1>2, <1>4, <2>3 DEF Contents, TypeOK, address
  <2> QED BY <1>2, <2>1, <2>2, <2>3 DEF Contents
<1>8. Chains'
  <2>1. \A a \in Addresses : hname'[a] = NoKey => hname[a] = NoKey
    BY <1>0, <1>1, <1>2, <1>4 DEF TypeOK
  <2> QED BY <1>1, <1>2, <1>3, <2>1 DEF Chains, Chain, In, chains
<1>9. \A k \in done : AtHead(k) => AtHead(k)'
  <2> SUFFICES ASSUME NEW k \in done, AtHead(k) PROVE AtHead(k)'
    OBVIOUS
  <2>1. k \in Keys /\ hashFunction[k] \in Addresses
    BY <1>0, <1>1 DEF TypeOK
  <2>2. hname'[hashFunction[k]] = k
    BY <1>0, <1>1, <1>2, <1>4, <2>1 DEF AtHead, TypeOK
  <2>3. hdata'[hashFunction[k]] = k
    BY <1>0, <1>1, <1>2, <1>4, <2>1 DEF AtHead, TypeOK
  <2> QED BY <2>2, <2>3 DEF AtHead
<1>10. Stored'
  <2>1. ASSUME SetHeadData PROVE AtHead(ikey)'
    BY <1>1, <1>2, <1>4, <2>1 DEF AtHead, TypeOK, address
  <2>2. \A k : InChain(k, used)' <=> InChain(k, used)
    BY <1>2, <1>3 DEF InChain, chains
  <2>3. \A k \in done' : k \in done \/ (SetHeadData /\ k = ikey)
    BY <1>4
  <2> QED BY <1>1, <1>2, <1>9, <2>1, <2>2, <2>3 DEF Stored
<1>11. Grows
  <2>1. \A a \in Addresses : hname[a] # NoKey => hname'[a] = hname[a]
    BY <1>1, <1>2, <1>4 DEF TypeOK
  <2>2. done \subseteq done'
    BY <1>4
  <2>3. used' >= used /\ name' = name
    BY <1>n, <1>2 DEF chains
  <2> QED BY <1>3, <1>9, <2>1, <2>2, <2>3 DEF Grows
<1> QED BY <1>2, <1>5, <1>6, <1>7, <1>8, <1>10, <1>11, SearchesKept DEF IInv

(* The write that links a new node.                                        *)
LEMMA LinkInv ==
  ASSUME IInv, Link
  PROVE  IInv'
<1>0. \A k \in Keys : hashFunction[k] \in Addresses /\ k # NoKey
  BY AbusHashAssumption
<1>1. TypeOK /\ Making /\ Contents /\ Chains /\ Stored
  BY DEF IInv
<1>2. /\ UNCHANGED <<hname, hdata, chains, ikey, inode, search>>
      /\ ipc = "link" /\ ipc' = "idle" /\ done' = done \cup {ikey}
      /\ hnext' = [hnext EXCEPT ![address] = inode]
  BY DEF Link
<1>3. /\ ikey \in Keys /\ address \in Addresses /\ hname[address] # NoKey
      /\ inode = used /\ inode \in Nodes /\ name[inode] = ikey /\ data[inode] = ikey
      /\ next[inode] = hnext[address]
  BY <1>0, <1>1, <1>2 DEF Making, address
<1>n. used \in Nat /\ Heap \in Nat /\ used # 0 /\ used \in 0 .. Heap
  <2>1. used \in 0 .. Heap /\ Heap \in Nat
    BY <1>1, AbusHashAssumption DEF TypeOK
  <2> QED BY <1>3, <2>1 DEF Nodes
<1>4. Linked' = Linked \cup {used} /\ \A n \in Linked : n \in Nat /\ n < used
  BY <1>2, <1>3, <1>n DEF Linked, chains
<1>5. TypeOK'
  <2>1. hnext' \in [Addresses -> 0 .. Heap]
    BY <1>1, <1>2, <1>3, <1>n DEF TypeOK
  <2>2. done' \subseteq Keys
    BY <1>1, <1>2, <1>3 DEF TypeOK
  <2> QED BY <1>1, <1>2, <2>1, <2>2 DEF TypeOK, chains, search
<1>6. Making'
  BY <1>2 DEF Making
<1>7. Contents'
  <2>1. \A n \in Linked' : name'[n] \in Keys /\ data'[n] = name'[n]
    BY <1>1, <1>2, <1>3, <1>4 DEF Contents, chains
  <2> QED BY <1>1, <1>2, <2>1 DEF Contents
<1>8. Chains'
  <2>1. ASSUME NEW a \in Addresses PROVE Chain(hnext[a], a, used + 1)'
    <3>0. Chain(hnext[a], a, used + 1) /\ hnext[a] \in 0 .. Heap
      BY <1>1 DEF Chains, TypeOK
    <3>1. CASE a = address
      <4>1. hnext'[a] = used /\ used' = used /\ name' = name
        BY <1>1, <1>2, <1>3, <3>1 DEF TypeOK, chains
      <4>2. used \in Linked' /\ hashFunction[name'[used]] = a /\ used < used + 1
        BY <1>3, <1>4, <1>n, <3>1, <4>1 DEF address
      <4>3. \A n \in Linked' : n <= used
        BY <1>4, <1>n
      <4> QED BY <4>1, <4>2, <4>3 DEF Chain, In
    <3>2. CASE a # address
      <4>1. hnext'[a] = hnext[a] /\ used' = used /\ name' = name
        BY <1>1, <1>2, <3>2 DEF TypeOK, chains
      <4>2. hashFunction[name[used]] # a
        BY <1>3, <3>2 DEF address
      <4>3. \A n \in Linked' : hashFunction[name'[n]] = a => n \in Linked
        BY <1>4, <4>1, <4>2
      <4>4. Linked \subseteq Linked'
        BY <1>4
      <4>5. hnext[a] # Null => hnext[a] \in Linked' /\ hashFunction[name'[hnext[a]]] = a
                               /\ hnext[a] < used + 1
        BY <3>0, <4>1, <4>4 DEF Chain, In
      <4>6. \A n \in Linked' : hashFunction[name'[n]] = a /\ n < used + 1 => n <= hnext[a]
        BY <3>0, <4>1, <4>3 DEF Chain, In
      <4> QED BY <4>1, <4>5, <4>6 DEF Chain, In
    <3> QED BY <3>1, <3>2
  <2>2. ASSUME NEW n \in Linked PROVE Chain(next[n], hashFunction[name[n]], n)'
    <3>0. Chain(next[n], hashFunction[name[n]], n)
      BY <1>1 DEF Chains
    <3>1. used' = used /\ name' = name /\ next' = next
      BY <1>2 DEF chains
    <3>2. next[n] # Null => next[n] \in Linked' /\ hashFunction[name[next[n]]] = hashFunction[name[n]]
                            /\ next[n] < n
      BY <1>4, <3>0 DEF Chain, In
    <3>3. \A m \in Linked' : m < n => m \in Linked
      BY <1>4, <1>n
    <3>4. \A m \in Linked' : hashFunction[name[m]] = hashFunction[name[n]] /\ m < n => m <= next[n]
      BY <3>0, <3>3 DEF Chain, In
    <3> QED BY <3>1, <3>2, <3>4 DEF Chain, In
  <2>3. Chain(next[used], hashFunction[name[used]], used)'
    <3>0. Chain(hnext[address], address, used + 1)
      BY <1>1, <1>3 DEF Chains
    <3>1. used' = used /\ name' = name /\ next' = next /\ next[used] = hnext[address]
          /\ hashFunction[name[used]] = address
      BY <1>2, <1>3 DEF chains, address
    <3>2. next[used] # Null => next[used] \in Linked' /\ hashFunction[name[next[used]]] = address
                               /\ next[used] < used
      BY <1>4, <3>0, <3>1 DEF Chain, In
    <3>3. ASSUME NEW m \in Linked', m < used PROVE m \in Linked /\ m < used + 1
      BY <1>4, <1>n, <3>3
    <3>4. \A m \in Linked' : hashFunction[name[m]] = address /\ m < used => m <= next[used]
      BY <3>0, <3>1, <3>3 DEF Chain, In
    <3> QED BY <3>1, <3>2, <3>4 DEF Chain, In
  <2>4. \A n \in Linked' : Chain(next[n], hashFunction[name[n]], n)'
    <3>1. ASSUME NEW n \in Linked' PROVE n \in Linked \/ n = used'
      BY <1>2, <1>4 DEF chains
    <3> QED BY <1>2, <2>2, <2>3, <3>1 DEF Chain, In, chains
  <2>5. \A a \in Addresses : hname'[a] = NoKey => hnext'[a] = Null
    BY <1>1, <1>2, <1>3 DEF Chains, TypeOK
  <2> QED BY <2>1, <2>4, <2>5 DEF Chains
<1>9. \A k : InChain(k, used) => InChain(k, used)'
  BY <1>2, <1>4 DEF InChain, chains
<1>10. Stored'
  <2>1. InChain(ikey, used)'
    BY <1>2, <1>3, <1>4, <1>n DEF InChain, chains
  <2>2. \A k : AtHead(k)' <=> AtHead(k)
    BY <1>2 DEF AtHead
  <2> QED BY <1>1, <1>2, <1>9, <2>1, <2>2 DEF Stored
<1>11. Grows
  BY <1>2, <1>4, <1>n DEF Grows, AtHead, chains
<1> QED BY <1>2, <1>5, <1>6, <1>7, <1>8, <1>10, <1>11, SearchesKept DEF IInv

-----------------------------------------------------------------------------
(* IInv is an invariant of the hash table and the threads that use it.     *)
THEOREM Invariance == Spec => []IInv
<1>1. IInv /\ [Next]_vars => IInv'
  <2> SUFFICES ASSUME IInv, [Next]_vars PROVE IInv'
    OBVIOUS
  <2>1. CASE Inserting
    BY <2>1, PrivateInv, HeadInv, LinkInv DEF Inserting
  <2>2. ASSUME NEW s \in Searchers, Searching(s) \/ \E k \in Keys : Search(s, k) PROVE IInv'
    BY <2>2, SearchInv
  <2>3. CASE UNCHANGED vars
    <3>1. UNCHANGED <<heads, chains, insert, search>>
      BY <2>3 DEF vars
    <3>2. Making' /\ Contents' /\ Chains' /\ Stored'
      BY <3>1, TableKept
    <3>3. TypeOK'
      BY <3>1 DEF IInv, TypeOK, heads, chains, insert, search
    <3>4. Linked' = Linked
      BY <3>1 DEF Linked, chains, insert
    <3>5. \A s \in Searchers : Progress(s)'
      BY <3>1, <3>4 DEF IInv, Progress, In, InChain, AtHead, heads, chains, insert, search
    <3>6. NeverAnother' /\ FoundOnceIn'
      BY <3>1 DEF IInv, NeverAnother, FoundOnceIn, Idle, search
    <3> QED BY <3>2, <3>3, <3>5, <3>6 DEF IInv
  <2> QED BY <2>1, <2>2, <2>3 DEF Next
<1> QED BY <1>1, InitInv, PTL DEF Spec

(* A search never returns the object of another name, for every hash       *)
(* function and any number of searching threads.                           *)
THEOREM NeverAnotherAlways == Spec => []NeverAnother
<1>1. IInv => NeverAnother
  BY DEF IInv
<1> QED BY <1>1, Invariance, PTL

(* A name that has been put in is found by every search that begins        *)
(* afterwards, although no lock keeps HashTableInsert and HashTableSearch  *)
(* apart.                                                                  *)
THEOREM FoundOnceInAlways == Spec => []FoundOnceIn
<1>1. IInv => FoundOnceIn
  BY DEF IInv
<1> QED BY <1>1, Invariance, PTL
=============================================================================
