-------------------------- MODULE DistVector_proofs --------------------------
(***************************************************************************)
(* Proofs about DistVector, for any nodes, any topology files and any      *)
(* event file, and whatever is read behind the end of a map.               *)
(***************************************************************************)
EXTENDS DistVector, FiniteSetTheorems, WellFoundedInduction, TLAPS

LEMMA LowestIsLeast ==
    ASSUME NEW S \in SUBSET Nat, S # {}
    PROVE  /\ Lowest(S) \in S
           /\ \A k \in S : Lowest(S) <= k
<1> DEFINE R == {ss \in Nat \X Nat : ss[1] < ss[2]}
<1>1. IsWellFoundedOn(R, Nat)
  BY NatLessThanWellFounded DEF OpToRel
<1>2. PICK x \in S : \A y \in S : ~ (<<y, x>> \in R)
  <2> HIDE DEF R
  <2> QED
    BY <1>1, WFMin
<1>3. ASSUME NEW y \in S PROVE x <= y
  <2>1. ~ (<<y, x>> \in R) /\ x \in Nat /\ y \in Nat
    BY <1>2
  <2>2. ~ (y < x)
    BY <2>1
  <2> QED
    BY <2>1, <2>2
<1> QED
  BY <1>3 DEF Lowest

LEMMA MinDistanceNat ==
    ASSUME TypeOK, NEW n \in Nodes, NEW d \in GetReachableNeighbors(n), NEW g \in Garbage
    PROVE  GetMinDistance(n, d, g) \in Nat
<1> DEFINE S == Candidates(n, d) \cup (IF FirstRowHas(n, d) THEN {} ELSE {g})
<1>1. \A v \in Nodes : table[n][v][d] # NONE => table[n][v][d] \in Nat
  BY DEF TypeOK, Distance, GetReachableNeighbors
<1>2. S \subseteq Nat
  BY <1>1, ConstAssumption DEF Candidates, Rows
<1>3. S # {}
  BY DEF Candidates, GetReachableNeighbors
<1>4. Lowest(S) \in S
  <2> HIDE DEF S
  <2> QED
    BY <1>2, <1>3, LowestIsLeast
<1>5. Lowest(S) \in Nat
  <2> HIDE DEF S
  <2> QED
    BY <1>2, <1>4
<1> QED
  BY <1>5 DEF GetMinDistance

LEMMA CostNat ==
    ASSUME TypeOK, NEW n \in Nodes, NEW v \in Nodes
    PROVE  Cost(n, v) \in Nat
BY DEF TypeOK, Distance, Cost

LEMMA LearnedRow ==
    ASSUME TypeOK, NEW n \in Nodes, NEW v \in Nodes, n # v, NEW g \in [Nodes -> Garbage]
    PROVE  /\ Learned(n, v, g) \in [Nodes -> Distance]
           /\ Learned(n, v, g)[n] = NONE
<1> DEFINE near == GetReachableNeighbors(v) \ {n}
<1>1. ASSUME NEW d \in near PROVE GetMinDistance(v, d, g[d]) \in Nat
  BY MinDistanceNat DEF GetReachableNeighbors
<1>2. Cost(n, v) \in Nat
  BY CostNat
<1>3. \A d \in Nodes : table[n][v][d] \in Distance
  BY DEF TypeOK
<1>4. table[n][v][n] = NONE
  BY DEF TypeOK
<1>5. ASSUME NEW d \in Nodes PROVE Learned(n, v, g)[d] \in Distance
  <2>1. CASE d \in near
    <3>1. Learned(n, v, g)[d] = GetMinDistance(v, d, g[d]) + Cost(n, v)
      BY <2>1 DEF Learned
    <3> QED
      BY <1>1, <1>2, <2>1, <3>1 DEF Distance
  <2>2. CASE d \notin near
    <3>1. Learned(n, v, g)[d] \in {Cost(n, v), table[n][v][d]}
      BY <2>2 DEF Learned
    <3> QED
      BY <1>2, <1>3, <3>1 DEF Distance
  <2> QED
    BY <2>1, <2>2
<1>6. Learned(n, v, g)[n] = NONE
  BY <1>4 DEF Learned
<1> QED
  BY <1>5, <1>6 DEF Learned

LEMMA SentMore ==
    ASSUME NEW q \in [Pairs -> Nat], NEW n
    PROVE  /\ Sent(q, n) \in [Pairs -> Nat]
           /\ \A l \in Pairs : Sent(q, n)[l] = 0 => q[l] = 0
           /\ \A l \in Pairs : l[1] = n /\ l \in DOMAIN links => Sent(q, n)[l] # 0
BY DEF Sent
-----------------------------------------------------------------------------
(* The steps of LinkHasBeenUpdated and of ProcessIncomingRoutingMessage.   *)

Told(n, d, lat) ==
    /\ made' = made \cup {n}
    /\ table' = [table EXCEPT ![n][d][d] = lat]
    /\ queue' = Sent(queue, n)
    /\ stale' = stale \cup {<<n, d>>}
    /\ DOMAIN links' = DOMAIN links
    /\ UNCHANGED crashed

Heard(l, g) ==
    /\ l \in Pairs /\ queue[l] > 0
    /\ table' = [table EXCEPT ![l[2]][l[1]] = Learned(l[2], l[1], g)]
    /\ queue' = IF table' # table THEN Sent(Taken(l), l[2]) ELSE Taken(l)
    /\ stale' = stale \ {<<l[2], l[1]>>}
    /\ UNCHANGED <<links, made, crashed>>

LEMMA ToldType ==
    ASSUME TypeOK, NEW l \in Pairs, NEW lat \in Latencies, Told(l[1], l[2], lat)
    PROVE  /\ queue' \in [Pairs -> Nat]
           /\ made' \subseteq Nodes
           /\ table' \in [Nodes -> [Nodes -> [Nodes -> Distance]]]
           /\ \A n, v \in Nodes : table'[n][v][n] = NONE
           /\ stale' \subseteq Pairs
<1>1. l[1] \in Nodes /\ l[2] \in Nodes /\ l[1] # l[2] /\ l = <<l[1], l[2]>>
  BY DEF Pairs
<1>2. lat \in Distance
  BY ConstAssumption DEF Distance
<1>3. queue' \in [Pairs -> Nat]
  BY SentMore DEF Told, TypeOK
<1>4. made' \subseteq Nodes /\ stale' \subseteq Pairs
  BY <1>1 DEF Told, TypeOK
<1>5. table' \in [Nodes -> [Nodes -> [Nodes -> Distance]]]
  BY <1>1, <1>2 DEF Told, TypeOK
<1>6. \A n, v \in Nodes : table'[n][v][n] = NONE
  BY <1>1, <1>2 DEF Told, TypeOK
<1> QED
  BY <1>3, <1>4, <1>5, <1>6

LEMMA HeardType ==
    ASSUME TypeOK, NEW l \in Pairs, NEW g \in [Nodes -> Garbage], Heard(l, g)
    PROVE  /\ queue' \in [Pairs -> Nat]
           /\ table' \in [Nodes -> [Nodes -> [Nodes -> Distance]]]
           /\ \A n, v \in Nodes : table'[n][v][n] = NONE
           /\ stale' \subseteq Pairs
<1>1. l[1] \in Nodes /\ l[2] \in Nodes /\ l[1] # l[2]
  BY DEF Pairs
<1>2. Taken(l) \in [Pairs -> Nat]
  BY DEF Taken, TypeOK, Heard
<1>3. queue' \in [Pairs -> Nat]
  BY <1>2, SentMore DEF Heard
<1> DEFINE row == Learned(l[2], l[1], g)
<1>4. row \in [Nodes -> Distance] /\ row[l[2]] = NONE
  BY <1>1, LearnedRow
<1>5. table' = [table EXCEPT ![l[2]][l[1]] = row]
  BY DEF Heard
<1> HIDE DEF row
<1>6. table' \in [Nodes -> [Nodes -> [Nodes -> Distance]]]
  BY <1>1, <1>4, <1>5 DEF TypeOK
<1>7. \A n, v \in Nodes : table'[n][v][n] = NONE
  BY <1>1, <1>4, <1>5 DEF TypeOK
<1> QED
  BY <1>3, <1>6, <1>7 DEF Heard, TypeOK
-----------------------------------------------------------------------------
(* The dispatches of the events, in the terms of Told and Heard.           *)

LEMMA ChangeTells ==
    ASSUME NEW l, NEW lat, ChangeLink(l, lat)
    PROVE  Told(l[1], l[2], lat) \/ (crashed' /\ UNCHANGED <<made, table, queue, stale>>)
BY DEF ChangeLink, LinkHasBeenUpdated, Told

LEMMA MessageHeard ==
    ASSUME NEW l \in Pairs, ProcessIncomingRoutingMessage(l)
    PROVE  \/ \E g \in [Nodes -> Garbage] : Heard(l, g)
           \/ crashed' = TRUE /\ UNCHANGED <<links, made, table, queue, stale>>
BY DEF ProcessIncomingRoutingMessage, Heard

\* Every state is of the type the model gives it, and no node ever has a distance
\* to itself, whatever the topology, the events and the order of the messages.
THEOREM TypeCorrect == Spec => []TypeOK
<1>1. Init => TypeOK
  <2> SUFFICES ASSUME Init PROVE TypeOK
    OBVIOUS
  <2>1. DOMAIN links \subseteq Pairs /\ links \in [DOMAIN links -> Latencies]
    BY ConstAssumption DEF Init
  <2> QED
    BY <2>1 DEF Init, TypeOK, Distance
<1>2. TypeOK /\ [Next]_vars => TypeOK'
  <2> SUFFICES ASSUME TypeOK, [Next]_vars PROVE TypeOK'
    OBVIOUS
  <2>1. ASSUME NEW l \in Pairs, NEW lat \in Latencies, ChangeLink(l, lat)
        PROVE  /\ DOMAIN links' = DOMAIN links /\ links' \in [DOMAIN links' -> Latencies]
               /\ queue' \in [Pairs -> Nat]
               /\ made' \subseteq Nodes
               /\ table' \in [Nodes -> [Nodes -> [Nodes -> Distance]]]
               /\ \A n, v \in Nodes : table'[n][v][n] = NONE
               /\ crashed' \in BOOLEAN
               /\ stale' \subseteq Pairs
    <3>1. DOMAIN links' = DOMAIN links /\ links' \in [DOMAIN links' -> Latencies]
      BY <2>1 DEF ChangeLink, TypeOK
    <3>2. crashed' \in BOOLEAN
      BY <2>1 DEF ChangeLink, LinkHasBeenUpdated, TypeOK
    <3>3. CASE Told(l[1], l[2], lat)
      BY <3>1, <3>2, <3>3, ToldType
    <3>4. CASE UNCHANGED <<made, table, queue, stale>>
      BY <3>1, <3>2, <3>4 DEF TypeOK
    <3> QED
      BY <2>1, <3>3, <3>4, ChangeTells
  <2>2. ASSUME NEW l \in Pairs, FirstUpdate(l) PROVE TypeOK'
    <3>1. links[l] \in Latencies
      BY <2>2 DEF FirstUpdate, TypeOK
    <3>2. ChangeLink(l, links[l]) /\ starting' = starting \ {l} /\ changes' = changes
      BY <2>2 DEF FirstUpdate
    <3> QED
      BY <2>1, <3>1, <3>2 DEF TypeOK
  <2>3. ASSUME NEW l \in Pairs, ProcessIncomingRoutingMessage(l) PROVE TypeOK'
    <3>1. starting' = starting /\ links' = links /\ made' = made /\ changes' = changes /\ crashed' \in BOOLEAN
      BY <2>3 DEF ProcessIncomingRoutingMessage, TypeOK
    <3>2. ASSUME NEW g \in [Nodes -> Garbage], Heard(l, g) PROVE TypeOK'
      BY <3>1, <3>2, HeardType DEF TypeOK
    <3>3. CASE UNCHANGED <<table, queue, stale>>
      BY <3>1, <3>3 DEF TypeOK
    <3> QED
      BY <2>3, <3>2, <3>3, MessageHeard
  <2>4. ASSUME NEW l \in Pairs, NEW lat \in Latencies, Changed(l, lat) PROVE TypeOK'
    <3>1. ChangeLink(l, lat) /\ starting' = starting /\ changes' = changes + 1
      BY <2>4 DEF Changed, FileEvent
    <3> QED
      BY <2>1, <3>1 DEF TypeOK
  <2>5. ASSUME NEW l \in Pairs, NEW lat \in Latencies, AddLink(l, lat) PROVE TypeOK'
    <3>1. DOMAIN links' \subseteq Pairs /\ links' \in [DOMAIN links' -> Latencies]
      BY <2>5 DEF AddLink, TypeOK
    <3>2. stale' \subseteq Pairs
      BY <2>5 DEF AddLink, TypeOK, Pairs
    <3> QED
      BY <2>5, <3>1, <3>2 DEF AddLink, FileEvent, TypeOK
  <2>6. ASSUME NEW l \in Pairs, NEW lat \in Latencies, DeleteLink(l, lat) PROVE TypeOK'
    <3>1. DOMAIN links' \subseteq Pairs /\ links' \in [DOMAIN links' -> Latencies]
      BY <2>6 DEF DeleteLink, TypeOK
    <3> QED
      BY <2>6, <3>1 DEF DeleteLink, FileEvent, TypeOK
  <2>7. CASE UNCHANGED vars
    BY <2>7 DEF vars, TypeOK
  <2> QED
    BY <2>2, <2>3, <2>4, <2>5, <2>6, <2>7 DEF Next, Dispatch
<1> QED
  BY <1>1, <1>2, PTL DEF Spec
-----------------------------------------------------------------------------
(* RowsFollow: for one link at a time.                                     *)

Follows(n, v) ==
    \A d \in GetReachableNeighbors(v) \ {n} :
        \E g \in Garbage : table[n][v][d] = GetMinDistance(v, d, g) + Cost(n, v)

LEMMA Unmoved ==
    ASSUME NEW n \in Nodes, NEW v \in Nodes,
           table'[v] = table[v], table'[n][v] = table[n][v], Follows(n, v)
    PROVE  Follows(n, v)'
<1>1. Rows(v)' = Rows(v) /\ GetReachableNeighbors(v)' = GetReachableNeighbors(v)
  BY DEF Rows, GetReachableNeighbors
<1>2. ASSUME NEW d, NEW g PROVE GetMinDistance(v, d, g)' = GetMinDistance(v, d, g)
  BY <1>1 DEF GetMinDistance, Candidates, FirstRowHas, Rows
<1>3. Cost(n, v)' = Cost(n, v)
  BY DEF Cost
<1> QED
  BY <1>1, <1>2, <1>3 DEF Follows

\* A node that has been told of a link tells all its neighbors in turn.
LEMMA ToldFollows ==
    ASSUME TypeOK, NEW t \in Pairs, NEW lat \in Latencies, Told(t[1], t[2], lat), RowsFollow
    PROVE  RowsFollow'
<1> SUFFICES ASSUME NEW l \in DOMAIN links', queue'[l] = 0, <<l[2], l[1]>> \notin stale', ~ crashed'
             PROVE  Follows(l[2], l[1])'
  BY DEF RowsFollow, Follows
<1>1. l \in DOMAIN links /\ l \in Pairs /\ t[1] \in Nodes /\ l[1] \in Nodes /\ l[2] \in Nodes
  BY DEF Told, TypeOK, Pairs
<1>2. queue[l] = 0 /\ l[1] # t[1]
  <2>1. queue' = Sent(queue, t[1]) /\ queue \in [Pairs -> Nat]
    BY DEF Told, TypeOK
  <2> QED
    BY <1>1, <2>1, SentMore
<1>3. <<l[2], l[1]>> \notin stale /\ <<l[2], l[1]>> # <<t[1], t[2]>> /\ ~ crashed
  BY DEF Told
<1>4. Follows(l[2], l[1])
  BY <1>1, <1>2, <1>3 DEF RowsFollow, Follows
<1>5. table'[l[1]] = table[l[1]] /\ table'[l[2]][l[1]] = table[l[2]][l[1]]
  BY <1>1, <1>2, <1>3 DEF Told, TypeOK
<1> QED
  BY <1>1, <1>4, <1>5, Unmoved

\* The row that has just been learned.
LEMMA RowIsTaken ==
    ASSUME TypeOK, NEW n \in Nodes, NEW v \in Nodes, n # v, NEW g \in [Nodes -> Garbage],
           table' = [table EXCEPT ![n][v] = Learned(n, v, g)]
    PROVE  Follows(n, v)'
<1>1. table'[v] = table[v] /\ table'[n][v] = Learned(n, v, g)
  BY DEF TypeOK
<1>2. Rows(v)' = Rows(v) /\ GetReachableNeighbors(v)' = GetReachableNeighbors(v)
  BY <1>1 DEF Rows, GetReachableNeighbors
<1>3. ASSUME NEW d, NEW k PROVE GetMinDistance(v, d, k)' = GetMinDistance(v, d, k)
  BY <1>1, <1>2 DEF GetMinDistance, Candidates, FirstRowHas, Rows
<1>4. v \notin GetReachableNeighbors(v)
  BY DEF GetReachableNeighbors, TypeOK, Rows
<1>5. ASSUME GetReachableNeighbors(v) \ {n} # {} PROVE Cost(n, v)' = Cost(n, v)
  <2>1. Learned(n, v, g)[v] = Cost(n, v)
    BY <1>4, <1>5 DEF Learned
  <2>2. Cost(n, v) # NONE
    BY CostNat, ConstAssumption
  <2>3. table'[n][v][v] = Cost(n, v)
    BY <1>1, <2>1
  <2> QED
    BY <2>2, <2>3 DEF Cost
<1> SUFFICES ASSUME NEW d \in GetReachableNeighbors(v) \ {n}
             PROVE  \E k \in Garbage : table'[n][v][d] = GetMinDistance(v, d, k)' + Cost(n, v)'
  BY <1>2 DEF Follows
<1>6. d \in Nodes /\ g[d] \in Garbage
  BY DEF GetReachableNeighbors
<1>7. table'[n][v][d] = GetMinDistance(v, d, g[d]) + Cost(n, v)
  BY <1>1, <1>6 DEF Learned
<1> QED
  BY <1>3, <1>5, <1>6, <1>7

\* A message brings the row of its link up to date, and if anything in the table of
\* its receiver has changed, messages go out over all links of the receiver.
LEMMA HeardFollows ==
    ASSUME TypeOK, NEW t \in Pairs, NEW g \in [Nodes -> Garbage], Heard(t, g), RowsFollow
    PROVE  RowsFollow'
<1> SUFFICES ASSUME NEW l \in DOMAIN links', queue'[l] = 0, <<l[2], l[1]>> \notin stale', ~ crashed'
             PROVE  Follows(l[2], l[1])'
  BY DEF RowsFollow, Follows
<1>1. /\ t = <<t[1], t[2]>> /\ t[1] \in Nodes /\ t[2] \in Nodes /\ t[1] # t[2]
      /\ l = <<l[1], l[2]>> /\ l[1] \in Nodes /\ l[2] \in Nodes
      /\ l \in DOMAIN links /\ l \in Pairs
  BY DEF Heard, TypeOK, Pairs
<1>2. CASE l = t
  BY <1>1, <1>2, RowIsTaken DEF Heard
<1>3. CASE l # t
  <2>1. <<l[2], l[1]>> # <<t[2], t[1]>> /\ <<l[2], l[1]>> \notin stale /\ ~ crashed
    BY <1>1, <1>3 DEF Heard
  <2>2. Taken(t) \in [Pairs -> Nat] /\ Taken(t)[l] = queue[l]
    BY <1>1, <1>3 DEF Heard, Taken, TypeOK
  <2>3. queue[l] = 0 /\ (table' = table \/ l[1] # t[2])
    BY <1>1, <2>2, SentMore DEF Heard
  <2>4. Follows(l[2], l[1])
    BY <1>1, <2>1, <2>3 DEF RowsFollow, Follows
  <2>5. table'[l[1]] = table[l[1]] /\ table'[l[2]][l[1]] = table[l[2]][l[1]]
    BY <1>1, <2>1, <2>3 DEF Heard, TypeOK
  <2> QED
    BY <1>1, <2>4, <2>5, Unmoved
<1> QED
  BY <1>2, <1>3

\* No change of a table is missed by a neighbor, whatever the topology, the events,
\* the order in which messages arrive and the garbage that is read.
THEOREM ChangesReachNeighbors == Spec => []RowsFollow
<1>1. Init => RowsFollow
  <2>1. Init => \A v \in Nodes : GetReachableNeighbors(v) = {}
    BY DEF Init, GetReachableNeighbors, Rows
  <2>2. Init => DOMAIN links \subseteq Pairs
    BY ConstAssumption DEF Init
  <2> QED
    BY <2>1, <2>2 DEF RowsFollow, Pairs
<1>2. TypeOK /\ RowsFollow /\ [Next]_vars => RowsFollow'
  <2> SUFFICES ASSUME TypeOK, RowsFollow, [Next]_vars PROVE RowsFollow'
    OBVIOUS
  <2>1. CASE crashed'
    BY <2>1 DEF RowsFollow
  <2>2. ASSUME NEW l \in Pairs, NEW lat \in Latencies, ChangeLink(l, lat) PROVE RowsFollow'
    BY <2>1, <2>2, ChangeTells, ToldFollows
  <2>3. ASSUME NEW l \in Pairs, FirstUpdate(l) PROVE RowsFollow'
    <3>1. links[l] \in Latencies /\ ChangeLink(l, links[l])
      BY <2>3 DEF FirstUpdate, TypeOK
    <3> QED
      BY <2>2, <3>1
  <2>4. ASSUME NEW l \in Pairs, ProcessIncomingRoutingMessage(l) PROVE RowsFollow'
    BY <2>1, <2>4, MessageHeard, HeardFollows
  <2>5. ASSUME NEW l \in Pairs, NEW lat \in Latencies, Changed(l, lat) PROVE RowsFollow'
    BY <2>2, <2>5 DEF Changed
  <2>6. ASSUME \/ \E l \in Pairs, lat \in Latencies : AddLink(l, lat) \/ DeleteLink(l, lat)
               \/ UNCHANGED vars
        PROVE RowsFollow'
    <3>1. table' = table /\ queue' = queue /\ crashed' = crashed
      BY <2>6 DEF AddLink, DeleteLink, vars
    <3> SUFFICES ASSUME NEW l \in DOMAIN links', queue'[l] = 0, <<l[2], l[1]>> \notin stale', ~ crashed'
                 PROVE  Follows(l[2], l[1])'
      BY DEF RowsFollow, Follows
    <3>2. l \in DOMAIN links /\ <<l[2], l[1]>> \notin stale
      <4>1. ASSUME NEW k \in Pairs, NEW lat \in Latencies, AddLink(k, lat)
            PROVE  DOMAIN links' = DOMAIN links \cup {k} /\ stale' = stale \cup {<<k[2], k[1]>>}
        BY <4>1 DEF AddLink
      <4>2. ASSUME NEW k \in Pairs, NEW lat \in Latencies, DeleteLink(k, lat)
            PROVE  DOMAIN links' = DOMAIN links \ {k} /\ stale' = stale
        BY <4>2 DEF DeleteLink
      <4>3. CASE UNCHANGED vars
        BY <4>3 DEF vars
      <4> QED
        BY <2>6, <4>1, <4>2, <4>3
    <3>3. l[1] \in Nodes /\ l[2] \in Nodes
      BY <3>2 DEF TypeOK, Pairs
    <3>4. Follows(l[2], l[1])
      BY <3>1, <3>2 DEF RowsFollow, Follows
    <3> QED
      BY <3>1, <3>3, <3>4, Unmoved
  <2> QED
    BY <2>3, <2>4, <2>5, <2>6 DEF Next, Dispatch
<1> QED
  BY <1>1, <1>2, TypeCorrect, PTL DEF Spec
-----------------------------------------------------------------------------
(***************************************************************************)
(* RoutesShortest.  Dist(n, d) is the distance from n to d that the table  *)
(* of n holds.  In a settled state the rows obey the equation of Bellman   *)
(* and Ford (RowIsSum), and its only solution is the length of a shortest  *)
(* walk: no walk is shorter (WalksNoShorter), and the walk along the least *)
(* rows, which gets nearer with each link, visits no node twice            *)
(* (DistIsWalk).                                                           *)
(***************************************************************************)

Dist(n, d) == Lowest(Candidates(n, d))

Settled ==
    /\ Quiet /\ LinksKnown
    /\ \A l \in DOMAIN links : <<l[2], l[1]>> \in DOMAIN links \ stale

LEMMA LowestIs ==
    ASSUME NEW S \in SUBSET Nat, NEW x \in S, \A k \in S : x <= k
    PROVE  Lowest(S) = x
<1>1. Lowest(S) \in S /\ Lowest(S) <= x
  BY LowestIsLeast
<1>2. x <= Lowest(S) /\ x \in Nat /\ Lowest(S) \in Nat
  BY <1>1
<1> QED
  BY <1>1, <1>2

\* Both ends of a link have a row for the other, and neither row is out of date.
LEMMA RowsOfLinks ==
    ASSUME TypeOK, RowsFollow, Settled, NEW n \in Nodes, NEW v \in Rows(n)
    PROVE  /\ v \in Nodes /\ n # v /\ n \in Rows(v)
           /\ <<n, v>> \in DOMAIN links /\ links[<<n, v>>] \in Latencies
           /\ table[n][v][v] = links[<<n, v>>] /\ Cost(n, v) = links[<<n, v>>]
           /\ Follows(n, v)
<1>1. v \in Nodes /\ <<n, v>> \in DOMAIN links /\ table[n][v][v] = links[<<n, v>>]
  BY DEF Settled, LinksKnown, Rows
<1>2. n # v /\ links[<<n, v>>] \in Latencies
  BY <1>1 DEF TypeOK, Pairs
<1>3. <<v, n>> \in DOMAIN links \ stale
  BY <1>1 DEF Settled
<1>4. <<n, v>> \in DOMAIN links \ stale
  BY <1>3 DEF Settled
<1>5. n \in Rows(v)
  BY <1>1, <1>3 DEF Settled, LinksKnown
<1>6. Cost(n, v) = links[<<n, v>>]
  BY <1>1 DEF Cost, Rows
<1>7. queue[<<v, n>>] = 0 /\ ~ crashed
  BY <1>3 DEF Settled, Quiet, TypeOK
<1>8. Follows(n, v)
  BY <1>3, <1>4, <1>7 DEF RowsFollow, Follows
<1> QED
  BY <1>1, <1>2, <1>5, <1>6, <1>8

LEMMA ReachableIsOther ==
    ASSUME TypeOK, NEW n \in Nodes, NEW d \in GetReachableNeighbors(n)
    PROVE  d \in Nodes /\ d # n
BY DEF TypeOK, GetReachableNeighbors, Rows

\* What one neighbor has learned about, all have.
LEMMA RowsComplete ==
    ASSUME TypeOK, RowsFollow, Settled, NEW n \in Nodes,
           NEW d \in GetReachableNeighbors(n), NEW v \in Rows(n)
    PROVE  /\ table[n][v][d] \in Nat
           /\ d = v \/ d \in GetReachableNeighbors(v)
<1>1. d \in Nodes /\ d # n /\ v \in Nodes /\ n \in Rows(v)
  BY ReachableIsOther, RowsOfLinks
<1>2. \A k \in Nodes : table[n][k][d] = NONE \/ table[n][k][d] \in Nat
  BY <1>1 DEF TypeOK, Distance
<1>3. Follows(v, n) /\ Follows(n, v)
  BY <1>1, RowsOfLinks
<1>4. CASE d = v
  BY <1>1, <1>2, <1>4 DEF Rows
<1>5. CASE d # v
  <2>1. PICK g \in Garbage : table[v][n][d] = GetMinDistance(n, d, g) + Cost(v, n)
    BY <1>1, <1>3, <1>5 DEF Follows
  <2>2. table[v][n][d] \in Nat
    <3>1. GetMinDistance(n, d, g) \in Nat /\ Cost(v, n) \in Nat
      BY <1>1, MinDistanceNat, CostNat
    <3> QED
      BY <2>1, <3>1
  <2>3. d \in GetReachableNeighbors(v)
    BY <1>1, <2>2, ConstAssumption DEF GetReachableNeighbors
  <2>4. PICK k \in Garbage : table[n][v][d] = GetMinDistance(v, d, k) + Cost(n, v)
    BY <1>1, <1>3, <2>3 DEF Follows
  <2>5. GetMinDistance(v, d, k) \in Nat /\ Cost(n, v) \in Nat
    BY <1>1, <2>3, MinDistanceNat, CostNat
  <2> QED
    BY <2>3, <2>4, <2>5
<1> QED
  BY <1>4, <1>5

\* So the garbage behind the first row is never read.
LEMMA DistIsMin ==
    ASSUME TypeOK, RowsFollow, Settled, NEW n \in Nodes, NEW d \in GetReachableNeighbors(n)
    PROVE  /\ \A g : GetMinDistance(n, d, g) = Dist(n, d)
           /\ Dist(n, d) \in Nat
           /\ \A v \in Rows(n) : Dist(n, d) <= table[n][v][d]
           /\ \E v \in Rows(n) : Dist(n, d) = table[n][v][d]
<1>1. PICK v0 \in Rows(n) : table[n][v0][d] # NONE
  BY DEF GetReachableNeighbors, Rows
<1>2. \A v \in Rows(n) : table[n][v][d] \in Nat /\ table[n][v][d] # NONE
  BY RowsComplete, ConstAssumption
<1>3. Candidates(n, d) = {table[n][v][d] : v \in Rows(n)}
  BY <1>2 DEF Candidates
<1>4. Candidates(n, d) \in SUBSET Nat /\ table[n][v0][d] \in Candidates(n, d)
  BY <1>2, <1>3
<1>5. Dist(n, d) \in Candidates(n, d) /\ \A k \in Candidates(n, d) : Dist(n, d) <= k
  BY <1>4, LowestIsLeast DEF Dist
<1>6. FirstRowHas(n, d)
  <2>1. Rows(n) \in SUBSET Nat
    BY ConstAssumption DEF Rows
  <2>2. Lowest(Rows(n)) \in Rows(n) /\ \A k \in Rows(n) : Lowest(Rows(n)) <= k
    BY <2>1, LowestIsLeast
  <2> QED
    BY <1>2, <2>2 DEF FirstRowHas
<1>7. \A g : GetMinDistance(n, d, g) = Dist(n, d)
  BY <1>6 DEF GetMinDistance, Dist
<1> QED
  BY <1>3, <1>4, <1>5, <1>7

LEMMA RowIsSum ==
    ASSUME TypeOK, RowsFollow, Settled, NEW n \in Nodes, NEW v \in Rows(n),
           NEW d \in GetReachableNeighbors(v) \ {n}
    PROVE  /\ d \in GetReachableNeighbors(n)
           /\ table[n][v][d] = links[<<n, v>>] + Dist(v, d)
<1>1. /\ v \in Nodes /\ Follows(n, v) /\ Cost(n, v) = links[<<n, v>>]
      /\ links[<<n, v>>] \in Nat /\ d \in Nodes
  BY RowsOfLinks, ConstAssumption DEF GetReachableNeighbors
<1>2. Dist(v, d) \in Nat /\ \A g : GetMinDistance(v, d, g) = Dist(v, d)
  BY <1>1, DistIsMin
<1>3. table[n][v][d] = Dist(v, d) + links[<<n, v>>]
  BY <1>1, <1>2 DEF Follows
<1>4. table[n][v][d] \in Nat
  BY <1>1, <1>2, <1>3
<1>5. d \in GetReachableNeighbors(n)
  BY <1>1, <1>4, ConstAssumption DEF GetReachableNeighbors
<1> QED
  BY <1>1, <1>2, <1>3, <1>5

-----------------------------------------------------------------------------
(* The function walks of Lengths, and what an entry of it holds.           *)

Beyond(W, p) ==
    UNION {{links[l] + x : x \in W[<<l[2], p[2]>>]} : l \in {m \in DOMAIN links : m[1] = p[1]}}

Walks(w, k) ==
    w = [j \in 0..k |->
            [p \in Nodes \X Nodes |->
                (IF p[1] = p[2] THEN {0} ELSE {})
                \cup (IF j = 0 THEN {} ELSE Beyond(w[j - 1], p))]]

\* Proved by the least k for which there is no such function.
LEMMA WalksExist ==
    ASSUME NEW k \in Nat
    PROVE  \E w : Walks(w, k)
<1> DEFINE Without == {i \in Nat : ~ \E w : Walks(w, i)}
<1> SUFFICES ASSUME Without # {} PROVE FALSE
  OBVIOUS
<1>1. PICK i \in Without : \A m \in Without : i <= m
  BY LowestIsLeast
<1>2. CASE i = 0
  <2> DEFINE w == [j \in 0..0 |-> [p \in Nodes \X Nodes |-> (IF p[1] = p[2] THEN {0} ELSE {}) \cup {}]]
  <2>1. Walks(w, 0)
    BY DEF Walks
  <2> QED
    BY <1>1, <1>2, <2>1
<1>3. CASE i # 0
  <2>1. i \in Nat /\ i - 1 \in Nat /\ i - 1 \notin Without
    BY <1>1, <1>3
  <2>2. PICK u : Walks(u, i - 1)
    BY <2>1
  <2> DEFINE w == [j \in 0..i |->
            [p \in Nodes \X Nodes |->
                (IF p[1] = p[2] THEN {0} ELSE {})
                \cup (IF j = 0 THEN {} ELSE Beyond(u[j - 1], p))]]
  <2>3. \A j \in 0..(i - 1) : w[j] = u[j]
    <3>1. \A j \in 0..(i - 1) : j \in 0..i
      BY <2>1
    <3>2. \A j \in 0..(i - 1) :
              u[j] = [p \in Nodes \X Nodes |->
                          (IF p[1] = p[2] THEN {0} ELSE {})
                          \cup (IF j = 0 THEN {} ELSE Beyond(u[j - 1], p))]
      BY <2>2, Zenon DEF Walks
    <3> QED
      BY <3>1, <3>2, Zenon
  <2>4. \A j \in 0..i : j # 0 => j - 1 \in 0..(i - 1)
    BY <2>1
  <2>5. \A j \in 0..i : j # 0 => u[j - 1] = w[j - 1]
    BY <2>3, <2>4
  <2>6. Walks(w, i)
    BY <2>5 DEF Walks
  <2> QED
    BY <1>1, <2>6
<1> QED
  BY <1>2, <1>3

LEMMA LengthsAreWalks ==
    ASSUME NEW k \in Nat
    PROVE  \E w : Walks(w, k) /\ Lengths(k) = w[k]
<1> DEFINE w == CHOOSE f : Walks(f, k)
<1>1. Walks(w, k)
  BY WalksExist
<1>2. Lengths(k) = w[k]
  BY DEF Lengths, Walks, Beyond
<1> QED
  BY <1>1, <1>2


Longer(n, v, y) == links[<<n, v>>] + y

LEMMA BeyondHas ==
    ASSUME NEW W, NEW x, NEW n \in Nodes, NEW v \in Nodes, NEW d \in Nodes, <<n, v>> \in DOMAIN links,
           NEW y \in W[<<v, d>>], x = Longer(n, v, y)
    PROVE  x \in Beyond(W, <<n, d>>)
<1> DEFINE l == <<n, v>>
<1>1. l \in DOMAIN links /\ l[1] = n /\ l[2] = v /\ x = links[l] + y
  BY DEF Longer
<1> HIDE DEF l
<1>2. y \in W[<<l[2], d>>]
  BY <1>1
<1> QED
  BY <1>1, <1>2 DEF Beyond

LEMMA WalkStep ==
    ASSUME NEW k \in Nat, NEW w, Walks(w, k), NEW j \in 0..k, NEW n \in Nodes, NEW d \in Nodes
    PROVE  w[j][<<n, d>>] = (IF n = d THEN {0} ELSE {})
                            \cup (IF j = 0 THEN {} ELSE Beyond(w[j - 1], <<n, d>>))
<1>1. w[j] = [p \in Nodes \X Nodes |->
                  (IF p[1] = p[2] THEN {0} ELSE {})
                  \cup (IF j = 0 THEN {} ELSE Beyond(w[j - 1], p))]
  BY Zenon DEF Walks
<1>2. <<n, d>> \in Nodes \X Nodes /\ <<n, d>>[1] = n /\ <<n, d>>[2] = d
  OBVIOUS
<1> QED
  BY <1>1, <1>2

\* No walk is shorter than the distance in the table, and a walk to another node
\* leads to one that the table knows.
LongEnough(S, n, d) ==
    \A x \in S : x \in Nat /\ (n # d => d \in GetReachableNeighbors(n) /\ Dist(n, d) <= x)

LEMMA WalksNoShorter ==
    ASSUME TypeOK, RowsFollow, Settled, NEW k \in Nat, NEW w, Walks(w, k), NEW j \in 0..k
    PROVE  \A n, d \in Nodes : LongEnough(w[j][<<n, d>>], n, d)
<1> DEFINE Short == {i \in 0..k : ~ \A n, d \in Nodes : LongEnough(w[i][<<n, d>>], n, d)}
<1> SUFFICES ASSUME Short # {} PROVE FALSE
  OBVIOUS
<1>1. PICK i \in Short : \A m \in Short : i <= m
  <2>1. Short \in SUBSET Nat
    OBVIOUS
  <2> HIDE DEF Short
  <2> QED
    BY <2>1, LowestIsLeast
<1>2. PICK n \in Nodes, d \in Nodes : ~ LongEnough(w[i][<<n, d>>], n, d)
  BY <1>1
<1>3. PICK x \in w[i][<<n, d>>] : ~ (x \in Nat /\ (n # d => d \in GetReachableNeighbors(n) /\ Dist(n, d) <= x))
  BY <1>2 DEF LongEnough
<1>4. CASE x \notin Beyond(w[i - 1], <<n, d>>) \/ i = 0
  <2>1. n = d /\ x = 0
    BY <1>1, <1>3, <1>4, WalkStep
  <2> QED
    BY <1>3, <2>1
<1>5. CASE x \in Beyond(w[i - 1], <<n, d>>) /\ i # 0
  <2>1. i - 1 \in 0..k /\ i - 1 \notin Short
    BY <1>1, <1>5
  <2>2. PICK v \in Nodes : <<n, v>> \in DOMAIN links /\ \E y \in w[i - 1][<<v, d>>] : x = links[<<n, v>>] + y
    <3>1. PICK l \in DOMAIN links :
              l[1] = n /\ \E y \in w[i - 1][<<l[2], d>>] : x = links[l] + y
      BY <1>5 DEF Beyond
    <3>2. l = <<n, l[2]>> /\ l[2] \in Nodes
      BY <3>1 DEF TypeOK, Pairs
    <3> QED
      BY <3>1, <3>2
  <2>3. PICK y \in w[i - 1][<<v, d>>] : x = links[<<n, v>>] + y
    BY <2>2
  <2>4. y \in Nat /\ (v # d => d \in GetReachableNeighbors(v) /\ Dist(v, d) <= y)
    BY <2>1 DEF LongEnough
  <2>5. v \in Rows(n)
    BY <2>2 DEF Settled, LinksKnown
  <2>6. links[<<n, v>>] \in Nat /\ table[n][v][v] = links[<<n, v>>]
    BY <2>5, RowsOfLinks, ConstAssumption
  <2>7. x \in Nat /\ links[<<n, v>>] <= x
    BY <2>3, <2>4, <2>6
  <2>8. n # d
    BY <1>3, <2>7
  <2>9. CASE v = d
    <3>1. d \in GetReachableNeighbors(n)
      BY <2>5, <2>9 DEF GetReachableNeighbors, Rows
    <3>2. Dist(n, d) <= links[<<n, v>>] /\ Dist(n, d) \in Nat
      BY <2>5, <2>6, <2>9, <3>1, DistIsMin
    <3> QED
      BY <1>3, <2>6, <2>7, <3>1, <3>2
  <2>10. CASE v # d
    <3>1. d \in GetReachableNeighbors(n) /\ table[n][v][d] = links[<<n, v>>] + Dist(v, d)
      BY <2>4, <2>5, <2>8, <2>10, RowIsSum
    <3>2. Dist(n, d) <= table[n][v][d] /\ Dist(n, d) \in Nat /\ Dist(v, d) \in Nat
      BY <2>4, <2>5, <2>10, <3>1, DistIsMin
    <3>3. Dist(n, d) <= x
      BY <2>3, <2>4, <2>6, <2>10, <3>1, <3>2
    <3> QED
      BY <1>3, <2>7, <3>1, <3>3
  <2> QED
    BY <2>9, <2>10
<1> QED
  BY <1>4, <1>5

\* The nodes that are nearer to d than n is.
Nearer(n, d) == {x \in Nodes : d \in GetReachableNeighbors(x) /\ Dist(x, d) < Dist(n, d)}

LEMMA NearerSize ==
    ASSUME NEW n \in Nodes, NEW d, Dist(n, d) \in Nat
    PROVE  /\ IsFiniteSet(Nearer(n, d)) /\ Cardinality(Nearer(n, d)) \in Nat
           /\ Cardinality(Nearer(n, d)) + 1 <= Cardinality(Nodes)
           /\ \A S \in SUBSET Nearer(n, d) : \A x \in Nearer(n, d) \ S :
                 Cardinality(S) + 1 <= Cardinality(Nearer(n, d))
<1>1. IsFiniteSet(Nodes) /\ Nearer(n, d) \subseteq Nodes \ {n}
  BY ConstAssumption DEF Nearer
<1>2. ASSUME NEW T, IsFiniteSet(T), NEW x \in T, NEW S \in SUBSET (T \ {x})
      PROVE  /\ IsFiniteSet(S) /\ Cardinality(S) \in Nat
             /\ Cardinality(S) + 1 <= Cardinality(T)
  <2>1. IsFiniteSet(T \ {x}) /\ Cardinality(T \ {x}) = Cardinality(T) - 1
    BY <1>2, FS_RemoveElement
  <2>2. IsFiniteSet(S) /\ Cardinality(S) <= Cardinality(T \ {x})
    BY <1>2, <2>1, FS_Subset
  <2>3. Cardinality(S) \in Nat /\ Cardinality(T) \in Nat
    BY <1>2, <2>2, FS_CardinalityType
  <2> QED
    BY <2>1, <2>2, <2>3
<1>3. /\ IsFiniteSet(Nearer(n, d)) /\ Cardinality(Nearer(n, d)) \in Nat
      /\ Cardinality(Nearer(n, d)) + 1 <= Cardinality(Nodes)
  BY <1>1, <1>2
<1>4. ASSUME NEW S \in SUBSET Nearer(n, d), NEW x \in Nearer(n, d) \ S
      PROVE  Cardinality(S) + 1 <= Cardinality(Nearer(n, d))
  BY <1>2, <1>3
<1> QED
  BY <1>3, <1>4

\* A row of least distance leads over its link to a nearer node.
LEMMA NearerBy ==
    ASSUME TypeOK, RowsFollow, Settled, 0 \notin Latencies,
           NEW n \in Nodes, NEW d \in GetReachableNeighbors(n),
           NEW v \in Rows(n), table[n][v][d] = Dist(n, d), v # d
    PROVE  /\ d \in GetReachableNeighbors(v)
           /\ Dist(n, d) = links[<<n, v>>] + Dist(v, d)
           /\ v \in Nearer(n, d) /\ Nearer(v, d) \subseteq Nearer(n, d) \ {v}
<1>1. v \in Nodes /\ links[<<n, v>>] \in Nat \ {0} /\ d \in Nodes /\ d # n
  BY RowsOfLinks, ReachableIsOther, ConstAssumption
<1>2. d \in GetReachableNeighbors(v)
  BY RowsComplete
<1>3. Dist(n, d) = links[<<n, v>>] + Dist(v, d)
  BY <1>1, <1>2, RowIsSum
<1>4. Dist(v, d) \in Nat /\ Dist(n, d) \in Nat
  BY <1>1, <1>2, DistIsMin
<1>5. Dist(v, d) < Dist(n, d)
  BY <1>1, <1>3, <1>4
<1>6. \A x \in Nearer(v, d) : x \in Nodes /\ d \in GetReachableNeighbors(x) /\ Dist(x, d) \in Nat
                              /\ Dist(x, d) < Dist(v, d)
  BY DistIsMin DEF Nearer
<1>7. \A x \in Nearer(v, d) : x # v /\ Dist(x, d) < Dist(n, d)
  BY <1>4, <1>5, <1>6
<1> QED
  BY <1>1, <1>2, <1>3, <1>5, <1>6, <1>7 DEF Nearer

\* The distance in the table is the length of a walk, with at most one link
\* more than there are nearer nodes.
LEMMA DistIsWalk ==
    ASSUME TypeOK, RowsFollow, Settled, 0 \notin Latencies, NEW k \in Nat, NEW w, Walks(w, k),
           NEW d \in Nodes
    PROVE  \A n \in Nodes, j \in 0..k :
               d \in GetReachableNeighbors(n) /\ Cardinality(Nearer(n, d)) + 1 <= j
                   => Dist(n, d) \in w[j][<<n, d>>]
<1> DEFINE Holds(n, j) == d \in GetReachableNeighbors(n) /\ Cardinality(Nearer(n, d)) + 1 <= j
                              => Dist(n, d) \in w[j][<<n, d>>]
           Bad == {j \in 0..k : \E n \in Nodes : ~ Holds(n, j)}
<1> SUFFICES ASSUME Bad # {} PROVE FALSE
  OBVIOUS
<1>1. PICK j \in Bad : \A m \in Bad : j <= m
  <2>1. Bad \in SUBSET Nat
    OBVIOUS
  <2> HIDE DEF Bad
  <2> QED
    BY <2>1, LowestIsLeast
<1>2. PICK n \in Nodes : ~ Holds(n, j)
  BY <1>1
<1>3. /\ d \in GetReachableNeighbors(n) /\ Cardinality(Nearer(n, d)) + 1 <= j
      /\ Dist(n, d) \notin w[j][<<n, d>>] /\ j \in 0..k
  BY <1>1, <1>2
<1>4. /\ Dist(n, d) \in Nat
      /\ \E v \in Rows(n) : Dist(n, d) = table[n][v][d]
  BY <1>3, DistIsMin
<1>5. PICK v \in Rows(n) : Dist(n, d) = table[n][v][d]
  BY <1>4
<1>6. /\ v \in Nodes /\ <<n, v>> \in DOMAIN links /\ links[<<n, v>>] \in Nat
      /\ table[n][v][v] = links[<<n, v>>]
  BY RowsOfLinks, ConstAssumption
<1>7. j # 0 /\ j - 1 \in 0..k /\ j - 1 \notin Bad
  <2>1. Cardinality(Nearer(n, d)) \in Nat
    BY <1>4, NearerSize
  <2>2. j # 0 /\ j - 1 \in 0..k /\ ~ (j <= j - 1)
    BY <1>3, <2>1
  <2> QED
    BY <1>1, <2>2
<1> DEFINE W == w[j - 1]
<1>8. \A x : x \in Beyond(W, <<n, d>>) => x \in w[j][<<n, d>>]
  BY <1>3, <1>7, WalkStep
<1>9. CASE v = d
  <2>1. 0 \in W[<<d, d>>]
    BY <1>7, WalkStep
  <2> HIDE DEF W
  <2>2. Dist(n, d) = Longer(n, d, 0)
    BY <1>5, <1>6, <1>9 DEF Longer
  <2>3. Dist(n, d) \in Beyond(W, <<n, d>>)
    BY <1>6, <1>9, <2>1, <2>2, BeyondHas
  <2> QED
    BY <1>3, <1>8, <2>3
<1>10. CASE v # d
  <2>1. /\ d \in GetReachableNeighbors(v)
        /\ Dist(n, d) = links[<<n, v>>] + Dist(v, d)
        /\ v \in Nearer(n, d) /\ Nearer(v, d) \subseteq Nearer(n, d) \ {v}
    BY <1>3, <1>5, <1>10, NearerBy
  <2>2. Cardinality(Nearer(v, d)) + 1 <= Cardinality(Nearer(n, d))
    <3>1. Nearer(v, d) \in SUBSET Nearer(n, d) /\ v \in Nearer(n, d) \ Nearer(v, d)
      BY <2>1
    <3> QED
      BY <1>4, <3>1, NearerSize
  <2>3. Cardinality(Nearer(v, d)) \in Nat /\ Cardinality(Nearer(n, d)) \in Nat
    BY <1>4, <1>6, <2>1, DistIsMin, NearerSize
  <2>4. Cardinality(Nearer(v, d)) + 1 <= j - 1
    BY <1>3, <2>2, <2>3
  <2>5. Dist(v, d) \in W[<<v, d>>]
    <3>1. Holds(v, j - 1)
      BY <1>6, <1>7
    <3> QED
      BY <2>1, <2>4, <3>1
  <2> HIDE DEF W
  <2>6. Dist(n, d) = Longer(n, v, Dist(v, d))
    BY <2>1 DEF Longer
  <2>7. Dist(n, d) \in Beyond(W, <<n, d>>)
    BY <1>6, <2>5, <2>6, BeyondHas
  <2> QED
    BY <1>3, <1>8, <2>7
<1> QED
  BY <1>9, <1>10

LEMMA ShortestWalk ==
    ASSUME TypeOK, RowsFollow, Settled, 0 \notin Latencies, NEW n \in Nodes, NEW d \in Nodes
    PROVE  LET S == Lengths(Cardinality(Nodes))[<<n, d>>]
           IN  /\ n = d => Lowest(S) = 0
               /\ n # d /\ S # {} => d \in GetReachableNeighbors(n)
               /\ d \in GetReachableNeighbors(n) => Lowest(S) = Dist(n, d)
<1> DEFINE k == Cardinality(Nodes)
<1>1. k \in Nat
  BY ConstAssumption, FS_CardinalityType
<1>2. PICK w : Walks(w, k) /\ Lengths(k) = w[k]
  BY <1>1, LengthsAreWalks
<1> DEFINE S == w[k][<<n, d>>]
<1>3. LongEnough(S, n, d)
  BY <1>1, <1>2, WalksNoShorter
<1>4. n = d => 0 \in S
  BY <1>1, <1>2, WalkStep
<1>5. ASSUME d \in GetReachableNeighbors(n)
      PROVE  n # d /\ Dist(n, d) \in S
  <2>1. n # d /\ Dist(n, d) \in Nat
    BY <1>5, ReachableIsOther, DistIsMin
  <2>2. Cardinality(Nearer(n, d)) + 1 <= k
    BY <2>1, NearerSize
  <2> QED
    BY <1>1, <1>2, <1>5, <2>1, <2>2, DistIsWalk
<1>6. Lengths(Cardinality(Nodes))[<<n, d>>] = S
  BY <1>2
<1> HIDE DEF S
<1>7. S \in SUBSET Nat
  BY <1>3 DEF LongEnough
<1>8. n = d => Lowest(S) = 0
  BY <1>4, <1>7, LowestIs
<1>9. n # d /\ S # {} => d \in GetReachableNeighbors(n)
  BY <1>3 DEF LongEnough
<1>10. d \in GetReachableNeighbors(n) => Lowest(S) = Dist(n, d)
  BY <1>3, <1>5, <1>7, LowestIs DEF LongEnough
<1> QED
  BY <1>6, <1>8, <1>9, <1>10

\* GetNextHop takes a row of least distance.
LEMMA HopIsNearest ==
    ASSUME TypeOK, RowsFollow, Settled, NEW n \in Nodes, NEW d \in GetReachableNeighbors(n)
    PROVE  GetNextHop(n, d) \in Rows(n) /\ table[n][GetNextHop(n, d)][d] = Dist(n, d)
<1> DEFINE distance(v) == IF table[n][v][d] = NONE THEN 0 ELSE table[n][v][d]
           First(v) == \A u \in Rows(n) :
                           distance(v) < distance(u) \/ (distance(v) = distance(u) /\ v <= u)
           Best == {v \in Rows(n) : table[n][v][d] = Dist(n, d)}
<1>1. /\ Dist(n, d) \in Nat
      /\ \A v \in Rows(n) : v \in Nat /\ table[n][v][d] \in Nat /\ Dist(n, d) <= table[n][v][d]
      /\ \A v \in Rows(n) : distance(v) = table[n][v][d]
      /\ Best # {}
  BY DistIsMin, RowsComplete, ConstAssumption DEF Rows
<1>2. PICK b \in Best : \A u \in Best : b <= u
  <2>1. Best \in SUBSET Nat
    BY <1>1
  <2> HIDE DEF Best
  <2> QED
    BY <1>1, <2>1, LowestIsLeast
<1>3. First(b) /\ b \in Rows(n)
  <2> SUFFICES ASSUME NEW u \in Rows(n)
               PROVE  distance(b) < distance(u) \/ (distance(b) = distance(u) /\ b <= u)
    OBVIOUS
  <2>1. distance(b) = Dist(n, d) /\ distance(u) = table[n][u][d] /\ distance(u) \in Nat
    BY <1>1
  <2>2. u \in Best \/ distance(u) # Dist(n, d)
    BY <2>1
  <2> QED
    BY <1>1, <1>2, <2>1, <2>2
<1> DEFINE v == GetNextHop(n, d)
<1>4. v = CHOOSE x \in Rows(n) : First(x)
  BY DEF GetNextHop
<1>5. v \in Rows(n) /\ First(v)
  BY <1>3, <1>4
<1> HIDE DEF v, First, Best
<1>6. distance(v) < distance(b) \/ distance(v) = distance(b)
  BY <1>3, <1>5 DEF First
<1>7. distance(b) = Dist(n, d) /\ distance(v) = table[n][v][d]
  BY <1>1, <1>2, <1>5 DEF Best
<1>8. table[n][v][d] = Dist(n, d)
  BY <1>1, <1>5, <1>6, <1>7
<1> QED
  BY <1>5, <1>8 DEF v

\* Once all is quiet, with each link known to its source and announced back, the
\* next hops of all nodes lead along shortest paths, for any number of nodes, any
\* topology and any positive latencies, and the garbage behind the first row of a
\* table is not read.  With latencies of zero two nodes could keep each other in
\* the belief of a way that is gone.
THEOREM ShortestRoutes == 0 \notin Latencies /\ Spec => []RoutesShortest
<1> SUFFICES ASSUME 0 \notin Latencies PROVE Spec => []RoutesShortest
  OBVIOUS
<1>1. TypeOK /\ RowsFollow => RoutesShortest
  <2> DEFINE lengths == Lengths(Cardinality(Nodes))
  <2> SUFFICES ASSUME TypeOK, RowsFollow, Settled,
                      NEW n \in Nodes, NEW d \in Nodes, n # d, lengths[<<n, d>>] # {}
               PROVE  LET v == GetNextHop(n, d)
                      IN  /\ <<n, v>> \in DOMAIN links
                          /\ links[<<n, v>>] + Lowest(lengths[<<v, d>>]) = Lowest(lengths[<<n, d>>])
    BY DEF RoutesShortest, Settled
  <2> DEFINE v == GetNextHop(n, d)
  <2>1. d \in GetReachableNeighbors(n) /\ Lowest(lengths[<<n, d>>]) = Dist(n, d)
    BY ShortestWalk
  <2>2. v \in Rows(n) /\ table[n][v][d] = Dist(n, d)
    BY <2>1, HopIsNearest
  <2> HIDE DEF v, lengths
  <2>3. v \in Nodes /\ <<n, v>> \in DOMAIN links /\ links[<<n, v>>] \in Nat /\ table[n][v][v] = links[<<n, v>>]
    BY <2>2, RowsOfLinks, ConstAssumption
  <2>4. CASE v = d
    <3>1. Lowest(lengths[<<v, d>>]) = 0
      BY <2>3, <2>4, ShortestWalk DEF lengths
    <3> QED
      BY <2>1, <2>2, <2>3, <2>4, <3>1 DEF v
  <2>5. CASE v # d
    <3>1. d \in GetReachableNeighbors(v) /\ Dist(n, d) = links[<<n, v>>] + Dist(v, d)
      BY <2>1, <2>2, <2>5, NearerBy
    <3>2. Lowest(lengths[<<v, d>>]) = Dist(v, d)
      BY <2>3, <3>1, ShortestWalk DEF lengths
    <3> QED
      BY <2>1, <2>3, <3>1, <3>2 DEF v
  <2> QED
    BY <2>4, <2>5
<1> QED
  BY <1>1, TypeCorrect, ChangesReachNeighbors, PTL
=============================================================================
